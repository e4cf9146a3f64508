----------------------------- MODULE BlobStore ------------------------------
(***************************************************************************)
(* What internal/filecache promises: a set of whole contents.  A submitted *)
(* content appears at once and whole, or never; contents may vanish at any *)
(* time; whoever opens a content gets it as long as it is there.           *)
(***************************************************************************)
CONSTANTS Contents,     \* what clients submit
          Submissions,  \* the submissions, each made at most once
          Small,        \* the contents that are small enough to be kept
          NoContent     \* nothing submitted yet

VARIABLES present,      \* the contents that can be opened
          offer         \* offer[s] = [c, st]: the content submitted by s and its fate

bsVars == <<present, offer>>

NoOffer == [c |-> NoContent, st |-> "none"]

BSInit ==
    /\ present \in SUBSET Small
    /\ offer = [s \in Submissions |-> NoOffer]

\* A submission may also be refused at once.
Submit(s, x) ==
    /\ offer[s] = NoOffer
    /\ \E st \in {"pending", "settled"} : offer' = [offer EXCEPT ![s] = [c |-> x, st |-> st]]
    /\ UNCHANGED present

Accept(s) ==
    /\ offer[s].st = "pending" /\ offer[s].c \in Small
    /\ offer' = [offer EXCEPT ![s].st = "settled"]
    /\ present' = present \cup {offer[s].c}

Reject(s) ==
    /\ offer[s].st = "pending"
    /\ offer' = [offer EXCEPT ![s].st = "settled"]
    /\ UNCHANGED present

Evict(x) ==
    /\ present' = present \ {x}
    /\ UNCHANGED offer

\* The service stops: what was pending is lost.
Stop ==
    /\ offer' = [s \in Submissions |->
                    IF offer[s].st = "pending" THEN [offer[s] EXCEPT !.st = "settled"]
                    ELSE offer[s]]
    /\ UNCHANGED present

BSNext ==
    \/ \E s \in Submissions, x \in Contents : Submit(s, x)
    \/ \E s \in Submissions : Accept(s) \/ Reject(s)
    \/ \E x \in Contents : Evict(x)
    \/ Stop

BSSpec == BSInit /\ [][BSNext]_bsVars
=============================================================================
