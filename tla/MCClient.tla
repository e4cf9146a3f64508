------------------------------ MODULE MCClient ------------------------------
(* Ways in which an upstream serves, for Client.                           *)
EXTENDS Client, TLC

Accept == [name |-> "accept", canonical |-> TRUE]

Plain == [etag |-> FALSE, etag304 |-> FALSE, lm |-> FALSE, vary |-> {}, mr |-> FALSE,
          cacheable |-> TRUE]

Tagged == [Plain EXCEPT !.etag = TRUE, !.etag304 = TRUE]

\* Etags on every answer where responses vary; both validators, or only
\* Last-Modified; "Vary: accept" in lower case; "Vary: *"; not-modified answers
\* without an Etag, or with one that the response did not have; no caching.
MCStyles == {[Tagged EXCEPT !.vary = {Accept}],
             [Tagged EXCEPT !.lm = TRUE],
             [Plain EXCEPT !.lm = TRUE, !.mr = TRUE],
             [Tagged EXCEPT !.vary = {[Accept EXCEPT !.canonical = FALSE]}],
             [Tagged EXCEPT !.vary = {AnyField}],
             [Plain EXCEPT !.etag = TRUE],
             [Plain EXCEPT !.lm = TRUE, !.etag304 = TRUE],
             [Plain EXCEPT !.cacheable = FALSE]}

MCVarying == {[Tagged EXCEPT !.vary = {Accept}]}

\* Variants told apart by Last-Modified only.
MCDated == {[Plain EXCEPT !.lm = TRUE, !.vary = {Accept}]}

\* What an earlier run left: nothing, or a response for each variant.
MCNothing == {<<>>}
MCBefore == MCNothing \cup {s \in [1 .. 2 -> Variants] : s[1] # s[2]}

MCSymmetry ==
    {p @@ q @@ r : p \in Permutations(Requests), q \in Permutations(Entries),
                   r \in Permutations(Variants)}

\* While no Get fails, every Get overwrites the object it is given, and what an
\* object in the pool holds makes no difference.
MCView == <<style, gen, epoch, db, clock, files, pool, rq, since,
            [e \in Entries |-> IF e \in pool /\ ~GetMayFail THEN NoEntry.ver ELSE obj[e]]>>
=============================================================================
