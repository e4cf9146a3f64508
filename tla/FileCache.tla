----------------------------- MODULE FileCache ------------------------------
(***************************************************************************)
(* internal/filecache/filecache.go with internal/teereader/teereader.go: a *)
(* content-addressed directory of files.  An ingestion copies a body to a  *)
(* temporary file while the client reads it and renames it into the cache  *)
(* on Close; Open touches the file; Prune lists the files and removes the  *)
(* least recently used ones.  Ingestions, readers, the administrator's     *)
(* Delete and the pruning goroutine interleave at every system call.       *)
(*                                                                         *)
(* A body is a content of Size[c] blocks; a file holding the first n of    *)
(* them is <<c, n>>, and so is its name, the hash of what it holds.        *)
(***************************************************************************)
EXTENDS Integers, FiniteSets, FiniteSetsExt

CONSTANTS
    Contents,   \* bodies that upstreams send
    Size,       \* Size[c]: number of blocks of body c
    DirOf,      \* DirOf[c]: directory of c's hash (its first two digits, a number)
    Ingests,    \* the ingestions, one per body being cached
    Readers,    \* goroutines that Open cached files
    Kept,       \* bodies that an earlier run may have left in the cache
    QuotaLow, QuotaHigh,
    NoContent,  \* what an ingestion that was not set up is about
    MaxTime     \* bound: seconds explored

FileLimit == QuotaHigh \div 2

ASSUME FileCacheAssumption ==
    /\ Size \in [Contents -> Nat]
    /\ DirOf \in [Contents -> Nat]
    /\ QuotaLow \in Nat /\ QuotaHigh \in Nat
    /\ Kept \subseteq {c \in Contents : Size[c] <= FileLimit}
    /\ IsFiniteSet(Kept)
    /\ NoContent \notin Contents
    /\ MaxTime \in Nat

VARIABLES
    now,        \* wall clock, in seconds
    mtime,      \* mtime[f]: modification time of cached file f, or NoFile
    tmp,        \* tmp[i]: ingestion i's temporary file exists
    ing,        \* ing[i]: the TeeReader of ingestion i and its temporary file
    rd,         \* rd[r]: reader r's Open
    prune,      \* the Prune in progress
    up,         \* the process runs
    notified,   \* history: files whose hash was handed to onIngest, by ingestion
    cleanups,   \* history: how often onCleanup ran, by ingestion
    disturbed   \* history: someone else changed the cache during this Prune

vars == <<now, mtime, tmp, ing, rd, prune, up, notified, cleanups, disturbed>>

Files == UNION {{<<c, n>> : n \in 0 .. Size[c]} : c \in Contents}
Whole(c) == <<c, Size[c]>>
Blocks(f) == f[2]
NoFile == -1
Exists(f) == mtime[f] # NoFile
FilesIn(dir) == {f \in Files : Exists(f) /\ DirOf[f[1]] = dir}

Ingestion(c, st, mt) ==
    [c |-> c, st |-> st, pos |-> 0, written |-> 0, failed |-> FALSE, mt |-> mt]
NoIngest == Ingestion(NoContent, "none", 0)
NoEntry == [file |-> NoContent, ts |-> 0]
IdlePrune == [st |-> "idle", dirs |-> {}, pend |-> {}, listed |-> {}, total |-> 0,
              cur |-> NoEntry, removed |-> {}, result |-> "none"]

Init ==
    /\ now = 0
    /\ \E kept \in SUBSET Kept :
         mtime = [f \in Files |-> IF \E c \in kept : f = Whole(c) THEN 0 ELSE NoFile]
    /\ tmp = [i \in Ingests |-> FALSE]
    /\ ing = [i \in Ingests |-> NoIngest]
    /\ rd = [r \in Readers |-> NoContent]
    /\ prune = IdlePrune
    /\ up = TRUE
    /\ notified = [i \in Ingests |-> NoContent]
    /\ cleanups = [i \in Ingests |-> 0]
    /\ disturbed = FALSE

Tick ==
    /\ now < MaxTime
    /\ now' = now + 1
    /\ UNCHANGED <<mtime, tmp, ing, rd, prune, up, notified, cleanups, disturbed>>

-----------------------------------------------------------------------------
(* SetupIngestion and the TeeReader it returns.                            *)

\* Without a temporary file the body is passed through, uncached; onCleanup
\* is never called then.
SetupIngestion(i, c) ==
    /\ up /\ ing[i].st = "none"
    /\ \/ /\ ing' = [ing EXCEPT ![i] = Ingestion(c, "reading", now)]
          /\ tmp' = [tmp EXCEPT ![i] = TRUE]
       \/ /\ ing' = [ing EXCEPT ![i] = Ingestion(c, "bypass", 0)]
          /\ UNCHANGED tmp
    /\ UNCHANGED <<now, mtime, rd, prune, up, notified, cleanups, disturbed>>

\* A block comes from upstream and is written to the temporary file, unless an
\* earlier error ended the copy.
ReadBlock(i) ==
    /\ ing[i].pos < Size[ing[i].c]
    /\ \/ /\ ~ing[i].failed
          /\ ing' = [ing EXCEPT ![i].pos = @ + 1, ![i].written = @ + 1, ![i].mt = now]
       \/ ing' = [ing EXCEPT ![i].pos = @ + 1, ![i].failed = TRUE]  \* failed now or before

\* Upstream fails.
ReadFailure(i) ==
    /\ ~ing[i].failed
    /\ ing' = [ing EXCEPT ![i].failed = TRUE]

Read(i) ==
    /\ up /\ ing[i].st = "reading"
    /\ ReadBlock(i) \/ ReadFailure(i)
    /\ UNCHANGED <<now, mtime, tmp, rd, prune, up, notified, cleanups, disturbed>>

-----------------------------------------------------------------------------
(* Close of the TeeReader, cut at the rename: other goroutines may see the *)
(* file in the cache before onIngest has run.                              *)

\* Fault: wasCalled is not looked at.
FirstCloseAgain(i) == up /\ ing[i].st \in {"reading", "closed"}

\* Fault: a body that was not read to its end is not closed.
FirstCloseIfComplete(i) == up /\ ing[i].st = "reading" /\ ing[i].pos = Size[ing[i].c]

\* wasCalled is false.
FirstClose(i) == up /\ ing[i].st = "reading"

\* Fault: the end of the body is not looked for.
IngestibleCut(i) == ing[i].pos <= FileLimit /\ ~ing[i].failed

\* Fault: no limit on a file's size.
IngestibleAnySize(i) == ~ing[i].failed /\ ing[i].pos = Size[ing[i].c]

\* Small enough, copied without an error, and the last one-byte Read finds the
\* end of the body.
Ingestible(i) ==
    /\ ing[i].pos <= FileLimit
    /\ ~ing[i].failed
    /\ ing[i].pos = Size[ing[i].c]

Over(i, st) == Ingestion(ing[i].c, st, 0)

\* cleanup, for a body that is not ingestible, or when the last Read or the
\* rename fails; removing the temporary file may fail too.
CloseDiscard(i) ==
    /\ FirstClose(i)
    /\ ing' = [ing EXCEPT ![i] = Over(i, "closed")]
    /\ \E left \in BOOLEAN : tmp' = [tmp EXCEPT ![i] = left]
    /\ cleanups' = [cleanups EXCEPT ![i] = @ + 1]
    /\ UNCHANGED <<now, mtime, rd, prune, up, notified, disturbed>>

CloseRename(i) ==
    /\ FirstClose(i) /\ Ingestible(i)
    /\ mtime' = [mtime EXCEPT ![<<ing[i].c, ing[i].written>>] = ing[i].mt]
    /\ ing' = [ing EXCEPT ![i].st = "renamed"]
    /\ tmp' = [tmp EXCEPT ![i] = FALSE]
    /\ disturbed' = TRUE
    /\ UNCHANGED <<now, rd, prune, up, notified, cleanups>>

\* onIngest, unless closing the renamed file fails; then onCleanup.
CloseNotify(i) ==
    /\ up /\ ing[i].st = "renamed"
    /\ \/ notified' = [notified EXCEPT ![i] = <<ing[i].c, ing[i].written>>]
       \/ UNCHANGED notified
    /\ ing' = [ing EXCEPT ![i] = Over(i, "closed")]
    /\ cleanups' = [cleanups EXCEPT ![i] = @ + 1]
    /\ UNCHANGED <<now, mtime, tmp, rd, prune, up, disturbed>>

-----------------------------------------------------------------------------
(* Open, cut between opening and touching the file; Delete.                *)

Open(r, c) ==
    /\ up /\ rd[r] = NoContent
    /\ Exists(Whole(c))
    /\ rd' = [rd EXCEPT ![r] = Whole(c)]
    /\ UNCHANGED <<now, mtime, tmp, ing, prune, up, notified, cleanups, disturbed>>

\* Chtimes works on the name: it touches what is there now, or fails.
OpenTouch(r) ==
    /\ up /\ rd[r] # NoContent
    /\ rd' = [rd EXCEPT ![r] = NoContent]
    /\ mtime' = IF Exists(rd[r]) THEN [mtime EXCEPT ![rd[r]] = now] ELSE mtime
    /\ disturbed' = TRUE
    /\ UNCHANGED <<now, tmp, ing, prune, up, notified, cleanups>>

Delete(c) ==
    /\ up /\ Exists(Whole(c))
    /\ mtime' = [mtime EXCEPT ![Whole(c)] = NoFile]
    /\ disturbed' = TRUE
    /\ UNCHANGED <<now, tmp, ing, rd, prune, up, notified, cleanups>>

-----------------------------------------------------------------------------
(* Prune.  getFilesAndTimestamps reads the directories in order and asks   *)
(* for each file's information; a file that is gone by then is an error.   *)

PruneUnchanged == UNCHANGED <<now, tmp, ing, rd, notified, cleanups>>

PruneStart ==
    /\ up /\ prune.st \in {"idle", "ended"}
    /\ prune' = [IdlePrune EXCEPT !.st = "list", !.dirs = {DirOf[c] : c \in Contents}]
    /\ disturbed' = FALSE
    /\ PruneUnchanged /\ UNCHANGED <<mtime, up>>

PruneReadDir(d) ==
    /\ up /\ prune.st = "list" /\ prune.pend = {}
    /\ \A o \in prune.dirs : d <= o
    /\ prune' = [prune EXCEPT !.dirs = @ \ {d}, !.pend = FilesIn(d)]
    /\ PruneUnchanged /\ UNCHANGED <<mtime, up, disturbed>>

PruneInfo(f) ==
    /\ up /\ prune.st = "list" /\ f \in prune.pend
    /\ prune' = IF Exists(f)
                THEN [prune EXCEPT !.pend = @ \ {f}, !.total = @ + Blocks(f),
                                   !.listed = @ \cup {[file |-> f, ts |-> mtime[f]]}]
                ELSE [IdlePrune EXCEPT !.st = "ended", !.result = "error"]
    /\ PruneUnchanged /\ UNCHANGED <<mtime, up, disturbed>>

PruneDecide ==
    /\ up /\ prune.st = "list" /\ prune.dirs = {} /\ prune.pend = {}
    /\ prune' = IF prune.total < QuotaHigh
                THEN [IdlePrune EXCEPT !.st = "ended", !.result = "notrequired"]
                ELSE [prune EXCEPT !.st = "evict"]
    /\ PruneUnchanged /\ UNCHANGED <<mtime, up, disturbed>>

\* Fault: sorted the other way round.
OldestLast(e) == e \in prune.listed /\ \A o \in prune.listed : e.ts >= o.ts

\* Timestamps in ascending order.
Oldest(e) == e \in prune.listed /\ \A o \in prune.listed : e.ts <= o.ts
\* Fault: stops at the high mark.
LowReachedAtHigh == prune.total <= QuotaHigh

LowReached == prune.total <= QuotaLow

\* os.Stat before the removal; a missing file makes fileInfo nil, and using it
\* panics, which ends the process.
PruneStat(e) ==
    /\ up /\ prune.st = "evict" /\ ~LowReached /\ Oldest(e)
    /\ \/ /\ ~Exists(e.file)
          /\ up' = FALSE
          /\ UNCHANGED prune
       \/ /\ Exists(e.file) /\ mtime[e.file] # e.ts     \* touched since it was listed
          /\ prune' = [prune EXCEPT !.listed = @ \ {e}]
          /\ UNCHANGED up
       \/ /\ Exists(e.file) /\ mtime[e.file] = e.ts
          /\ prune' = [prune EXCEPT !.st = "remove", !.cur = e]
          /\ UNCHANGED up
    /\ PruneUnchanged /\ UNCHANGED <<mtime, disturbed>>

PruneRemoved(freed) ==
    [prune EXCEPT !.st = "evict", !.cur = NoEntry, !.listed = @ \ {prune.cur},
                  !.total = @ - freed, !.removed = @ \cup {prune.cur}]

\* Fault: a file that cannot be removed stays the current one.
PruneRemoveKeepsCur ==
    /\ up /\ prune.st = "remove"
    /\ \/ /\ Exists(prune.cur.file)
          /\ mtime' = [mtime EXCEPT ![prune.cur.file] = NoFile]
          /\ prune' = PruneRemoved(Blocks(prune.cur.file))
          /\ UNCHANGED disturbed
       \/ /\ prune' = [prune EXCEPT !.st = "evict", !.listed = @ \ {prune.cur}]
          /\ disturbed' = TRUE
          /\ UNCHANGED mtime
    /\ PruneUnchanged /\ UNCHANGED up

\* Fault: a file that cannot be removed is tried again.
PruneRemoveRetries ==
    /\ up /\ prune.st = "remove"
    /\ \/ /\ Exists(prune.cur.file)
          /\ mtime' = [mtime EXCEPT ![prune.cur.file] = NoFile]
          /\ prune' = PruneRemoved(Blocks(prune.cur.file))
          /\ UNCHANGED disturbed
       \/ /\ prune' = [prune EXCEPT !.st = "evict", !.cur = NoEntry]
          /\ disturbed' = TRUE
          /\ UNCHANGED mtime
    /\ PruneUnchanged /\ UNCHANGED up

PruneRemove ==
    /\ up /\ prune.st = "remove"
    /\ \/ /\ Exists(prune.cur.file)
          /\ mtime' = [mtime EXCEPT ![prune.cur.file] = NoFile]
          /\ prune' = PruneRemoved(Blocks(prune.cur.file))
          /\ UNCHANGED disturbed
       \/ /\ prune' = [prune EXCEPT !.st = "evict", !.cur = NoEntry, !.listed = @ \ {prune.cur}]
          /\ disturbed' = TRUE
          /\ UNCHANGED mtime
    /\ PruneUnchanged /\ UNCHANGED up

PruneEnd ==
    /\ up /\ prune.st = "evict" /\ (LowReached \/ prune.listed = {})
    /\ prune' = [prune EXCEPT !.st = "ended", !.result = "ok", !.listed = {}]
    /\ PruneUnchanged /\ UNCHANGED <<mtime, up, disturbed>>

\* The process ends, in whatever state, and starts again: NewFileCache empties
\* the temporary directory.
Restart ==
    /\ up' = TRUE
    /\ tmp' = [i \in Ingests |-> FALSE]
    /\ ing' = [i \in Ingests |->
                 IF ing[i].st \in {"reading", "renamed"} THEN Over(i, "lost") ELSE ing[i]]
    /\ rd' = [r \in Readers |-> NoContent]
    /\ prune' = IdlePrune
    /\ UNCHANGED <<now, mtime, notified, cleanups, disturbed>>

Close(i) == CloseDiscard(i) \/ CloseRename(i) \/ CloseNotify(i)
PruneStep ==
    \/ \E d \in prune.dirs : PruneReadDir(d)
    \/ \E f \in prune.pend : PruneInfo(f)
    \/ PruneDecide
    \/ \E e \in prune.listed : PruneStat(e)
    \/ PruneRemove
    \/ PruneEnd

Next ==
    \/ Tick
    \/ \E i \in Ingests, c \in Contents : SetupIngestion(i, c)
    \/ \E i \in Ingests : Read(i)
    \/ \E i \in Ingests : Close(i)
    \/ \E r \in Readers, c \in Contents : Open(r, c)
    \/ \E r \in Readers : OpenTouch(r)
    \/ \E c \in Contents : Delete(c)
    \/ PruneStart
    \/ PruneStep
    \/ Restart

Spec == Init /\ [][Next]_vars

\* Handlers close the bodies they serve (a deferred Close), and the pruning
\* goroutine runs on while the process does.
Fairness ==
    /\ \A i \in Ingests : WF_vars(Close(i))
    /\ WF_vars(PruneStep)

FairSpec == Spec /\ Fairness

-----------------------------------------------------------------------------
Listing == [file : Files, ts : Nat]

IngestRecords ==
    [c : Contents \cup {NoContent},
     st : {"none", "bypass", "reading", "renamed", "closed", "lost"},
     pos : Nat, written : Nat, failed : BOOLEAN, mt : Nat]

PruneRecords ==
    [st : {"idle", "list", "evict", "remove", "ended"}, dirs : SUBSET {DirOf[c] : c \in Contents},
     pend : SUBSET Files, listed : SUBSET Listing, total : Int, cur : Listing \cup {NoEntry},
     removed : SUBSET Listing, result : {"none", "error", "notrequired", "ok"}]

\* Every variable has its type; Prune has a current file, one of those it
\* listed, exactly when it is about to remove it.
TypeOK ==
    /\ now \in Nat
    /\ mtime \in [Files -> Nat \cup {NoFile}]
    /\ tmp \in [Ingests -> BOOLEAN]
    /\ ing \in [Ingests -> IngestRecords]
    /\ rd \in [Readers -> {Whole(c) : c \in Contents} \cup {NoContent}]
    /\ prune \in PruneRecords
    /\ IF prune.st = "remove" THEN prune.cur \in prune.listed ELSE prune.cur = NoEntry
    /\ up \in BOOLEAN
    /\ notified \in [Ingests -> Files \cup {NoContent}]
    /\ cleanups \in [Ingests -> Nat]
    /\ disturbed \in BOOLEAN

\* Whatever way bodies are cut, fail or race, the cache directory only ever
\* holds whole bodies of at most half the quota, and onIngest is only told of
\* whole bodies (the checks of the Close callback of SetupIngestion).
OnlyWholeFiles ==
    /\ \A f \in Files : Exists(f) => f = Whole(f[1]) /\ Blocks(f) <= FileLimit
    /\ \A i \in Ingests : notified[i] # NoContent => notified[i] = Whole(ing[i].c)

\* onCleanup, which gives the caller's Entry back to its pool, runs once for
\* every ingestion that ends in a living process and never before it ends.
CleanupExactlyOnce ==
    \A i \in Ingests : cleanups[i] = IF ing[i].st = "closed" THEN 1 ELSE 0

Cached == {f \in Files : Exists(f)}
CacheSize == MapThenSumSet(Blocks, Cached)
Undisturbed == prune.st = "ended" /\ prune.result = "ok" /\ ~disturbed

\* A Prune that nobody disturbs brings the cache under the low quota, and does
\* not remove more than it needs for that.
PruneReachesLow ==
    Undisturbed =>
        /\ CacheSize <= QuotaLow
        /\ prune.removed # {} => \E e \in prune.removed : CacheSize + Blocks(e.file) > QuotaLow

\* What an undisturbed Prune removes was used no later than anything it keeps.
PruneEvictsOldest ==
    Undisturbed => \A e \in prune.removed, f \in Cached : e.ts <= mtime[f]

\* An ingestion that is read to its end or given up is settled.
IngestionSettles ==
    \A i \in Ingests :
        ing[i].st \in {"reading", "renamed"} ~> ing[i].st \in {"closed", "lost"} \/ ~up

\* A Prune ends, however much is ingested, opened and deleted meanwhile.
PruneTerminates ==
    prune.st \in {"list", "evict", "remove"} ~> prune.st \in {"idle", "ended"} \/ ~up

\* "An unexpected error happened trying to remove file": Prune logs the error
\* of a file it cannot stat; it does not bring the process down.
PruneNeverPanics == up

\* An ingestion is one atomic offer: settled from the rename on, or when given up.
OfferOf(r) == [c |-> r.c, st |-> IF r.st = "none" THEN "none"
                                 ELSE IF r.st = "reading" THEN "pending" ELSE "settled"]

Abstract == INSTANCE BlobStore
    WITH Submissions <- Ingests,
         Small <- {c \in Contents : Size[c] <= FileLimit},
         present <- {c \in Contents : Exists(Whole(c))},
         offer <- [i \in Ingests |-> OfferOf(ing[i])]

\* Ingestions, readers, Delete, Prune and restarts, interleaved at every system
\* call, implement the set of whole contents.
ImplementsBlobStore == Abstract!BSSpec
=============================================================================
