------------------------------- MODULE Cache --------------------------------
(***************************************************************************)
(* internal/httpclient/cache.go: the database and the file cache together. *)
(* Requests ingest a body and then save its hash; the administrator        *)
(* removes a key and then its files; every 15 minutes the management       *)
(* goroutine prunes files and sweeps the database for responses whose file *)
(* is gone; Close stops that goroutine and closes the database.  Nothing   *)
(* makes a file and the entry that names it change together.               *)
(*                                                                         *)
(* The database is an atomic register per key (VersionedStore, which       *)
(* Database implements), the file cache a set of hashes (BlobStore, which  *)
(* FileCache implements).                                                  *)
(***************************************************************************)
EXTENDS Integers, FiniteSets, Functions

CONSTANTS
    Keys,       \* database keys
    Slots,      \* what tells the responses under a key apart (Vary)
    Hashes,     \* hashes of bodies
    Writers,    \* requests that store a response
    Admins,     \* the administrator's requests
    Before,     \* what an earlier run may have left under a key: hash by slot
    NoKey,      \* no key
    MaxClock    \* bound: writes to the database before no more is started

ASSUME CacheAssumption ==
    /\ NoKey \notin Keys /\ MaxClock \in Nat
    /\ Before \subseteq [Slots -> Hashes]

VARIABLES
    db,         \* db[k] = [val, ver]: hash by slot; ver = 0: no entry
    clock,      \* last version given out
    files,      \* hashes of the files in the cache
    wr,         \* wr[w]: the response that w stores
    rm,         \* rm[a]: the Remove of a
    sw,         \* the management goroutine
    tick,       \* a tick waits in the ticker's channel
    life,       \* "open", "stopping" (stopSignal is closed), "closed"
    missed,     \* history: hashes without a file at some moment since the sweep
                \* took up the item at hand
    lost,       \* history: hashes whose file someone removed since the sweep
                \* began to list the files
    late        \* history: keys a request saved after the sweep had read them

vars == <<db, clock, files, wr, rm, sw, tick, life, missed, lost, late>>

NoVal == [s \in {} |-> NoKey]
NoEntry == [val |-> NoVal, ver |-> 0]
IdleWriter == [st |-> "idle", key |-> NoKey, slot |-> NoKey, hash |-> NoKey, ent |-> NoEntry]
IdleAdmin == [st |-> "idle", key |-> NoKey, ent |-> NoEntry]
NoItem == [key |-> NoKey, val |-> NoVal, ver |-> 0]

\* todo: hashes still to list, then keys still to read; known: listed hashes;
\* buf: items read and not yet applied; cur: the callback's item, of whose
\* slots those in stat are still to be looked up, those in valid have a file.
IdleSweep == [st |-> "idle", todo |-> {}, known |-> {}, buf |-> {}, cur |-> NoItem,
              stat |-> {}, valid |-> {}]

\* Under every key, the responses that an earlier run left, or none.
Init ==
    /\ \E left \in Before \cup {NoVal} :
         /\ db = [k \in Keys |-> [val |-> left, ver |-> IF left = NoVal THEN 0 ELSE 1]]
         /\ clock = IF left = NoVal THEN 0 ELSE 1
         /\ files = Range(left)
    /\ wr = [w \in Writers |-> IdleWriter]
    /\ rm = [a \in Admins |-> IdleAdmin]
    /\ sw = IdleSweep
    /\ tick = FALSE
    /\ life = "open"
    /\ missed = {} /\ lost = {} /\ late = {}

-----------------------------------------------------------------------------
(* The database as its callers see it.                                     *)

Working == life # "closed"
Moved(k, ver) == db[k].ver # 0 /\ db[k].ver # ver

CanSave(k, ver) == Working /\ ~Moved(k, ver)
DoSave(k, val) ==
    /\ db' = [db EXCEPT ![k] = [val |-> val, ver |-> clock + 1]]
    /\ clock' = clock + 1

\* Deleting a key that is not there succeeds.
CanDelete(k, ver) == Working /\ ~Moved(k, ver)
DoDelete(k) == db' = [db EXCEPT ![k] = NoEntry]

-----------------------------------------------------------------------------
(* A request that stores a response: Get, the rename of the ingested body, *)
(* Save or New.                                                            *)

With(val, s, h) == [x \in DOMAIN val \cup {s} |-> IF x = s THEN h ELSE val[x]]

WriterGet(w, k, s, h) ==
    /\ wr[w].st = "idle" /\ Working /\ clock < MaxClock
    /\ wr' = [wr EXCEPT ![w] = [st |-> "got", key |-> k, slot |-> s, hash |-> h, ent |-> db[k]]]
    /\ UNCHANGED <<db, clock, files, rm, sw, tick, life, missed, lost, late>>

WriterRename(w) ==
    /\ wr[w].st = "got"
    /\ files' = files \cup {wr[w].hash}
    /\ wr' = [wr EXCEPT ![w].st = "renamed"]
    /\ UNCHANGED <<db, clock, rm, sw, tick, life, missed, lost, late>>

\* The sweep has been at k, and does not come back.
Passed(k) == sw.st \in {"iterate", "stat", "write", "swept"} /\ k \notin sw.todo

\* A conflict or an error is logged.
WriterSave(w) ==
    LET r == wr[w]
        val == IF r.ent.ver = 0 THEN With(NoVal, r.slot, r.hash) ELSE With(r.ent.val, r.slot, r.hash)
    IN  /\ r.st = "renamed"
        /\ \/ /\ CanSave(r.key, r.ent.ver) /\ DoSave(r.key, val)
              /\ late' = IF Passed(r.key) THEN late \cup {r.key} ELSE late
           \/ ~CanSave(r.key, r.ent.ver) /\ UNCHANGED <<db, clock, late>>
        /\ wr' = [wr EXCEPT ![w] = IdleWriter]
        /\ UNCHANGED <<files, rm, sw, tick, life, missed, lost>>

-----------------------------------------------------------------------------
(* Remove: Get, Delete, and the files one after the other.                 *)

RemoveGet(a, k) ==
    /\ rm[a].st = "idle" /\ Working /\ db[k].ver # 0
    /\ rm' = [rm EXCEPT ![a] = [st |-> "got", key |-> k, ent |-> db[k]]]
    /\ UNCHANGED <<db, clock, files, wr, sw, tick, life, missed, lost, late>>

RemoveDelete(a) ==
    LET r == rm[a]
    IN  /\ r.st = "got"
        /\ \/ CanDelete(r.key, r.ent.ver) /\ DoDelete(r.key)
              /\ rm' = [rm EXCEPT ![a].st = "files"]
           \/ /\ ~CanDelete(r.key, r.ent.ver)
              /\ rm' = [rm EXCEPT ![a] = IdleAdmin]
              /\ UNCHANGED db
        /\ UNCHANGED <<clock, files, wr, sw, tick, life, missed, lost, late>>

\* h is gone, which matters to the histories from the listing on.
Notice(h) ==
    /\ missed' = IF sw.st \in {"stat", "write"} THEN missed \cup {h} ELSE missed
    /\ lost' = IF sw.st \in {"list", "iterate", "stat", "write", "swept"} THEN lost \cup {h} ELSE lost

\* A file that cannot be deleted stays, and the next one is tried.
RemoveFile(a) ==
    /\ rm[a].st = "files"
    /\ \E s \in DOMAIN rm[a].ent.val :
         LET h == rm[a].ent.val[s]
             rest == DOMAIN rm[a].ent.val \ {s}
             left == [rm[a].ent EXCEPT !.val = Restrict(@, rest)]
         IN  /\ \/ UNCHANGED <<files, missed, lost>>
                \/ files' = files \ {h} /\ Notice(h)
             /\ rm' = [rm EXCEPT ![a] = IF rest = {} THEN IdleAdmin
                                        ELSE [@ EXCEPT !.ent = left]]
    /\ UNCHANGED <<db, clock, wr, sw, tick, life, late>>

-----------------------------------------------------------------------------
(* ManageCache and CleanupOldEntries.  The lock that CleanupOldEntries     *)
(* takes has no other taker.                                               *)

Others == UNCHANGED <<wr, rm, life>>
Forget == missed' = {} /\ lost' = {} /\ late' = {}

TickerFires ==
    /\ ~tick /\ sw.st # "ended"
    /\ tick' = TRUE
    /\ UNCHANGED <<db, clock, files, wr, rm, sw, life, missed, lost, late>>

SweepStart ==
    /\ sw.st = "idle" /\ tick
    /\ tick' = FALSE
    /\ sw' = [IdleSweep EXCEPT !.st = "prune"]
    /\ Others /\ UNCHANGED <<db, clock, files, missed, lost, late>>

\* Fault: a tick goes before the stop signal.
ManageStopLast ==
    /\ sw.st = "idle" /\ life = "stopping" /\ ~tick
    /\ sw' = [IdleSweep EXCEPT !.st = "ended"]
    /\ Others /\ UNCHANGED <<db, clock, files, tick, missed, lost, late>>

\* select takes the stop signal; if a tick waits too, it takes either.
ManageStop ==
    /\ sw.st = "idle" /\ life = "stopping"
    /\ sw' = [IdleSweep EXCEPT !.st = "ended"]
    /\ Others /\ UNCHANGED <<db, clock, files, tick, missed, lost, late>>

\* Prune: see FileCache for which files it takes.
SweepEvict(h) ==
    /\ sw.st = "prune" /\ h \in files
    /\ files' = files \ {h}
    /\ Others /\ UNCHANGED <<db, clock, sw, tick, missed, lost, late>>

\* Prune returns; no need for a cleanup, or an error, ends the sweep.
SweepPruned ==
    /\ sw.st = "prune"
    /\ sw' \in {[sw EXCEPT !.st = "list", !.todo = Hashes], IdleSweep}
    /\ Others /\ Forget /\ UNCHANGED <<db, clock, files, tick>>

\* GetAllHashes comes by the place where h is or is not.
SweepList(h) ==
    /\ sw.st = "list" /\ h \in sw.todo
    /\ sw' = [sw EXCEPT !.todo = @ \ {h}, !.known = IF h \in files THEN @ \cup {h} ELSE @]
    /\ Others /\ UNCHANGED <<db, clock, files, tick, missed, lost, late>>

\* A listing that failed is an empty one; the sweep goes on.
SweepListed ==
    /\ sw.st = "list"
    /\ \/ /\ sw.todo = {}
          /\ sw' = [sw EXCEPT !.st = "iterate", !.todo = Keys]
       \/ sw' = [sw EXCEPT !.st = "iterate", !.todo = Keys, !.known = {}]
    /\ Others /\ UNCHANGED <<db, clock, files, tick, missed, lost, late>>

\* badger's stream reads ahead of the callback.
SweepRead(k) ==
    /\ sw.st \in {"iterate", "stat", "write"} /\ k \in sw.todo
    /\ sw' = [sw EXCEPT !.todo = @ \ {k},
                        !.buf = IF db[k].ver = 0 THEN @
                                ELSE @ \cup {[key |-> k, val |-> db[k].val, ver |-> db[k].ver]}]
    /\ Others /\ UNCHANGED <<db, clock, files, tick, missed, lost, late>>

\* Fault: an entry is left alone if one of its files is there.
hasMissingAll(item) == \A s \in DOMAIN item.val : item.val[s] \notin sw.known

hasMissing(item) == \E s \in DOMAIN item.val : item.val[s] \notin sw.known

SweepApply(item) ==
    /\ sw.st = "iterate" /\ item \in sw.buf
    /\ sw' = IF hasMissing(item)
             THEN [sw EXCEPT !.st = "stat", !.buf = @ \ {item}, !.cur = item,
                             !.stat = DOMAIN item.val, !.valid = {}]
             ELSE [sw EXCEPT !.buf = @ \ {item}]
    /\ missed' = IF hasMissing(item) THEN Hashes \ files ELSE missed
    /\ Others /\ UNCHANGED <<db, clock, files, tick, lost, late>>

NextItem == [sw EXCEPT !.st = "iterate", !.cur = NoItem, !.stat = {}, !.valid = {}]

\* Fault: the listing is trusted.
SweepStatListed(s) ==
    /\ sw.st = "stat" /\ s \in sw.stat
    /\ sw' = [sw EXCEPT !.stat = @ \ {s},
                        !.valid = IF sw.cur.val[s] \in sw.known THEN @ \cup {s} ELSE @]
    /\ Others /\ UNCHANGED <<db, clock, files, tick, missed, lost, late>>

\* pruneDatabaseEntry looks every file up again; an error other than "not
\* there" ends the iteration.
SweepStat(s) ==
    /\ sw.st = "stat" /\ s \in sw.stat
    /\ \/ /\ sw' = [sw EXCEPT !.stat = @ \ {s},
                              !.valid = IF sw.cur.val[s] \in files THEN @ \cup {s} ELSE @]
          /\ UNCHANGED <<missed, lost, late>>
       \/ sw' = IdleSweep /\ Forget
    /\ Others /\ UNCHANGED <<db, clock, files, tick>>

SweepDecide ==
    /\ sw.st = "stat" /\ sw.stat = {}
    /\ sw' = IF sw.valid = DOMAIN sw.cur.val THEN NextItem ELSE [sw EXCEPT !.st = "write"]
    /\ Others /\ UNCHANGED <<db, clock, files, tick, missed, lost, late>>

\* Fault: an entry without responses is saved, not deleted.
SweepWriteSavesEmpty ==
    /\ sw.st = "write" /\ CanSave(sw.cur.key, sw.cur.ver)
    /\ DoSave(sw.cur.key, Restrict(sw.cur.val, sw.valid))
    /\ sw' = NextItem
    /\ Others /\ UNCHANGED <<files, tick, missed, lost, late>>

\* Fault: a conflict is tried again.
SweepWriteRetries ==
    /\ sw.st = "write" /\ CanDelete(sw.cur.key, sw.cur.ver)
    /\ IF sw.valid = {} THEN DoDelete(sw.cur.key) /\ UNCHANGED clock
       ELSE DoSave(sw.cur.key, Restrict(sw.cur.val, sw.valid))
    /\ sw' = NextItem
    /\ Others /\ UNCHANGED <<files, tick, missed, lost, late>>

\* Delete or Save; a conflict, or another error of the database, ends the
\* iteration.
SweepWrite ==
    LET k == sw.cur.key
    IN  /\ sw.st = "write"
        /\ \/ /\ sw.valid = {} /\ CanDelete(k, sw.cur.ver)
              /\ DoDelete(k)
              /\ sw' = NextItem
              /\ UNCHANGED <<clock, missed, lost, late>>
           \/ /\ sw.valid # {} /\ CanSave(k, sw.cur.ver)
              /\ DoSave(k, Restrict(sw.cur.val, sw.valid))
              /\ sw' = NextItem
              /\ UNCHANGED <<missed, lost, late>>
           \/ sw' = IdleSweep /\ Forget /\ UNCHANGED <<db, clock>>
        /\ Others /\ UNCHANGED <<files, tick>>

\* The end of Iterate; then badger's garbage collector, which changes nothing here.
SweepEnd ==
    /\ sw.st = "iterate" /\ sw.todo = {} /\ sw.buf = {}
    /\ sw' = [IdleSweep EXCEPT !.st = "swept"]
    /\ missed' = {}
    /\ Others /\ UNCHANGED <<db, clock, files, tick, lost, late>>

\* CleanupOldEntries returns to ManageCache.
SweepReturn ==
    /\ sw.st = "swept"
    /\ sw' = IdleSweep
    /\ Others /\ Forget /\ UNCHANGED <<db, clock, files, tick>>

-----------------------------------------------------------------------------
CloseSignal ==
    /\ life = "open"
    /\ life' = "stopping"
    /\ UNCHANGED <<db, clock, files, wr, rm, sw, tick, missed, lost, late>>

\* stopWait.Wait, then db.Close.
CloseDatabase ==
    /\ life = "stopping" /\ sw.st = "ended"
    /\ life' = "closed"
    /\ UNCHANGED <<db, clock, files, wr, rm, sw, tick, missed, lost, late>>

\* The process ends, in whatever state, and starts again.
Restart ==
    /\ wr' = [w \in Writers |-> IdleWriter]
    /\ rm' = [a \in Admins |-> IdleAdmin]
    /\ sw' = IdleSweep
    /\ tick' = FALSE
    /\ life' = "open"
    /\ Forget /\ UNCHANGED <<db, clock, files>>

SweepStep ==
    \/ SweepStart \/ SweepPruned \/ SweepListed \/ SweepDecide \/ SweepWrite
    \/ SweepEnd \/ SweepReturn
    \/ \E h \in Hashes : SweepEvict(h) \/ SweepList(h)
    \/ \E k \in Keys : SweepRead(k)
    \/ \E item \in sw.buf : SweepApply(item)
    \/ \E s \in sw.stat : SweepStat(s)

Next ==
    \/ \E w \in Writers, k \in Keys, s \in Slots, h \in Hashes : WriterGet(w, k, s, h)
    \/ \E w \in Writers : WriterRename(w) \/ WriterSave(w)
    \/ \E a \in Admins, k \in Keys : RemoveGet(a, k)
    \/ \E a \in Admins : RemoveDelete(a) \/ RemoveFile(a)
    \/ TickerFires
    \/ ManageStop
    \/ SweepStep
    \/ CloseSignal
    \/ CloseDatabase
    \/ Restart

Spec == Init /\ [][Next]_vars

\* The goroutines run.  When a tick and the stop signal are both there, select
\* chooses at random, each time anew, so that it does not pass the stop signal
\* over for ever.
FairSpec == Spec /\ WF_vars(SweepStep) /\ SF_vars(ManageStop) /\ WF_vars(CloseDatabase)

-----------------------------------------------------------------------------
Vals == UNION {[S -> Hashes] : S \in SUBSET Slots}
Ents == [val : Vals, ver : Nat]
Items == [key : Keys \cup {NoKey}, val : Vals, ver : Nat]

\* Every variable has its type, and an entry names at least one response.
TypeOK ==
    /\ db \in [Keys -> Ents] /\ \A k \in Keys : db[k].ver # 0 <=> db[k].val # NoVal
    /\ clock \in Nat
    /\ files \subseteq Hashes /\ missed \subseteq Hashes /\ lost \subseteq Hashes
    /\ wr \in [Writers -> [st : {"idle", "got", "renamed"}, key : Keys \cup {NoKey},
                           slot : Slots \cup {NoKey}, hash : Hashes \cup {NoKey}, ent : Ents]]
    /\ rm \in [Admins -> [st : {"idle", "got", "files"}, key : Keys \cup {NoKey}, ent : Ents]]
    /\ sw \in [st : {"idle", "prune", "list", "iterate", "stat", "write", "swept", "ended"},
               todo : SUBSET (Hashes \cup Keys), known : SUBSET Hashes,
               buf : SUBSET Items, cur : Items, stat : SUBSET Slots, valid : SUBSET Slots]
    /\ sw.stat \cup sw.valid \subseteq DOMAIN sw.cur.val
    /\ tick \in BOOLEAN /\ late \subseteq Keys
    /\ life \in {"open", "stopping", "closed"}

Sweeping == sw.st \notin {"idle", "ended"}

\* The sweep takes a response out of the database only if its file was missing
\* at some moment after the sweep took the entry up, and leaves the entry's
\* other responses as they are.  So a response whose body came into the cache
\* while the sweep ran stays, whatever the listing of files missed or failed to
\* return, and one that was saved after the sweep read the entry stays too (the
\* second look of pruneDatabaseEntry, and the version its Save and Delete carry).
SweepDropsOnlyMissing ==
    [][\A k \in Keys :
         sw.st = "write" /\ sw' # sw /\ db'[k] # db[k] =>
            \A s \in DOMAIN db[k].val :
                \/ s \in DOMAIN db'[k].val /\ db'[k].val[s] = db[k].val[s]
                \/ db[k].val[s] \in missed]_vars

\* When a sweep has run to its end, an entry names a file that is not there only
\* if a request saved that entry after the sweep had read it, or if someone
\* removed that very file after the sweep had begun to list the files.  All else
\* that requests and administrators do meanwhile hides nothing from the sweep,
\* and what it writes itself, over an entry that was removed too, is sound.
SweepLeavesNoDangling ==
    sw.st = "swept" =>
        \A k \in Keys \ late : \A s \in DOMAIN db[k].val : db[k].val[s] \in files \cup lost

\* Close returns, even if the stop signal comes in the middle of a sweep and
\* more ticks arrive meanwhile.  ("open" again: the process was restarted.)
CloseReturns == life = "stopping" ~> life # "stopping"

\* A sweep ends, however much is stored and removed meanwhile.
SweepEnds == Sweeping ~> ~Sweeping
=============================================================================
