------------------------------ MODULE Database ------------------------------
(***************************************************************************)
(* internal/database/database.go: a typed store over badger with           *)
(* optimistic concurrency.  An Entry carries the version its value was     *)
(* read at; Save and Delete run a badger transaction that compares that    *)
(* version with the stored one and then writes.                            *)
(*                                                                         *)
(* badger itself is external.  A transaction is two steps: it begins with  *)
(* a read timestamp and reads from that snapshot, and it commits later,    *)
(* failing when a key it read was committed in between.  Between the two   *)
(* steps every other goroutine may run.                                    *)
(***************************************************************************)
EXTENDS Integers

CONSTANTS
    Keys,       \* database keys ("METHOD+url")
    Values,     \* marshalled values
    Handles,    \* goroutines that own an Entry, one Entry each
    Sweeper,    \* the goroutine that runs Iterate, with the callback's Entry
    Absent,     \* what a key holds when it was never written, or deleted
    Zero,       \* the zero Value of a fresh Entry
    MaxClock    \* bound: number of commits explored

ASSUME DatabaseAssumption ==
    /\ Sweeper \in Handles
    /\ Absent \notin Values \cup Keys
    /\ Zero \notin Values
    /\ MaxClock \in Nat

VARIABLES
    store,      \* store[k] = [val, ts]: latest version of k, with its commit timestamp
    clock,      \* badger's last commit timestamp
    isOpen,     \* badger is open
    entry,      \* entry[h] = [value, version]: the Entry owned by h
    txn,        \* txn[h]: the read-write transaction h has begun and not finished
    iter,       \* the Iterate in progress
    result,     \* result[h]: what h's last call returned
    seen        \* history: key and value that entry[h].version was read with

vars == <<store, clock, isOpen, entry, txn, iter, result, seen>>

Contents == Values \cup {Absent}
FreshEntry == [value |-> Zero, version |-> 0]

NoTxn == [kind |-> "none"]

\* A transaction under way: what it will write, the version it compared and
\* the snapshot it compared it in.
Txns == [kind : {"put", "del"}, key : Keys, data : Contents,
         version : Nat, readTs : Nat] \cup {NoTxn}

Items == [key : Keys, value : Values, version : Nat]
NoItem == [key |-> Absent]

\* phase "apply": the callback holds the item cur, in entry[Sweeper].
IdleIter == [phase |-> "idle", todo |-> {}, buf |-> {}, cur |-> NoItem]

Results == {"none", "ok", "notfound", "conflict", "error"}

Present(k) == store[k].val # Absent

\* h is not inside a call.  The iterating goroutine only writes to the entry
\* that its callback was given.
Free(h, k) ==
    /\ txn[h] = NoTxn
    /\ h = Sweeper => iter.phase = "apply" /\ iter.cur.key = k

Init ==
    /\ store = [k \in Keys |-> [val |-> Absent, ts |-> 0]]
    /\ clock = 0
    /\ isOpen = TRUE
    /\ entry = [h \in Handles |-> FreshEntry]
    /\ txn = [h \in Handles |-> NoTxn]
    /\ iter = IdleIter
    /\ result = [h \in Handles |-> "none"]
    /\ seen = [h \in Handles |-> [key |-> Absent, val |-> Absent]]

Return(h, r) == result' = [result EXCEPT ![h] = r]

-----------------------------------------------------------------------------
(* Get: a missing key resets the version and leaves the value alone.  An   *)
(* error of badger leaves the whole Entry alone.                           *)

GetFound(h, k) ==
    /\ isOpen /\ Present(k)
    /\ entry' = [entry EXCEPT ![h] = [value |-> store[k].val, version |-> store[k].ts]]
    /\ seen' = [seen EXCEPT ![h] = [key |-> k, val |-> store[k].val]]
    /\ Return(h, "ok")

GetMissing(h, k) ==
    /\ isOpen /\ ~Present(k)
    /\ entry' = [entry EXCEPT ![h].version = 0]
    /\ Return(h, "notfound")
    /\ UNCHANGED seen

GetError(h, k) ==
    /\ Return(h, "error")
    /\ UNCHANGED <<entry, seen>>

Get(h, k) ==
    /\ h # Sweeper /\ txn[h] = NoTxn
    /\ GetFound(h, k) \/ GetMissing(h, k) \/ GetError(h, k)
    /\ UNCHANGED <<store, clock, isOpen, txn, iter>>

-----------------------------------------------------------------------------
(* Save, New and Delete.  A transaction function that returns an error is  *)
(* discarded; the caller gets the error.                                   *)

\* Fault: the callback's item is not given up.
IterAfterKeepsItem(h, r) ==
    iter' = IF h # Sweeper THEN iter
            ELSE IF r = "ok" THEN [iter EXCEPT !.phase = "stream"] ELSE IdleIter

\* The callback of Iterate returns the error of the call it makes, and that
\* ends the whole iteration; success ends the callback.
IterAfter(h, r) ==
    iter' = IF h # Sweeper THEN iter
            ELSE IF r = "ok" THEN [iter EXCEPT !.phase = "stream", !.cur = NoItem]
            ELSE IdleIter

Finish(h, r) ==
    /\ txn' = [txn EXCEPT ![h] = NoTxn]
    /\ Return(h, r)
    /\ IterAfter(h, r)

\* Fault: the snapshot is older than the comparison.
BeginEarlier(h, kind, k, x, ver) ==
    /\ txn' = [txn EXCEPT ![h] = [kind |-> kind, key |-> k, data |-> x, version |-> ver,
                                  readTs |-> IF clock = 0 THEN 0 ELSE clock - 1]]
    /\ Return(h, "none")
    /\ UNCHANGED iter

Begin(h, kind, k, x, ver) ==
    /\ txn' = [txn EXCEPT ![h] = [kind |-> kind, key |-> k, data |-> x,
                                  version |-> ver, readTs |-> clock]]
    /\ Return(h, "none")
    /\ UNCHANGED iter

\* Fault: versions are not compared.
MovedNever(k, ver) == FALSE

\* The stored item is there under another version than the caller's.
Moved(k, ver) == Present(k) /\ store[k].ts # ver

PutCheck(h, k, v, ver) ==
    \/ isOpen /\ Moved(k, ver) /\ Finish(h, "conflict")
    \/ isOpen /\ ~Moved(k, ver) /\ Begin(h, "put", k, v, ver)
    \/ ~isOpen /\ Finish(h, "error")

\* The caller has put v in its Entry and saves it; the Entry keeps its version.
Save(h, k, v) ==
    /\ Free(h, k)
    /\ entry' = [entry EXCEPT ![h].value = v]
    /\ PutCheck(h, k, v, entry[h].version)
    /\ UNCHANGED <<store, clock, isOpen, seen>>

\* New saves a fresh Entry: no version.
New(h, k, v) ==
    /\ h # Sweeper /\ Free(h, k)
    /\ PutCheck(h, k, v, FreshEntry.version)
    /\ UNCHANGED <<store, clock, isOpen, entry, seen>>

Delete(h, k) ==
    /\ Free(h, k)
    /\ \/ isOpen /\ ~Present(k) /\ Finish(h, "ok")
       \/ isOpen /\ Moved(k, entry[h].version) /\ Finish(h, "conflict")
       \/ /\ isOpen /\ Present(k) /\ ~Moved(k, entry[h].version)
          /\ Begin(h, "del", k, Absent, entry[h].version)
       \/ ~isOpen /\ Finish(h, "error")
    /\ UNCHANGED <<store, clock, isOpen, entry, seen>>

\* Fault: commits are not checked for conflicts.
ReadStillCurrentAlways(h) == TRUE

\* badger, external: optimistic commit of a transaction that has read key.
ReadStillCurrent(h) == store[txn[h].key].ts <= txn[h].readTs

CommitWrites(h) ==
    /\ isOpen /\ ReadStillCurrent(h)
    /\ clock < MaxClock
    /\ clock' = clock + 1
    /\ store' = [store EXCEPT ![txn[h].key] = [val |-> txn[h].data, ts |-> clock + 1]]
    /\ Finish(h, "ok")

CommitConflicts(h) ==
    /\ isOpen /\ ~ReadStillCurrent(h)
    /\ Finish(h, "conflict")
    /\ UNCHANGED <<store, clock>>

\* A closed database, a full disk...
CommitFails(h) ==
    /\ Finish(h, "error")
    /\ UNCHANGED <<store, clock>>

Commit(h) ==
    /\ txn[h] # NoTxn
    /\ CommitWrites(h) \/ CommitConflicts(h) \/ CommitFails(h)
    /\ UNCHANGED <<isOpen, entry, seen>>

-----------------------------------------------------------------------------
(* Iterate: badger's stream reads keys ahead of the callback, each at its  *)
(* own moment; the callback gets a copy with the version that was read.    *)

IterateStart ==
    /\ isOpen /\ iter = IdleIter
    /\ iter' = [IdleIter EXCEPT !.phase = "stream", !.todo = Keys]
    /\ UNCHANGED <<store, clock, isOpen, entry, txn, result, seen>>

IterateRead(k) ==
    /\ iter.phase # "idle" /\ k \in iter.todo
    /\ iter' = [iter EXCEPT
                  !.todo = @ \ {k},
                  !.buf = IF Present(k)
                          THEN @ \cup {[key |-> k, value |-> store[k].val, version |-> store[k].ts]}
                          ELSE @]
    /\ UNCHANGED <<store, clock, isOpen, entry, txn, result, seen>>

IterateApply(item) ==
    /\ iter.phase = "stream" /\ item \in iter.buf
    /\ iter' = [iter EXCEPT !.phase = "apply", !.buf = @ \ {item}, !.cur = item]
    /\ entry' = [entry EXCEPT ![Sweeper] = [value |-> item.value, version |-> item.version]]
    /\ seen' = [seen EXCEPT ![Sweeper] = [key |-> item.key, val |-> item.value]]
    /\ UNCHANGED <<store, clock, isOpen, txn, result>>

\* The callback has nothing to write and returns nil.
IterateSkip ==
    /\ iter.phase = "apply" /\ txn[Sweeper] = NoTxn
    /\ iter' = [iter EXCEPT !.phase = "stream", !.cur = NoItem]
    /\ UNCHANGED <<store, clock, isOpen, entry, txn, result, seen>>

IterateEnd ==
    /\ iter.phase = "stream" /\ iter.todo = {} /\ iter.buf = {}
    /\ iter' = IdleIter
    /\ UNCHANGED <<store, clock, isOpen, entry, txn, result, seen>>

-----------------------------------------------------------------------------
\* Cache.Close stops the sweeping goroutine before it closes the database.
Close ==
    /\ isOpen /\ iter = IdleIter
    /\ isOpen' = FALSE
    /\ UNCHANGED <<store, clock, entry, txn, iter, result, seen>>

\* The process ended (a crash, or after Close) and NewDatabase opens again:
\* what was committed is there, what was in memory is not.
Restart ==
    /\ isOpen' = TRUE
    /\ entry' = [h \in Handles |-> FreshEntry]
    /\ txn' = [h \in Handles |-> NoTxn]
    /\ iter' = IdleIter
    /\ result' = [h \in Handles |-> "none"]
    /\ UNCHANGED <<store, clock, seen>>

Next ==
    \/ \E h \in Handles, k \in Keys : Get(h, k)
    \/ \E h \in Handles, k \in Keys, v \in Values : Save(h, k, v)
    \/ \E h \in Handles, k \in Keys, v \in Values : New(h, k, v)
    \/ \E h \in Handles, k \in Keys : Delete(h, k)
    \/ \E h \in Handles : Commit(h)
    \/ IterateStart
    \/ \E k \in Keys : IterateRead(k)
    \/ \E item \in iter.buf : IterateApply(item)
    \/ IterateSkip
    \/ IterateEnd
    \/ Close
    \/ Restart

Spec == Init /\ [][Next]_vars

-----------------------------------------------------------------------------
\* Every variable has its type, an iteration holds an item exactly while its
\* callback runs, and only that callback's goroutine writes during it.
TypeOK ==
    /\ store \in [Keys -> [val : Contents, ts : Nat]]
    /\ clock \in Nat
    /\ isOpen \in BOOLEAN
    /\ entry \in [Handles -> [value : Values \cup {Zero}, version : Nat]]
    /\ txn \in [Handles -> Txns]
    /\ iter \in [phase : {"idle", "stream", "apply"}, todo : SUBSET Keys,
                 buf : SUBSET Items, cur : Items \cup {NoItem}]
    /\ iter.phase = "apply" <=> iter.cur # NoItem
    /\ result \in [Handles -> Results]
    /\ seen \in [Handles -> [key : Keys \cup {Absent}, val : Contents]]

\* A committed Save or Delete over an existing value overwrites exactly the
\* value its caller had read, from that very key: neither an update by someone
\* else, nor the caller's own earlier Save, nor a value of another key whose
\* version the Entry still carries, can be lost (the version comparison of
\* Save and Delete together with badger's conflict detection).
NoLostUpdate ==
    [][\A k \in Keys :
         Present(k) /\ store'[k] # store[k] =>
            \E h \in Handles :
                /\ txn[h] # NoTxn /\ txn'[h] = NoTxn
                /\ txn[h].key = k
                /\ seen[h] = [key |-> k, val |-> store[k].val]]_vars

\* badger's conflict never refuses a caller whose version is still the stored
\* one: a commit that fails with a conflict means that the key moved on after
\* the caller's Get, so that re-reading it is what the caller needs to do.
ConflictIsReal ==
    [][\A h \in Handles :
         txn[h] # NoTxn /\ result'[h] = "conflict" /\ txn'[h] = NoTxn =>
            store[txn[h].key].ts # txn[h].version]_vars

\* The transactions implement an atomic compare-and-swap register per key.
Abstract == INSTANCE VersionedStore
                WITH Clients <- Handles, reg <- store,
                     held <- [h \in Handles |-> entry[h].version]

\* Every step of Save, New, Delete, Get and Iterate, with its transaction cut
\* in two and interleaved with all others, is a step of VersionedStore or
\* changes nothing it promises.
ImplementsVersionedStore == Abstract!VSSpec
=============================================================================
