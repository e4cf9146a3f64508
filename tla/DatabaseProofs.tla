--------------------------- MODULE DatabaseProofs ---------------------------
(* Proofs about Database, for any keys, values, callers and MaxClock.      *)
EXTENDS Database, TLAPS

-----------------------------------------------------------------------------
(* The inductive invariant.                                                *)

\* Versions are commit timestamps that were given out.
StampsIssued ==
    /\ \A k \in Keys : store[k].ts <= clock /\ (Present(k) => store[k].ts > 0)
    /\ \A j, k \in Keys : store[j].ts = store[k].ts /\ store[k].ts > 0 => j = k
    /\ \A h \in Handles : entry[h].version <= clock
    /\ \A h \in Handles :
         txn[h] # NoTxn => txn[h].readTs <= clock /\ txn[h].version <= txn[h].readTs
    /\ \A i \in iter.buf : i.version <= clock /\ i.version > 0

\* A version names one write: whoever holds the version that key k has now
\* holds what k has now, and read it from k.
VersionNamesWrite ==
    /\ \A h \in Handles, k \in Keys :
         entry[h].version # 0 /\ store[k].ts = entry[h].version =>
            seen[h] = [key |-> k, val |-> store[k].val]
    /\ \A i \in iter.buf, k \in Keys :
         store[k].ts = i.version => i.key = k /\ i.value = store[k].val

\* While nobody commits to the key after a transaction's snapshot, what the
\* transaction checked in its snapshot still holds.
CheckStillHolds ==
    \A h \in Handles :
        txn[h] # NoTxn /\ ReadStillCurrent(h) =>
            /\ Present(txn[h].key) => store[txn[h].key].ts = txn[h].version
            /\ txn[h].kind = "del" => Present(txn[h].key)

\* A transaction compared the version of its owner's Entry, or none (New).
ComparedOwnVersion ==
    \A h \in Handles :
        txn[h] # NoTxn =>
            /\ txn[h].version \in {0, entry[h].version}
            /\ txn[h].kind = "put" => txn[h].data \in Values
            /\ txn[h].kind = "del" => txn[h].data = Absent /\ txn[h].version = entry[h].version

DBInv == /\ TypeOK /\ StampsIssued /\ VersionNamesWrite /\ CheckStillHolds
         /\ ComparedOwnVersion
         /\ txn[Sweeper] # NoTxn => iter.phase = "apply"

-----------------------------------------------------------------------------
LEMMA NoTxnIsNoTransaction ==
    ASSUME NEW t \in Txns
    PROVE  t # NoTxn => /\ t \in [kind : {"put", "del"}, key : Keys, data : Contents,
                                  version : Nat, readTs : Nat]
                        /\ t.kind # "none"
BY DEF Txns, NoTxn

LEMMA NoItemIsNoItem ==
    ASSUME NEW i \in Items
    PROVE  i # NoItem
BY DatabaseAssumption DEF Items, NoItem

\* The iteration's own state after a call of h that returned r.
LEMMA IterAfterType ==
    ASSUME TypeOK, NEW h \in Handles, NEW r, IterAfter(h, r)
    PROVE  /\ iter' \in [phase : {"idle", "stream", "apply"}, todo : SUBSET Keys,
                         buf : SUBSET Items, cur : Items \cup {NoItem}]
           /\ iter'.phase = "apply" <=> iter'.cur # NoItem
           /\ iter'.buf \subseteq iter.buf
           /\ h # Sweeper => iter' = iter
BY DEF TypeOK, IterAfter, IdleIter

LEMMA BeginType ==
    ASSUME TypeOK, NEW h \in Handles, NEW kind \in {"put", "del"}, NEW k \in Keys,
           NEW x \in Contents, NEW ver \in Nat, Begin(h, kind, k, x, ver)
    PROVE  txn' \in [Handles -> Txns] /\ result' \in [Handles -> Results]
<1>1. [kind |-> kind, key |-> k, data |-> x, version |-> ver, readTs |-> clock] \in Txns
    BY DEF Txns, TypeOK
<1>2. "none" \in Results
    BY DEF Results
<1> QED BY <1>1, <1>2 DEF Begin, TypeOK, Return

LEMMA FinishType ==
    ASSUME TypeOK, NEW h \in Handles, NEW r \in Results, Finish(h, r)
    PROVE  /\ txn' \in [Handles -> Txns] /\ result' \in [Handles -> Results]
           /\ iter' \in [phase : {"idle", "stream", "apply"}, todo : SUBSET Keys,
                         buf : SUBSET Items, cur : Items \cup {NoItem}]
           /\ iter'.phase = "apply" <=> iter'.cur # NoItem
<1>1. NoTxn \in Txns
    BY DEF Txns
<1> QED BY <1>1, IterAfterType DEF Finish, TypeOK, Return

LEMMA PutCheckType ==
    ASSUME TypeOK, NEW h \in Handles, NEW k \in Keys, NEW v \in Values, NEW ver \in Nat,
           PutCheck(h, k, v, ver)
    PROVE  /\ txn' \in [Handles -> Txns] /\ result' \in [Handles -> Results]
           /\ iter' \in [phase : {"idle", "stream", "apply"}, todo : SUBSET Keys,
                         buf : SUBSET Items, cur : Items \cup {NoItem}]
           /\ iter'.phase = "apply" <=> iter'.cur # NoItem
<1>0. "conflict" \in Results /\ "error" \in Results /\ v \in Contents
    BY DEF Results, Contents
<1>1. CASE Finish(h, "conflict") \/ Finish(h, "error")
    BY <1>0, <1>1, FinishType
<1>2. CASE Begin(h, "put", k, v, ver)
    <2>1. iter' = iter
        BY <1>2 DEF Begin
    <2> QED BY <1>0, <1>2, <2>1, BeginType DEF TypeOK
<1> QED BY <1>1, <1>2 DEF PutCheck

LEMMA InitType == Init => TypeOK
<1>1. NoTxn \in Txns /\ "none" \in Results
    BY DEF Txns, Results
<1> QED BY <1>1, DatabaseAssumption DEF Init, TypeOK, FreshEntry, IdleIter, Contents

LEMMA StepType == TypeOK /\ [Next]_vars => TypeOK'
<1> SUFFICES ASSUME TypeOK, [Next]_vars PROVE TypeOK'
    OBVIOUS
<1>a. NoTxn \in Txns /\ Results = {"none", "ok", "notfound", "conflict", "error"}
    BY DEF Txns, Results
<1>1. ASSUME NEW h \in Handles, NEW k \in Keys, Get(h, k) PROVE TypeOK'
    <2> USE <1>1, <1>a DEF Get, Return, Present, Contents
    <2>1. CASE GetFound(h, k) BY <2>1 DEF GetFound, TypeOK
    <2>2. CASE GetMissing(h, k) BY <2>2 DEF GetMissing, TypeOK
    <2>3. CASE GetError(h, k) BY <2>3 DEF GetError, TypeOK
    <2> QED BY <2>1, <2>2, <2>3
<1>2. ASSUME NEW h \in Handles, NEW k \in Keys, NEW v \in Values, Save(h, k, v) PROVE TypeOK'
    <2>1. entry[h].version \in Nat
        BY DEF TypeOK
    <2> QED BY <1>2, <2>1, PutCheckType DEF Save, TypeOK
<1>3. ASSUME NEW h \in Handles, NEW k \in Keys, NEW v \in Values, New(h, k, v) PROVE TypeOK'
    BY <1>3, PutCheckType DEF New, TypeOK, FreshEntry
<1>4. ASSUME NEW h \in Handles, NEW k \in Keys, Delete(h, k) PROVE TypeOK'
    <2>1. CASE Finish(h, "ok") \/ Finish(h, "conflict") \/ Finish(h, "error")
        BY <1>4, <1>a, <2>1, FinishType DEF Delete, TypeOK
    <2>2. CASE Begin(h, "del", k, Absent, entry[h].version)
        <3>1. entry[h].version \in Nat /\ Absent \in Contents /\ iter' = iter
            BY <2>2 DEF TypeOK, Contents, Begin
        <3> QED BY <1>4, <2>2, <3>1, BeginType DEF Delete, TypeOK
    <2> QED BY <1>4, <2>1, <2>2 DEF Delete
<1>5. ASSUME NEW h \in Handles, Commit(h) PROVE TypeOK'
    <2>1. txn[h] \in [kind : {"put", "del"}, key : Keys, data : Contents,
                      version : Nat, readTs : Nat]
        BY <1>5, NoTxnIsNoTransaction DEF TypeOK, Commit
    <2>2. \E r \in Results : Finish(h, r)
        BY <1>5, <1>a DEF Commit, CommitWrites, CommitConflicts, CommitFails
    <2>3. store' \in [Keys -> [val : Contents, ts : Nat]] /\ clock' \in Nat
        BY <1>5, <2>1 DEF Commit, CommitWrites, CommitConflicts, CommitFails, TypeOK
    <2> QED BY <1>5, <2>2, <2>3, FinishType DEF Commit, TypeOK
<1>6. CASE IterateStart
    BY <1>6 DEF IterateStart, TypeOK, IdleIter
<1>7. ASSUME NEW k \in Keys, IterateRead(k) PROVE TypeOK'
    <2>1. Present(k) => [key |-> k, value |-> store[k].val, version |-> store[k].ts] \in Items
        BY DEF TypeOK, Present, Items, Contents
    <2> QED BY <1>7, <2>1 DEF IterateRead, TypeOK
<1>8. ASSUME NEW i \in iter.buf, IterateApply(i) PROVE TypeOK'
    <2>1. i \in Items /\ i # NoItem
        BY NoItemIsNoItem DEF TypeOK
    <2>2. i.key \in Keys /\ i.value \in Values /\ i.version \in Nat
        BY <2>1 DEF Items
    <2> QED BY <1>8, <2>1, <2>2, DatabaseAssumption DEF IterateApply, TypeOK, Contents
<1>9. CASE IterateSkip
    BY <1>9 DEF IterateSkip, TypeOK
<1>10. CASE IterateEnd
    BY <1>10 DEF IterateEnd, TypeOK, IdleIter
<1>11. CASE Close
    BY <1>11 DEF Close, TypeOK
<1>12. CASE Restart
    BY <1>12, <1>a DEF Restart, TypeOK, IdleIter, FreshEntry
<1>13. CASE UNCHANGED vars
    BY <1>13 DEF vars, TypeOK
<1> QED BY <1>1, <1>2, <1>3, <1>4, <1>5, <1>6, <1>7, <1>8, <1>9, <1>10, <1>11, <1>12, <1>13 DEF Next

\* Every state the database can reach is well typed, with any number of
\* callers, keys and commits.
THEOREM TypeCorrect == Spec => []TypeOK
BY InitType, StepType, PTL DEF Spec

-----------------------------------------------------------------------------
(* The safety half of the invariant, without the types.                    *)

\* Steps that only end h's call leave the facts about everybody else alone.
LEMMA FinishKeepsInv ==
    ASSUME DBInv, TypeOK', NEW h \in Handles, NEW r, Finish(h, r),
           UNCHANGED <<store, clock, seen>>,
           \A g \in Handles : entry'[g].version = entry[g].version
    PROVE  DBInv'
<1> USE DEF DBInv, Finish
<1>1. \A g \in Handles : txn'[g] # NoTxn => g # h /\ txn'[g] = txn[g]
    BY DEF TypeOK
<1>2. iter'.buf \subseteq iter.buf /\ (h # Sweeper => iter' = iter)
    BY IterAfterType
<1>3. StampsIssued'
    BY <1>1, <1>2 DEF StampsIssued, Present
<1>4. VersionNamesWrite'
    BY <1>2 DEF VersionNamesWrite
<1>5. CheckStillHolds'
    BY <1>1 DEF CheckStillHolds, ReadStillCurrent, Present
<1>6. ComparedOwnVersion'
    BY <1>1 DEF ComparedOwnVersion
<1>7. (txn[Sweeper] # NoTxn => iter.phase = "apply")'
    BY <1>1, <1>2, DatabaseAssumption
<1> QED BY <1>3, <1>4, <1>5, <1>6, <1>7

\* A transaction that begins has just checked what it relies on.
LEMMA BeginKeepsInv ==
    ASSUME DBInv, TypeOK', NEW h \in Handles, NEW kind \in {"put", "del"}, NEW k \in Keys,
           NEW x, NEW ver \in {0, entry[h].version}, Begin(h, kind, k, x, ver),
           UNCHANGED <<store, clock, seen>>,
           \A g \in Handles : entry'[g].version = entry[g].version,
           ~Moved(k, ver),
           kind = "put" => x \in Values,
           kind = "del" => x = Absent /\ ver = entry[h].version /\ Present(k),
           h = Sweeper => iter.phase = "apply"
    PROVE  DBInv'
<1> USE DEF DBInv, Begin
<1>1. /\ txn'[h] = [kind |-> kind, key |-> k, data |-> x, version |-> ver, readTs |-> clock]
      /\ \A g \in Handles \ {h} : txn'[g] = txn[g]
    BY DEF TypeOK
<1>2. clock <= clock /\ ver <= clock
    BY DEF TypeOK, StampsIssued
<1>3. StampsIssued'
    BY <1>1, <1>2 DEF StampsIssued, Present
<1>4. VersionNamesWrite'
    BY DEF VersionNamesWrite
<1>5. CheckStillHolds'
    <2> SUFFICES ASSUME NEW g \in Handles, txn'[g] # NoTxn, ReadStillCurrent(g)'
                 PROVE  /\ Present(txn[g].key)' => store'[txn'[g].key].ts = txn'[g].version
                        /\ txn'[g].kind = "del" => Present(txn[g].key)'
        BY DEF CheckStillHolds
    <2>1. CASE g = h
        BY <1>1, <2>1 DEF Present, Moved
    <2>2. CASE g # h
        BY <1>1, <2>2 DEF CheckStillHolds, ReadStillCurrent, Present
    <2> QED BY <2>1, <2>2
<1>6. ComparedOwnVersion'
    BY <1>1 DEF ComparedOwnVersion
<1>7. (txn[Sweeper] # NoTxn => iter.phase = "apply")'
    BY <1>1, DatabaseAssumption
<1> QED BY <1>3, <1>4, <1>5, <1>6, <1>7

LEMMA PutCheckKeepsInv ==
    ASSUME DBInv, TypeOK', NEW h \in Handles, NEW k \in Keys, NEW v \in Values,
           NEW ver \in {0, entry[h].version}, Free(h, k), PutCheck(h, k, v, ver),
           UNCHANGED <<store, clock, seen>>,
           \A g \in Handles : entry'[g].version = entry[g].version
    PROVE  DBInv'
<1>1. CASE Finish(h, "conflict") \/ Finish(h, "error")
    BY <1>1, FinishKeepsInv
<1>2. CASE ~Moved(k, ver) /\ Begin(h, "put", k, v, ver)
    BY <1>2, BeginKeepsInv DEF Free
<1> QED BY <1>1, <1>2 DEF PutCheck

\* A commit stamps its key with a version nobody holds yet.
LEMMA CommitWritesKeepsInv ==
    ASSUME DBInv, TypeOK', NEW h \in Handles, txn[h] # NoTxn, CommitWrites(h),
           UNCHANGED <<entry, seen>>
    PROVE  DBInv'
<1> USE DEF DBInv
<1> DEFINE t == txn[h]
<1>0. t \in [kind : {"put", "del"}, key : Keys, data : Contents, version : Nat, readTs : Nat]
    BY NoTxnIsNoTransaction DEF TypeOK
<1>1. /\ store'[t.key] = [val |-> t.data, ts |-> clock + 1]
      /\ \A k \in Keys \ {t.key} : store'[k] = store[k]
      /\ clock' = clock + 1 /\ clock \in Nat
    BY <1>0 DEF CommitWrites, TypeOK
<1>2. \A g \in Handles : txn'[g] # NoTxn => g # h /\ txn'[g] = txn[g]
    BY DEF CommitWrites, Finish, TypeOK
<1>3. iter'.buf \subseteq iter.buf /\ (h # Sweeper => iter' = iter)
    BY IterAfterType DEF CommitWrites, Finish
<1>4. StampsIssued'
    <2>1. \A k \in Keys : store'[k].ts <= clock' /\ (Present(k)' => store'[k].ts > 0)
        BY <1>1 DEF StampsIssued, Present, TypeOK
    <2>5. ASSUME NEW j \in Keys, NEW k \in Keys, store'[j].ts = store'[k].ts, store'[k].ts > 0
          PROVE  j = k
        <3>1. \A i \in Keys : store[i].ts \in Nat /\ store[i].ts # clock + 1
            BY <1>1 DEF StampsIssued, TypeOK
        <3>2. store'[t.key].ts = clock + 1
            BY <1>1
        <3>3. j = t.key <=> k = t.key
            BY <1>1, <2>5, <3>1, <3>2
        <3>4. j # t.key /\ k # t.key => store[j].ts = store[k].ts /\ store[k].ts > 0
            BY <1>1, <2>5
        <3> QED BY <3>3, <3>4 DEF StampsIssued
    <2>2. \A g \in Handles : entry[g].version <= clock'
        BY <1>1 DEF StampsIssued, TypeOK
    <2>3. \A g \in Handles :
            txn'[g] # NoTxn => txn'[g].readTs <= clock' /\ txn'[g].version <= txn'[g].readTs
        <3> SUFFICES ASSUME NEW g \in Handles, txn'[g] # NoTxn
                     PROVE  txn'[g].readTs <= clock' /\ txn'[g].version <= txn'[g].readTs
            OBVIOUS
        <3>1. txn'[g] = txn[g] /\ txn[g].readTs \in Nat
            BY <1>2, NoTxnIsNoTransaction DEF TypeOK
        <3> QED BY <1>1, <3>1 DEF StampsIssued
    <2>4. \A i \in iter'.buf : i.version <= clock' /\ i.version > 0
        <3> SUFFICES ASSUME NEW i \in iter'.buf PROVE i.version <= clock' /\ i.version > 0
            OBVIOUS
        <3>1. i \in iter.buf /\ i.version \in Nat
            BY <1>3 DEF TypeOK, Items
        <3> QED BY <1>1, <3>1 DEF StampsIssued
    <2> QED BY <2>1, <2>2, <2>3, <2>4, <2>5 DEF StampsIssued
<1>5. VersionNamesWrite'
    <2>1. ASSUME NEW g \in Handles, NEW k \in Keys, entry[g].version # 0,
                 store'[k].ts = entry[g].version
          PROVE  seen[g] = [key |-> k, val |-> store'[k].val]
        <3>1. k # t.key
            BY <1>1, <2>1 DEF StampsIssued, TypeOK
        <3> QED BY <1>1, <2>1, <3>1 DEF VersionNamesWrite
    <2>2. ASSUME NEW i \in iter'.buf, NEW k \in Keys, store'[k].ts = i.version
          PROVE  i.key = k /\ i.value = store'[k].val
        <3>1. i \in iter.buf /\ i.version \in Nat
            BY <1>3 DEF TypeOK, Items
        <3>2. k # t.key
            BY <1>1, <2>2, <3>1 DEF StampsIssued
        <3> QED BY <1>1, <2>2, <3>1, <3>2 DEF VersionNamesWrite
    <2> QED BY <2>1, <2>2 DEF VersionNamesWrite
<1>6. CheckStillHolds'
    <2> SUFFICES ASSUME NEW g \in Handles, txn'[g] # NoTxn, ReadStillCurrent(g)'
                 PROVE  /\ Present(txn[g].key)' => store'[txn'[g].key].ts = txn'[g].version
                        /\ txn'[g].kind = "del" => Present(txn[g].key)'
        BY DEF CheckStillHolds
    <2>1. txn'[g] = txn[g] /\ txn[g] # NoTxn /\ txn[g].readTs \in Nat /\ txn[g].key \in Keys
        BY <1>2, NoTxnIsNoTransaction DEF TypeOK
    <2>2. txn[g].key # t.key
        BY <1>1, <2>1 DEF StampsIssued, ReadStillCurrent
    <2>3. store'[txn[g].key] = store[txn[g].key]
        BY <1>1, <2>1, <2>2
    <2> QED BY <2>1, <2>3 DEF CheckStillHolds, ReadStillCurrent, Present
<1>7. ComparedOwnVersion'
    BY <1>2 DEF ComparedOwnVersion
<1>8. (txn[Sweeper] # NoTxn => iter.phase = "apply")'
    BY <1>2, <1>3, DatabaseAssumption
<1> QED BY <1>4, <1>5, <1>6, <1>7, <1>8

LEMMA InitInv == Init => DBInv
<1> SUFFICES ASSUME Init PROVE DBInv
    OBVIOUS
<1>1. TypeOK
    BY InitType
<1>2. \A h \in Handles : txn[h] = NoTxn
    BY DEF Init
<1>3. StampsIssued
    BY <1>2 DEF Init, StampsIssued, Present, FreshEntry, IdleIter
<1>4. VersionNamesWrite
    BY DEF Init, VersionNamesWrite, FreshEntry, IdleIter
<1> QED BY <1>1, <1>2, <1>3, <1>4, DatabaseAssumption DEF DBInv, CheckStillHolds, ComparedOwnVersion

LEMMA StepInv == DBInv /\ [Next]_vars => DBInv'
<1> SUFFICES ASSUME DBInv, [Next]_vars PROVE DBInv'
    OBVIOUS
<1>t. TypeOK /\ TypeOK'
    BY StepType DEF DBInv
<1>1. ASSUME NEW h \in Handles, NEW k \in Keys, Get(h, k) PROVE DBInv'
    <2>1. \A g \in Handles \ {h} : entry'[g] = entry[g] /\ seen'[g] = seen[g]
        BY <1>1, <1>t DEF Get, GetFound, GetMissing, GetError, TypeOK
    <2>2. \/ entry'[h].version = 0
          \/ /\ Present(k) /\ entry'[h].version = store[k].ts
             /\ seen'[h] = [key |-> k, val |-> store[k].val]
          \/ entry'[h] = entry[h] /\ seen'[h] = seen[h]
        BY <1>1, <1>t DEF Get, GetFound, GetMissing, GetError, TypeOK
    <2>3. h # Sweeper /\ txn[h] = NoTxn /\ UNCHANGED <<store, clock, txn, iter>>
        BY <1>1 DEF Get
    <2>4. StampsIssued'
        <3>1. \A g \in Handles : entry[g].version <= clock /\ 0 <= clock /\ store[k].ts <= clock
            BY <1>t DEF DBInv, StampsIssued, TypeOK
        <3>2. \A g \in Handles : entry'[g].version <= clock
            BY <2>1, <2>2, <3>1
        <3> QED BY <2>3, <3>2 DEF DBInv, StampsIssued, Present
    <2>5. VersionNamesWrite'
        <3>1. ASSUME NEW g \in Handles, NEW j \in Keys, entry'[g].version # 0,
                     store[j].ts = entry'[g].version
              PROVE  seen'[g] = [key |-> j, val |-> store[j].val]
            <4>1. CASE g # h
                BY <2>1, <3>1, <4>1 DEF DBInv, VersionNamesWrite
            <4>2. CASE g = h /\ entry'[h] = entry[h] /\ seen'[h] = seen[h]
                BY <3>1, <4>2 DEF DBInv, VersionNamesWrite
            <4>3. CASE /\ g = h /\ Present(k) /\ entry'[h].version = store[k].ts
                       /\ seen'[h] = [key |-> k, val |-> store[k].val]
                <5>1. j = k
                    BY <3>1, <4>3 DEF DBInv, StampsIssued
                <5> QED BY <4>3, <5>1
            <4> QED BY <2>2, <3>1, <4>1, <4>2, <4>3
        <3> QED BY <2>3, <3>1 DEF DBInv, VersionNamesWrite
    <2>6. CheckStillHolds'
        BY <2>3 DEF DBInv, CheckStillHolds, ReadStillCurrent, Present
    <2>7. ComparedOwnVersion'
        BY <2>1, <2>3 DEF DBInv, ComparedOwnVersion
    <2> QED BY <1>t, <2>3, <2>4, <2>5, <2>6, <2>7 DEF DBInv
<1>2. ASSUME NEW h \in Handles, NEW k \in Keys, NEW v \in Values, Save(h, k, v) PROVE DBInv'
    <2>1. \A g \in Handles : entry'[g].version = entry[g].version
        BY <1>2, <1>t DEF Save, TypeOK
    <2> QED BY <1>2, <1>t, <2>1, PutCheckKeepsInv DEF Save
<1>3. ASSUME NEW h \in Handles, NEW k \in Keys, NEW v \in Values, New(h, k, v) PROVE DBInv'
    BY <1>3, <1>t, PutCheckKeepsInv DEF New, FreshEntry
<1>4. ASSUME NEW h \in Handles, NEW k \in Keys, Delete(h, k) PROVE DBInv'
    <2>1. CASE Finish(h, "ok") \/ Finish(h, "conflict") \/ Finish(h, "error")
        BY <1>4, <1>t, <2>1, FinishKeepsInv DEF Delete
    <2>2. CASE /\ Present(k) /\ ~Moved(k, entry[h].version)
               /\ Begin(h, "del", k, Absent, entry[h].version)
        BY <1>4, <1>t, <2>2, BeginKeepsInv DEF Delete, Free
    <2> QED BY <1>4, <2>1, <2>2 DEF Delete
<1>5. ASSUME NEW h \in Handles, Commit(h) PROVE DBInv'
    <2>1. CASE CommitWrites(h)
        BY <1>5, <1>t, <2>1, CommitWritesKeepsInv DEF Commit
    <2>2. CASE CommitConflicts(h) \/ CommitFails(h)
        BY <1>5, <1>t, <2>2, FinishKeepsInv DEF Commit, CommitConflicts, CommitFails
    <2> QED BY <1>5, <2>1, <2>2 DEF Commit
<1>6. ASSUME iter'.buf \subseteq iter.buf,
             UNCHANGED <<store, clock, entry, txn, seen>>,
             txn[Sweeper] # NoTxn => iter'.phase = "apply"
      PROVE  DBInv'
    <2> USE <1>6 DEF DBInv
    <2>1. StampsIssued'
        BY DEF StampsIssued, Present
    <2>2. VersionNamesWrite'
        BY DEF VersionNamesWrite
    <2>3. CheckStillHolds' /\ ComparedOwnVersion'
        BY DEF CheckStillHolds, ComparedOwnVersion, ReadStillCurrent, Present
    <2> QED BY <1>t, <2>1, <2>2, <2>3
<1>7. ASSUME NEW k \in Keys, IterateRead(k) PROVE DBInv'
    <2> DEFINE i == [key |-> k, value |-> store[k].val, version |-> store[k].ts]
    <2>1. /\ UNCHANGED <<store, clock, entry, txn, seen>>
          /\ iter'.phase = iter.phase
          /\ iter'.buf = IF Present(k) THEN iter.buf \cup {i} ELSE iter.buf
        BY <1>7, <1>t DEF IterateRead, TypeOK
    <2> USE <2>1 DEF DBInv
    <2>2. StampsIssued'
        BY DEF StampsIssued, Present
    <2>3. VersionNamesWrite'
        <3>1. ASSUME NEW j \in Keys, Present(k), store[j].ts = store[k].ts PROVE j = k
            BY <3>1 DEF StampsIssued
        <3> QED BY <3>1 DEF VersionNamesWrite
    <2>4. CheckStillHolds' /\ ComparedOwnVersion'
        BY DEF CheckStillHolds, ComparedOwnVersion, ReadStillCurrent, Present
    <2> QED BY <1>t, <2>2, <2>3, <2>4
<1>8. ASSUME NEW i \in iter.buf, IterateApply(i) PROVE DBInv'
    <2>1. /\ UNCHANGED <<store, clock, txn>>
          /\ iter.phase = "stream" /\ iter'.phase = "apply" /\ iter'.buf \subseteq iter.buf
          /\ entry'[Sweeper].version = i.version
          /\ seen'[Sweeper] = [key |-> i.key, val |-> i.value]
          /\ \A g \in Handles \ {Sweeper} : entry'[g] = entry[g] /\ seen'[g] = seen[g]
        BY <1>8, <1>t, DatabaseAssumption DEF IterateApply, TypeOK
    <2>2. txn[Sweeper] = NoTxn
        BY <2>1 DEF DBInv
    <2>3. StampsIssued'
        <3>1. \A g \in Handles : entry'[g].version <= clock
            BY <2>1 DEF DBInv, StampsIssued
        <3> QED BY <2>1, <3>1 DEF DBInv, StampsIssued, Present
    <2>4. VersionNamesWrite'
        <3>1. ASSUME NEW g \in Handles, NEW j \in Keys, entry'[g].version # 0,
                     store[j].ts = entry'[g].version
              PROVE  seen'[g] = [key |-> j, val |-> store[j].val]
            <4>1. CASE g # Sweeper
                BY <2>1, <3>1, <4>1 DEF DBInv, VersionNamesWrite
            <4>2. CASE g = Sweeper
                <5>1. i.key = j /\ i.value = store[j].val
                    BY <2>1, <3>1, <4>2 DEF DBInv, VersionNamesWrite
                <5> QED BY <2>1, <4>2, <5>1
            <4> QED BY <4>1, <4>2
        <3> QED BY <2>1, <3>1 DEF DBInv, VersionNamesWrite
    <2>5. CheckStillHolds'
        BY <2>1 DEF DBInv, CheckStillHolds, ReadStillCurrent, Present
    <2>6. ComparedOwnVersion'
        BY <2>1, <2>2 DEF DBInv, ComparedOwnVersion
    <2> QED BY <1>t, <2>1, <2>3, <2>4, <2>5, <2>6 DEF DBInv
<1>9. CASE IterateStart
    <2>1. iter'.buf = {} /\ iter.phase = "idle"
        BY <1>9 DEF IterateStart, IdleIter
    <2> QED BY <1>6, <1>9, <2>1 DEF IterateStart, DBInv
<1>10. CASE IterateSkip
    <2>1. iter'.buf = iter.buf
        BY <1>10, <1>t DEF IterateSkip, TypeOK
    <2> QED BY <1>6, <1>10, <2>1 DEF IterateSkip
<1>11. CASE IterateEnd
    <2>1. iter'.buf = {}
        BY <1>11 DEF IterateEnd, IdleIter
    <2> QED BY <1>6, <1>11, <2>1 DEF IterateEnd, DBInv
<1>12. CASE Close
    BY <1>6, <1>12 DEF Close, DBInv
<1>13. CASE Restart
    <2>1. /\ UNCHANGED <<store, clock>> /\ iter'.buf = {}
          /\ \A g \in Handles : txn'[g] = NoTxn /\ entry'[g].version = 0
        BY <1>13 DEF Restart, FreshEntry, IdleIter
    <2>2. StampsIssued'
        BY <1>t, <2>1 DEF DBInv, StampsIssued, Present, TypeOK
    <2>3. VersionNamesWrite'
        BY <2>1 DEF VersionNamesWrite
    <2>4. CheckStillHolds' /\ ComparedOwnVersion'
        BY <2>1 DEF CheckStillHolds, ComparedOwnVersion
    <2> QED BY <1>t, <2>1, <2>2, <2>3, <2>4, DatabaseAssumption DEF DBInv
<1>14. CASE UNCHANGED vars
    BY <1>6, <1>14 DEF vars, DBInv
<1> QED BY <1>1, <1>2, <1>3, <1>4, <1>5, <1>7, <1>8, <1>9, <1>10, <1>11, <1>12, <1>13, <1>14 DEF Next

\* The inductive invariant holds of every reachable state: versions are
\* unique, an Entry's version names the write it was read from, and a
\* transaction's check holds for as long as badger would let it commit.
THEOREM Invariant == Spec => []DBInv
BY InitInv, StepInv, PTL DEF Spec

-----------------------------------------------------------------------------
\* Only a commit changes the store, and it changes one key.
LEMMA OnlyCommitsWrite ==
    ASSUME DBInv, [Next]_vars, NEW k \in Keys, store'[k] # store[k]
    PROVE  \E h \in Handles : /\ txn[h] # NoTxn /\ txn[h].key = k
                              /\ Commit(h) /\ CommitWrites(h)
<1>1. PICK h \in Handles : Commit(h) /\ store' # store
    BY DEF Next, vars, Get, Save, New, Delete, IterateStart, IterateRead,
           IterateApply, IterateSkip, IterateEnd, Close, Restart
<1>2. CommitWrites(h)
    BY <1>1 DEF Commit, CommitConflicts, CommitFails
<1>3. txn[h].key = k
    BY <1>2 DEF CommitWrites, DBInv, TypeOK
<1> QED BY <1>1, <1>2, <1>3 DEF Commit

LEMMA StepNoLostUpdate ==
    ASSUME DBInv, [Next]_vars, NEW k \in Keys, Present(k), store'[k] # store[k]
    PROVE  \E h \in Handles :
                /\ txn[h] # NoTxn /\ txn'[h] = NoTxn
                /\ txn[h].key = k
                /\ seen[h] = [key |-> k, val |-> store[k].val]
<1>1. PICK h \in Handles : /\ txn[h] # NoTxn /\ txn[h].key = k
                           /\ Commit(h) /\ CommitWrites(h)
    BY OnlyCommitsWrite
<1>2. txn'[h] = NoTxn
    BY <1>1 DEF CommitWrites, Finish, DBInv, TypeOK
<1>3. store[k].ts = txn[h].version /\ store[k].ts > 0
    BY <1>1 DEF CommitWrites, DBInv, CheckStillHolds, StampsIssued
<1>4. store[k].ts = entry[h].version /\ entry[h].version # 0
    BY <1>1, <1>3 DEF DBInv, ComparedOwnVersion, TypeOK
<1>5. seen[h] = [key |-> k, val |-> store[k].val]
    BY <1>4 DEF DBInv, VersionNamesWrite
<1> QED BY <1>1, <1>2, <1>5

\* No update is lost: a committed write over an existing value overwrites the
\* value its caller had read from that key.
THEOREM NoUpdateIsLost == Spec => NoLostUpdate
<1>1. DBInv /\ [Next]_vars =>
        [\A k \in Keys :
           Present(k) /\ store'[k] # store[k] =>
              \E h \in Handles :
                  /\ txn[h] # NoTxn /\ txn'[h] = NoTxn
                  /\ txn[h].key = k
                  /\ seen[h] = [key |-> k, val |-> store[k].val]]_vars
    BY StepNoLostUpdate
<1> QED BY <1>1, Invariant, PTL DEF Spec, NoLostUpdate

LEMMA StepConflictIsReal ==
    ASSUME DBInv, [Next]_vars, NEW h \in Handles,
           txn[h] # NoTxn, result'[h] = "conflict", txn'[h] = NoTxn
    PROVE  store[txn[h].key].ts # txn[h].version
<1> USE DEF DBInv
<1>1. ASSUME NEW g \in Handles, NEW r, Finish(g, r), g # h PROVE FALSE
    BY <1>1 DEF Finish, TypeOK
<1>2. ASSUME NEW g \in Handles, txn[g] = NoTxn,
             UNCHANGED txn \/ (\E kind, k, x, ver : Begin(g, kind, k, x, ver))
                           \/ (\E r : Finish(g, r))
      PROVE  FALSE
    BY <1>1, <1>2 DEF Begin, TypeOK
<1>3. Commit(h)
    <2>1. ASSUME NEW g \in Handles, NEW k \in Keys, Get(g, k) PROVE FALSE
        BY <2>1 DEF Get
    <2>2. ASSUME NEW g \in Handles, NEW k \in Keys, NEW v \in Values, Save(g, k, v) PROVE FALSE
        BY <1>2, <2>2 DEF Save, Free, PutCheck
    <2>3. ASSUME NEW g \in Handles, NEW k \in Keys, NEW v \in Values, New(g, k, v) PROVE FALSE
        BY <1>2, <2>3 DEF New, Free, PutCheck
    <2>4. ASSUME NEW g \in Handles, NEW k \in Keys, Delete(g, k) PROVE FALSE
        BY <1>2, <2>4 DEF Delete, Free
    <2>5. ASSUME NEW g \in Handles, g # h, Commit(g) PROVE FALSE
        BY <1>1, <2>5 DEF Commit, CommitWrites, CommitConflicts, CommitFails
    <2>6. ~Restart
        BY DEF Restart
    <2> QED BY <2>1, <2>2, <2>3, <2>4, <2>5, <2>6
            DEF Next, vars, IterateStart, IterateRead, IterateApply, IterateSkip, IterateEnd, Close
<1>4. ~ReadStillCurrent(h)
    BY <1>3 DEF Commit, CommitWrites, CommitConflicts, CommitFails, Finish, Return, TypeOK
<1>5. txn[h].version \in Nat /\ txn[h].readTs \in Nat /\ txn[h].key \in Keys
    BY NoTxnIsNoTransaction DEF TypeOK
<1>6. store[txn[h].key].ts \in Nat
    BY <1>5 DEF TypeOK
<1> QED BY <1>4, <1>5, <1>6 DEF ReadStillCurrent, StampsIssued

\* A commit refused by badger lost its race: the stored version is no longer
\* the one its caller compared.
THEOREM ConflictsAreReal == Spec => ConflictIsReal
<1>1. DBInv /\ [Next]_vars =>
        [\A h \in Handles :
           txn[h] # NoTxn /\ result'[h] = "conflict" /\ txn'[h] = NoTxn =>
              store[txn[h].key].ts # txn[h].version]_vars
    BY StepConflictIsReal
<1> QED BY <1>1, Invariant, PTL DEF Spec, ConflictIsReal

-----------------------------------------------------------------------------
(* Refinement: each step is a step of VersionedStore or leaves it alone.   *)

LEMMA StepRefines == DBInv /\ DBInv' /\ [Next]_vars => [Abstract!VSNext]_(Abstract!vsVars)
<1> SUFFICES ASSUME DBInv, DBInv', [Next]_vars
             PROVE  Abstract!VSNext \/ UNCHANGED Abstract!vsVars
    OBVIOUS
<1> DEFINE held == [h \in Handles |-> entry[h].version]
<1> USE DEF DBInv
<1>1. ASSUME NEW h \in Handles, UNCHANGED <<store, clock>>,
             \A g \in Handles \ {h} : entry'[g] = entry[g]
      PROVE  Abstract!Hold(h)
    <2>1. entry'[h].version \in 0 .. clock
        BY <1>1 DEF StampsIssued, TypeOK
    <2>2. held' = [held EXCEPT ![h] = entry'[h].version]
        BY <1>1
    <2> QED BY <1>1, <2>1, <2>2 DEF Abstract!Hold
<1>2. ASSUME NEW h \in Handles, NEW k \in Keys, Get(h, k) PROVE Abstract!VSNext
    <2>1. Abstract!Hold(h)
        BY <1>1, <1>2 DEF Get, GetFound, GetMissing, GetError, TypeOK
    <2> QED BY <2>1 DEF Abstract!VSNext
<1>3. ASSUME NEW i \in iter.buf, IterateApply(i) PROVE Abstract!VSNext
    <2>1. Abstract!Hold(Sweeper)
        BY <1>1, <1>3, DatabaseAssumption DEF IterateApply, TypeOK
    <2> QED BY <2>1, DatabaseAssumption DEF Abstract!VSNext
<1>4. ASSUME UNCHANGED <<store, clock>>,
             \A h \in Handles : entry'[h].version = entry[h].version
      PROVE  UNCHANGED Abstract!vsVars
    BY <1>4 DEF Abstract!vsVars
<1>5. ASSUME NEW h \in Handles, Commit(h) PROVE Abstract!VSNext \/ UNCHANGED Abstract!vsVars
    <2>1. CASE CommitConflicts(h) \/ CommitFails(h)
        BY <1>4, <1>5, <2>1 DEF Commit, CommitConflicts, CommitFails
    <2>2. CASE CommitWrites(h)
        <3> DEFINE t == txn[h]
        <3>1. t \in [kind : {"put", "del"}, key : Keys, data : Contents,
                     version : Nat, readTs : Nat]
            BY <1>5, NoTxnIsNoTransaction DEF Commit, TypeOK
        <3>2. held' = held
            BY <1>5 DEF Commit
        <3>3. Abstract!Stamp(t.key, t.data)
            BY <2>2, <3>2 DEF CommitWrites, Abstract!Stamp
        <3>4. ReadStillCurrent(h) /\ t # NoTxn
            BY <1>5, <2>2 DEF CommitWrites, Commit
        <3>5. Present(t.key) => held[h] = store[t.key].ts
            BY <3>1, <3>4 DEF CheckStillHolds, ComparedOwnVersion, StampsIssued
        <3>6. CASE t.kind = "put" /\ ~Present(t.key)
            <4>1. t.data \in Values /\ Abstract!Create(t.key, t.data)
                BY <3>3, <3>4, <3>6 DEF Abstract!Create, ComparedOwnVersion, Present
            <4> QED BY <3>1, <4>1 DEF Abstract!VSNext
        <3>7. CASE t.kind = "put" /\ Present(t.key)
            <4>1. t.data \in Values /\ Abstract!Replace(h, t.key, t.data)
                BY <3>3, <3>4, <3>5, <3>7 DEF Abstract!Replace, ComparedOwnVersion, Present
            <4> QED BY <3>1, <4>1 DEF Abstract!VSNext
        <3>8. CASE t.kind = "del"
            <4>1. Present(t.key) /\ t.data = Absent
                BY <3>4, <3>8 DEF CheckStillHolds, ComparedOwnVersion
            <4>2. Abstract!Erase(h, t.key)
                BY <3>3, <3>5, <4>1 DEF Abstract!Erase, Present
            <4> QED BY <3>1, <4>2 DEF Abstract!VSNext
        <3> QED BY <3>1, <3>6, <3>7, <3>8
    <2> QED BY <1>5, <2>1, <2>2 DEF Commit
<1>6. CASE Restart
    <2>1. held' = [h \in Handles |-> 0]
        BY <1>6 DEF Restart, FreshEntry
    <2> QED BY <1>6, <2>1 DEF Restart, Abstract!VSNext, Abstract!ForgetAll
<1>7. ASSUME NEW h \in Handles, NEW k \in Keys, NEW v \in Values, Save(h, k, v)
      PROVE  UNCHANGED Abstract!vsVars
    <2>1. \A g \in Handles : entry'[g].version = entry[g].version
        BY <1>7 DEF Save, TypeOK
    <2> QED BY <1>4, <1>7, <2>1 DEF Save
<1> QED BY <1>2, <1>3, <1>4, <1>5, <1>6, <1>7
        DEF Next, vars, New, Delete, IterateStart, IterateRead, IterateSkip, IterateEnd, Close

\* The two-step transactions implement an atomic compare-and-swap register per
\* key, for any number of callers.
THEOREM ImplementsStore == Spec => ImplementsVersionedStore
<1>1. Init => Abstract!VSInit
    BY DEF Init, Abstract!VSInit, FreshEntry
<1> QED BY <1>1, StepRefines, Invariant, PTL DEF Spec, ImplementsVersionedStore, Abstract!VSSpec
=============================================================================
