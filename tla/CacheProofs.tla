----------------------------- MODULE CacheProofs ----------------------------
(***************************************************************************)
(* Proofs about Cache, for any keys, slots, hashes, requests and bound.    *)
(***************************************************************************)
EXTENDS Cache, TLAPS

-----------------------------------------------------------------------------
(* The inductive invariant.                                                *)

\* Whoever is at work on a key has one.
AtWork ==
    /\ \A w \in Writers :
         wr[w].st # "idle" => wr[w].key \in Keys /\ wr[w].slot \in Slots /\ wr[w].hash \in Hashes
    /\ \A a \in Admins : rm[a].st # "idle" => rm[a].key \in Keys
    /\ \A item \in sw.buf : item.key \in Keys
    /\ sw.st \in {"stat", "write"} => sw.cur.key \in Keys

TypeInv == TypeOK /\ AtWork

\* The sweep has read each key at most once: those in todo not yet, the others
\* are in buf, in cur, or done.
Reading == sw.st \in {"iterate", "stat", "write"}

ReadOnce ==
    /\ ~Reading => sw.buf = {}
    /\ Reading =>
        /\ sw.todo \subseteq Keys
        /\ \A item \in sw.buf : item.key \notin sw.todo
        /\ \A i, j \in sw.buf : i.key = j.key => i = j
        /\ sw.st # "iterate" => /\ sw.cur.key \notin sw.todo
                                /\ \A item \in sw.buf : item.key # sw.cur.key

\* A version names one write.
VersionNamesWrite ==
    /\ \A k \in Keys : db[k].ver <= clock
    /\ \A item \in sw.buf \cup {sw.cur} :
         /\ item.ver <= clock
         /\ \A k \in Keys : item.key = k /\ item.ver # 0 /\ db[k].ver = item.ver => db[k].val = item.val

\* While the sweep is at an item, what has no file is in missed; in particular
\* what the second look at the files of the item did not find.
LookedUp ==
    /\ sw.st \in {"stat", "write"} =>
         /\ Hashes \ files \subseteq missed
         /\ \A s \in DOMAIN sw.cur.val \ (sw.stat \cup sw.valid) : sw.cur.val[s] \in missed
    /\ sw.st = "write" => sw.stat = {}

\* All files that k names are there, or someone removed them since the
\* sweep began to list.
Sound(k) == \A s \in DOMAIN db[k].val : db[k].val[s] \in files \cup lost

\* The database still has the item, or the key is gone.
Current(item) == db[item.key] = [val |-> item.val, ver |-> item.ver] \/ db[item.key] = NoEntry

\* For all keys that no request saved behind the sweep's back: items are what
\* the database has, unless the key was removed, and keys that are done are
\* sound.  The listing and the second look hold but for files that were removed.
Thorough ==
    /\ sw.st = "prune" => sw.known = {}
    /\ sw.st \in {"list", "iterate", "stat", "write"} => sw.known \subseteq files \cup lost
    /\ Reading => \A item \in sw.buf : item.key \in late \/ Current(item)
    /\ sw.st \in {"stat", "write"} =>
         /\ sw.cur.key \in late \/ Current(sw.cur)
         /\ \A s \in sw.valid : sw.cur.val[s] \in files \cup lost
    /\ Reading => \A k \in Keys \ late :
         \/ k \in sw.todo
         \/ \E item \in sw.buf : item.key = k
         \/ sw.st # "iterate" /\ sw.cur.key = k
         \/ Sound(k)
    /\ sw.st = "swept" => sw.todo = {} /\ \A k \in Keys \ late : Sound(k)

CacheInv ==
    TypeInv /\ ReadOnce /\ VersionNamesWrite /\ LookedUp /\ Thorough

-----------------------------------------------------------------------------
(* Values: hashes by slot.                                                 *)

LEMMA ValsAreFunctions == \A v \in Vals : DOMAIN v \subseteq Slots /\ v \in [DOMAIN v -> Hashes]
BY DEF Vals

LEMMA FunctionsAreVals == \A S \in SUBSET Slots : \A v \in [S -> Hashes] : v \in Vals
BY DEF Vals

LEMMA NoValType == NoVal \in Vals /\ DOMAIN NoVal = {}
<1>1. NoVal \in [{} -> Hashes] /\ DOMAIN NoVal = {}
  BY DEF NoVal
<1> QED
  BY <1>1, FunctionsAreVals

LEMMA IdleTypes == NoEntry \in Ents /\ NoItem \in Items /\ DOMAIN NoItem.val = {}
BY NoValType DEF NoEntry, NoItem, Ents, Items

LEMMA WithType ==
    ASSUME NEW v \in Vals, NEW s \in Slots, NEW h \in Hashes
    PROVE With(v, s, h) \in Vals /\ With(v, s, h) # NoVal
<1>1. With(v, s, h) \in [DOMAIN v \cup {s} -> Hashes] /\ DOMAIN With(v, s, h) = DOMAIN v \cup {s}
  BY ValsAreFunctions DEF With
<1> QED
  BY <1>1, ValsAreFunctions, FunctionsAreVals, NoValType

LEMMA RestrictType ==
    ASSUME NEW v \in Vals, NEW S \in SUBSET DOMAIN v
    PROVE /\ Restrict(v, S) \in Vals /\ DOMAIN Restrict(v, S) = S
          /\ \A s \in S : Restrict(v, S)[s] = v[s]
          /\ S # {} => Restrict(v, S) # NoVal
<1>1. Restrict(v, S) \in [S -> Hashes] /\ DOMAIN Restrict(v, S) = S
  BY ValsAreFunctions DEF Restrict
<1>2. \A s \in S : Restrict(v, S)[s] = v[s]
  BY DEF Restrict
<1> QED
  BY <1>1, <1>2, ValsAreFunctions, FunctionsAreVals, NoValType

-----------------------------------------------------------------------------
(* The type invariant.                                                     *)

\* The parts of TypeInv by variable.
DbType == db \in [Keys -> Ents] /\ \A k \in Keys : db[k].ver # 0 <=> db[k].val # NoVal
WrType ==
    /\ wr \in [Writers -> [st : {"idle", "got", "renamed"}, key : Keys \cup {NoKey},
                           slot : Slots \cup {NoKey}, hash : Hashes \cup {NoKey}, ent : Ents]]
    /\ \A w \in Writers :
         wr[w].st # "idle" => wr[w].key \in Keys /\ wr[w].slot \in Slots /\ wr[w].hash \in Hashes
RmType ==
    /\ rm \in [Admins -> [st : {"idle", "got", "files"}, key : Keys \cup {NoKey}, ent : Ents]]
    /\ \A a \in Admins : rm[a].st # "idle" => rm[a].key \in Keys
SwType ==
    /\ sw \in [st : {"idle", "prune", "list", "iterate", "stat", "write", "swept", "ended"},
               todo : SUBSET (Hashes \cup Keys), known : SUBSET Hashes,
               buf : SUBSET Items, cur : Items, stat : SUBSET Slots, valid : SUBSET Slots]
    /\ sw.stat \cup sw.valid \subseteq DOMAIN sw.cur.val
    /\ \A item \in sw.buf : item.key \in Keys
    /\ sw.st \in {"stat", "write"} => sw.cur.key \in Keys
RestType ==
    /\ clock \in Nat /\ files \subseteq Hashes
    /\ missed \subseteq Hashes /\ lost \subseteq Hashes /\ late \subseteq Keys
    /\ tick \in BOOLEAN
    /\ life \in {"open", "stopping", "closed"}

LEMMA TypeInvParts ==
    /\ TypeInv <=> DbType /\ WrType /\ RmType /\ SwType /\ RestType
    /\ TypeInv' <=> (DbType /\ WrType /\ RmType /\ SwType /\ RestType)'
BY DEF TypeInv, TypeOK, AtWork, DbType, WrType, RmType, SwType, RestType

LEMMA IdleSweepType ==
    ASSUME NEW st \in {"idle", "prune", "swept", "ended"}, sw' = [IdleSweep EXCEPT !.st = st]
    PROVE SwType' /\ sw'.st = st /\ sw'.todo = {} /\ sw'.buf = {} /\ sw'.cur = NoItem
BY IdleTypes DEF IdleSweep, SwType

LEMMA SaveType ==
    ASSUME TypeInv, NEW k \in Keys, NEW v \in Vals, v # NoVal, DoSave(k, v)
    PROVE DbType' /\ clock' \in Nat
BY DEF TypeInv, TypeOK, DoSave, DbType, Ents

LEMMA DeleteType ==
    ASSUME TypeInv, NEW k \in Keys, DoDelete(k)
    PROVE DbType'
BY IdleTypes DEF TypeInv, TypeOK, DoDelete, DbType, NoEntry

LEMMA InitTypeInv == Init => TypeInv
<1> SUFFICES ASSUME Init PROVE TypeInv
  OBVIOUS
<1>1. PICK left \in Before \cup {NoVal} :
        /\ db = [k \in Keys |-> [val |-> left, ver |-> IF left = NoVal THEN 0 ELSE 1]]
        /\ clock = IF left = NoVal THEN 0 ELSE 1
        /\ files = Range(left)
  BY DEF Init
<1>2. left \in Vals
  BY CacheAssumption, FunctionsAreVals, NoValType
<1>3. DbType
  BY <1>1, <1>2 DEF DbType, Ents
<1>4. files \subseteq Hashes
  BY <1>1, <1>2, ValsAreFunctions DEF Range
<1>5. WrType /\ RmType
  BY IdleTypes DEF Init, WrType, RmType, IdleWriter, IdleAdmin
<1>6. SwType
  BY IdleTypes DEF Init, SwType, IdleSweep
<1>7. RestType
  BY <1>1, <1>4 DEF Init, RestType
<1> QED
  BY <1>3, <1>5, <1>6, <1>7, TypeInvParts

LEMMA WriterType ==
    ASSUME TypeInv, NEW w \in Writers,
           \/ \E k \in Keys, s \in Slots, h \in Hashes : WriterGet(w, k, s, h)
           \/ WriterRename(w) \/ WriterSave(w)
    PROVE TypeInv'
<1>0. DbType /\ WrType /\ RmType /\ SwType /\ RestType
  BY TypeInvParts
<1>1. CASE \E k \in Keys, s \in Slots, h \in Hashes : WriterGet(w, k, s, h)
  <2>1. PICK k \in Keys, s \in Slots, h \in Hashes : WriterGet(w, k, s, h)
    BY <1>1
  <2>2. WrType'
    BY <1>0, <2>1 DEF WriterGet, WrType, DbType
  <2>3. (DbType /\ RmType /\ SwType /\ RestType)'
    BY <1>0, <2>1 DEF WriterGet, DbType, RmType, SwType, RestType
  <2> QED
    BY <2>2, <2>3, TypeInvParts
<1>2. CASE WriterRename(w)
  <2>1. WrType'
    BY <1>0, <1>2 DEF WriterRename, WrType
  <2>2. (DbType /\ RmType /\ SwType)'
    BY <1>0, <1>2 DEF WriterRename, DbType, RmType, SwType
  <2>3. RestType'
    BY <1>0, <1>2 DEF WriterRename, RestType, WrType
  <2> QED
    BY <2>1, <2>2, <2>3, TypeInvParts
<1>3. CASE WriterSave(w)
  <2> DEFINE r == wr[w]
             val == IF r.ent.ver = 0 THEN With(NoVal, r.slot, r.hash) ELSE With(r.ent.val, r.slot, r.hash)
  <2>1. r.key \in Keys /\ r.slot \in Slots /\ r.hash \in Hashes /\ r.ent.val \in Vals
    BY <1>0, <1>3 DEF WriterSave, WrType, Ents
  <2>2. val \in Vals /\ val # NoVal
    BY <2>1, WithType, NoValType
  <2>3. DbType' /\ clock' \in Nat
    <3>1. CASE DoSave(r.key, val)
      BY <3>1, <2>1, <2>2, SaveType
    <3>2. CASE UNCHANGED <<db, clock>>
      BY <3>2, <1>0 DEF DbType, RestType
    <3> QED
      BY <3>1, <3>2, <1>3 DEF WriterSave
  <2>4. WrType'
    BY <1>0, <1>3, IdleTypes DEF WriterSave, WrType, IdleWriter
  <2>5. (RmType /\ SwType)'
    BY <1>0, <1>3 DEF WriterSave, RmType, SwType
  <2>6. RestType'
    BY <1>0, <1>3, <2>1, <2>3 DEF WriterSave, RestType
  <2> QED
    BY <2>3, <2>4, <2>5, <2>6, TypeInvParts
<1> QED
  BY <1>1, <1>2, <1>3

LEMMA RemoveType ==
    ASSUME TypeInv, NEW a \in Admins,
           (\E k \in Keys : RemoveGet(a, k)) \/ RemoveDelete(a) \/ RemoveFile(a)
    PROVE TypeInv'
<1>0. DbType /\ WrType /\ RmType /\ SwType /\ RestType
  BY TypeInvParts
<1>1. CASE \E k \in Keys : RemoveGet(a, k)
  <2>1. PICK k \in Keys : RemoveGet(a, k)
    BY <1>1
  <2>2. RmType'
    BY <1>0, <2>1 DEF RemoveGet, RmType, DbType
  <2>3. (DbType /\ WrType /\ SwType /\ RestType)'
    BY <1>0, <2>1 DEF RemoveGet, DbType, WrType, SwType, RestType
  <2> QED
    BY <2>2, <2>3, TypeInvParts
<1>2. CASE RemoveDelete(a)
  <2>1. rm[a].key \in Keys
    BY <1>0, <1>2 DEF RemoveDelete, RmType
  <2>2. DbType'
    <3>1. CASE DoDelete(rm[a].key)
      BY <3>1, <2>1, DeleteType
    <3>2. CASE UNCHANGED db
      BY <3>2, <1>0 DEF DbType
    <3> QED
      BY <3>1, <3>2, <1>2 DEF RemoveDelete
  <2>3. RmType'
    BY <1>0, <1>2, IdleTypes DEF RemoveDelete, RmType, IdleAdmin
  <2>4. (WrType /\ SwType)'
    BY <1>0, <1>2 DEF RemoveDelete, WrType, SwType
  <2>5. RestType'
    BY <1>0, <1>2 DEF RemoveDelete, RestType
  <2> QED
    BY <2>2, <2>3, <2>4, <2>5, TypeInvParts
<1>3. CASE RemoveFile(a)
  <2>1. PICK s \in DOMAIN rm[a].ent.val :
          LET h == rm[a].ent.val[s]
              rest == DOMAIN rm[a].ent.val \ {s}
              left == [rm[a].ent EXCEPT !.val = Restrict(@, rest)]
          IN  /\ \/ UNCHANGED <<files, missed, lost>>
                 \/ files' = files \ {h} /\ Notice(h)
              /\ rm' = [rm EXCEPT ![a] = IF rest = {} THEN IdleAdmin
                                         ELSE [@ EXCEPT !.ent = left]]
    BY <1>3 DEF RemoveFile
  <2> DEFINE val == rm[a].ent.val
             rest == DOMAIN val \ {s}
  <2>2. val \in Vals /\ rest \in SUBSET DOMAIN val
    BY <1>0 DEF RmType, Ents
  <2>3. Restrict(val, rest) \in Vals /\ val[s] \in Hashes
    BY <2>2, RestrictType, ValsAreFunctions
  <2> HIDE DEF rest
  <2>4. RmType'
    <3>1. rm' = [rm EXCEPT ![a] = IF rest = {} THEN IdleAdmin
                                  ELSE [rm[a] EXCEPT !.ent = [rm[a].ent EXCEPT !.val = Restrict(val, rest)]]]
      BY <2>1 DEF rest
    <3>2. rm[a].st = "files" /\ rm[a].key \in Keys
      BY <1>0, <1>3 DEF RemoveFile, RmType
    <3>3. [rm[a] EXCEPT !.ent = [rm[a].ent EXCEPT !.val = Restrict(val, rest)]] \in
             [st : {"files"}, key : Keys, ent : Ents]
      BY <1>0, <3>2, <2>3 DEF RmType, Ents
    <3> QED
      BY <1>0, <3>1, <3>3, IdleTypes DEF RmType, IdleAdmin
  <2>5. RestType'
    BY <1>0, <1>3, <2>1, <2>3 DEF RemoveFile, RestType, Notice
  <2>6. (DbType /\ WrType /\ SwType)'
    BY <1>0, <1>3 DEF RemoveFile, DbType, WrType, SwType
  <2> QED
    BY <2>4, <2>5, <2>6, TypeInvParts
<1> QED
  BY <1>1, <1>2, <1>3

\* A step of the management goroutine that writes nothing.
LEMMA ManageType ==
    ASSUME TypeInv, SwType', UNCHANGED <<db, clock, wr, rm, life>>,
           files' \subseteq Hashes, missed' \subseteq Hashes, lost' \subseteq Hashes, late' \subseteq Keys,
           tick' \in BOOLEAN
    PROVE TypeInv'
<1>1. (DbType /\ WrType /\ RmType)'
  BY TypeInvParts DEF DbType, WrType, RmType
<1>2. RestType'
  BY TypeInvParts DEF RestType
<1> QED
  BY <1>1, <1>2, TypeInvParts

LEMMA SweepType == TypeInv /\ (ManageStop \/ SweepStep) => TypeInv'
<1> SUFFICES ASSUME TypeInv, ManageStop \/ SweepStep PROVE TypeInv'
  OBVIOUS
<1>0. DbType /\ SwType /\ RestType
  BY TypeInvParts
<1>idle. IdleSweep = [IdleSweep EXCEPT !.st = "idle"]
  BY DEF IdleSweep
<1>1. CASE SweepStart
  BY <1>0, <1>1, IdleSweepType, ManageType DEF SweepStart, Others, RestType
<1>2. CASE ManageStop
  BY <1>0, <1>2, IdleSweepType, ManageType DEF ManageStop, Others, RestType
<1>3. ASSUME NEW h \in Hashes, SweepEvict(h) PROVE TypeInv'
  <2>1. SwType'
    BY <1>0, <1>3 DEF SweepEvict, SwType
  <2> QED
    BY <1>0, <1>3, <2>1, ManageType DEF SweepEvict, Others, RestType
<1>4. CASE SweepPruned
  <2>1. SwType'
    <3>1. CASE sw' = [sw EXCEPT !.st = "list", !.todo = Hashes]
      BY <1>0, <3>1 DEF SwType
    <3>2. CASE sw' = IdleSweep
      BY <3>2, <1>idle, IdleSweepType
    <3> QED
      BY <1>4, <3>1, <3>2 DEF SweepPruned
  <2> QED
    BY <1>0, <1>4, <2>1, ManageType DEF SweepPruned, Others, Forget, RestType
<1>5. ASSUME NEW h \in Hashes, SweepList(h) PROVE TypeInv'
  <2>1. SwType'
    BY <1>0, <1>5 DEF SweepList, SwType
  <2> QED
    BY <1>0, <1>5, <2>1, ManageType DEF SweepList, Others, RestType
<1>6. CASE SweepListed
  <2>1. SwType'
    <3>1. CASE sw' = [sw EXCEPT !.st = "iterate", !.todo = Keys]
      BY <1>0, <3>1 DEF SwType
    <3>2. CASE sw' = [sw EXCEPT !.st = "iterate", !.todo = Keys, !.known = {}]
      BY <1>0, <3>2 DEF SwType
    <3> QED
      BY <1>6, <3>1, <3>2 DEF SweepListed
  <2> QED
    BY <1>0, <1>6, <2>1, ManageType DEF SweepListed, Others, RestType
<1>7. ASSUME NEW k \in Keys, SweepRead(k) PROVE TypeInv'
  <2>1. [key |-> k, val |-> db[k].val, ver |-> db[k].ver] \in Items
    BY <1>0 DEF DbType, Ents, Items
  <2>2. SwType'
    <3> DEFINE buf == IF db[k].ver = 0 THEN sw.buf
                      ELSE sw.buf \cup {[key |-> k, val |-> db[k].val, ver |-> db[k].ver]}
    <3>1. buf \in SUBSET Items /\ \A item \in buf : item.key \in Keys
      BY <1>0, <2>1 DEF SwType
    <3>2. sw' = [sw EXCEPT !.todo = sw.todo \ {k}, !.buf = buf]
      BY <1>0, <1>7 DEF SweepRead
    <3> HIDE DEF buf
    <3> QED
      BY <1>0, <3>1, <3>2 DEF SwType
  <2> QED
    BY <1>0, <1>7, <2>2, ManageType DEF SweepRead, Others, RestType
<1>8. ASSUME NEW item \in sw.buf, SweepApply(item) PROVE TypeInv'
  <2>1. item \in Items /\ item.key \in Keys /\ DOMAIN item.val \subseteq Slots
    BY <1>0, ValsAreFunctions DEF SwType, Items
  <2>2. SwType'
    BY <1>0, <1>8, <2>1 DEF SweepApply, SwType
  <2> QED
    BY <1>0, <1>8, <2>2, ManageType DEF SweepApply, Others, RestType
<1>9. ASSUME NEW s \in sw.stat, SweepStat(s) PROVE TypeInv'
  <2>1. SwType'
    <3>1. CASE sw' = [sw EXCEPT !.stat = @ \ {s},
                                !.valid = IF sw.cur.val[s] \in files THEN @ \cup {s} ELSE @]
      BY <1>0, <3>1 DEF SwType
    <3>2. CASE sw' = IdleSweep
      BY <3>2, <1>idle, IdleSweepType
    <3> QED
      BY <1>9, <3>1, <3>2 DEF SweepStat
  <2> QED
    BY <1>0, <1>9, <2>1, ManageType DEF SweepStat, Others, Forget, RestType
<1>next. sw' = NextItem => SwType'
  BY <1>0, IdleTypes DEF NextItem, SwType
<1>10. CASE SweepDecide
  <2>1. SwType'
    BY <1>0, <1>10, <1>next DEF SweepDecide, SwType
  <2> QED
    BY <1>0, <1>10, <2>1, ManageType DEF SweepDecide, Others, RestType
<1>11. CASE SweepWrite
  <2>1. sw.cur.key \in Keys /\ sw.cur.val \in Vals /\ sw.valid \in SUBSET DOMAIN sw.cur.val
    BY <1>0, <1>11 DEF SweepWrite, SwType, Items
  <2>2. SwType'
    BY <1>11, <1>next, <1>idle, IdleSweepType DEF SweepWrite
  <2>3. DbType' /\ clock' \in Nat
    <3>1. CASE DoDelete(sw.cur.key) /\ UNCHANGED clock
      BY <3>1, <2>1, <1>0, DeleteType DEF RestType
    <3>2. CASE sw.valid # {} /\ DoSave(sw.cur.key, Restrict(sw.cur.val, sw.valid))
      BY <3>2, <2>1, RestrictType, SaveType
    <3>3. CASE UNCHANGED <<db, clock>>
      BY <3>3, <1>0 DEF DbType, RestType
    <3> QED
      BY <1>11, <3>1, <3>2, <3>3 DEF SweepWrite
  <2>4. (WrType /\ RmType)'
    BY <1>11, TypeInvParts DEF SweepWrite, Others, WrType, RmType
  <2>5. RestType'
    BY <1>0, <1>11, <2>3 DEF SweepWrite, Others, Forget, RestType
  <2> QED
    BY <2>2, <2>3, <2>4, <2>5, TypeInvParts
<1>12. CASE SweepEnd
  BY <1>0, <1>12, IdleSweepType, ManageType DEF SweepEnd, Others, RestType
<1>13. CASE SweepReturn
  BY <1>0, <1>13, <1>idle, IdleSweepType, ManageType DEF SweepReturn, Others, Forget, RestType
<1> QED
  BY <1>1, <1>2, <1>3, <1>4, <1>5, <1>6, <1>7, <1>8, <1>9, <1>10, <1>11, <1>12, <1>13 DEF SweepStep

LEMMA NextTypeInv == TypeInv /\ [Next]_vars => TypeInv'
<1> SUFFICES ASSUME TypeInv, [Next]_vars PROVE TypeInv'
  OBVIOUS
<1>0. DbType /\ WrType /\ RmType /\ SwType /\ RestType
  BY TypeInvParts
<1>1. CASE TickerFires \/ CloseSignal \/ CloseDatabase
  <2>1. (DbType /\ WrType /\ RmType /\ SwType)'
    BY <1>0, <1>1 DEF TickerFires, CloseSignal, CloseDatabase, DbType, WrType, RmType, SwType
  <2>2. RestType'
    BY <1>0, <1>1 DEF TickerFires, CloseSignal, CloseDatabase, RestType
  <2> QED
    BY <2>1, <2>2, TypeInvParts
<1>2. CASE Restart
  <2>1. DbType'
    BY <1>0, <1>2 DEF Restart, DbType
  <2>2. WrType' /\ RmType'
    BY <1>2, IdleTypes DEF Restart, WrType, RmType, IdleWriter, IdleAdmin
  <2>3. SwType'
    BY <1>2, IdleTypes DEF Restart, SwType, IdleSweep
  <2>4. RestType'
    BY <1>0, <1>2 DEF Restart, Forget, RestType
  <2> QED
    BY <2>1, <2>2, <2>3, <2>4, TypeInvParts
<1>3. CASE UNCHANGED vars
  <2>1. (DbType /\ WrType /\ RmType /\ SwType /\ RestType)'
    BY <1>0, <1>3 DEF vars, DbType, WrType, RmType, SwType, RestType
  <2> QED
    BY <2>1, TypeInvParts
<1> QED
  BY <1>1, <1>2, <1>3, WriterType, RemoveType, SweepType DEF Next

(* The variables of Cache keep their types and an entry names at least one *)
(* response, whatever the keys, responses and requests are: no Save or     *)
(* Delete of the sweep or of a request leaves an empty entry.              *)
(* (pruneDatabaseEntry, Save, Remove)                                      *)
THEOREM TypeCorrect == Spec => []TypeOK
<1>1. TypeInv => TypeOK
  BY DEF TypeInv
<1> QED
  BY <1>1, InitTypeInv, NextTypeInv, PTL DEF Spec

-----------------------------------------------------------------------------
(* What the sweep has read.                                                *)

\* Only the management goroutine moves sw, and a restart.
LEMMA SweepChanges ==
    [Next]_vars => sw' = sw \/ sw' = IdleSweep \/ ManageStop \/ SweepStep
BY DEF Next, vars, WriterGet, WriterRename, WriterSave, RemoveGet, RemoveDelete, RemoveFile,
       TickerFires, CloseSignal, CloseDatabase, Restart

LEMMA IdleSweepFields ==
    \A st : LET new == [IdleSweep EXCEPT !.st = st]
            IN  /\ new.st = st /\ new.todo = {} /\ new.known = {} /\ new.buf = {}
                /\ new.cur = NoItem /\ new.stat = {} /\ new.valid = {}
BY DEF IdleSweep

LEMMA IdleSweepIsIdle == IdleSweep = [IdleSweep EXCEPT !.st = "idle"]
BY DEF IdleSweep

LEMMA OnceStep == TypeInv /\ ReadOnce /\ [Next]_vars => ReadOnce'
<1> SUFFICES ASSUME TypeInv, ReadOnce, [Next]_vars PROVE ReadOnce'
  OBVIOUS
<1>0. SwType
  BY TypeInvParts
<1>a. CASE sw' = sw
  BY <1>a DEF ReadOnce, Reading
<1>b. ASSUME NEW st \in {"idle", "prune", "swept", "ended"}, sw' = [IdleSweep EXCEPT !.st = st]
      PROVE ReadOnce'
  BY <1>b, IdleSweepFields DEF ReadOnce, Reading
<1>c. CASE sw' = IdleSweep
  BY <1>b, <1>c, IdleSweepIsIdle
<1>next. CASE Reading /\ sw' = NextItem
  BY <1>0, <1>next DEF ReadOnce, Reading, NextItem, SwType
<1>1. CASE SweepStart \/ ManageStop \/ SweepEnd \/ SweepReturn
  BY <1>1, <1>b, <1>c DEF SweepStart, ManageStop, SweepEnd, SweepReturn
<1>2. ASSUME NEW h \in Hashes, SweepEvict(h) \/ SweepList(h) PROVE ReadOnce'
  BY <1>0, <1>2, <1>a DEF SweepEvict, SweepList, ReadOnce, Reading, SwType
<1>3. CASE SweepPruned \/ SweepListed
  <2>1. CASE SweepPruned
    BY <1>0, <2>1, <1>c DEF SweepPruned, ReadOnce, Reading, SwType
  <2>2. CASE SweepListed
    BY <1>0, <2>2 DEF SweepListed, ReadOnce, Reading, SwType
  <2> QED
    BY <1>3, <2>1, <2>2
<1>4. ASSUME NEW k \in Keys, SweepRead(k) PROVE ReadOnce'
  <2> DEFINE new == [key |-> k, val |-> db[k].val, ver |-> db[k].ver]
  <2>1. /\ sw'.st = sw.st /\ sw'.cur = sw.cur /\ sw'.todo = sw.todo \ {k}
        /\ sw'.buf = sw.buf \/ sw'.buf = sw.buf \cup {new}
    BY <1>0, <1>4 DEF SweepRead, SwType
  <2>2. Reading /\ k \in sw.todo /\ new.key = k
    BY <1>4 DEF SweepRead, Reading
  <2> HIDE DEF new
  <2> QED
    BY <2>1, <2>2 DEF ReadOnce, Reading
<1>5. ASSUME NEW item \in sw.buf, SweepApply(item) PROVE ReadOnce'
  BY <1>0, <1>5 DEF SweepApply, ReadOnce, Reading, SwType
<1>6. ASSUME NEW s \in sw.stat, SweepStat(s) PROVE ReadOnce'
  BY <1>0, <1>6, <1>c DEF SweepStat, ReadOnce, Reading, SwType
<1>7. CASE SweepDecide
  BY <1>0, <1>7, <1>next DEF SweepDecide, ReadOnce, Reading, SwType
<1>8. CASE SweepWrite
  BY <1>8, <1>c, <1>next DEF SweepWrite, Reading
<1> QED
  BY <1>a, <1>c, <1>1, <1>2, <1>3, <1>4, <1>5, <1>6, <1>7, <1>8, SweepChanges DEF SweepStep

\* Items that were there before, and writes that get a version of their own.
LEMMA WriteVersions ==
    ASSUME TypeInv, VersionNamesWrite, NEW k \in Keys, NEW v,
           DoSave(k, v) \/ (DoDelete(k) /\ UNCHANGED clock),
           sw'.buf \cup {sw'.cur} \subseteq sw.buf \cup {sw.cur, NoItem}
    PROVE VersionNamesWrite'
<1>1. /\ clock \in Nat /\ clock' \in Nat /\ clock <= clock'
      /\ \A j \in Keys : db[j].ver \in Nat
      /\ \A item \in sw.buf \cup {sw.cur} : item.ver \in Nat
      /\ NoItem.ver = 0
  BY TypeInvParts DEF DbType, SwType, RestType, Ents, Items, NoItem, DoSave, DoDelete
<1>2. \A j \in Keys : /\ db'[j] = db[j] \/ (db'[j].ver = clock + 1 /\ clock' = clock + 1) \/ db'[j].ver = 0
                      /\ db'[j].ver <= clock'
  BY <1>1, TypeInvParts DEF DbType, DoSave, DoDelete, NoEntry, VersionNamesWrite
<1>3. ASSUME NEW item \in sw'.buf \cup {sw'.cur}
      PROVE /\ item.ver <= clock'
            /\ \A j \in Keys : item.key = j /\ item.ver # 0 /\ db'[j].ver = item.ver => db'[j].val = item.val
  BY <1>1, <1>2, <1>3 DEF VersionNamesWrite
<1> QED
  BY <1>2, <1>3 DEF VersionNamesWrite

LEMMA ReadVersions ==
    ASSUME TypeInv, VersionNamesWrite, UNCHANGED <<db, clock>>,
           \A item \in sw'.buf \cup {sw'.cur} :
               \/ item \in sw.buf \cup {sw.cur, NoItem}
               \/ \E k \in Keys : item = [key |-> k, val |-> db[k].val, ver |-> db[k].ver]
    PROVE VersionNamesWrite'
<1>1. NoItem.ver = 0 /\ clock \in Nat
  BY TypeInvParts DEF RestType, NoItem
<1> QED
  BY <1>1 DEF VersionNamesWrite

LEMMA VersionStep == TypeInv /\ VersionNamesWrite /\ [Next]_vars => VersionNamesWrite'
<1> SUFFICES ASSUME TypeInv, VersionNamesWrite, [Next]_vars PROVE VersionNamesWrite'
  OBVIOUS
<1>0. SwType /\ WrType /\ RmType
  BY TypeInvParts
<1>a. CASE UNCHANGED <<db, clock, sw>>
  BY <1>a, ReadVersions
<1>b. CASE UNCHANGED <<db, clock>> /\ sw'.buf = {} /\ sw'.cur = NoItem
  BY <1>b, ReadVersions
<1>c. CASE UNCHANGED <<db, clock>> /\ sw' = IdleSweep
  BY <1>c, <1>b, IdleSweepIsIdle, IdleSweepFields
<1>d. CASE UNCHANGED <<db, clock>> /\ sw'.buf = sw.buf /\ sw'.cur = sw.cur
  BY <1>d, ReadVersions
<1>next. sw' = NextItem => sw'.buf = sw.buf /\ sw'.cur = NoItem
  BY <1>0 DEF NextItem, SwType
<1>1. ASSUME NEW w \in Writers, WriterSave(w) PROVE VersionNamesWrite'
  <2>1. wr[w].key \in Keys
    BY <1>0, <1>1 DEF WriterSave, WrType
  <2> QED
    BY <1>1, <2>1, <1>a, WriteVersions DEF WriterSave
<1>2. ASSUME NEW a \in Admins, RemoveDelete(a) PROVE VersionNamesWrite'
  <2>1. rm[a].key \in Keys
    BY <1>0, <1>2 DEF RemoveDelete, RmType
  <2> QED
    BY <1>2, <2>1, <1>a, WriteVersions DEF RemoveDelete
<1>3. CASE SweepWrite
  <2>1. sw.cur.key \in Keys
    BY <1>0, <1>3 DEF SweepWrite, SwType
  <2>2. CASE sw' = NextItem
    BY <1>3, <2>1, <2>2, <1>next, <1>d, WriteVersions, IdleSweepIsIdle DEF SweepWrite, IdleSweep, NextItem
  <2>3. CASE sw' # NextItem
    BY <1>3, <2>3, <1>c DEF SweepWrite
  <2> QED
    BY <2>2, <2>3
<1>4. CASE SweepStart \/ ManageStop \/ SweepEnd \/ SweepReturn
  BY <1>4, <1>b, <1>c, IdleSweepFields DEF SweepStart, ManageStop, SweepEnd, SweepReturn
<1>5. ASSUME NEW h \in Hashes, SweepEvict(h) \/ SweepList(h) PROVE VersionNamesWrite'
  BY <1>0, <1>5, <1>a, <1>d DEF SweepEvict, SweepList, SwType
<1>6. CASE SweepPruned \/ SweepListed
  BY <1>0, <1>6, <1>c, <1>d DEF SweepPruned, SweepListed, SwType
<1>7. ASSUME NEW k \in Keys, SweepRead(k) PROVE VersionNamesWrite'
  <2> DEFINE new == [key |-> k, val |-> db[k].val, ver |-> db[k].ver]
  <2>1. sw'.cur = sw.cur /\ (sw'.buf = sw.buf \/ sw'.buf = sw.buf \cup {new})
    BY <1>0, <1>7 DEF SweepRead, SwType
  <2> QED
    BY <1>7, <2>1, ReadVersions DEF SweepRead
<1>8. ASSUME NEW item \in sw.buf, SweepApply(item) PROVE VersionNamesWrite'
  <2>1. sw'.cur \in {item, sw.cur} /\ sw'.buf = sw.buf \ {item}
    BY <1>0, <1>8 DEF SweepApply, SwType
  <2> QED
    BY <1>8, <2>1, ReadVersions DEF SweepApply
<1>9. ASSUME NEW s \in sw.stat, SweepStat(s) PROVE VersionNamesWrite'
  BY <1>0, <1>9, <1>c, <1>d DEF SweepStat, SwType
<1>10. CASE SweepDecide
  BY <1>0, <1>10, <1>next, <1>d, ReadVersions DEF SweepDecide, SwType
<1>11. CASE Restart
  BY <1>11, <1>c DEF Restart
<1>12. CASE \/ \E w \in Writers, k \in Keys, s \in Slots, h \in Hashes : WriterGet(w, k, s, h)
            \/ \E w \in Writers : WriterRename(w)
            \/ \E a \in Admins, k \in Keys : RemoveGet(a, k)
            \/ \E a \in Admins : RemoveFile(a)
            \/ TickerFires \/ CloseSignal \/ CloseDatabase \/ UNCHANGED vars
  BY <1>12, <1>a DEF WriterGet, WriterRename, RemoveGet, RemoveFile, TickerFires, CloseSignal,
                     CloseDatabase, vars
<1> QED
  BY <1>1, <1>2, <1>3, <1>4, <1>5, <1>6, <1>7, <1>8, <1>9, <1>10, <1>11, <1>12 DEF Next, SweepStep

-----------------------------------------------------------------------------
(* The second look at the files.                                           *)

LEMMA LookedUpStep == TypeInv /\ LookedUp /\ [Next]_vars => LookedUp'
<1> SUFFICES ASSUME TypeInv, LookedUp, [Next]_vars PROVE LookedUp'
  OBVIOUS
<1>0. SwType /\ files \subseteq Hashes
  BY TypeInvParts DEF RestType
<1>a. CASE sw'.st \notin {"stat", "write"}
  BY <1>a DEF LookedUp
<1>b. CASE sw' = IdleSweep
  BY <1>a, <1>b DEF IdleSweep
<1>c. CASE UNCHANGED <<sw, missed>> /\ files \subseteq files'
  BY <1>c DEF LookedUp
<1>1. CASE \/ \E w \in Writers, k \in Keys, s \in Slots, h \in Hashes : WriterGet(w, k, s, h)
           \/ \E w \in Writers : WriterRename(w) \/ WriterSave(w)
           \/ \E a \in Admins, k \in Keys : RemoveGet(a, k)
           \/ \E a \in Admins : RemoveDelete(a)
           \/ TickerFires \/ CloseSignal \/ CloseDatabase \/ UNCHANGED vars
  BY <1>1, <1>c DEF WriterGet, WriterRename, WriterSave, RemoveGet, RemoveDelete, TickerFires,
                    CloseSignal, CloseDatabase, vars
<1>2. ASSUME NEW a \in Admins, RemoveFile(a) PROVE LookedUp'
  <2>1. sw' = sw
    BY <1>2 DEF RemoveFile
  <2>2. PICK h : \/ UNCHANGED <<files, missed>>
                 \/ files' = files \ {h} /\ Notice(h)
    BY <1>2 DEF RemoveFile
  <2> QED
    BY <1>a, <1>c, <2>1, <2>2 DEF Notice, LookedUp
<1>3. CASE SweepStart \/ ManageStop \/ SweepEnd
  BY <1>3, <1>a, IdleSweepFields DEF SweepStart, ManageStop, SweepEnd
<1>4. CASE SweepReturn \/ Restart
  BY <1>4, <1>b DEF SweepReturn, Restart
<1>5. CASE SweepPruned \/ SweepListed
  BY <1>0, <1>5, <1>a, <1>b DEF SweepPruned, SweepListed, SwType
<1>6. ASSUME NEW h \in Hashes, SweepEvict(h) \/ SweepList(h) PROVE LookedUp'
  BY <1>0, <1>6, <1>a DEF SweepEvict, SweepList, SwType
<1>7. ASSUME NEW k \in Keys, SweepRead(k) PROVE LookedUp'
  <2>1. /\ sw'.st = sw.st /\ sw'.cur = sw.cur /\ sw'.stat = sw.stat /\ sw'.valid = sw.valid
        /\ UNCHANGED <<files, missed>>
    BY <1>0, <1>7 DEF SweepRead, SwType
  <2> QED
    BY <2>1 DEF LookedUp
<1>8. ASSUME NEW item \in sw.buf, SweepApply(item) PROVE LookedUp'
  <2>1. CASE hasMissing(item)
    <3>1. sw'.st = "stat" /\ sw'.cur = item /\ sw'.stat = DOMAIN item.val
      BY <1>0, <1>8, <2>1 DEF SweepApply, SwType
    <3>2. missed' = Hashes \ files /\ files' = files
      BY <1>8, <2>1 DEF SweepApply
    <3> QED
      BY <3>1, <3>2 DEF LookedUp
  <2>2. CASE ~hasMissing(item)
    BY <1>0, <1>8, <2>2, <1>a DEF SweepApply, SwType
  <2> QED
    BY <2>1, <2>2
<1>9. ASSUME NEW s \in sw.stat, SweepStat(s) PROVE LookedUp'
  <2>1. CASE /\ sw' = [sw EXCEPT !.stat = @ \ {s},
                                 !.valid = IF sw.cur.val[s] \in files THEN @ \cup {s} ELSE @]
             /\ UNCHANGED missed
    <3>1. /\ sw'.st = "stat" /\ sw'.cur = sw.cur /\ sw'.stat = sw.stat \ {s}
          /\ sw'.valid = IF sw.cur.val[s] \in files THEN sw.valid \cup {s} ELSE sw.valid
      BY <1>0, <1>9, <2>1 DEF SweepStat, SwType
    <3>2. sw.cur.val[s] \in Hashes
      BY <1>0, ValsAreFunctions DEF SwType, Items
    <3>3. sw.cur.val[s] \notin files => sw.cur.val[s] \in missed
      BY <1>9, <3>2 DEF SweepStat, LookedUp
    <3> QED
      BY <1>9, <2>1, <3>1, <3>3 DEF SweepStat, LookedUp
  <2>2. CASE sw' = IdleSweep
    BY <2>2, <1>b
  <2> QED
    BY <1>9, <2>1, <2>2 DEF SweepStat
<1>next. CASE sw' = NextItem
  BY <1>0, <1>next, <1>a DEF NextItem, SwType
<1>10. CASE SweepDecide
  <2>1. CASE sw' = [sw EXCEPT !.st = "write"]
    BY <1>0, <1>10, <2>1 DEF SweepDecide, LookedUp, SwType
  <2> QED
    BY <1>10, <1>next, <2>1 DEF SweepDecide
<1>11. CASE SweepWrite
  BY <1>11, <1>b, <1>next DEF SweepWrite
<1> QED
  BY <1>1, <1>2, <1>3, <1>4, <1>5, <1>6, <1>7, <1>8, <1>9, <1>10, <1>11 DEF Next, SweepStep

-----------------------------------------------------------------------------
(* The sweep finds what dangles.                                           *)

\* Files go only under notice, once the sweep has begun to list them.
Noticed == files \cup lost \subseteq files' \cup lost'

\* A step of the others: what they write is late, removed, or still to be read.
LEMMA ThoroughElsewhere ==
    ASSUME TypeInv, ReadOnce, Thorough, sw' = sw, late \subseteq late',
           sw.st \in {"list", "iterate", "stat", "write", "swept"} => Noticed,
           \A k \in Keys : db'[k] = db[k] \/ db'[k] = NoEntry \/ k \in late' \/ ~Passed(k)
    PROVE Thorough'
<1>0. SwType
  BY TypeInvParts
<1>1. ASSUME NEW k \in Keys, Passed(k), k \notin late', Sound(k)
      PROVE Sound(k)'
  <2>1. Noticed
    BY <1>1 DEF Passed
  <2>2. CASE db'[k] = db[k]
    BY <1>1, <2>1, <2>2 DEF Sound, Noticed
  <2>3. CASE db'[k] = NoEntry
    BY <2>3, NoValType DEF Sound, NoEntry
  <2> QED
    BY <1>1, <2>2, <2>3
<1>2. ASSUME NEW item, item.key \in Keys, Passed(item.key), item.key \in late \/ Current(item)
      PROVE item.key \in late' \/ Current(item)'
  BY <1>2 DEF Current
<1>3. CASE Reading
  <2>1. \A k \in Keys : k \notin sw.todo => Passed(k)
    BY <1>3 DEF Reading, Passed
  <2>2. \A item \in sw.buf : item.key \in Keys /\ Passed(item.key)
    BY <1>0, <1>3, <2>1 DEF ReadOnce, SwType
  <2>3. sw.st # "iterate" => sw.cur.key \in Keys /\ Passed(sw.cur.key)
    BY <1>0, <1>3, <2>1 DEF ReadOnce, SwType, Reading
  <2>4. \A item \in sw.buf : item.key \in late' \/ Current(item)'
    BY <1>2, <1>3, <2>2 DEF Thorough
  <2>5. sw.st # "iterate" => /\ sw.cur.key \in late' \/ Current(sw.cur)'
                             /\ \A s \in sw.valid : sw.cur.val[s] \in files' \cup lost'
    BY <1>2, <1>3, <2>3 DEF Thorough, Reading, Noticed
  <2>6. \A k \in Keys \ late' :
          \/ k \in sw.todo
          \/ \E item \in sw.buf : item.key = k
          \/ sw.st # "iterate" /\ sw.cur.key = k
          \/ Sound(k)'
    BY <1>1, <1>3, <2>1 DEF Thorough
  <2>7. sw.known \subseteq files' \cup lost'
    BY <1>3 DEF Thorough, Reading, Noticed
  <2> QED
    BY <1>3, <2>4, <2>5, <2>6, <2>7 DEF Thorough, Reading, Current
<1>4. CASE sw.st = "swept"
  <2>1. sw.todo = {} /\ \A k \in Keys : Passed(k)
    BY <1>4 DEF Thorough, Passed
  <2>2. \A k \in Keys \ late' : Sound(k)'
    BY <1>1, <1>4, <2>1 DEF Thorough
  <2> QED
    BY <1>4, <2>1, <2>2 DEF Thorough, Reading
<1>5. CASE sw.st = "list"
  BY <1>5 DEF Thorough, Reading, Noticed
<1>6. CASE sw.st \in {"idle", "prune", "ended"}
  BY <1>6 DEF Thorough, Reading
<1> QED
  BY <1>0, <1>3, <1>4, <1>5, <1>6 DEF SwType, Reading

LEMMA ThoroughStep == TypeInv /\ ReadOnce /\ Thorough /\ [Next]_vars => Thorough'
<1> SUFFICES ASSUME TypeInv, ReadOnce, Thorough, [Next]_vars PROVE Thorough'
  OBVIOUS
<1>0. SwType /\ DbType /\ WrType /\ RmType
  BY TypeInvParts
<1>b. CASE sw'.st \in {"idle", "ended"}
  BY <1>b DEF Thorough, Reading
<1>c. CASE sw' = IdleSweep
  BY <1>b, <1>c DEF IdleSweep
<1>1. CASE \/ \E w \in Writers, k \in Keys, s \in Slots, h \in Hashes : WriterGet(w, k, s, h)
           \/ \E w \in Writers : WriterRename(w)
           \/ \E a \in Admins, k \in Keys : RemoveGet(a, k)
           \/ TickerFires \/ CloseSignal \/ CloseDatabase \/ UNCHANGED vars
  <2>1. UNCHANGED <<db, sw, lost, late>> /\ files \subseteq files'
    BY <1>1 DEF WriterGet, WriterRename, RemoveGet, TickerFires, CloseSignal, CloseDatabase, vars
  <2> QED
    BY <2>1, ThoroughElsewhere DEF Noticed
<1>2. ASSUME NEW w \in Writers, WriterSave(w) PROVE Thorough'
  <2>1. UNCHANGED <<sw, files, lost>> /\ late \subseteq late'
    BY <1>2 DEF WriterSave
  <2>2. wr[w].key \in Keys
    BY <1>0, <1>2 DEF WriterSave, WrType
  <2>3. \A k \in Keys : db'[k] = db[k] \/ k \in late' \/ ~Passed(k)
    BY <1>0, <1>2, <2>2 DEF WriterSave, DoSave, DbType
  <2> QED
    BY <2>1, <2>3, ThoroughElsewhere DEF Noticed
<1>3. ASSUME NEW a \in Admins, RemoveDelete(a) PROVE Thorough'
  <2>1. UNCHANGED <<sw, files, lost, late>>
    BY <1>3 DEF RemoveDelete
  <2>2. rm[a].key \in Keys
    BY <1>0, <1>3 DEF RemoveDelete, RmType
  <2>3. \A k \in Keys : db'[k] = db[k] \/ db'[k] = NoEntry
    BY <1>0, <1>3, <2>2 DEF RemoveDelete, DoDelete, DbType
  <2> QED
    BY <2>1, <2>3, ThoroughElsewhere DEF Noticed
<1>4. ASSUME NEW a \in Admins, RemoveFile(a) PROVE Thorough'
  <2>1. UNCHANGED <<sw, db, late>>
    BY <1>4 DEF RemoveFile
  <2>2. PICK h : UNCHANGED <<files, lost>> \/ (files' = files \ {h} /\ Notice(h))
    BY <1>4 DEF RemoveFile
  <2>3. sw.st \in {"list", "iterate", "stat", "write", "swept"} => Noticed
    BY <2>2 DEF Notice, Noticed
  <2> QED
    BY <2>1, <2>3, ThoroughElsewhere
<1>5. CASE ManageStop \/ SweepReturn \/ Restart
  BY <1>5, <1>b, <1>c, IdleSweepFields DEF ManageStop, SweepReturn, Restart
<1>6. CASE SweepStart
  BY <1>6, IdleSweepFields DEF SweepStart, Thorough, Reading
<1>7. ASSUME NEW h \in Hashes, SweepEvict(h) PROVE Thorough'
  BY <1>7 DEF SweepEvict, Thorough, Reading
<1>8. CASE SweepPruned
  <2>1. CASE sw' = [sw EXCEPT !.st = "list", !.todo = Hashes]
    <3>1. sw'.st = "list" /\ sw'.known = {}
      BY <1>0, <1>8, <2>1 DEF SweepPruned, Thorough, SwType
    <3> QED
      BY <3>1 DEF Thorough, Reading
  <2> QED
    BY <1>8, <2>1, <1>c DEF SweepPruned
<1>9. ASSUME NEW h \in Hashes, SweepList(h) PROVE Thorough'
  <2>1. sw'.st = "list" /\ sw'.known \subseteq files' \cup lost'
    BY <1>0, <1>9 DEF SweepList, Thorough, SwType
  <2> QED
    BY <2>1 DEF Thorough, Reading
<1>10. CASE SweepListed
  <2>1. /\ sw'.st = "iterate" /\ sw'.known \subseteq files' \cup lost'
        /\ sw'.todo = Keys /\ sw'.buf = {}
    BY <1>0, <1>10 DEF SweepListed, Thorough, ReadOnce, Reading, SwType
  <2> QED
    BY <2>1 DEF Thorough, Reading
\* The steps below leave the files and the histories of this invariant alone.
<1>same. ASSUME NEW k \in Keys, UNCHANGED <<files, lost>>, db'[k] = db[k], Sound(k) PROVE Sound(k)'
  BY <1>same DEF Sound
<1>11. ASSUME NEW k \in Keys, SweepRead(k) PROVE Thorough'
  <2> DEFINE new == [key |-> k, val |-> db[k].val, ver |-> db[k].ver]
  <2>1. /\ sw'.st = sw.st /\ sw'.cur = sw.cur /\ sw'.known = sw.known /\ sw'.valid = sw.valid
        /\ sw'.todo = sw.todo \ {k}
        /\ sw'.buf = IF db[k].ver = 0 THEN sw.buf ELSE sw.buf \cup {new}
    BY <1>0, <1>11 DEF SweepRead, SwType
  <2>2. Reading /\ UNCHANGED <<db, files, lost, late>>
    BY <1>11 DEF SweepRead, Reading
  <2>3. new.key = k /\ Current(new)
    BY <1>0 DEF DbType, Ents, Current
  <2>4. db[k].ver = 0 => Sound(k)
    BY <1>0, NoValType DEF DbType, Sound
  <2> HIDE DEF new
  <2>5. \A item \in sw'.buf : item.key \in late \/ Current(item)
    BY <2>1, <2>2, <2>3 DEF Thorough
  <2>6. \A j \in Keys \ late : \/ j \in sw'.todo
                               \/ \E item \in sw'.buf : item.key = j
                               \/ sw'.st # "iterate" /\ sw'.cur.key = j
                               \/ Sound(j)
    BY <2>1, <2>2, <2>3, <2>4 DEF Thorough
  <2>7. \A item : Current(item) => Current(item)'
    BY <2>2 DEF Current
  <2> QED
    BY <1>same, <2>1, <2>2, <2>5, <2>6, <2>7 DEF Thorough, Reading
<1>12. ASSUME NEW item \in sw.buf, SweepApply(item) PROVE Thorough'
  <2>1. /\ UNCHANGED <<db, files, lost, late>> /\ sw.st = "iterate"
        /\ sw'.buf = sw.buf \ {item} /\ sw'.known = sw.known /\ sw'.todo = sw.todo
    BY <1>0, <1>12 DEF SweepApply, SwType
  <2>2. (item.key \in late \/ Current(item)) /\ item.key \in Keys
    BY <1>0, <2>1 DEF Thorough, Reading, SwType
  <2>3. \A j \in Keys \ late : \/ j \in sw'.todo
                               \/ \E i \in sw'.buf : i.key = j
                               \/ item.key = j
                               \/ Sound(j)
    BY <2>1 DEF Thorough, Reading
  <2>4. \A i : Current(i) => Current(i)'
    BY <2>1 DEF Current
  <2>5. CASE hasMissing(item)
    <3>1. sw'.st = "stat" /\ sw'.cur = item /\ sw'.valid = {}
      BY <1>0, <1>12, <2>5 DEF SweepApply, SwType
    <3> QED
      BY <1>same, <2>1, <2>2, <2>3, <2>4, <3>1 DEF Thorough, Reading
  <2>6. CASE ~hasMissing(item)
    <3>1. sw'.st = "iterate"
      BY <1>0, <1>12, <2>1, <2>6 DEF SweepApply, SwType
    <3>2. \A s \in DOMAIN item.val : item.val[s] \in files \cup lost
      BY <2>1, <2>6 DEF hasMissing, Thorough
    <3>3. item.key \notin late => Sound(item.key)
      BY <2>2, <3>2, NoValType DEF Sound, Current, NoEntry
    <3> QED
      BY <1>same, <2>1, <2>2, <2>3, <2>4, <3>1, <3>3 DEF Thorough, Reading
  <2> QED
    BY <2>5, <2>6
\* The sweep stays at its item.
<1>stay. ASSUME UNCHANGED <<db, files, lost, late>>,
                sw.st = "stat", sw'.st \in {"stat", "write"}, sw'.cur = sw.cur, sw'.known = sw.known,
                sw'.todo = sw.todo, sw'.buf = sw.buf,
                \A s \in sw'.valid : s \in sw.valid \/ sw.cur.val[s] \in files
         PROVE Thorough'
  <2>1. \A i : Current(i) => Current(i)'
    BY <1>stay DEF Current
  <2> QED
    BY <1>stay, <1>same, <2>1 DEF Thorough, Reading
<1>13. ASSUME NEW s \in sw.stat, SweepStat(s) PROVE Thorough'
  <2>1. CASE /\ sw' = [sw EXCEPT !.stat = @ \ {s},
                                 !.valid = IF sw.cur.val[s] \in files THEN @ \cup {s} ELSE @]
             /\ UNCHANGED <<lost, late>>
    <3>1. /\ sw'.st = "stat" /\ sw'.cur = sw.cur /\ sw'.known = sw.known
          /\ sw'.todo = sw.todo /\ sw'.buf = sw.buf
          /\ sw'.valid = IF sw.cur.val[s] \in files THEN sw.valid \cup {s} ELSE sw.valid
      BY <1>0, <1>13, <2>1 DEF SweepStat, SwType
    <3>2. UNCHANGED <<db, files, lost, late>> /\ sw.st = "stat"
      BY <1>13, <2>1 DEF SweepStat
    <3> QED
      BY <1>stay, <3>1, <3>2
  <2> QED
    BY <1>13, <2>1, <1>c DEF SweepStat
\* The key of the callback's item is done.
<1>next. ASSUME NEW k \in Keys, k = sw.cur.key, sw' = NextItem, sw.st \in {"stat", "write"},
                UNCHANGED <<files, lost, late>>,
                \A j \in Keys : j = k \/ db'[j] = db[j],
                k \in late \/ Sound(k)'
         PROVE Thorough'
  <2>1. /\ sw'.st = "iterate" /\ sw'.todo = sw.todo /\ sw'.buf = sw.buf /\ sw'.known = sw.known
    BY <1>0, <1>next DEF NextItem, SwType
  <2>2. Reading
    BY <1>next DEF Reading
  <2>3. \A item \in sw.buf : item.key \in late \/ Current(item)'
    <3> SUFFICES ASSUME NEW item \in sw.buf, item.key \notin late
                 PROVE Current(item)'
      OBVIOUS
    <3>1. item.key \in Keys /\ item.key # k
      BY <1>0, <1>next, <2>2 DEF ReadOnce, Reading, SwType
    <3>2. Current(item)
      BY <2>2 DEF Thorough
    <3> QED
      BY <1>next, <3>1, <3>2 DEF Current
  <2>4. \A j \in Keys \ late : \/ j \in sw'.todo
                               \/ \E item \in sw'.buf : item.key = j
                               \/ Sound(j)'
    <3> SUFFICES ASSUME NEW j \in Keys \ late, j \notin sw.todo, ~\E item \in sw.buf : item.key = j
                 PROVE Sound(j)'
      BY <2>1
    <3>1. CASE j = k
      BY <1>next, <3>1
    <3>2. CASE j # k
      <4>1. Sound(j)
        BY <1>next, <2>2, <3>2 DEF Thorough
      <4> QED
        BY <1>next, <1>same, <3>2, <4>1
    <3> QED
      BY <3>1, <3>2
  <2>5. sw'.known \subseteq files' \cup lost'
    BY <1>next, <2>1 DEF Thorough
  <2> QED
    BY <1>next, <2>1, <2>3, <2>4, <2>5 DEF Thorough, Reading
<1>14. CASE SweepDecide
  <2>0. UNCHANGED <<db, files, lost, late>> /\ sw.st = "stat"
    BY <1>14 DEF SweepDecide
  <2>1. CASE sw' = NextItem /\ sw.valid = DOMAIN sw.cur.val
    <3>1. PICK k \in Keys : k = sw.cur.key
      BY <1>0, <2>0 DEF SwType
    <3>2. k \in late \/ Sound(k)
      BY <2>0, <2>1, <3>1, NoValType DEF Thorough, Sound, Current, NoEntry
    <3> QED
      BY <2>0, <2>1, <3>1, <3>2, <1>same, <1>next
  <2>2. CASE sw' = [sw EXCEPT !.st = "write"]
    <3>1. /\ sw'.st = "write" /\ sw'.cur = sw.cur /\ sw'.known = sw.known
          /\ sw'.todo = sw.todo /\ sw'.buf = sw.buf /\ sw'.valid = sw.valid
      BY <1>0, <2>2 DEF SwType
    <3> QED
      BY <1>stay, <2>0, <3>1
  <2> QED
    BY <1>14, <2>1, <2>2 DEF SweepDecide
<1>15. CASE SweepWrite
  <2>0. PICK k \in Keys : k = sw.cur.key
    BY <1>0, <1>15 DEF SweepWrite, SwType
  <2>1. /\ sw.cur.val \in Vals /\ sw.valid \in SUBSET DOMAIN sw.cur.val
        /\ UNCHANGED files /\ sw.st = "write"
    BY <1>0, <1>15 DEF SweepWrite, SwType, Items
  <2>2. CASE DoDelete(k) /\ sw' = NextItem /\ UNCHANGED <<lost, late>>
    <3>1. db'[k].val = NoVal /\ \A j \in Keys : j = k \/ db'[j] = db[j]
      BY <1>0, <2>2 DEF DoDelete, NoEntry, DbType
    <3>2. Sound(k)'
      BY <3>1, NoValType DEF Sound
    <3> QED
      BY <2>0, <2>1, <2>2, <3>1, <3>2, <1>next
  <2>3. CASE DoSave(k, Restrict(sw.cur.val, sw.valid)) /\ sw' = NextItem /\ UNCHANGED <<lost, late>>
    <3>1. /\ db'[k].val = Restrict(sw.cur.val, sw.valid)
          /\ \A j \in Keys : j = k \/ db'[j] = db[j]
      BY <1>0, <2>3 DEF DoSave, DbType
    <3>2. \A s \in sw.valid : sw.cur.val[s] \in files \cup lost
      BY <2>1 DEF Thorough
    <3>3. Sound(k)'
      BY <2>1, <2>3, <3>1, <3>2, RestrictType DEF Sound
    <3> QED
      BY <2>0, <2>1, <2>3, <3>1, <3>3, <1>next
  <2> QED
    BY <1>15, <2>0, <2>2, <2>3, <1>c DEF SweepWrite
<1>16. CASE SweepEnd
  <2>1. sw'.st = "swept" /\ sw'.todo = {} /\ UNCHANGED <<db, files, lost, late>>
    BY <1>16, IdleSweepFields DEF SweepEnd
  <2>2. \A k \in Keys \ late : Sound(k)
    BY <1>16 DEF SweepEnd, Thorough, Reading
  <2> QED
    BY <1>same, <2>1, <2>2 DEF Thorough, Reading
<1> QED
  BY <1>1, <1>2, <1>3, <1>4, <1>5, <1>6, <1>7, <1>8, <1>9, <1>10, <1>11, <1>12, <1>13, <1>14,
     <1>15, <1>16 DEF Next, SweepStep

-----------------------------------------------------------------------------
LEMMA InitCache == Init => CacheInv
<1> SUFFICES ASSUME Init PROVE CacheInv
  OBVIOUS
<1>1. sw.st = "idle" /\ sw.buf = {} /\ sw.cur = NoItem
  BY DEF Init, IdleSweep
<1>2. ReadOnce /\ LookedUp /\ Thorough
  BY <1>1 DEF ReadOnce, Reading, LookedUp, Thorough
<1>3. VersionNamesWrite
  BY <1>1 DEF Init, VersionNamesWrite, NoItem
<1> QED
  BY <1>2, <1>3, InitTypeInv DEF CacheInv

LEMMA NextCache == CacheInv /\ [Next]_vars => CacheInv'
BY NextTypeInv, OnceStep, VersionStep, LookedUpStep, ThoroughStep DEF CacheInv

(* However many requests and administrators write meanwhile: a sweep that  *)
(* runs to its end leaves an entry that names a missing file only where a  *)
(* request saved the entry after the sweep read it, or where the file was  *)
(* removed after the sweep began to list.  (CleanupOldEntries,             *)
(* removeUnusedDatabaseEntries, pruneDatabaseEntry)                        *)
THEOREM SweepIsThorough == Spec => []SweepLeavesNoDangling
<1>1. CacheInv => SweepLeavesNoDangling
  BY DEF CacheInv, Thorough, SweepLeavesNoDangling, Sound
<1> QED
  BY <1>1, InitCache, NextCache, PTL DEF Spec

\* Of the steps that find the sweep about to write, only the write itself moves
\* both the sweep and the database.
LEMMA OnlySweepWrites ==
    ASSUME [Next]_vars, sw.st = "write", sw' # sw, db' # db
    PROVE SweepWrite
BY DEF Next, vars, WriterGet, WriterRename, WriterSave, RemoveGet, RemoveDelete, RemoveFile,
       TickerFires, CloseSignal, CloseDatabase, Restart, ManageStop, SweepStep, SweepStart,
       SweepPruned, SweepListed, SweepDecide, SweepEnd, SweepReturn, SweepEvict, SweepList,
       SweepRead, SweepApply, SweepStat

(* However many requests store responses and administrators remove keys    *)
(* while the sweep runs: it takes only responses out of the database whose *)
(* file was missing after it took the entry up, and leaves the others as   *)
(* they are, also those whose body or entry came while it ran.             *)
(* (pruneDatabaseEntry, and the version that its Save and Delete carry)    *)
THEOREM SweepIsCareful == Spec => SweepDropsOnlyMissing
<1> DEFINE Drops == \A k \in Keys :
                      sw.st = "write" /\ sw' # sw /\ db'[k] # db[k] =>
                        \A s \in DOMAIN db[k].val :
                            \/ s \in DOMAIN db'[k].val /\ db'[k].val[s] = db[k].val[s]
                            \/ db[k].val[s] \in missed
<1>1. CacheInv /\ [Next]_vars => [Drops]_vars
  <2> SUFFICES ASSUME CacheInv, [Next]_vars, NEW k \in Keys,
                      sw.st = "write", sw' # sw, db'[k] # db[k], NEW s \in DOMAIN db[k].val
               PROVE \/ s \in DOMAIN db'[k].val /\ db'[k].val[s] = db[k].val[s]
                     \/ db[k].val[s] \in missed
    OBVIOUS
  <2>1. SweepWrite
    BY OnlySweepWrites
  <2>2. DbType /\ SwType
    BY TypeInvParts DEF CacheInv
  <2>3. sw.cur.key \in Keys /\ sw.cur.val \in Vals /\ sw.valid \in SUBSET DOMAIN sw.cur.val
    BY <2>1, <2>2 DEF SweepWrite, SwType, Items
  <2>4. k = sw.cur.key /\ ~Moved(k, sw.cur.ver)
    BY <2>1, <2>2, <2>3 DEF SweepWrite, DoSave, DoDelete, DbType, CanSave, CanDelete
  <2>5. db[k].ver # 0
    BY <2>2, NoValType DEF DbType
  <2>6. db[k].val = sw.cur.val
    BY <2>4, <2>5 DEF Moved, CacheInv, VersionNamesWrite
  <2>7. s \notin sw.valid => db[k].val[s] \in missed
    BY <2>6 DEF CacheInv, LookedUp
  <2>8. CASE s \in sw.valid
    <3>1. DoSave(k, Restrict(sw.cur.val, sw.valid))
      BY <2>1, <2>4, <2>8 DEF SweepWrite
    <3>2. db'[k].val = Restrict(sw.cur.val, sw.valid)
      BY <2>2, <3>1 DEF DoSave, DbType
    <3> QED
      BY <2>3, <2>6, <2>8, <3>2, RestrictType
  <2> QED
    BY <2>7, <2>8
<1> QED
  BY <1>1, InitCache, NextCache, PTL DEF Spec, SweepDropsOnlyMissing
=============================================================================
