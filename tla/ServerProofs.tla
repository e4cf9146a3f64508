---------------------------- MODULE ServerProofs ----------------------------
(***************************************************************************)
(* Proofs about Server, for any servers, configurations and bound.         *)
(***************************************************************************)
EXTENDS Server, FiniteSetTheorems, TLAPS

\* After the end nothing is left of the process.
OverIsClean ==
    proc = "over" => \A s \in Servers : srv[s] = "none" /\ shut[s] = "no" /\ req[s] = "none"

\* A server that was never started handles nothing; one that is shut down takes
\* no new request, and reports when it has none left or is late.
ShutIsShut ==
    \A s \in Servers :
        /\ srv[s] = "none" => req[s] = "none"
        /\ shut[s] # "no" => srv[s] # "listening"
        /\ shut[s] = "reported" => req[s] = "none" \/ s \in late

\* ListenAndServe returns when all have reported, and New may panic before any
\* was started.
AllReported == proc \in Returned => \A s \in Servers : srv[s] = "none" \/ shut[s] = "reported"

OrderInv == TypeOK /\ OverIsClean /\ ShutIsShut /\ AllReported

\* Requests that total has in the field already and mem has not.
Unserved == {s \in Servers \ {Admin} : req[s] \in {"download", "size"}}
Undownloaded == {s \in Servers \ {Admin} : req[s] = "download"}

Balance ==
    proc # "over" =>
        /\ mem.counted = total.counted
        /\ mem.served + Cardinality(Unserved) = total.served
        /\ mem.downloaded + Cardinality(Undownloaded) = total.downloaded

\* A Shutdown that was late makes ListenAndServe panic.
LatePanics == (late # {} => how = "panic") /\ (proc = "over" => late = {})

\* In an orderly end the counters do not move while they are encoded, nor later.
SaveInv ==
    /\ proc = "counted" /\ how = "exit" => snap.counted = mem.counted
    /\ proc = "encoding" /\ how = "exit" => snap.counted = mem.counted /\ snap.served = mem.served
    /\ saved => proc \in {"closing", "closed", "over"}
    /\ OrderlyEndKeepsCounts

CountInv == OrderInv /\ Balance /\ LatePanics /\ SaveInv

-----------------------------------------------------------------------------
(* The type invariant.                                                     *)

LEMMA ZeroType == Zero \in Counters
BY DEF Zero, Counters

LEMMA InitType == Init => TypeOK
BY ZeroType DEF Init, TypeOK

LEMMA AddType ==
    ASSUME NEW c \in Counters, NEW n \in Nat, NEW field \in {"counted", "served", "downloaded"}
    PROVE Add(c, n, field) \in Counters
BY DEF Add, Counters

LEMMA OwnType == \A s : Own(s) \in Nat
BY DEF Own

LEMMA EndType == TypeOK /\ End /\ how' \in {"exit", "panic", "died", "refused"}
                 /\ total' \in Counters => TypeOK'
<1> SUFFICES ASSUME TypeOK, End, how' \in {"exit", "panic", "died", "refused"}, total' \in Counters
             PROVE TypeOK'
  OBVIOUS
<1>1. stop' \in BOOLEAN /\ saved' \in BOOLEAN
  BY DEF TypeOK, End
<1>2. srv' \in [Servers -> {"none", "starting", "binding", "listening", "sending", "ended"}]
  BY DEF End
<1>3. /\ shut' \in [Servers -> {"no", "called", "reported"}]
      /\ req' \in [Servers -> {"none", "serving", "download", "size"}]
      /\ late' \in SUBSET Servers
  BY DEF End
<1> QED
  BY <1>1, <1>2, <1>3, ZeroType DEF TypeOK, End

LEMMA DiesType == TypeOK /\ Dies => TypeOK'
BY EndType, ZeroType DEF Dies

LEMMA GoroutineType ==
    ASSUME TypeOK, NEW s \in Servers, NEW from,
           NEW to \in {"none", "starting", "binding", "listening", "sending", "ended"},
           Goroutine(s, from, to)
    PROVE TypeOK'
BY DEF TypeOK, Goroutine

LEMMA MainType == TypeOK /\ Main => TypeOK'
<1> SUFFICES ASSUME TypeOK, Main PROVE TypeOK'
  OBVIOUS
<1>1. CASE Notify
  BY <1>1 DEF Notify, At, TypeOK
<1>2. CASE SelectStop
  BY <1>2 DEF SelectStop, At, TypeOK
<1>3. CASE Return
  BY <1>3 DEF Return, At, TypeOK, Returned
<1>4. CASE SaveCreate
  BY <1>4 DEF SaveCreate, At, TypeOK, Returned
<1>5. CASE SaveEncode
  BY <1>5 DEF SaveEncode, At, TypeOK, Returned, Counters
<1>9. CASE SaveServed
  BY <1>9 DEF SaveServed, At, TypeOK, Returned, Counters
<1>6. CASE SaveWrite
  <2>1. snap' \in Counters
    BY <1>6 DEF SaveWrite, At, TypeOK, Counters
  <2>2. file' \in Counters \cup {Absent, Empty} /\ saved' \in BOOLEAN
    BY <1>6, <2>1 DEF SaveWrite, TypeOK
  <2> QED
    BY <1>6, <2>1, <2>2 DEF SaveWrite, At, TypeOK, Returned
<1>7. CASE CloseCache
  BY <1>7 DEF CloseCache, At, TypeOK, Returned
<1>8. CASE Exit
  BY <1>8, EndType DEF Exit, TypeOK
<1> QED
  BY <1>1, <1>2, <1>3, <1>4, <1>5, <1>6, <1>7, <1>8, <1>9 DEF Main

LEMMA StoppingType == \A s \in Servers : TypeOK /\ Stopping(s) => TypeOK'
BY DEF Stopping, SelectError, Shutdown, ShutdownDone, ShutdownTimeout, At, TypeOK

LEMMA ServingType == \A s \in Servers : TypeOK /\ Serving(s) => TypeOK'
BY GoroutineType, DiesType DEF Serving, Listen, Serve, Fail, SendPanics

LEMMA HandlingType == \A s \in Servers : TypeOK /\ Handling(s) => TypeOK'
<1> SUFFICES ASSUME NEW s \in Servers, TypeOK, Handling(s) PROVE TypeOK'
  OBVIOUS
<1>1. CASE Accept(s)
  BY <1>1 DEF Accept, Request, TypeOK
<1>2. CASE CountState(s)
  <2>1. PICK fromCache \in BOOLEAN :
          /\ Request(s, "serving", IF fromCache THEN "size" ELSE "download")
          /\ mem' = Add(mem, Own(s), "counted")
          /\ total' = Add(Add(Add(total, Own(s), "counted"), Own(s), "served"),
                          IF fromCache THEN 0 ELSE Own(s), "downloaded")
    BY <1>2 DEF CountState
  <2>2. mem' \in Counters /\ total' \in Counters
    BY <2>1, AddType, OwnType DEF TypeOK
  <2> QED
    BY <2>1, <2>2 DEF Request, TypeOK
<1>3. CASE CountDownload(s)
  <2>1. mem' \in Counters
    BY <1>3, AddType, OwnType DEF CountDownload, TypeOK
  <2> QED
    BY <1>3, <2>1 DEF CountDownload, Request, TypeOK
<1>4. CASE CountServed(s)
  <2>1. mem' \in Counters
    BY <1>4, AddType, OwnType DEF CountServed, TypeOK
  <2> QED
    BY <1>4, <2>1 DEF CountServed, Request, TypeOK
<1> QED
  BY <1>1, <1>2, <1>3, <1>4 DEF Handling

LEMMA NextType == TypeOK /\ [Next]_vars => TypeOK'
<1> SUFFICES ASSUME TypeOK, [Next]_vars PROVE TypeOK'
  OBVIOUS
<1>1. CASE StartRefused
  BY <1>1 DEF StartRefused, TypeOK
<1>2. CASE Start
  <2>1. Loaded \in Counters
    BY <1>2, ZeroType DEF Start, Loaded, TypeOK
  <2>2. /\ proc' \in {"launching", "returned"} /\ how' \in {"exit", "panic"}
        /\ srv' \in [Servers -> {"none", "starting", "binding", "listening", "sending", "ended"}]
    BY <1>2 DEF Start, New, TypeOK
  <2>3. /\ mem' \in Counters /\ total' \in Counters /\ saved' \in BOOLEAN
        /\ UNCHANGED <<conf, stop, shut, late, req, snap, file>>
    BY <1>2, <2>1 DEF Start
  <2> QED
    BY <2>2, <2>3 DEF TypeOK, Returned
<1>3. CASE RemoveFile
  BY <1>3 DEF RemoveFile, TypeOK
<1>4. CASE Kill
  BY <1>4, DiesType DEF Kill
<1>5. CASE Signal
  BY <1>5, DiesType DEF Signal, TypeOK
<1>6. CASE UNCHANGED vars
  BY <1>6 DEF vars, TypeOK
<1> QED
  BY <1>1, <1>2, <1>3, <1>4, <1>5, <1>6, MainType, StoppingType, ServingType, HandlingType DEF Next

(* The variables of Server keep their types, whatever the servers, the     *)
(* configurations and the bound on requests.  (startServer,                *)
(* ListenAndServe)                                                         *)
THEOREM TypeCorrect == Spec => []TypeOK
BY InitType, NextType, PTL DEF Spec

-----------------------------------------------------------------------------
(* The order of shutdown.                                                  *)

\* The end of the process leaves nothing behind.
LEMMA EndOrder == End => (OverIsClean /\ ShutIsShut /\ AllReported)'
BY DEF End, OverIsClean, ShutIsShut, AllReported, Returned

LEMMA GoroutineOrder ==
    ASSUME OrderInv, NEW s \in Servers, NEW from, NEW to,
           Goroutine(s, from, to), from # "none", to # "none",
           to = "listening" => shut[s] = "no"
    PROVE (OverIsClean /\ ShutIsShut /\ AllReported)'
BY DEF OrderInv, OverIsClean, ShutIsShut, AllReported, Goroutine, TypeOK

LEMMA StartOrder == OrderInv /\ Start => (OverIsClean /\ ShutIsShut /\ AllReported)'
<1> SUFFICES ASSUME OrderInv, Start PROVE (OverIsClean /\ ShutIsShut /\ AllReported)'
  OBVIOUS
<1>1. CASE Registers
  BY <1>1 DEF Start, New, OrderInv, OverIsClean, ShutIsShut, AllReported, TypeOK, Returned
<1>2. CASE ~Registers
  BY <1>2 DEF Start, New, OrderInv, OverIsClean, ShutIsShut, AllReported, TypeOK, Returned
<1> QED
  BY <1>1, <1>2

LEMMA MainOrder == OrderInv /\ Main => (OverIsClean /\ ShutIsShut /\ AllReported)'
<1> SUFFICES ASSUME OrderInv, Main PROVE (OverIsClean /\ ShutIsShut /\ AllReported)'
  OBVIOUS
<1> USE DEF OrderInv, OverIsClean, ShutIsShut, AllReported, Returned, At
<1>1. CASE Notify
  BY <1>1 DEF Notify
<1>2. CASE SelectStop
  BY <1>2 DEF SelectStop
<1>3. CASE Return
  BY <1>3 DEF Return
<1>4. CASE SaveCreate
  BY <1>4 DEF SaveCreate
<1>5. CASE SaveEncode
  BY <1>5 DEF SaveEncode
<1>9. CASE SaveServed
  BY <1>9 DEF SaveServed
<1>6. CASE SaveWrite
  BY <1>6 DEF SaveWrite
<1>7. CASE CloseCache
  BY <1>7 DEF CloseCache
<1>8. CASE Exit
  BY <1>8, EndOrder DEF Exit
<1> QED
  BY <1>1, <1>2, <1>3, <1>4, <1>5, <1>6, <1>7, <1>8, <1>9 DEF Main

LEMMA StoppingOrder ==
    \A s \in Servers : OrderInv /\ Stopping(s) => (OverIsClean /\ ShutIsShut /\ AllReported)'
<1> SUFFICES ASSUME NEW s \in Servers, OrderInv, Stopping(s)
             PROVE (OverIsClean /\ ShutIsShut /\ AllReported)'
  OBVIOUS
<1> USE DEF OrderInv, OverIsClean, ShutIsShut, AllReported, Returned, At, TypeOK
<1>1. CASE SelectError(s)
  BY <1>1 DEF SelectError
<1>2. CASE Shutdown(s)
  BY <1>2 DEF Shutdown
<1>3. CASE ShutdownDone(s)
  BY <1>3 DEF ShutdownDone
<1>4. CASE ShutdownTimeout(s)
  BY <1>4 DEF ShutdownTimeout
<1> QED
  BY <1>1, <1>2, <1>3, <1>4 DEF Stopping

LEMMA ServingOrder ==
    \A s \in Servers : OrderInv /\ Serving(s) => (OverIsClean /\ ShutIsShut /\ AllReported)'
<1> SUFFICES ASSUME NEW s \in Servers, OrderInv, Serving(s)
             PROVE (OverIsClean /\ ShutIsShut /\ AllReported)'
  OBVIOUS
<1>1. CASE Listen(s)
  BY <1>1, GoroutineOrder DEF Listen
<1>2. CASE Serve(s)
  BY <1>2, GoroutineOrder DEF Serve
<1>3. CASE Fail(s)
  BY <1>3, GoroutineOrder DEF Fail
<1>4. CASE SendPanics(s)
  BY <1>4, EndOrder DEF SendPanics, Dies
<1> QED
  BY <1>1, <1>2, <1>3, <1>4 DEF Serving

\* Only a server that listens takes a new request, and no request comes back.
LEMMA HandlingOrder ==
    \A s \in Servers : OrderInv /\ Handling(s) => (OverIsClean /\ ShutIsShut /\ AllReported)'
<1> SUFFICES ASSUME NEW s \in Servers, OrderInv, Handling(s)
             PROVE (OverIsClean /\ ShutIsShut /\ AllReported)'
  OBVIOUS
<1> USE DEF OrderInv, OverIsClean, ShutIsShut, AllReported, Request, TypeOK
<1>1. CASE Accept(s)
  BY <1>1 DEF Accept
<1>2. CASE CountState(s)
  BY <1>2 DEF CountState
<1>3. CASE CountDownload(s)
  BY <1>3 DEF CountDownload
<1>4. CASE CountServed(s)
  BY <1>4 DEF CountServed
<1> QED
  BY <1>1, <1>2, <1>3, <1>4 DEF Handling

LEMMA InitOrder == Init => OrderInv
BY InitType DEF Init, OrderInv, OverIsClean, ShutIsShut, AllReported, Returned

LEMMA NextOrder == OrderInv /\ [Next]_vars => OrderInv'
<1> SUFFICES ASSUME OrderInv, [Next]_vars PROVE (OverIsClean /\ ShutIsShut /\ AllReported)'
  BY NextType DEF OrderInv
<1>1. CASE StartRefused
  BY <1>1 DEF StartRefused, OrderInv, OverIsClean, ShutIsShut, AllReported, Returned
<1>2. CASE RemoveFile
  BY <1>2 DEF RemoveFile, OrderInv, OverIsClean, ShutIsShut, AllReported, Returned
<1>3. CASE Kill
  BY <1>3, EndOrder DEF Kill, Dies
<1>4. CASE Signal
  <2>1. CASE Dies
    BY <2>1, EndOrder DEF Dies
  <2>2. CASE ~Dies
    BY <1>4, <2>2 DEF Signal, OrderInv, OverIsClean, ShutIsShut, AllReported, Returned
  <2> QED
    BY <2>1, <2>2
<1>5. CASE UNCHANGED vars
  BY <1>5 DEF vars, OrderInv, OverIsClean, ShutIsShut, AllReported, Returned
<1> QED
  BY <1>1, <1>2, <1>3, <1>4, <1>5, StartOrder, MainOrder, StoppingOrder, ServingOrder, HandlingOrder
     DEF Next

(* The cache is closed last: for any number of servers, a request that is  *)
(* being handled when the deferred Close of the cache has run belongs to a *)
(* server whose Shutdown ran into the deadline.  (startServer,             *)
(* ListenAndServe)                                                         *)
THEOREM CacheClosesLast == Spec => []NoRequestOnClosedCache
<1>1. OrderInv => NoRequestOnClosedCache
  BY DEF OrderInv, AllReported, ShutIsShut, NoRequestOnClosedCache, Returned
<1> QED
  BY <1>1, InitOrder, NextOrder, PTL DEF Spec

-----------------------------------------------------------------------------
(* The statistics.                                                         *)

\* After an orderly return no server handles or accepts a request.
LEMMA Quiet ==
    ASSUME OrderInv, LatePanics, proc \in Returned, how = "exit"
    PROVE \A s \in Servers : req[s] = "none" /\ srv[s] # "listening"
BY DEF OrderInv, LatePanics, ShutIsShut, AllReported, TypeOK

LEMMA PendingFinite ==
    /\ IsFiniteSet(Unserved) /\ IsFiniteSet(Undownloaded)
    /\ Cardinality(Unserved) \in Nat /\ Cardinality(Undownloaded) \in Nat
<1>1. IsFiniteSet(Unserved) /\ IsFiniteSet(Undownloaded)
  BY ServerAssumption, FS_Subset DEF Unserved, Undownloaded
<1> QED
  BY <1>1, FS_CardinalityType

LEMMA QuietBalance ==
    ASSUME OrderInv, Balance, LatePanics, proc \in Returned, how = "exit"
    PROVE mem = total
<1>1. Unserved = {} /\ Undownloaded = {}
  BY Quiet DEF Unserved, Undownloaded
<1>2. Cardinality(Unserved) = 0 /\ Cardinality(Undownloaded) = 0
  BY <1>1, FS_EmptySet
<1>3. mem.counted = total.counted /\ mem.served = total.served /\ mem.downloaded = total.downloaded
  BY <1>2 DEF Balance, OrderInv, TypeOK, Counters, Returned
<1> QED
  BY <1>3 DEF OrderInv, TypeOK, Counters

\* A step that leaves requests and counters alone keeps the balance.
LEMMA IdleBalance ==
    ASSUME Balance, UNCHANGED <<req, mem, total>>, proc # "over"
    PROVE Balance'
<1>1. Unserved' = Unserved /\ Undownloaded' = Undownloaded
  BY DEF Unserved, Undownloaded
<1> QED
  BY <1>1 DEF Balance

LEMMA HandlingBalance == \A s \in Servers : OrderInv /\ Balance /\ Handling(s) => Balance'
<1> SUFFICES ASSUME NEW s \in Servers, OrderInv, Balance, Handling(s)
             PROVE Balance'
  OBVIOUS
<1>0. /\ req \in [Servers -> {"none", "serving", "download", "size"}]
      /\ mem \in Counters /\ total \in Counters /\ proc # "over"
  BY DEF OrderInv, TypeOK, Handling, Accept, CountState, CountDownload, CountServed, Request
<1>1. CASE Accept(s)
  <2>1. Unserved' = Unserved /\ Undownloaded' = Undownloaded
    BY <1>0, <1>1 DEF Accept, Request, Unserved, Undownloaded
  <2> QED
    BY <1>0, <1>1, <2>1 DEF Accept, Request, Balance
<1>2. CASE CountState(s)
  <2>1. PICK fromCache \in BOOLEAN :
          /\ Request(s, "serving", IF fromCache THEN "size" ELSE "download")
          /\ mem' = Add(mem, Own(s), "counted")
          /\ total' = Add(Add(Add(total, Own(s), "counted"), Own(s), "served"),
                          IF fromCache THEN 0 ELSE Own(s), "downloaded")
    BY <1>2 DEF CountState
  <2>2. CASE s = Admin
    <3>1. Unserved' = Unserved /\ Undownloaded' = Undownloaded
      BY <1>0, <2>1, <2>2 DEF Request, Unserved, Undownloaded
    <3> QED
      BY <1>0, <2>1, <2>2, <3>1 DEF Balance, Own, Add, Counters
  <2>3. CASE s # Admin
    <3>1. Unserved' = Unserved \cup {s} /\ s \notin Unserved
      BY <1>0, <2>1, <2>3 DEF Request, Unserved
    <3>2. Cardinality(Unserved') = Cardinality(Unserved) + 1
      BY <3>1, PendingFinite, FS_AddElement
    <3>3. CASE fromCache
      <4>1. Undownloaded' = Undownloaded
        BY <1>0, <2>1, <2>3, <3>3 DEF Request, Undownloaded
      <4> QED
        BY <1>0, <2>1, <2>3, <3>2, <3>3, <4>1, PendingFinite DEF Balance, Own, Add, Counters
    <3>4. CASE ~fromCache
      <4>1. Undownloaded' = Undownloaded \cup {s} /\ s \notin Undownloaded
        BY <1>0, <2>1, <2>3, <3>4 DEF Request, Undownloaded
      <4>2. Cardinality(Undownloaded') = Cardinality(Undownloaded) + 1
        BY <4>1, PendingFinite, FS_AddElement
      <4> QED
        BY <1>0, <2>1, <2>3, <3>2, <3>4, <4>2, PendingFinite DEF Balance, Own, Add, Counters
    <3> QED
      BY <3>3, <3>4
  <2> QED
    BY <2>2, <2>3
<1>3. CASE CountDownload(s)
  <2>1. Unserved' = Unserved
    BY <1>0, <1>3 DEF CountDownload, Request, Unserved
  <2>2. CASE s = Admin
    <3>1. Undownloaded' = Undownloaded
      BY <1>0, <1>3, <2>2 DEF CountDownload, Request, Undownloaded
    <3> QED
      BY <1>0, <1>3, <2>1, <2>2, <3>1 DEF CountDownload, Balance, Own, Add, Counters
  <2>3. CASE s # Admin
    <3>1. Undownloaded' = Undownloaded \ {s} /\ s \in Undownloaded
      BY <1>0, <1>3, <2>3 DEF CountDownload, Request, Undownloaded
    <3>2. Cardinality(Undownloaded') = Cardinality(Undownloaded) - 1
      BY <3>1, PendingFinite, FS_RemoveElement
    <3> QED
      BY <1>0, <1>3, <2>1, <2>3, <3>2, PendingFinite DEF CountDownload, Balance, Own, Add, Counters
  <2> QED
    BY <2>2, <2>3
<1>4. CASE CountServed(s)
  <2>1. Undownloaded' = Undownloaded
    BY <1>0, <1>4 DEF CountServed, Request, Undownloaded
  <2>2. CASE s = Admin
    <3>1. Unserved' = Unserved
      BY <1>0, <1>4, <2>2 DEF CountServed, Request, Unserved
    <3> QED
      BY <1>0, <1>4, <2>1, <2>2, <3>1 DEF CountServed, Balance, Own, Add, Counters
  <2>3. CASE s # Admin
    <3>1. Unserved' = Unserved \ {s} /\ s \in Unserved
      BY <1>0, <1>4, <2>3 DEF CountServed, Request, Unserved
    <3>2. Cardinality(Unserved') = Cardinality(Unserved) - 1
      BY <3>1, PendingFinite, FS_RemoveElement
    <3> QED
      BY <1>0, <1>4, <2>1, <2>3, <3>2, PendingFinite DEF CountServed, Balance, Own, Add, Counters
  <2> QED
    BY <2>2, <2>3
<1> QED
  BY <1>1, <1>2, <1>3, <1>4 DEF Handling

\* The three parts of CountInv beside the order of shutdown.
CountParts == Balance /\ LatePanics /\ SaveInv

LEMMA DiesCount == CountInv /\ Dies => CountParts'
BY DEF CountInv, CountParts, Dies, End, Balance, LatePanics, SaveInv, OrderlyEndKeepsCounts

LEMMA StartCount == CountInv /\ Start => CountParts'
<1> SUFFICES ASSUME CountInv, Start PROVE CountParts'
  OBVIOUS
<1>1. \A s \in Servers : req'[s] = "none"
  BY DEF Start, CountInv, OrderInv, OverIsClean
<1>2. Unserved' = {} /\ Undownloaded' = {}
  BY <1>1 DEF Unserved, Undownloaded
<1>3. Cardinality(Unserved') = 0 /\ Cardinality(Undownloaded') = 0
  BY <1>2, FS_EmptySet
<1>4. Loaded \in Counters
  BY ZeroType DEF Start, Loaded, CountInv, OrderInv, TypeOK
<1>5. Balance'
  BY <1>3, <1>4 DEF Balance, Start, Counters
<1>6. LatePanics' /\ SaveInv'
  BY DEF CountInv, Start, New, LatePanics, SaveInv, OrderlyEndKeepsCounts
<1> QED
  BY <1>5, <1>6 DEF CountParts

LEMMA MainCount == CountInv /\ Main => CountParts'
<1> SUFFICES ASSUME CountInv, Main PROVE CountParts'
  OBVIOUS
<1>0. ASSUME proc # "over", UNCHANGED <<req, mem, total, late, how>>, proc' # "over", SaveInv'
      PROVE CountParts'
  BY <1>0, IdleBalance DEF CountInv, CountParts, LatePanics
<1> USE DEF CountInv, SaveInv, OrderlyEndKeepsCounts, At
<1>1. CASE Notify
  BY <1>0, <1>1 DEF Notify
<1>2. CASE SelectStop
  BY <1>0, <1>2 DEF SelectStop
<1>3. CASE Return
  BY <1>0, <1>3 DEF Return
<1>4. CASE SaveCreate
  BY <1>0, <1>4 DEF SaveCreate
<1>5. CASE SaveEncode
  BY <1>0, <1>5 DEF SaveEncode, OrderInv, TypeOK, Counters
<1>9. CASE SaveServed
  BY <1>0, <1>9 DEF SaveServed, OrderInv, TypeOK, Counters
<1>6. CASE SaveWrite
  <2>1. how = "exit" => mem = total
    BY <1>6, QuietBalance DEF SaveWrite, Returned
  <2>2. how = "exit" => snap' = mem
    BY <1>6 DEF SaveWrite, OrderInv, TypeOK, Counters
  <2>3. SaveInv'
    BY <1>6, <2>1, <2>2 DEF SaveWrite
  <2> QED
    BY <1>0, <1>6, <2>3 DEF SaveWrite
<1>7. CASE CloseCache
  BY <1>0, <1>7 DEF CloseCache
<1>8. CASE Exit
  BY <1>8 DEF Exit, End, CountParts, Balance, LatePanics
<1> QED
  BY <1>1, <1>2, <1>3, <1>4, <1>5, <1>6, <1>7, <1>8, <1>9 DEF Main

LEMMA StoppingCount == \A s \in Servers : CountInv /\ Stopping(s) => CountParts'
<1> SUFFICES ASSUME NEW s \in Servers, CountInv, Stopping(s) PROVE CountParts'
  OBVIOUS
<1>1. Balance'
  BY IdleBalance
     DEF CountInv, Stopping, SelectError, Shutdown, ShutdownDone, ShutdownTimeout, At
<1>2. LatePanics' /\ SaveInv'
  BY DEF CountInv, LatePanics, SaveInv, OrderlyEndKeepsCounts,
         Stopping, SelectError, Shutdown, ShutdownDone, ShutdownTimeout, At
<1> QED
  BY <1>1, <1>2 DEF CountParts

\* The goroutines of the servers touch neither requests nor statistics.
LEMMA IdleCount ==
    ASSUME CountInv, proc # "over",
           UNCHANGED <<proc, how, late, req, mem, snap, file, saved, total>>
    PROVE CountParts'
BY IdleBalance DEF CountInv, CountParts, LatePanics, SaveInv, OrderlyEndKeepsCounts

LEMMA ServingCount == \A s \in Servers : CountInv /\ Serving(s) => CountParts'
BY IdleCount, DiesCount DEF Serving, Listen, Serve, Fail, SendPanics, Goroutine

LEMMA HandlingCount == \A s \in Servers : CountInv /\ Handling(s) => CountParts'
<1> SUFFICES ASSUME NEW s \in Servers, CountInv, Handling(s) PROVE CountParts'
  OBVIOUS
<1>1. UNCHANGED <<proc, how, late, snap, file, saved>> /\ proc # "over"
  BY DEF Handling, Accept, CountState, CountDownload, CountServed, Request
<1>2. req[s] # "none" \/ srv[s] = "listening"
  BY DEF Handling, Accept, CountState, CountDownload, CountServed, Request
<1>3. ~(proc \in Returned /\ how = "exit")
  BY <1>2, Quiet DEF CountInv
<1>4. SaveInv'
  BY <1>1, <1>3 DEF CountInv, SaveInv, OrderlyEndKeepsCounts, Returned
<1>5. LatePanics'
  BY <1>1 DEF CountInv, LatePanics
<1> QED
  BY <1>4, <1>5, HandlingBalance DEF CountInv, CountParts

LEMMA InitCount == Init => CountInv
BY InitOrder DEF Init, CountInv, Balance, LatePanics, SaveInv, OrderlyEndKeepsCounts

LEMMA NextCount == CountInv /\ [Next]_vars => CountInv'
<1> SUFFICES ASSUME CountInv, [Next]_vars PROVE CountParts'
  BY NextOrder DEF CountInv, CountParts
<1>1. CASE StartRefused
  BY <1>1 DEF StartRefused, CountInv, CountParts, Balance, LatePanics, SaveInv, OrderlyEndKeepsCounts
<1>2. CASE RemoveFile
  BY <1>2 DEF RemoveFile, CountInv, CountParts, Balance, LatePanics, SaveInv, OrderlyEndKeepsCounts
<1>3. CASE Kill
  BY <1>3, DiesCount DEF Kill
<1>4. CASE Signal
  BY <1>4, DiesCount, IdleCount DEF Signal
<1>5. CASE UNCHANGED vars
  <2>1. CASE proc = "over"
    BY <1>5, <2>1 DEF vars, CountInv, CountParts, Balance, LatePanics, SaveInv, OrderlyEndKeepsCounts
  <2>2. CASE proc # "over"
    BY <1>5, <2>2, IdleCount DEF vars
  <2> QED
    BY <2>1, <2>2
<1> QED
  BY <1>1, <1>2, <1>3, <1>4, <1>5, StartCount, MainCount, StoppingCount, ServingCount, HandlingCount
     DEF Next

(* For any number of servers and requests: when Save has said that the     *)
(* statistics are on the disk, and the process ended in order, the file    *)
(* has every request that was answered, in all its counters.               *)
(* (ListenAndServe, Save, newLoggingMiddleware)                            *)
THEOREM CountsAreKept == Spec => []OrderlyEndKeepsCounts
<1>1. CountInv => OrderlyEndKeepsCounts
  BY DEF CountInv, SaveInv
<1> QED
  BY <1>1, InitCount, NextCount, PTL DEF Spec
=============================================================================
