------------------------------- MODULE Server -------------------------------
(***************************************************************************)
(* The life of the process: cmd/locaccel/locaccel.go (startServer),        *)
(* internal/server/server.go (New, ListenAndServe) and the statistics of   *)
(* internal/middleware, from one start to the next.                        *)
(*                                                                         *)
(* Each server has a goroutine that listens, and handles one request at a  *)
(* time.  All requests have size 1, so that BytesServed counts requests    *)
(* and BytesDownloaded those that were not served from the cache; counted  *)
(* is the sum of the four counters by cache state.                         *)
(***************************************************************************)
EXTENDS Naturals, FiniteSets

CONSTANTS
    Servers,        \* the servers that the configuration lists
    Admin,          \* the administrator's server: its requests do not count
    Configs,        \* what the configuration may say of them
    Absent, Empty,  \* there is no statistics file, or nothing in it
    Faults,         \* the process may be killed, the disk may be full
    MaxRequests     \* bound: requests that count

Counters == [counted : Nat, served : Nat, downloaded : Nat]
Zero == [counted |-> 0, served |-> 0, downloaded |-> 0]

ASSUME ServerAssumption ==
    /\ IsFiniteSet(Servers) /\ Faults \in BOOLEAN /\ MaxRequests \in Nat
    /\ Absent # Empty /\ Absent \notin Counters /\ Empty \notin Counters

VARIABLES
    conf,       \* conf[s]: the kind and the upstream of s
    proc,       \* where startServer is
    how,        \* how the process will end, or has ended
    stop,       \* a signal is in the channel stop
    srv,        \* srv[s]: the goroutine in http.Server.ListenAndServe
    shut,       \* shut[s]: the goroutine that calls http.Server.Shutdown
    late,       \* servers whose Shutdown ran into the deadline
    req,        \* req[s]: the request that s is handling
    mem,        \* Statistics
    snap,       \* what Save has encoded so far
    file,       \* statistics.json
    saved,      \* Save has returned without an error
    total       \* history: what the answered requests add up to

vars == <<conf, proc, how, stop, srv, shut, late, req, mem, snap, file, saved, total>>

\* While errChan is closed.
Returned == {"returned", "created", "counted", "encoding", "closing", "closed"}

TypeOK ==
    /\ conf \in Configs
    /\ proc \in {"over", "launching", "select", "waiting"} \cup Returned
    /\ how \in {"exit", "panic", "died", "refused"}
    /\ stop \in BOOLEAN
    /\ srv \in [Servers -> {"none", "starting", "binding", "listening", "sending", "ended"}]
    /\ shut \in [Servers -> {"no", "called", "reported"}]
    /\ late \in SUBSET Servers
    /\ req \in [Servers -> {"none", "serving", "download", "size"}]
    /\ mem \in Counters /\ snap \in Counters /\ total \in Counters
    /\ file \in Counters \cup {Absent, Empty}
    /\ saved \in BOOLEAN

Init ==
    /\ conf \in Configs
    /\ proc = "over" /\ how = "exit" /\ stop = FALSE
    /\ srv = [s \in Servers |-> "none"]
    /\ shut = [s \in Servers |-> "no"]
    /\ late = {}
    /\ req = [s \in Servers |-> "none"]
    /\ mem = Zero /\ snap = Zero /\ total = Zero
    /\ file = Absent
    /\ saved = FALSE

-----------------------------------------------------------------------------
(* startServer.                                                            *)

\* The name under which setupGalaxy, ... and setupProxy set up a server.
serviceName(s) ==
    CASE s = Admin -> <<"admin">>
      [] conf[s].kind = "proxy" -> <<"proxy">>
      [] OTHER -> <<conf[s].kind, conf[s].upstream>>

\* The metrics of a server, unless they are disabled, are registered under its
\* name, and each name once.
Registers == \A s, t \in Servers : serviceName(s) = serviceName(t) => s = t

\* Fault: a file that does not exist yet is no special case.
LoadedAlways == file

Loaded == IF file = Absent THEN Zero ELSE file

\* A file that cannot be decoded makes startServer panic, and close the cache.
StartRefused ==
    /\ proc = "over"
    /\ file = Empty
    /\ how' = "refused"
    /\ UNCHANGED <<conf, proc, stop, srv, shut, late, req, mem, snap, file, saved, total>>

\* New sets up all servers and ListenAndServe starts their goroutines; when New
\* panics the deferred calls run as after ListenAndServe.
New ==
    \/ /\ Registers
       /\ proc' = "launching" /\ how' = "exit"
       /\ srv' = [s \in Servers |-> "starting"]
    \/ /\ ~Registers
       /\ proc' = "returned" /\ how' = "panic"
       /\ srv' = srv

Start ==
    /\ proc = "over"
    /\ file # Empty
    /\ mem' = Loaded /\ total' = Loaded /\ saved' = FALSE
    /\ New
    /\ UNCHANGED <<conf, stop, shut, late, req, snap, file>>

\* "Please remove or fix the file", which is what the administrator does.
RemoveFile ==
    /\ proc = "over" /\ how = "refused" /\ file = Empty
    /\ file' = Absent
    /\ UNCHANGED <<conf, proc, how, stop, srv, shut, late, req, mem, snap, saved, total>>

\* The process ends, and with it its goroutines and all it has in memory.
End ==
    /\ proc' = "over" /\ stop' = FALSE
    /\ srv' = [s \in Servers |-> "none"]
    /\ shut' = [s \in Servers |-> "no"]
    /\ late' = {}
    /\ req' = [s \in Servers |-> "none"]
    /\ mem' = Zero /\ snap' = Zero
    /\ UNCHANGED <<conf, file, saved>>

Dies == End /\ how' = "died" /\ total' = Zero

Kill == Faults /\ proc # "over" /\ Dies

-----------------------------------------------------------------------------
(* ListenAndServe.                                                         *)

At(here) == proc = here /\ UNCHANGED <<conf, total, mem>>

Notify ==
    /\ At("launching")
    /\ proc' = "select"
    /\ UNCHANGED <<how, stop, srv, shut, late, req, snap, file, saved>>

\* Nobody asks for a signal before Notify: it then ends the process.
Signal ==
    \/ proc = "launching" /\ Dies
    \/ /\ proc \notin {"over", "launching"} /\ ~stop
       /\ stop' = TRUE
       /\ UNCHANGED <<conf, proc, how, srv, shut, late, req, mem, snap, file, saved, total>>

\* The goroutine of server s moves on.
Goroutine(s, from, to) ==
    /\ proc # "over" /\ srv[s] = from
    /\ srv' = [srv EXCEPT ![s] = to]
    /\ UNCHANGED <<conf, proc, how, stop, shut, late, req, mem, snap, file, saved, total>>

\* http.Server.ListenAndServe looks for a Shutdown before it listens and after.
Listen(s) == Goroutine(s, "starting", IF shut[s] = "no" THEN "binding" ELSE "ended")
Serve(s) == Goroutine(s, "binding", IF shut[s] = "no" THEN "listening" ELSE "ended")

\* Listen fails: the address is in use; or Accept fails for good.
Fail(s) ==
    \/ Goroutine(s, "binding", "sending")
    \/ shut[s] = "no" /\ Goroutine(s, "listening", "sending")

\* Send on a closed channel.
SendPanics(s) == srv[s] = "sending" /\ proc \in Returned /\ Dies

SelectStop ==
    /\ At("select") /\ stop
    /\ proc' = "waiting" /\ stop' = FALSE
    /\ UNCHANGED <<how, srv, shut, late, req, snap, file, saved>>

SelectError(s) ==
    /\ At("select") /\ srv[s] = "sending"
    /\ proc' = "waiting"
    /\ srv' = [srv EXCEPT ![s] = "ended"]
    /\ UNCHANGED <<how, stop, shut, late, req, snap, file, saved>>

\* Closes the listener of s.
Shutdown(s) ==
    /\ At("waiting") /\ shut[s] = "no"
    /\ shut' = [shut EXCEPT ![s] = "called"]
    /\ srv' = [srv EXCEPT ![s] = IF @ = "listening" THEN "ended" ELSE @]
    /\ UNCHANGED <<proc, how, stop, late, req, snap, file, saved>>

\* Fault: requests are not waited for.
ShutdownDoneAtOnce(s) ==
    /\ At("waiting") /\ shut[s] = "called"
    /\ shut' = [shut EXCEPT ![s] = "reported"]
    /\ UNCHANGED <<proc, how, stop, srv, late, req, snap, file, saved>>

\* No request is left, and ListenAndServe receives the nil.
ShutdownDone(s) ==
    /\ At("waiting") /\ shut[s] = "called"
    /\ req[s] = "none"
    /\ shut' = [shut EXCEPT ![s] = "reported"]
    /\ UNCHANGED <<proc, how, stop, srv, late, req, snap, file, saved>>

\* Fault: the deadline is forgotten.
ShutdownTimeoutNever(s) == FALSE /\ UNCHANGED vars

\* The five minutes are over while s handles a request.
ShutdownTimeout(s) ==
    /\ At("waiting") /\ shut[s] = "called"
    /\ req[s] # "none"
    /\ shut' = [shut EXCEPT ![s] = "reported"]
    /\ late' = late \cup {s}
    /\ how' = "panic"
    /\ UNCHANGED <<proc, stop, srv, req, snap, file, saved>>

\* Fault: one report is enough.
ReturnEarly ==
    /\ At("waiting") /\ \E s \in Servers : shut[s] = "reported"
    /\ proc' = "returned"
    /\ UNCHANGED <<how, stop, srv, shut, late, req, snap, file, saved>>

\* Closes errChan.
Return ==
    /\ At("waiting") /\ \A s \in Servers : shut[s] = "reported"
    /\ proc' = "returned"
    /\ UNCHANGED <<how, stop, srv, shut, late, req, snap, file, saved>>

-----------------------------------------------------------------------------
(* The deferred calls: Statistics.Save, then Cache.Close.                  *)

\* os.Create truncates.
SaveCreate ==
    /\ At("returned")
    /\ \/ proc' = "created" /\ file' = Empty
       \/ Faults /\ proc' = "closing" /\ file' = file
    /\ UNCHANGED <<how, stop, srv, shut, late, req, snap, saved>>

\* The encoder loads one counter after the other, BytesDownloaded last.  The
\* four by cache state count one by one: what they add up to when they are
\* loaded in turn is what they add up to at some moment in between.
SaveEncode ==
    /\ At("created")
    /\ snap' = [snap EXCEPT !.counted = mem.counted]
    /\ proc' = "counted"
    /\ UNCHANGED <<how, stop, srv, shut, late, req, file, saved>>

SaveServed ==
    /\ At("counted")
    /\ snap' = [snap EXCEPT !.served = mem.served]
    /\ proc' = "encoding"
    /\ UNCHANGED <<how, stop, srv, shut, late, req, file, saved>>

SaveWrite ==
    /\ At("encoding")
    /\ snap' = [snap EXCEPT !.downloaded = mem.downloaded]
    /\ \/ file' = snap' /\ saved' = TRUE
       \/ Faults /\ UNCHANGED <<file, saved>>
    /\ proc' = "closing"
    /\ UNCHANGED <<how, stop, srv, shut, late, req>>

\* What Close has to wait for is in module Cache.
CloseCache ==
    /\ At("closing")
    /\ proc' = "closed"
    /\ UNCHANGED <<how, stop, srv, shut, late, req, snap, file, saved>>

Exit == proc = "closed" /\ End /\ UNCHANGED <<how, total>>

-----------------------------------------------------------------------------
(* Requests: ApplyAllMiddlewares around the handlers.                      *)

Request(s, from, to) ==
    /\ proc # "over" /\ req[s] = from
    /\ req' = [req EXCEPT ![s] = to]
    /\ UNCHANGED <<conf, proc, how, stop, srv, shut, late, snap, file, saved>>

Accept(s) ==
    /\ srv[s] = "listening"
    /\ \A field \in DOMAIN total :
           s = Admin
           \/ total[field] + Cardinality({t \in Servers \ {Admin} : req[t] = "serving"}) < MaxRequests
    /\ Request(s, "none", "serving")
    /\ UNCHANGED <<mem, total>>

Add(counters, n, field) == [counters EXCEPT ![field] = @ + n]

\* What s counts with: the administrator's server has Statistics of its own.
Own(s) == IF s = Admin THEN 0 ELSE 1

\* The handler is done: by its cache state it was served from the cache or not.
CountState(s) ==
    \E fromCache \in BOOLEAN :
        /\ Request(s, "serving", IF fromCache THEN "size" ELSE "download")
        /\ mem' = Add(mem, Own(s), "counted")
        /\ total' = Add(Add(Add(total, Own(s), "counted"), Own(s), "served"),
                        IF fromCache THEN 0 ELSE Own(s), "downloaded")

CountDownload(s) ==
    /\ Request(s, "download", "size")
    /\ mem' = Add(mem, Own(s), "downloaded")
    /\ UNCHANGED total

CountServed(s) ==
    /\ Request(s, "size", "none")
    /\ mem' = Add(mem, Own(s), "served")
    /\ UNCHANGED total

-----------------------------------------------------------------------------
Main ==
    \/ Notify \/ SelectStop \/ Return
    \/ SaveCreate \/ SaveEncode \/ SaveServed \/ SaveWrite \/ CloseCache \/ Exit
Stopping(s) == SelectError(s) \/ Shutdown(s) \/ ShutdownDone(s) \/ ShutdownTimeout(s)
Serving(s) == Listen(s) \/ Serve(s) \/ Fail(s) \/ SendPanics(s)
Handling(s) == Accept(s) \/ CountState(s) \/ CountDownload(s) \/ CountServed(s)

Next ==
    \/ StartRefused \/ Start \/ RemoveFile \/ Kill \/ Signal \/ Main
    \/ \E s \in Servers : Stopping(s) \/ Serving(s) \/ Handling(s)

Spec == Init /\ [][Next]_vars

\* The main goroutine and those of Shutdown run; requests and clients need not.
FairSpec ==
    /\ Spec
    /\ WF_vars(Main)
    /\ \A s \in Servers : WF_vars(Stopping(s))
-----------------------------------------------------------------------------
(* The cache is closed last: a request that runs into the closed cache is  *)
(* one that Shutdown gave up on.  (The deferred calls of startServer.)     *)
NoRequestOnClosedCache ==
    proc = "closed" => \A s \in Servers : req[s] # "none" => s \in late

(* After an orderly end, by a signal or by the failure of a server, with   *)
(* every Shutdown in time, "Statistics saved to disk" means all requests   *)
(* that were answered, each in all its counters.  (ListenAndServe, Save)   *)
OrderlyEndKeepsCounts == saved /\ how = "exit" => file = total

(* A signal, or a server that fails, ends the process.  (ListenAndServe)   *)
ShutdownEnds ==
    (proc # "over" /\ (stop \/ \E s \in Servers : srv[s] = "sending")) ~> proc = "over"

(* A process that nobody kills, on a disk that is not full, leaves a       *)
(* statistics file that the next one can load.  (Save, LoadSavedStatistics *)
(* and the channel errChan of ListenAndServe)                              *)
StatisticsLoad == how # "refused"
=============================================================================
