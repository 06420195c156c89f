------------------------ MODULE ServiceLifecycle_proofs ------------------------
(***************************************************************************)
(* Theorems about ServiceLifecycle, for any set of requests and of threads *)
(* that stop the service.                                                  *)
(*                                                                         *)
(* The argument: one thread stops the service, and what it has stopped so  *)
(* far can be read off its position, unless a part has failed; nothing is  *)
(* started again, because only the lifespan starts, and it has done so     *)
(* before anybody stops.  What the stop reports of a part stays so because *)
(* the part that could undo it was stopped, or drained, before.            *)
(***************************************************************************)
EXTENDS ServiceLifecycle, TLAPS

\* The positions of the thread that stops the service, from each point on.
FromMarks      == {"marks"}
FromEnding     == {"ending"} \cup FromMarks
FromResources  == {"resources"} \cup FromEnding
FromJoin       == {"join"} \cup FromResources
FromWorker     == {"worker"} \cup FromJoin
FromSyncResult == {"syncResult"} \cup FromWorker
FromSleeper    == {"sleeper", "sync"} \cup FromSyncResult
Stops          == {"checking", "drains"} \cup FromSleeper

Ends3 == {"returned", "raised", "refused"}

\* The values of the variables stop and pc.
StopRecords ==
  [state : {"open", "stopping", "stopped", "faulted"}, by : Callers \cup {None},
   drainSync : BOOLEAN, failed : BOOLEAN, sync : BOOLEAN, worker : BOOLEAN]
Positions ==
  {"idle", "serving", "failed", "closing", "closes", "waiting", "asking"} \cup Stops \cup Ends3

\* The variables keep their types.
TypeOK ==
  /\ lifecycle \in {"starting", "ready", "draining", "stopped", "faulted"}
  /\ stop \in StopRecords
  /\ pc \in [Callers -> Positions]
  /\ probe \in [pc : {"idle", "storage", "fault"},
                saw : {"starting", "ready", "draining", "stopped", "faulted"}]
  /\ accepting \in BOOLEAN /\ requestDrained \in BOOLEAN
  /\ req \in [Requests -> {"idle", "active", "served", "done"}]
  /\ worker \in [running : BOOLEAN, task : Requests \cup {None}] /\ tasks \subseteq Requests
  /\ dispatcher \in {"off", "on"} /\ sleeper \in {"off", "on", "late"}
  /\ undelivered \subseteq Requests \cup {Background}
  /\ resources \in {"open", "closed", "faulted"}
  /\ faults \in 0 .. MaxFaults

\* The lifespan has started the service before anybody probes it or stops it.
StartIsFirst ==
  /\ lifecycle = "starting" <=> pc[Owner] = "idle"
  /\ pc[Owner] = "idle" =>
       /\ stop.state = "open" /\ resources = "open" /\ probe.pc = "idle"
       /\ \A c \in Callers : pc[c] = "idle"

\* One thread stops the service, and the outcome is the one it reached.
OneStops ==
  /\ \A c \in Callers : pc[c] \in Stops => stop.state = "stopping" /\ stop.by = c
  /\ stop.state # "open" =>
        /\ stop.by \in Callers /\ pc[stop.by] \in Stops \cup Ends3
        /\ stop.by = Owner => stop.drainSync
  /\ \A c \in Callers : pc[c] = "returned" => stop.state = "stopped"
  /\ stop.state = "stopped" => ~stop.failed

\* Nothing is stopped while the service is ready.
DrainsFirst == \A c \in Callers : pc[c] \in FromSleeper => lifecycle \in {"draining", "stopped", "faulted"}

\* What the thread that stops has stopped, if no part has failed.
Progress ==
  ~stop.failed => \A c \in Callers :
    /\ pc[c] \in FromSyncResult => dispatcher = "off"
    /\ pc[c] \in FromJoin => ~worker.running
    /\ pc[c] \in FromEnding => resources = "closed"

\* What the lifespan reports stays so.
DrainStays == requestDrained => Active = {} /\ pc[Owner] \notin {"idle", "serving"}
DeliveredStays ==
  ~stop.failed /\ stop.state # "open" /\ stop.by = Owner /\ requestDrained /\ stop.sync
     /\ pc[Owner] \in FromWorker \cup {"returned"} => undelivered \subseteq {Background}
WorkerStays ==
  ~stop.failed /\ stop.state # "open" /\ stop.by = Owner /\ stop.worker
     /\ pc[Owner] \in FromResources \cup {"returned"} => worker.task = None

IInv ==
  /\ TypeOK /\ StartIsFirst /\ OneStops /\ DrainsFirst /\ ReadyIsRunning /\ StoppedIsOver
  /\ Progress /\ DrainStays /\ DeliveredStays /\ WorkerStays
-----------------------------------------------------------------------------
USE ServiceLifecycleAssumptions
    DEF Callers, Goes, Stops, FromSleeper, FromSyncResult, FromWorker, FromJoin, FromResources,
        FromEnding, FromMarks, Ends3

(* Types *)

\* A step of the lifespan keeps the types.
LEMMA OwnerTypes ==
  ASSUME TypeOK, Start \/ Shutdown \/ WaitForZero \/ ProbeReads \/ ProbeStorage \/ ProbeFaults
  PROVE  TypeOK'
<1>1. CASE Start
  <2>1. \/ worker' = [worker EXCEPT !.running = TRUE]
        \/ worker' = [worker EXCEPT !.running = FALSE]
    <3>1. ASSUME NEW n \in 0 .. 2, worker' = [worker EXCEPT !.running = n >= 1]
          PROVE  \/ worker' = [worker EXCEPT !.running = TRUE]
                 \/ worker' = [worker EXCEPT !.running = FALSE]
      <4>1. (n >= 1) = TRUE \/ (n >= 1) = FALSE
        OBVIOUS
      <4> QED
        BY <3>1, <4>1, Zenon
    <3> QED
      BY <1>1, <3>1, Zenon DEF Start
  <2>2. dispatcher' \in {"off", "on"} /\ sleeper' \in {"off", "on", "late"}
    BY <1>1 DEF Start, TypeOK, StopRecords, Positions
  <2>3. lifecycle' \in {"ready", "faulted"} /\ pc' \in [Callers -> Positions]
    BY <1>1 DEF Start, Transits, TypeOK, Positions
  <2>6. worker' \in [running : BOOLEAN, task : Requests \cup {None}]
    BY <2>1 DEF TypeOK
  <2>4. faults' \in 0 .. MaxFaults
    BY <1>1 DEF Start, Fault, TypeOK, StopRecords, Positions
  <2>5. UNCHANGED <<stop, probe, accepting, req, requestDrained, tasks, undelivered, resources>>
    BY <1>1 DEF Start
  <2> QED
    BY <2>2, <2>3, <2>4, <2>5, <2>6 DEF TypeOK
<1>2. CASE Shutdown
  <2>1. accepting' \in BOOLEAN
    BY <1>2, Zenon DEF Shutdown
  <2> QED
    BY <1>2, <2>1 DEF Shutdown, parts, TypeOK, StopRecords, Positions
<1>3. CASE WaitForZero
  <2>1. requestDrained' \in BOOLEAN
    BY <1>3, Zenon DEF WaitForZero
  <2> QED
    BY <1>3, <2>1 DEF WaitForZero, parts, TypeOK, StopRecords, Positions
<1>4. CASE ProbeReads
  BY <1>4 DEF ProbeReads, parts, TypeOK, StopRecords, Positions
<1>5. CASE ProbeStorage
  BY <1>5 DEF ProbeStorage, Fault, parts, TypeOK, StopRecords, Positions
<1>6. CASE ProbeFaults
  BY <1>6 DEF ProbeFaults, Transits, Refused, Allowed, parts, TypeOK, StopRecords, Positions
<1> QED
  BY <1>1, <1>2, <1>3, <1>4, <1>5, <1>6

\* A step of a request or of a part of the service keeps the types.
LEMMA PartTypes ==
  ASSUME TypeOK,
         \/ \E r \in Requests : Begin(r) \/ Serve(r) \/ EndRequest(r) \/ Take(r)
         \/ Execute \/ Maintain \/ \E e \in undelivered : Deliver(e)
  PROVE  TypeOK'
<1>1. ASSUME NEW r \in Requests, Begin(r) \/ EndRequest(r) PROVE TypeOK'
  BY <1>1 DEF Begin, EndRequest, parts, TypeOK, StopRecords, Positions
<1>2. ASSUME NEW r \in Requests, Serve(r) PROVE TypeOK'
  BY <1>2 DEF Serve, Captures, TypeOK, StopRecords, Positions
<1>3. ASSUME NEW r \in Requests, Take(r) PROVE TypeOK'
  BY <1>3 DEF Take, TypeOK, StopRecords, Positions
<1>4. CASE Execute
  BY <1>4 DEF Execute, Captures, TypeOK, StopRecords, Positions
<1>5. CASE Maintain
  BY <1>5 DEF Maintain, Captures, TypeOK, StopRecords, Positions
<1>6. ASSUME NEW e \in undelivered, Deliver(e) PROVE TypeOK'
  BY <1>6 DEF Deliver, TypeOK, StopRecords, Positions
<1> QED
  BY <1>1, <1>2, <1>3, <1>4, <1>5, <1>6

\* A step of a thread that stops the service keeps the types.
LEMMA StopTypes ==
  ASSUME TypeOK, NEW c \in Callers, AsksStop(c) \/ StopSteps(c)
  PROVE  TypeOK'
<1>1. CASE AsksStop(c) \/ StopShared(c) \/ DrainingChecks(c)
  BY <1>1 DEF AsksStop, StopShared, DrainingChecks, parts, TypeOK, StopRecords, Positions
<1>2. CASE DrainingMoves(c)
  BY <1>2 DEF DrainingMoves, Transits, Refused, parts, TypeOK, StopRecords, Positions
<1>3. CASE StopBegins(c)
  <2>1. PICK d \in BOOLEAN : stop' = [stop EXCEPT !.state = "stopping", !.by = c, !.drainSync = d]
    BY <1>3, Zenon DEF StopBegins
  <2>2. stop' \in StopRecords
    BY <2>1 DEF TypeOK, StopRecords
  <2>3. pc' \in [Callers -> Positions]
    BY <1>3 DEF StopBegins, TypeOK, Positions
  <2> QED
    BY <1>3, <2>2, <2>3 DEF StopBegins, parts, TypeOK
<1>4. CASE StopSleeper(c)
  BY <1>4 DEF StopSleeper, TypeOK, StopRecords, Positions
<1>5. CASE StopDispatcher(c)
  <2>1. \/ stop' = stop \/ stop' = [stop EXCEPT !.failed = TRUE]
        \/ \E d \in BOOLEAN : stop' = [stop EXCEPT !.sync = d]
    BY <1>5, Zenon DEF StopDispatcher, Fails
  <2>2. dispatcher' \in {"off", "on"} /\ faults' \in 0 .. MaxFaults
    BY <1>5 DEF StopDispatcher, Fault, TypeOK, StopRecords, Positions
  <2>3. pc' \in [Callers -> Positions]
    BY <1>5 DEF StopDispatcher, Fails, TypeOK, StopRecords, Positions
  <2>4. stop' \in StopRecords
    BY <2>1 DEF TypeOK, StopRecords, Positions
  <2>5. UNCHANGED <<lifecycle, probe, accepting, req, requestDrained, worker, tasks, sleeper,
                    undelivered, resources>>
    BY <1>5 DEF StopDispatcher
  <2> QED
    BY <2>2, <2>3, <2>4, <2>5 DEF TypeOK
<1>6. CASE DispatcherReports(c)
  <2>1. PICK d \in BOOLEAN : stop' = [stop EXCEPT !.sync = d]
    BY <1>6, Zenon DEF DispatcherReports
  <2> QED
    BY <1>6, <2>1 DEF DispatcherReports, parts, TypeOK, StopRecords, Positions
<1>7. CASE StopWorker(c)
  <2>1. PICK b \in BOOLEAN : worker' = [worker EXCEPT !.running = b]
    BY <1>7, Zenon DEF StopWorker
  <2>2. worker' \in [running : BOOLEAN, task : Requests \cup {None}]
    BY <2>1 DEF TypeOK
  <2>3. pc' \in [Callers -> Positions]
    BY <1>7 DEF StopWorker, TypeOK, Positions
  <2> QED
    BY <1>7, <2>2, <2>3 DEF StopWorker, TypeOK
<1>8. CASE WorkerReports(c)
  <2>1. \/ \E d \in BOOLEAN : stop' = [stop EXCEPT !.worker = d]
        \/ \E d \in BOOLEAN : stop' = [stop EXCEPT !.failed = d]
    BY <1>8, Zenon DEF WorkerReports, Fails
  <2>2. faults' \in 0 .. MaxFaults
    BY <1>8 DEF WorkerReports, Fault, TypeOK, StopRecords, Positions
  <2>3. stop' \in StopRecords
    BY <2>1 DEF TypeOK, StopRecords
  <2>4. pc' \in [Callers -> Positions]
    BY <1>8 DEF WorkerReports, Fails, TypeOK, Positions
  <2>5. UNCHANGED <<lifecycle, probe, accepting, req, requestDrained>> /\ UNCHANGED parts
    BY <1>8 DEF WorkerReports
  <2> QED
    BY <2>2, <2>3, <2>4, <2>5 DEF parts, TypeOK
<1>9. CASE CloseResources(c)
  <2>1. \/ stop' = stop \/ \E d \in BOOLEAN : stop' = [stop EXCEPT !.failed = d]
    BY <1>9, Zenon DEF CloseResources
  <2>2. faults' \in 0 .. MaxFaults
    BY <1>9 DEF CloseResources, Fault, TypeOK, StopRecords, Positions
  <2>3. /\ UNCHANGED <<lifecycle, probe, accepting, req, requestDrained, worker, tasks, dispatcher,
                       sleeper, undelivered>>
        /\ pc' = [pc EXCEPT ![c] = "ending"] /\ resources' \in {"closed", "faulted"}
    BY <1>9 DEF CloseResources
  <2> QED
    BY <2>1, <2>2, <2>3 DEF TypeOK, StopRecords, Positions
<1>10. CASE StopChecks(c) \/ StopEnds(c)
  BY <1>10 DEF StopChecks, StopEnds, Ends, Transits, Refused, parts, TypeOK, StopRecords, Positions
<1> QED
  BY <1>1, <1>2, <1>3, <1>4, <1>5, <1>6, <1>7, <1>8, <1>9, <1>10 DEF StopSteps

(* The invariant *)

\* A step of the lifespan or of its readiness probe keeps the invariant.
LEMMA OwnerKeeps ==
  ASSUME IInv, TypeOK', Start \/ Shutdown \/ WaitForZero \/ ProbeReads \/ ProbeStorage \/ ProbeFaults
  PROVE  IInv'
<1>1. CASE Start
  <2>1. StartIsFirst' /\ OneStops'
    BY <1>1 DEF IInv, StartIsFirst, OneStops, Start, Transits, TypeOK
  <2>2. DrainsFirst' /\ ReadyIsRunning' /\ StoppedIsOver' /\ Progress'
    BY <1>1 DEF IInv, DrainsFirst, ReadyIsRunning, StoppedIsOver, Progress, Start, Transits,
                TypeOK, StartIsFirst
  <2>3. DrainStays' /\ DeliveredStays' /\ WorkerStays'
    BY <1>1 DEF IInv, DrainStays, DeliveredStays, WorkerStays, Start, Transits, Allowed,
                StartIsFirst, OneStops, Progress
  <2> QED
    BY <2>1, <2>2, <2>3 DEF IInv
<1>2. CASE Shutdown
  <2>1. StartIsFirst' /\ OneStops'
    BY <1>2 DEF IInv, StartIsFirst, OneStops, Shutdown, LoopFree, parts
  <2>2. DrainsFirst' /\ ReadyIsRunning' /\ StoppedIsOver' /\ Progress'
    BY <1>2 DEF IInv, DrainsFirst, ReadyIsRunning, StoppedIsOver, Progress, Shutdown, LoopFree,
                parts
  <2>3. DrainStays' /\ DeliveredStays' /\ WorkerStays'
    BY <1>2 DEF IInv, DrainStays, DeliveredStays, WorkerStays, Shutdown, LoopFree, parts, Active,
                Progress
  <2> QED
    BY <2>1, <2>2, <2>3 DEF IInv
<1>3. CASE WaitForZero
  <2>1. StartIsFirst' /\ OneStops'
    BY <1>3 DEF IInv, StartIsFirst, OneStops, WaitForZero, parts
  <2>2. DrainsFirst' /\ ReadyIsRunning' /\ StoppedIsOver' /\ Progress'
    BY <1>3 DEF IInv, DrainsFirst, ReadyIsRunning, StoppedIsOver, Progress, WaitForZero, parts
  <2>3. DrainStays' /\ DeliveredStays' /\ WorkerStays'
    BY <1>3 DEF DrainStays, DeliveredStays, WorkerStays, WaitForZero, parts, Active, TypeOK,
                Progress
  <2> QED
    BY <2>1, <2>2, <2>3 DEF IInv
<1>4. CASE ProbeReads
  <2>1. StartIsFirst' /\ OneStops'
    BY <1>4 DEF IInv, StartIsFirst, OneStops, ProbeReads, LoopFree, parts
  <2>2. DrainsFirst' /\ ReadyIsRunning' /\ StoppedIsOver' /\ Progress'
    BY <1>4 DEF IInv, DrainsFirst, ReadyIsRunning, StoppedIsOver, Progress, ProbeReads, LoopFree,
                parts
  <2>3. DrainStays' /\ DeliveredStays' /\ WorkerStays'
    BY <1>4 DEF IInv, DrainStays, DeliveredStays, WorkerStays, ProbeReads, LoopFree, parts,
                Active, Progress
  <2> QED
    BY <2>1, <2>2, <2>3 DEF IInv
<1>5. CASE ProbeStorage
  <2>1. StartIsFirst' /\ OneStops'
    BY <1>5 DEF IInv, StartIsFirst, OneStops, ProbeStorage, parts
  <2>2. DrainsFirst' /\ ReadyIsRunning' /\ StoppedIsOver' /\ Progress'
    BY <1>5 DEF IInv, DrainsFirst, ReadyIsRunning, StoppedIsOver, Progress, ProbeStorage, parts
  <2>3. DrainStays' /\ DeliveredStays' /\ WorkerStays'
    BY <1>5 DEF IInv, DrainStays, DeliveredStays, WorkerStays, ProbeStorage, parts, Active,
                Progress
  <2> QED
    BY <2>1, <2>2, <2>3 DEF IInv
<1>6. CASE ProbeFaults
  <2>1. StartIsFirst' /\ OneStops'
    BY <1>6 DEF IInv, StartIsFirst, OneStops, ProbeFaults, Transits, Refused, parts
  <2>2. DrainsFirst' /\ ReadyIsRunning' /\ StoppedIsOver' /\ Progress'
    BY <1>6 DEF IInv, DrainsFirst, ReadyIsRunning, StoppedIsOver, Progress, ProbeFaults,
                Transits, Refused, parts
  <2>3. DrainStays' /\ DeliveredStays' /\ WorkerStays'
    BY <1>6 DEF IInv, DrainStays, DeliveredStays, WorkerStays, ProbeFaults, Refused, parts,
                Active, Progress
  <2> QED
    BY <2>1, <2>2, <2>3 DEF IInv
<1> QED
  BY <1>1, <1>2, <1>3, <1>4, <1>5, <1>6

\* A step of a request or of a part of the service keeps the invariant.
LEMMA PartKeeps ==
  ASSUME IInv, TypeOK',
         \/ \E r \in Requests : Begin(r) \/ Serve(r) \/ EndRequest(r) \/ Take(r)
         \/ Execute \/ Maintain \/ \E e \in undelivered : Deliver(e)
  PROVE  IInv'
<1>1. ASSUME NEW r \in Requests, Begin(r) PROVE IInv'
  <2>1. StartIsFirst' /\ OneStops'
    BY <1>1 DEF IInv, StartIsFirst, OneStops, Begin, LoopFree, parts, StopRecords
  <2>2. DrainsFirst' /\ ReadyIsRunning' /\ StoppedIsOver' /\ Progress'
    BY <1>1 DEF IInv, DrainsFirst, ReadyIsRunning, StoppedIsOver, Progress, Begin, LoopFree,
                parts, OneStops
  <2>3. DrainStays' /\ DeliveredStays' /\ WorkerStays'
    BY <1>1 DEF IInv, DrainStays, DeliveredStays, WorkerStays, Begin, LoopFree, parts, Active,
                DrainsFirst, ReadyIsRunning, StoppedIsOver, Progress
  <2> QED
    BY <2>1, <2>2, <2>3 DEF IInv
<1>2. ASSUME NEW r \in Requests, Serve(r) PROVE IInv'
  <2>1. StartIsFirst' /\ OneStops'
    BY <1>2 DEF IInv, StartIsFirst, OneStops, Serve, Captures, StopRecords
  <2>2. DrainsFirst' /\ ReadyIsRunning' /\ StoppedIsOver' /\ Progress'
    BY <1>2 DEF IInv, DrainsFirst, ReadyIsRunning, StoppedIsOver, Progress, Serve, Captures
  <2>3. DrainStays' /\ DeliveredStays' /\ WorkerStays'
    BY <1>2 DEF IInv, DrainStays, DeliveredStays, WorkerStays, Serve, Captures, Active, Progress
  <2> QED
    BY <2>1, <2>2, <2>3 DEF IInv
<1>3. ASSUME NEW r \in Requests, EndRequest(r) PROVE IInv'
  <2>1. StartIsFirst' /\ OneStops'
    BY <1>3 DEF IInv, StartIsFirst, OneStops, EndRequest, parts
  <2>2. DrainsFirst' /\ ReadyIsRunning' /\ StoppedIsOver' /\ Progress'
    BY <1>3 DEF IInv, DrainsFirst, ReadyIsRunning, StoppedIsOver, Progress, EndRequest, parts
  <2>3. DrainStays' /\ DeliveredStays' /\ WorkerStays'
    BY <1>3 DEF IInv, DrainStays, DeliveredStays, WorkerStays, EndRequest, parts, Active,
                Progress
  <2> QED
    BY <2>1, <2>2, <2>3 DEF IInv
<1>4. ASSUME NEW r \in Requests, Take(r) PROVE IInv'
  <2>1. StartIsFirst' /\ OneStops'
    BY <1>4 DEF IInv, StartIsFirst, OneStops, Take
  <2>2. DrainsFirst' /\ ReadyIsRunning' /\ StoppedIsOver' /\ Progress'
    BY <1>4 DEF IInv, DrainsFirst, ReadyIsRunning, StoppedIsOver, Progress, Take
  <2>3. DrainStays' /\ DeliveredStays' /\ WorkerStays'
    BY <1>4 DEF IInv, DrainStays, DeliveredStays, WorkerStays, Take, Active, OneStops,
                StoppedIsOver, Progress
  <2> QED
    BY <2>1, <2>2, <2>3 DEF IInv
<1>5. CASE Execute
  <2>1. StartIsFirst' /\ OneStops'
    BY <1>5 DEF IInv, StartIsFirst, OneStops, Execute, Captures
  <2>2. DrainsFirst' /\ ReadyIsRunning' /\ StoppedIsOver' /\ Progress'
    BY <1>5 DEF IInv, DrainsFirst, ReadyIsRunning, StoppedIsOver, Progress, Execute, Captures
  <2>3. DrainStays' /\ DeliveredStays' /\ WorkerStays'
    BY <1>5 DEF IInv, DrainStays, DeliveredStays, WorkerStays, Execute, Captures, Active,
                Progress
  <2> QED
    BY <2>1, <2>2, <2>3 DEF IInv
<1>6. CASE Maintain
  <2>1. StartIsFirst' /\ OneStops'
    BY <1>6 DEF IInv, StartIsFirst, OneStops, Maintain, Captures
  <2>2. DrainsFirst' /\ ReadyIsRunning' /\ StoppedIsOver' /\ Progress'
    BY <1>6 DEF IInv, DrainsFirst, ReadyIsRunning, StoppedIsOver, Progress, Maintain, Captures
  <2>3. DrainStays' /\ DeliveredStays' /\ WorkerStays'
    BY <1>6 DEF IInv, DrainStays, DeliveredStays, WorkerStays, Maintain, Captures, Active,
                Progress
  <2> QED
    BY <2>1, <2>2, <2>3 DEF IInv
<1>7. ASSUME NEW e \in undelivered, Deliver(e) PROVE IInv'
  <2>1. StartIsFirst' /\ OneStops'
    BY <1>7 DEF IInv, StartIsFirst, OneStops, Deliver
  <2>2. DrainsFirst' /\ ReadyIsRunning' /\ StoppedIsOver' /\ Progress'
    BY <1>7 DEF IInv, DrainsFirst, ReadyIsRunning, StoppedIsOver, Progress, Deliver
  <2>3. DrainStays' /\ DeliveredStays' /\ WorkerStays'
    BY <1>7 DEF IInv, DrainStays, DeliveredStays, WorkerStays, Deliver, Active, Progress
  <2> QED
    BY <2>1, <2>2, <2>3 DEF IInv
<1> QED
  BY <1>1, <1>2, <1>3, <1>4, <1>5, <1>6, <1>7

\* A step of a thread that stops the service keeps the invariant.
LEMMA StopKeeps ==
  ASSUME IInv, TypeOK', NEW c \in Callers, AsksStop(c) \/ StopSteps(c)
  PROVE  IInv'
<1>1. CASE AsksStop(c)
  <2>1. StartIsFirst' /\ OneStops'
    BY <1>1 DEF IInv, StartIsFirst, OneStops, AsksStop, parts
  <2>2. DrainsFirst' /\ ReadyIsRunning' /\ StoppedIsOver' /\ Progress'
    BY <1>1 DEF IInv, DrainsFirst, ReadyIsRunning, StoppedIsOver, Progress, AsksStop, parts
  <2>3. DrainStays' /\ DeliveredStays' /\ WorkerStays'
    BY <1>1 DEF IInv, DrainStays, DeliveredStays, WorkerStays, AsksStop, parts, Active, Progress
  <2> QED
    BY <2>1, <2>2, <2>3 DEF IInv
<1>2. CASE StopShared(c)
  <2>1. StartIsFirst' /\ OneStops'
    BY <1>2 DEF IInv, StartIsFirst, OneStops, StopShared, parts, TypeOK
  <2>2. DrainsFirst' /\ ReadyIsRunning' /\ StoppedIsOver' /\ Progress'
    BY <1>2 DEF IInv, DrainsFirst, ReadyIsRunning, StoppedIsOver, Progress, StopShared, parts,
                TypeOK
  <2>3. DrainStays' /\ DeliveredStays' /\ WorkerStays'
    BY <1>2 DEF IInv, DrainStays, DeliveredStays, WorkerStays, StopShared, parts, Active, TypeOK,
                OneStops, Progress
  <2> QED
    BY <2>1, <2>2, <2>3 DEF IInv
<1>3. CASE DrainingChecks(c)
  <2>1. StartIsFirst' /\ OneStops'
    BY <1>3 DEF IInv, StartIsFirst, OneStops, DrainingChecks, parts, TypeOK
  <2>2. DrainsFirst' /\ ReadyIsRunning' /\ StoppedIsOver' /\ Progress'
    BY <1>3 DEF IInv, DrainsFirst, ReadyIsRunning, StoppedIsOver, Progress, DrainingChecks,
                parts, TypeOK
  <2>3. DrainStays' /\ DeliveredStays' /\ WorkerStays'
    BY <1>3 DEF IInv, DrainStays, DeliveredStays, WorkerStays, DrainingChecks, parts, Active,
                TypeOK, Progress
  <2> QED
    BY <2>1, <2>2, <2>3 DEF IInv
<1>4. CASE DrainingMoves(c)
  <2>1. StartIsFirst' /\ OneStops'
    BY <1>4 DEF IInv, StartIsFirst, OneStops, DrainingMoves, Transits, Refused, parts, TypeOK
  <2>2. DrainsFirst' /\ ReadyIsRunning' /\ StoppedIsOver' /\ Progress'
    BY <1>4 DEF IInv, DrainsFirst, ReadyIsRunning, StoppedIsOver, Progress, DrainingMoves,
                Transits, Refused, Allowed, parts, TypeOK
  <2>3. DrainStays' /\ DeliveredStays' /\ WorkerStays'
    BY <1>4 DEF IInv, DrainStays, DeliveredStays, WorkerStays, DrainingMoves, Refused, parts,
                Active, TypeOK, Progress
  <2> QED
    BY <2>1, <2>2, <2>3 DEF IInv
<1>5. CASE StopBegins(c)
  <2>1. StartIsFirst' /\ OneStops'
    <3>1. PICK d \in BOOLEAN : /\ stop' = [stop EXCEPT !.state = "stopping", !.by = c, !.drainSync = d]
                               /\ c = Owner => d
      BY <1>5, Zenon DEF StopBegins
    <3>2. /\ stop'.state = "stopping" /\ stop'.by = c /\ stop'.failed = stop.failed
          /\ stop'.by = Owner => stop'.drainSync
      BY <3>1 DEF IInv, TypeOK, StopRecords
    <3> QED
      BY <1>5, <3>2 DEF IInv, StartIsFirst, OneStops, StopBegins, parts, TypeOK
  <2>2. DrainsFirst' /\ ReadyIsRunning' /\ StoppedIsOver' /\ Progress'
    BY <1>5 DEF IInv, DrainsFirst, ReadyIsRunning, StoppedIsOver, Progress, StopBegins, parts
  <2>3. DrainStays' /\ DeliveredStays' /\ WorkerStays'
    BY <1>5 DEF IInv, DrainStays, DeliveredStays, WorkerStays, StopBegins, parts, Active,
                Progress
  <2> QED
    BY <2>1, <2>2, <2>3 DEF IInv
<1>6. CASE StopSleeper(c)
  <2>1. StartIsFirst' /\ OneStops'
    BY <1>6 DEF IInv, StartIsFirst, OneStops, StopSleeper
  <2>2. DrainsFirst' /\ ReadyIsRunning' /\ StoppedIsOver' /\ Progress'
    BY <1>6 DEF IInv, DrainsFirst, ReadyIsRunning, StoppedIsOver, Progress, StopSleeper
  <2>3. DrainStays' /\ DeliveredStays' /\ WorkerStays'
    BY <1>6 DEF IInv, DrainStays, DeliveredStays, WorkerStays, StopSleeper, Active, Progress
  <2> QED
    BY <2>1, <2>2, <2>3 DEF IInv
<1>7. CASE StopDispatcher(c)
  <2>1. StartIsFirst' /\ OneStops'
    BY <1>7 DEF IInv, StartIsFirst, OneStops, StopDispatcher, Fails, TypeOK, StopRecords
  <2>2. DrainsFirst' /\ ReadyIsRunning' /\ StoppedIsOver' /\ Progress'
    BY <1>7 DEF IInv, DrainsFirst, ReadyIsRunning, StoppedIsOver, Progress, StopDispatcher,
                Fails, TypeOK, StopRecords
  <2>3. DrainStays' /\ DeliveredStays' /\ WorkerStays'
    BY <1>7 DEF IInv, DrainStays, DeliveredStays, WorkerStays, StopDispatcher, Fails, Active,
                TypeOK, StopRecords, OneStops, Progress
  <2> QED
    BY <2>1, <2>2, <2>3 DEF IInv
<1>8. CASE DispatcherReports(c)
  <2>1. StartIsFirst' /\ OneStops'
    BY <1>8 DEF IInv, StartIsFirst, OneStops, DispatcherReports, parts
  <2>2. DrainsFirst' /\ ReadyIsRunning' /\ StoppedIsOver' /\ Progress'
    BY <1>8 DEF IInv, DrainsFirst, ReadyIsRunning, StoppedIsOver, Progress, DispatcherReports,
                parts
  <2>3. DrainStays' /\ DeliveredStays' /\ WorkerStays'
    BY <1>8 DEF IInv, DrainStays, DeliveredStays, WorkerStays, DispatcherReports, parts, Active,
                TypeOK, StopRecords, Progress
  <2> QED
    BY <2>1, <2>2, <2>3 DEF IInv
<1>9. CASE StopWorker(c)
  <2>1. StartIsFirst' /\ OneStops'
    BY <1>9 DEF IInv, StartIsFirst, OneStops, StopWorker
  <2>2. DrainsFirst' /\ ReadyIsRunning' /\ StoppedIsOver' /\ Progress'
    BY <1>9 DEF IInv, DrainsFirst, ReadyIsRunning, StoppedIsOver, Progress, StopWorker
  <2>3. DrainStays' /\ DeliveredStays' /\ WorkerStays'
    BY <1>9 DEF IInv, DrainStays, DeliveredStays, WorkerStays, StopWorker, Active, Progress
  <2> QED
    BY <2>1, <2>2, <2>3 DEF IInv
<1>10. CASE WorkerReports(c)
  <2>1. StartIsFirst' /\ OneStops'
    BY <1>10 DEF IInv, StartIsFirst, OneStops, WorkerReports, Fails, parts, TypeOK, StopRecords
  <2>2. DrainsFirst' /\ ReadyIsRunning' /\ StoppedIsOver' /\ Progress'
    BY <1>10 DEF IInv, DrainsFirst, ReadyIsRunning, StoppedIsOver, Progress, WorkerReports, Fails,
                 parts, TypeOK, StopRecords
  <2>3. DrainStays' /\ DeliveredStays' /\ WorkerStays'
    BY <1>10 DEF IInv, DrainStays, DeliveredStays, WorkerStays, WorkerReports, Fails, parts,
                 Active, TypeOK, StopRecords, Progress
  <2> QED
    BY <2>1, <2>2, <2>3 DEF IInv
<1>11. CASE CloseResources(c)
  <2>1. StartIsFirst' /\ OneStops'
    BY <1>11 DEF IInv, StartIsFirst, OneStops, CloseResources, TypeOK, StopRecords
  <2>2. DrainsFirst' /\ ReadyIsRunning' /\ StoppedIsOver' /\ Progress'
    BY <1>11 DEF IInv, DrainsFirst, ReadyIsRunning, StoppedIsOver, Progress, CloseResources,
                 TypeOK, StopRecords, OneStops
  <2>3. DrainStays' /\ DeliveredStays' /\ WorkerStays'
    BY <1>11 DEF IInv, DrainStays, DeliveredStays, WorkerStays, CloseResources, Active, TypeOK,
                 StopRecords, Progress
  <2> QED
    BY <2>1, <2>2, <2>3 DEF IInv
<1>12. CASE StopChecks(c)
  <2>1. StartIsFirst' /\ OneStops'
    BY <1>12 DEF IInv, StartIsFirst, OneStops, StopChecks, Ends, parts, TypeOK, StopRecords
  <2>2. DrainsFirst' /\ ReadyIsRunning' /\ StoppedIsOver' /\ Progress'
    BY <1>12 DEF IInv, DrainsFirst, ReadyIsRunning, StoppedIsOver, Progress, StopChecks, Ends,
                 parts, TypeOK, StopRecords
  <2>3. DrainStays' /\ DeliveredStays' /\ WorkerStays'
    BY <1>12 DEF IInv, DrainStays, DeliveredStays, WorkerStays, StopChecks, Ends, parts, Active,
                 TypeOK, StopRecords, OneStops, Progress
  <2> QED
    BY <2>1, <2>2, <2>3 DEF IInv
<1>13. CASE StopEnds(c)
  <2>1. StartIsFirst' /\ OneStops'
    BY <1>13 DEF IInv, StartIsFirst, OneStops, StopEnds, Ends, Transits, Refused, parts, TypeOK,
                 StopRecords
  <2>2. DrainsFirst' /\ ReadyIsRunning' /\ StoppedIsOver' /\ Progress'
    BY <1>13 DEF IInv, DrainsFirst, ReadyIsRunning, StoppedIsOver, Progress, StopEnds, Ends,
                 Transits, Refused, parts, TypeOK, StopRecords
  <2>3. DrainStays' /\ DeliveredStays' /\ WorkerStays'
    BY <1>13 DEF IInv, DrainStays, DeliveredStays, WorkerStays, StopEnds, Ends, Refused, parts,
                 Active, TypeOK, StopRecords, OneStops, Progress
  <2> QED
    BY <2>1, <2>2, <2>3 DEF IInv
<1> QED
  BY <1>1, <1>2, <1>3, <1>4, <1>5, <1>6, <1>7, <1>8, <1>9, <1>10, <1>11, <1>12, <1>13 DEF StopSteps

(* Theorems *)

\* The initial state satisfies the invariant.
LEMMA InitInv ==
  ASSUME Init
  PROVE  IInv
<1>1. TypeOK
  <2>1. stop \in StopRecords /\ pc \in [Callers -> Positions]
    BY DEF Init, StopRecords, Positions
  <2>2. /\ probe \in [pc : {"idle", "storage", "fault"},
                     saw : {"starting", "ready", "draining", "stopped", "faulted"}]
        /\ worker \in [running : BOOLEAN, task : Requests \cup {None}]
    BY DEF Init
  <2>3. accepting \in BOOLEAN /\ requestDrained \in BOOLEAN
    BY Zenon DEF Init
  <2>4. req \in [Requests -> {"idle", "active", "served", "done"}] /\ faults \in 0 .. MaxFaults
    BY DEF Init
  <2> QED
    BY <2>1, <2>2, <2>3, <2>4 DEF Init, TypeOK
<1>2. StartIsFirst /\ OneStops /\ DrainsFirst
  BY DEF Init, StartIsFirst, OneStops, DrainsFirst
<1>3. ReadyIsRunning /\ StoppedIsOver /\ Progress
  BY DEF Init, ReadyIsRunning, StoppedIsOver, Progress
<1>4. DrainStays /\ DeliveredStays /\ WorkerStays
  BY DEF Init, DrainStays, DeliveredStays, WorkerStays
<1> QED
  BY <1>1, <1>2, <1>3, <1>4 DEF IInv

\* Every step keeps the invariant.
LEMMA NextInv ==
  ASSUME IInv, [Next]_vars
  PROVE  IInv'
<1>1. CASE Start \/ Shutdown \/ WaitForZero \/ ProbeReads \/ ProbeStorage \/ ProbeFaults
  BY <1>1, OwnerTypes, OwnerKeeps DEF IInv
<1>2. CASE \/ \E r \in Requests : Begin(r) \/ Serve(r) \/ EndRequest(r) \/ Take(r)
           \/ Execute \/ Maintain \/ \E e \in undelivered : Deliver(e)
  BY <1>2, PartTypes, PartKeeps DEF IInv
<1>3. ASSUME NEW c \in Callers, AsksStop(c) \/ StopSteps(c) PROVE IInv'
  BY <1>3, StopTypes, StopKeeps DEF IInv
<1>4. CASE UNCHANGED vars
  BY <1>4 DEF vars, IInv, TypeOK, StartIsFirst, OneStops, DrainsFirst, ReadyIsRunning,
              StoppedIsOver, Progress, DrainStays, DeliveredStays, WorkerStays, Active
<1> QED
  BY <1>1, <1>2, <1>3, <1>4, Zenon DEF Next

\* What the thread that stops the service has stopped can be read off its
\* position, in every reachable state.
THEOREM LifecycleInvariant == Spec => []IInv
<1>1. Init => IInv
  BY InitInv
<1>2. IInv /\ [Next]_vars => IInv'
  BY NextInv
<1> QED
  BY <1>1, <1>2, PTL DEF Spec

\* The variables keep their types.
THEOREM TypeCorrect == Spec => []TypeOK
<1>1. IInv => TypeOK
  BY DEF IInv
<1> QED
  BY <1>1, LifecycleInvariant, PTL

\* The lifecycle "ready" (readiness_status), the outcome "stopped" (stop) and the
\* shutdown record of the lifespan are the truth about the parts of the service.
THEOREM StatusIsTrue == Spec => []ReportsAreTrue
<1>1. ASSUME IInv PROVE CleanIsTrue
  BY <1>1 DEF IInv, TypeOK, StopRecords, OneStops, DrainStays, DeliveredStays, WorkerStays, CleanIsTrue
<1>2. IInv => ReportsAreTrue
  BY <1>1 DEF IInv, ReportsAreTrue
<1> QED
  BY <1>2, LifecycleInvariant, PTL
=============================================================================
