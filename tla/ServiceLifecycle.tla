--------------------------- MODULE ServiceLifecycle ---------------------------
(***************************************************************************)
(* The start and the stop of a service (memplex/service.py), its one-way   *)
(* lifecycle and the admission of requests (memplex/operations.py), under  *)
(* the HTTP server that owns it (memplex/adapters/http_api.py).            *)
(*                                                                         *)
(* The lifespan runs on the server's event loop, as do the requests'       *)
(* admission and end and the readiness probe: from its shutdown on none of *)
(* these runs.  Other threads may stop the service too; the first one in   *)
(* does it and the others wait for its outcome.                            *)
(*                                                                         *)
(* The dispatcher and the worker are those of SyncDispatcher and TaskQueue *)
(* reduced to what their stop reports.  An event is named after the        *)
(* request that captured it, or Background if a task or the sleep-time     *)
(* agent did.                                                              *)
(***************************************************************************)
EXTENDS Naturals, FiniteSets

CONSTANTS
  Requests,
  Stoppers,    \* other threads that stop the service
  Owner,       \* the lifespan of the HTTP server
  Background,  \* origin of the events of tasks and of the sleep-time agent
  None,
  MaxFaults    \* bound: parts that fail

ASSUME ServiceLifecycleAssumptions ==
  /\ Owner \notin Stoppers /\ Background \notin Requests /\ None \notin Requests
  /\ MaxFaults \in Nat

VARIABLES
  lifecycle,    \* RuntimeLifecycle._state
  stop,         \* _service_stop_state, result and error; the caller that stops, its drain_sync
  pc,           \* where each caller is
  probe,        \* readiness_status in progress: where, and the lifecycle it has read
  accepting,    \* RequestAdmission
  req,          \* requests: "idle", "active", "served", "done"
  requestDrained,
  worker,       \* its thread runs, the task it executes
  tasks,        \* pending tasks
  dispatcher, sleeper,  \* "off", "on"; "late": its stop has not waited for its end
  undelivered,  \* events the dispatcher has still to send
  resources,    \* _postgres_resource_close_state; a Lite store has nothing to close
  faults

vars == <<lifecycle, stop, pc, probe, accepting, req, requestDrained,
          worker, tasks, dispatcher, sleeper, undelivered, resources, faults>>
parts == <<worker, tasks, dispatcher, sleeper, undelivered, resources>>

Callers == Stoppers \cup {Owner}
Active == {r \in Requests : req[r] \in {"active", "served"}}

Init ==
  /\ lifecycle = "starting"
  /\ stop = [state |-> "open", by |-> None, drainSync |-> TRUE, failed |-> FALSE,
             sync |-> TRUE, worker |-> TRUE]
  /\ pc = [c \in Callers |-> "idle"]
  /\ probe = [pc |-> "idle", saw |-> "starting"]
  /\ accepting = TRUE /\ req = [r \in Requests |-> "idle"] /\ requestDrained = FALSE
  /\ worker = [running |-> FALSE, task |-> None] /\ tasks = {}
  /\ dispatcher = "off" /\ sleeper = "off" /\ undelivered = {}
  /\ resources = "open" /\ faults = 0

Fault == faults < MaxFaults /\ faults' = faults + 1
Goes(c, to) == pc' = [pc EXCEPT ![c] = to]
-----------------------------------------------------------------------------
(* RuntimeLifecycle *)

Allowed == [starting |-> {"ready", "draining", "stopped", "faulted"},
            ready    |-> {"draining", "faulted"},
            draining |-> {"stopped", "faulted"},
            stopped  |-> {}, faulted |-> {}]

\* _transition: a transition that is not allowed raises.
Transits(target) == target \in Allowed[lifecycle] /\ lifecycle' = target
Refused(target) == target \notin Allowed[lifecycle] /\ UNCHANGED lifecycle
-----------------------------------------------------------------------------
(* start *)

\* The parts start one after the other; one that fails leaves the earlier ones
\* running.  The owner starts a service it has just made, and once: a start of
\* a stopped one, which would start the parts and then be refused, is left out.
Start ==
  /\ pc[Owner] = "idle"
  /\ \/ /\ worker' = [worker EXCEPT !.running = TRUE]
        /\ dispatcher' = "on" /\ sleeper' = "on"
        /\ Transits("ready") /\ Goes(Owner, "serving") /\ UNCHANGED faults
     \/ /\ Fault
        /\ \E started \in 0 .. 2 :
             /\ worker' = [worker EXCEPT !.running = started >= 1]
             /\ dispatcher' = IF started >= 2 THEN "on" ELSE "off"
        /\ UNCHANGED sleeper
        /\ Transits("faulted") /\ Goes(Owner, "failed")
  /\ UNCHANGED <<stop, probe, accepting, req, requestDrained, tasks, undelivered, resources>>
-----------------------------------------------------------------------------
(* Requests, tasks, deliveries *)

\* The event loop is neither in the lifespan's shutdown nor in a probe.
LoopFree == pc[Owner] = "serving" /\ probe.pc = "idle"

\* A write captures an event, or fails; a Lite store stays writable for ever.
Captures(origin) == undelivered' \in {undelivered, undelivered \cup {origin}}

\* The admission middleware, before the handler.
Begin(r) ==
  /\ LoopFree /\ accepting /\ req[r] = "idle"
  /\ req' = [req EXCEPT ![r] = "active"]
  /\ UNCHANGED <<lifecycle, stop, pc, probe, accepting, requestDrained, faults>> /\ UNCHANGED parts

\* The handler writes and may submit a task; one in an executor goes on beside
\* the shutdown.
Serve(r) ==
  /\ req[r] = "active" /\ req' = [req EXCEPT ![r] = "served"]
  /\ Captures(r)
  /\ \/ worker.running /\ tasks' = tasks \cup {r}
     \/ UNCHANGED tasks
  /\ UNCHANGED <<lifecycle, stop, pc, probe, accepting, requestDrained, worker, dispatcher,
                 sleeper, resources, faults>>

\* The admission middleware, after the handler.
EndRequest(r) ==
  /\ LoopFree /\ req[r] = "served"
  /\ req' = [req EXCEPT ![r] = "done"]
  /\ UNCHANGED <<lifecycle, stop, pc, probe, accepting, requestDrained, faults>> /\ UNCHANGED parts

\* The worker's loop: it takes a task while it runs, and ends it in any case.
Take(t) ==
  /\ worker.running /\ worker.task = None /\ t \in tasks
  /\ worker' = [worker EXCEPT !.task = t] /\ tasks' = tasks \ {t}
  /\ UNCHANGED <<lifecycle, stop, pc, probe, accepting, req, requestDrained, dispatcher,
                 sleeper, undelivered, resources, faults>>

\* A task writes in its turn.
Execute ==
  /\ worker.task # None
  /\ worker' = [worker EXCEPT !.task = None]
  /\ Captures(Background)
  /\ UNCHANGED <<lifecycle, stop, pc, probe, accepting, req, requestDrained, tasks,
                 dispatcher, sleeper, resources, faults>>

\* A cycle of the sleep-time agent; a late one is its last.
Maintain ==
  /\ sleeper # "off" /\ sleeper' = IF sleeper = "late" THEN "off" ELSE "on"
  /\ Captures(Background)
  /\ UNCHANGED <<lifecycle, stop, pc, probe, accepting, req, requestDrained, worker, tasks,
                 dispatcher, resources, faults>>

\* An event is delivered to every target, or given up as a dead letter: for a
\* drain, both are done.
Deliver(e) ==
  /\ dispatcher = "on" /\ e \in undelivered
  /\ undelivered' = undelivered \ {e}
  /\ UNCHANGED <<lifecycle, stop, pc, probe, accepting, req, requestDrained, worker, tasks,
                 dispatcher, sleeper, resources, faults>>
-----------------------------------------------------------------------------
(* readiness_status: reads the lifecycle, then the storage, then may fault *)

ProbeReads ==
  /\ LoopFree
  /\ probe' = [pc |-> "storage", saw |-> lifecycle]
  /\ UNCHANGED <<lifecycle, stop, pc, accepting, req, requestDrained, faults>> /\ UNCHANGED parts

ProbeStorage ==
  /\ probe.pc = "storage"
  /\ \/ resources = "open" /\ probe' = [probe EXCEPT !.pc = "idle"] /\ UNCHANGED faults
     \/ resources # "open" /\ UNCHANGED faults
        /\ probe' = [probe EXCEPT !.pc = IF probe.saw = "ready" THEN "fault" ELSE "idle"]
     \/ Fault /\ probe' = [probe EXCEPT !.pc = IF probe.saw = "ready" THEN "fault" ELSE "idle"]
  /\ UNCHANGED <<lifecycle, stop, pc, accepting, req, requestDrained>> /\ UNCHANGED parts

ProbeFaults ==
  /\ probe.pc = "fault" /\ (Transits("faulted") \/ Refused("faulted"))
  /\ probe' = [pc |-> "idle", saw |-> lifecycle']
  /\ UNCHANGED <<stop, pc, accepting, req, requestDrained, faults>> /\ UNCHANGED parts
-----------------------------------------------------------------------------
(* The lifespan's shutdown *)

\* start_draining of the admission.
Shutdown ==
  /\ LoopFree
  /\ accepting' = FALSE /\ Goes(Owner, "closing")
  /\ UNCHANGED <<lifecycle, stop, probe, req, requestDrained, faults>> /\ UNCHANGED parts

\* Mutant: a wait that timed out is taken for a drain.
WaitForZero_Optimist ==
  /\ pc[Owner] = "waiting"
  /\ requestDrained' = TRUE /\ Goes(Owner, "asking")
  /\ UNCHANGED <<lifecycle, stop, probe, accepting, req, faults>> /\ UNCHANGED parts

\* wait_for_zero, with its timeout.
WaitForZero ==
  /\ pc[Owner] = "waiting"
  /\ requestDrained' = (Active = {}) /\ Goes(Owner, "asking")
  /\ UNCHANGED <<lifecycle, stop, probe, accepting, req, faults>> /\ UNCHANGED parts

\* begin_draining reads the lifecycle, then moves it: in the lifespan
\* ("closing", "closes"), and in stop ("checking", "drains").
DrainingChecks(c) ==
  /\ \/ pc[c] = "closing" /\ Goes(c, IF lifecycle \in {"starting", "ready"} THEN "closes" ELSE "waiting")
     \/ pc[c] = "checking" /\ Goes(c, IF lifecycle \in {"starting", "ready"} THEN "drains" ELSE "sleeper")
  /\ UNCHANGED <<lifecycle, stop, probe, accepting, req, requestDrained, faults>> /\ UNCHANGED parts

\* The exception of a refused transition escapes: from the lifespan, which then
\* never stops the service, and from stop, which leaves the stop unfinished.
DrainingMoves(c) ==
  /\ \/ Transits("draining")
        /\ \/ pc[c] = "closes" /\ Goes(c, "waiting")
           \/ pc[c] = "drains" /\ Goes(c, "sleeper")
     \/ Refused("draining")
        /\ \/ pc[c] = "closes" /\ Goes(c, "raised")
           \/ pc[c] = "drains" /\ Goes(c, "refused")
  /\ UNCHANGED <<stop, probe, accepting, req, requestDrained, faults>> /\ UNCHANGED parts
-----------------------------------------------------------------------------
(* stop *)

AsksStop(c) ==
  /\ c \in Stoppers /\ pc[c] = "idle" /\ pc[Owner] # "idle"
  /\ Goes(c, "asking")
  /\ UNCHANGED <<lifecycle, stop, probe, accepting, req, requestDrained, faults>> /\ UNCHANGED parts

\* The first caller stops the service, with a drain of the sync or without.
StopBegins(c) ==
  /\ pc[c] = "asking" /\ stop.state = "open" /\ Goes(c, "checking")
  /\ \E drainSync \in IF c = Owner THEN {TRUE} ELSE BOOLEAN :
       stop' = [stop EXCEPT !.state = "stopping", !.by = c, !.drainSync = drainSync]
  /\ UNCHANGED <<lifecycle, probe, accepting, req, requestDrained, faults>> /\ UNCHANGED parts

\* The others wait for its outcome and share it.
StopShared(c) ==
  /\ pc[c] = "asking"
  /\ \/ stop.state = "stopped" /\ Goes(c, "returned")
     \/ stop.state = "faulted" /\ Goes(c, "raised")
  /\ UNCHANGED <<lifecycle, stop, probe, accepting, req, requestDrained, faults>> /\ UNCHANGED parts

\* sleep_time.stop waits a few seconds for the cycle in progress.
StopSleeper(c) ==
  /\ pc[c] = "sleeper" /\ Goes(c, "sync")
  /\ sleeper' \in IF sleeper = "on" THEN {"off", "late"} ELSE {sleeper}
  /\ UNCHANGED <<lifecycle, stop, probe, accepting, req, requestDrained, worker, tasks,
                 dispatcher, undelivered, resources, faults>>

Fails(c) == stop' = [stop EXCEPT !.failed = TRUE] /\ Goes(c, "resources")

\* dispatcher.stop: its drain finds nothing left or gives up at the deadline, and
\* its threads are stopped.  Or it raises, on a failure, or because a dispatcher
\* that runs is to be left alone.
StopDispatcher(c) ==
  /\ pc[c] = "sync"
  /\ \/ /\ stop.drainSync /\ dispatcher' = "off" /\ Goes(c, "syncResult")
        /\ \E drained \in {FALSE, undelivered = {}} : stop' = [stop EXCEPT !.sync = drained]
        /\ UNCHANGED faults
     \/ /\ ~stop.drainSync /\ dispatcher = "off" /\ Goes(c, "worker")
        /\ UNCHANGED <<stop, dispatcher, faults>>
     \/ ~stop.drainSync /\ dispatcher = "on" /\ Fails(c) /\ UNCHANGED <<dispatcher, faults>>
     \/ stop.drainSync /\ Fault /\ Fails(c) /\ dispatcher' \in {dispatcher, "off"}
  /\ UNCHANGED <<lifecycle, probe, accepting, req, requestDrained, worker, tasks, sleeper,
                 undelivered, resources>>

\* Its result is the drain's and that of a second look.
DispatcherReports(c) ==
  /\ pc[c] = "syncResult" /\ Goes(c, "worker")
  /\ stop' = [stop EXCEPT !.sync = @ /\ undelivered = {}]
  /\ UNCHANGED <<lifecycle, probe, accepting, req, requestDrained, faults>> /\ UNCHANGED parts

\* worker.stop: no task is taken any more ...
StopWorker(c) ==
  /\ pc[c] = "worker" /\ Goes(c, "join")
  /\ worker' = [worker EXCEPT !.running = FALSE]
  /\ UNCHANGED <<lifecycle, stop, probe, accepting, req, requestDrained, tasks, dispatcher,
                 sleeper, undelivered, resources, faults>>

\* ... and the one in progress has ended, or not by the deadline.
WorkerReports(c) ==
  /\ pc[c] = "join"
  /\ \/ stop' = [stop EXCEPT !.worker = (worker.task = None)] /\ Goes(c, "resources") /\ UNCHANGED faults
     \/ Fault /\ Fails(c)
  /\ UNCHANGED <<lifecycle, probe, accepting, req, requestDrained>> /\ UNCHANGED parts

\* _close_postgres_resources_once.
CloseResources(c) ==
  /\ pc[c] = "resources" /\ Goes(c, "ending")
  /\ \/ resources' = "closed" /\ UNCHANGED <<stop, faults>>
     \/ Fault /\ resources' = "faulted" /\ stop' = [stop EXCEPT !.failed = TRUE]
  /\ UNCHANGED <<lifecycle, probe, accepting, req, requestDrained, worker, tasks, dispatcher,
                 sleeper, undelivered>>

\* Mutant: the exception leaves stop without its except clause.
Ends_Silent(c) ==
  /\ stop' = [stop EXCEPT !.state = IF stop.failed THEN "stopping" ELSE "stopped"]
  /\ Goes(c, IF stop.failed THEN "raised" ELSE "returned")

\* The outcome that every caller returns or raises.
Ends(c) ==
  /\ stop' = [stop EXCEPT !.state = IF stop.failed THEN "faulted" ELSE "stopped"]
  /\ Goes(c, IF stop.failed THEN "raised" ELSE "returned")

\* The end of stop reads the lifecycle, and then moves it.
StopChecks(c) ==
  /\ pc[c] = "ending"
  /\ \/ lifecycle = "draining" /\ Goes(c, "marks") /\ UNCHANGED stop
     \/ lifecycle # "draining" /\ Ends(c)
  /\ UNCHANGED <<lifecycle, probe, accepting, req, requestDrained, faults>> /\ UNCHANGED parts

StopEnds(c) ==
  /\ pc[c] = "marks"
  /\ LET target == IF stop.failed THEN "faulted" ELSE "stopped"
     IN  \/ Transits(target) /\ Ends(c)
         \/ Refused(target) /\ Goes(c, "refused") /\ UNCHANGED stop
  /\ UNCHANGED <<probe, accepting, req, requestDrained, faults>> /\ UNCHANGED parts
-----------------------------------------------------------------------------
StopSteps(c) ==
  \/ DrainingChecks(c) \/ DrainingMoves(c) \/ StopBegins(c) \/ StopShared(c) \/ StopSleeper(c)
  \/ StopDispatcher(c) \/ DispatcherReports(c) \/ StopWorker(c) \/ WorkerReports(c)
  \/ CloseResources(c) \/ StopChecks(c) \/ StopEnds(c)

Next ==
  \/ Start \/ Shutdown \/ WaitForZero
  \/ ProbeReads \/ ProbeStorage \/ ProbeFaults
  \/ \E r \in Requests : Begin(r) \/ Serve(r) \/ EndRequest(r) \/ Take(r)
  \/ Execute \/ Maintain \/ \E e \in undelivered : Deliver(e)
  \/ \E c \in Callers : AsksStop(c) \/ StopSteps(c)

Spec == Init /\ [][Next]_vars

\* Every step of a stop that was called is taken: each wait in it has a
\* deadline, except that for the connections on loan (see ConnectionPool).
FairSpec ==
  /\ Spec
  /\ \A c \in Callers : WF_vars(StopSteps(c))
  /\ WF_vars(WaitForZero) /\ WF_vars(ProbeStorage \/ ProbeFaults)
-----------------------------------------------------------------------------
(* Properties *)

\* The service is ready only while its parts run.
ReadyIsRunning ==
  lifecycle = "ready" =>
    worker.running /\ dispatcher = "on" /\ sleeper = "on" /\ resources = "open"

\* A service that says it has stopped takes no tasks, delivers nothing and holds
\* no connection, and its lifecycle is at an end.
StoppedIsOver ==
  stop.state = "stopped" =>
    /\ lifecycle \in {"stopped", "faulted"} /\ resources = "closed"
    /\ ~worker.running /\ dispatcher = "off"

\* The lifespan that stops the service and reports no exceeded deadline leaves
\* no request unanswered, no event of a request still to be sent (each is
\* delivered or a dead letter) and no task half done.
CleanIsTrue ==
  pc[Owner] = "returned" /\ stop.by = Owner /\ requestDrained /\ stop.sync /\ stop.worker =>
    Active = {} /\ undelivered \subseteq {Background} /\ worker.task = None

\* What the service reports of its life is so: readiness_status, the
\* result of stop and the shutdown record of the lifespan.
ReportsAreTrue == ReadyIsRunning /\ StoppedIsOver /\ CleanIsTrue

\* Whoever calls stop comes back, with the result or the error of the one that
\* stops, whatever fails; but for a lifecycle that moved between a stop's look
\* at it and its transition.
StopReturns ==
  \A c \in Callers :
    pc[c] = "asking" ~> pc[c] \in {"returned", "raised"} \/ \E d \in Callers : pc[d] = "refused"
=============================================================================
