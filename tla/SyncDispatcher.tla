---------------------------- MODULE SyncDispatcher ----------------------------
(***************************************************************************)
(* The threads of one SyncDispatcher (memplex/sync_dispatcher.py): a       *)
(* scheduler that reserves a slot for a target, claims a batch and queues  *)
(* it; a pool of workers that send; and the caller of start, stop and      *)
(* drain.  They share a stop event, a bounded queue and two counters under *)
(* one condition; claims and settlements happen outside it, in the sync    *)
(* repository, so each method is cut where it takes or leaves that lock.   *)
(*                                                                         *)
(* The repository is SyncOutbox seen from here: per batch one row, claimed *)
(* under a lease that may run out, settled only by the claim that holds    *)
(* it.  "done" is delivered or dead-lettered, which is also what becomes   *)
(* of a batch after its last attempt.  Threads of a pool are               *)
(* interchangeable: idle ones are counted, busy ones are what they carry.  *)
(***************************************************************************)
EXTENDS Integers, FiniteSets, Sequences, SequencesExt

CONSTANTS
  Targets,      \* configured targets, 1 .. n in the order of the mapping
  Batches,      \* work for them, each a full claim
  TargetOf,     \* the target of a batch
  None,
  MaxInFlight,  \* max_in_flight: slots, queue size and workers of one start
  PerTarget,    \* per_target_in_flight
  MaxAttempts,  \* sync_max_attempts
  MaxStarts     \* bound: thread pools started in one behaviour

ASSUME DispatcherAssumptions ==
  /\ IsFiniteSet(Targets) /\ Targets = 1 .. Cardinality(Targets)
  /\ TargetOf \in [Batches -> Targets]
  /\ \A n \in {MaxInFlight, PerTarget, MaxAttempts, MaxStarts} : n \in Nat \ {0}
  /\ PerTarget <= MaxInFlight

VARIABLES
  stopped,   \* _stop_event
  sched,     \* the scheduler thread
  active,    \* _active_batches
  activeOf,  \* _active_targets
  queue,     \* _work_queue
  idle,      \* workers waiting for work
  work,      \* batches workers carry, with what comes next
  row,       \* the repository's rows: state and attempt
  starts,    \* pools started so far
  ctl,       \* the thread inside start, stop or drain
  due        \* (history) what had been written when stop was called

vars == <<stopped, sched, active, activeOf, queue, idle, work, row, starts, ctl, due>>
slotVars == <<active, activeOf>>
poolVars == <<queue, idle, work>>
ctlVars == <<starts, ctl, due>>

\* A claimed batch: the attempt number tells its lease from later ones.
Flight == [batch : Batches, attempt : 1 .. MaxAttempts]

Init ==
  /\ stopped = FALSE
  /\ sched = [pc |-> "dead", target |-> 1, flight |-> None]
  /\ active = 0 /\ activeOf = [t \in Targets |-> 0]
  /\ queue = <<>> /\ idle = 0 /\ work = {}
  /\ row = [b \in Batches |-> [state |-> "absent", attempt |-> 0]]
  /\ starts = 0
  /\ ctl = [op |-> "drain", pc |-> "idle", target |-> 1, sent |-> 0, flight |-> None,
            clear |-> FALSE, drained |-> FALSE]
  /\ due = {}
-----------------------------------------------------------------------------
(* The repository, as its callers see it *)

Write(b) ==
  /\ row[b].state = "absent"
  /\ row' = [row EXCEPT ![b].state = "pending"]
  /\ UNCHANGED <<stopped, sched, slotVars, poolVars, ctlVars>>

\* Back to the queue, or to the dead letters when no attempt is left.
Retried(b) ==
  [row EXCEPT ![b].state = IF row[b].attempt >= MaxAttempts THEN "done" ELSE "pending"]

LeaseExpires(b) ==
  /\ row[b].state = "leased"
  /\ row' = Retried(b)
  /\ UNCHANGED <<stopped, sched, slotVars, poolVars, ctlVars>>

Pending(t) == {b \in Batches : TargetOf[b] = t /\ row[b].state = "pending"}

\* sync_claim leases a batch.
ClaimRow(b) == row' = [row EXCEPT ![b] = [state |-> "leased", attempt |-> @.attempt + 1]]
NewFlight(b) == [batch |-> b, attempt |-> row[b].attempt + 1]

\* sync_ack_batch and sync_dead_letter, or sync_fail; a flight that has lost
\* its lease gets SyncDeliveryBusy.
HoldsRow(f) == row[f.batch] = [state |-> "leased", attempt |-> f.attempt]
SettleRow(f) == row' = IF HoldsRow(f) THEN [row EXCEPT ![f.batch].state = "done"] ELSE row
FailRow(f) == row' = IF HoldsRow(f) THEN Retried(f.batch) ELSE row

\* sync_dispatch_status: nothing pending, nothing leased.
NothingOpen == \A b \in Batches : row[b].state \in {"absent", "done"}
-----------------------------------------------------------------------------
(* Slots: _reserve_target and _release_target, under the condition *)

\* Mutant: a target may take every slot.
CanReserve_AnyTarget(t) == active < MaxInFlight

CanReserve(t) == active < MaxInFlight /\ activeOf[t] < PerTarget

Reserve(t) ==
  /\ active' = active + 1
  /\ activeOf' = [activeOf EXCEPT ![t] = @ + 1]

\* Mutant: gives back a slot too many.
Release_Twice(t) ==
  /\ active' = active - 2
  /\ activeOf' = [activeOf EXCEPT ![t] = IF @ <= 1 THEN 0 ELSE @ - 1]

Release(t) ==
  /\ active' = active - 1
  /\ activeOf' = [activeOf EXCEPT ![t] = IF @ <= 1 THEN 0 ELSE @ - 1]
-----------------------------------------------------------------------------
(* The scheduler: _run and _schedule_once *)

Alive == sched.pc # "dead"

SchedLoop ==
  /\ sched.pc = "loop"
  /\ sched' = [sched EXCEPT !.pc = IF stopped THEN "dead" ELSE "pick"]
  /\ UNCHANGED <<stopped, slotVars, poolVars, row, ctlVars>>

\* Back to the loop, or on to the next target of the pass.
EndPass == [sched EXCEPT !.pc = "loop", !.target = 1]
NextTarget == [sched EXCEPT !.pc = "pick", !.target = @ + 1, !.flight = None]

\* Reserves a slot for the target, passes over it, or ends the pass.
SchedPick ==
  /\ sched.pc = "pick"
  /\ IF sched.target \in Targets /\ ~stopped /\ CanReserve(sched.target)
     THEN sched' = [sched EXCEPT !.pc = "claim"] /\ Reserve(sched.target)
     ELSE /\ sched' = IF sched.target \in Targets THEN NextTarget ELSE EndPass
          /\ UNCHANGED slotVars
  /\ UNCHANGED <<stopped, poolVars, row, ctlVars>>

\* sync_claim finds nothing, raises (which ends the pass), or leases a batch.
\* Mutant: the slot of an empty claim is not given back.
SchedClaim_Leaks ==
  /\ sched.pc = "claim"
  /\ \/ Pending(sched.target) = {} /\ sched' = NextTarget /\ UNCHANGED row
     \/ \E b \in Pending(sched.target) :
          /\ ClaimRow(b)
          /\ sched' = [sched EXCEPT !.pc = "put", !.flight = NewFlight(b)]
  /\ UNCHANGED <<stopped, slotVars, poolVars, ctlVars>>

SchedClaim ==
  /\ sched.pc = "claim"
  /\ \/ /\ Pending(sched.target) = {}
        /\ sched' = [sched EXCEPT !.pc = "release"] /\ UNCHANGED row
     \/ sched' = [sched EXCEPT !.pc = "raised"] /\ UNCHANGED row
     \/ \E b \in Pending(sched.target) :
          /\ ClaimRow(b)
          /\ sched' = [sched EXCEPT !.pc = "put", !.flight = NewFlight(b)]
  /\ UNCHANGED <<stopped, slotVars, poolVars, ctlVars>>

\* Under the condition again: queue the batch unless a stop came meanwhile.
\* Mutant: does not look at the stop event a second time.
SchedPut_Unfenced ==
  /\ sched.pc = "put"
  /\ queue' = Append(queue, sched.flight) /\ sched' = NextTarget
  /\ UNCHANGED <<stopped, slotVars, idle, work, row, ctlVars>>

SchedPut ==
  /\ sched.pc = "put"
  /\ IF stopped
     THEN sched' = [sched EXCEPT !.pc = "defer"] /\ UNCHANGED queue
     ELSE queue' = Append(queue, sched.flight) /\ sched' = NextTarget
  /\ UNCHANGED <<stopped, slotVars, idle, work, row, ctlVars>>

\* _fail puts the batch back, or raises: its lease is lost, or the repository
\* fails, which leaves the row leased.
SchedDefer ==
  /\ sched.pc = "defer"
  /\ \/ /\ HoldsRow(sched.flight) /\ FailRow(sched.flight)
        /\ sched' = [sched EXCEPT !.pc = "release"]
     \/ sched' = [sched EXCEPT !.pc = "raised"] /\ UNCHANGED row
  /\ UNCHANGED <<stopped, slotVars, poolVars, ctlVars>>

SchedRelease ==
  /\ sched.pc \in {"release", "raised"}
  /\ Release(sched.target)
  /\ sched' = IF sched.pc = "release" THEN NextTarget ELSE [EndPass EXCEPT !.flight = None]
  /\ UNCHANGED <<stopped, poolVars, row, ctlVars>>

Scheduler ==
  SchedLoop \/ SchedPick \/ SchedClaim \/ SchedPut \/ SchedDefer \/ SchedRelease
-----------------------------------------------------------------------------
(* Workers: _run_worker and _send *)

\* The condition of the loop: stopped, and nothing queued.
WorkerExits ==
  /\ idle > 0 /\ stopped /\ queue = <<>>
  /\ idle' = idle - 1
  /\ UNCHANGED <<stopped, sched, slotVars, queue, work, row, ctlVars>>

WorkerGets ==
  /\ idle > 0 /\ queue # <<>>
  /\ idle' = idle - 1
  /\ work' = work \cup {[flight |-> Head(queue), pc |-> "got"]}
  /\ queue' = Tail(queue)
  /\ UNCHANGED <<stopped, sched, slotVars, row, ctlVars>>

WorkerDecides(w) ==
  /\ w.pc = "got"
  /\ work' = (work \ {w}) \cup {[w EXCEPT !.pc = IF stopped THEN "defer" ELSE "send"]}
  /\ UNCHANGED <<stopped, sched, slotVars, queue, idle, row, ctlVars>>

\* A deferred batch goes back to the queue; a sent one is settled by what the
\* peer answers, or the worker fails before it settles anything.
WorkerSettles(w) ==
  /\ w.pc \in {"defer", "send"}
  /\ \/ FailRow(w.flight)
     \/ w.pc = "send" /\ SettleRow(w.flight)
     \/ UNCHANGED row
  /\ work' = (work \ {w}) \cup {[w EXCEPT !.pc = "release"]}
  /\ UNCHANGED <<stopped, sched, slotVars, queue, idle, ctlVars>>

WorkerReleases(w) ==
  /\ w.pc = "release"
  /\ Release(TargetOf[w.flight.batch])
  /\ work' = work \ {w} /\ idle' = idle + 1
  /\ UNCHANGED <<stopped, sched, queue, row, ctlVars>>

Workers ==
  \/ WorkerExits \/ WorkerGets
  \/ \E w \in work : WorkerDecides(w) \/ WorkerSettles(w) \/ WorkerReleases(w)
-----------------------------------------------------------------------------
(* start, drain and stop: the positions of their caller.  Joins time out, so *)
(* they are no steps of their own.                                           *)

\* start() while the scheduler of an earlier start still lives returns and
\* changes nothing, the stop event included.  Workers of an earlier pool that
\* still send stay, next to the new pool.
Start ==
  /\ ctl.pc = "idle" /\ ~Alive /\ starts < MaxStarts
  /\ stopped' = FALSE
  /\ sched' = [sched EXCEPT !.pc = "loop"]
  /\ idle' = idle + MaxInFlight
  /\ starts' = starts + 1
  /\ ctl' = [ctl EXCEPT !.op = "drain", !.drained = FALSE]
  /\ UNCHANGED <<slotVars, queue, work, row, due>>

Call(op) ==
  /\ ctl.pc = "idle"
  /\ ctl' = [ctl EXCEPT !.op = op, !.pc = "drain", !.drained = FALSE]
  /\ due' = IF op = "stop" THEN {b \in Batches : row[b].state # "absent"} ELSE {}
  /\ UNCHANGED <<stopped, sched, slotVars, poolVars, row, starts>>

\* The caller moves on, and nothing else changes.
Moves(ctl2) ==
  ctl' = ctl2 /\ UNCHANGED <<stopped, sched, slotVars, poolVars, row, starts, due>>

\* One round of drain: without a scheduler the caller dispatches by itself
\* (dispatch_once: a batch per target, without a slot, up to MaxInFlight).
DrainRound ==
  /\ ctl.pc = "drain"
  /\ Moves([ctl EXCEPT !.pc = IF Alive THEN "status" ELSE "once"])

OnceClaims ==
  /\ ctl.pc = "once" /\ ctl.target \in Targets /\ ctl.sent < MaxInFlight
  /\ IF Pending(ctl.target) = {}
     THEN ctl' = [ctl EXCEPT !.target = @ + 1] /\ UNCHANGED row
     ELSE \E b \in Pending(ctl.target) :
            /\ ClaimRow(b)
            /\ ctl' = [ctl EXCEPT !.pc = "send", !.target = @ + 1, !.sent = @ + 1,
                                  !.flight = NewFlight(b)]
  /\ UNCHANGED <<stopped, sched, slotVars, poolVars, starts, due>>

\* An exception (a lease lost in _send, a repository that fails) leaves drain
\* or stop at once; in drain, that is before the stop event is set.
Aborted == [ctl EXCEPT !.op = "drain", !.pc = "idle", !.target = 1, !.sent = 0,
                       !.flight = None, !.drained = FALSE]

CallRaises == ctl.pc \in {"once", "status", "recheck"} /\ Moves(Aborted)

OnceSends ==
  /\ ctl.pc = "send"
  /\ SettleRow(ctl.flight) \/ FailRow(ctl.flight)
  /\ ctl' = IF HoldsRow(ctl.flight) THEN [ctl EXCEPT !.pc = "once", !.flight = None]
            ELSE Aborted
  /\ UNCHANGED <<stopped, sched, slotVars, poolVars, starts, due>>

OnceEnds ==
  /\ ctl.pc = "once" /\ (ctl.target \notin Targets \/ ctl.sent = MaxInFlight)
  /\ Moves([ctl EXCEPT !.pc = "status", !.target = 1, !.sent = 0])

DrainReadsStatus ==
  ctl.pc = "status" /\ Moves([ctl EXCEPT !.pc = "slots", !.clear = NothingOpen])

\* Drained, past the deadline, or another round.
DrainReadsSlots ==
  LET drained == ctl.clear /\ active = 0
      next    == IF ctl.op = "stop" THEN "set" ELSE "idle"
  IN  /\ ctl.pc = "slots"
      /\ \/ Moves([ctl EXCEPT !.pc = next, !.clear = FALSE, !.drained = drained])
         \/ ~drained /\ Moves([ctl EXCEPT !.pc = "drain", !.clear = FALSE])

StopSets ==
  /\ ctl.pc = "set"
  /\ stopped' = TRUE
  /\ ctl' = [ctl EXCEPT !.pc = "take"]
  /\ UNCHANGED <<sched, slotVars, poolVars, row, starts, due>>

\* _release_queued_work, after the scheduler was joined or the deadline
\* passed: takes batches out of the queue until it finds it empty.
StopTakes ==
  /\ ctl.pc = "take"
  /\ IF queue = <<>>
     THEN ctl' = [ctl EXCEPT !.pc = "recheck"] /\ UNCHANGED queue
     ELSE /\ ctl' = [ctl EXCEPT !.pc = "defer", !.flight = Head(queue)]
          /\ queue' = Tail(queue)
  /\ UNCHANGED <<stopped, sched, slotVars, idle, work, row, starts, due>>

\* An exception of _fail is logged, and the batch stays as it was.
StopDefers ==
  /\ ctl.pc = "defer"
  /\ FailRow(ctl.flight) \/ UNCHANGED row
  /\ ctl' = [ctl EXCEPT !.pc = "release"]
  /\ UNCHANGED <<stopped, sched, slotVars, poolVars, starts, due>>

\* Mutant: what stop takes out of the queue keeps its slot.
StopReleases_Skips ==
  /\ ctl.pc = "release"
  /\ ctl' = [ctl EXCEPT !.pc = "take", !.flight = None]
  /\ UNCHANGED <<stopped, sched, slotVars, poolVars, row, starts, due>>

StopReleases ==
  /\ ctl.pc = "release"
  /\ Release(TargetOf[ctl.flight.batch])
  /\ ctl' = [ctl EXCEPT !.pc = "take", !.flight = None]
  /\ UNCHANGED <<stopped, sched, poolVars, row, starts, due>>

\* The workers were joined or the deadline passed: status, then slots, again.
StopRechecks ==
  ctl.pc = "recheck" /\ Moves([ctl EXCEPT !.pc = "final", !.clear = NothingOpen])

\* Mutant: trusts what drain saw before the stop.
FinallyDrained_Trusts == ctl.drained

FinallyDrained == ctl.drained /\ ctl.clear /\ active = 0

StopReturns ==
  /\ ctl.pc = "final"
  /\ Moves([ctl EXCEPT !.pc = "idle", !.clear = FALSE, !.drained = FinallyDrained])

Control ==
  \/ DrainRound \/ OnceClaims \/ OnceSends \/ OnceEnds
  \/ DrainReadsStatus \/ DrainReadsSlots
  \/ StopSets \/ StopTakes \/ StopDefers \/ StopReleases \/ StopRechecks \/ StopReturns

Next ==
  \/ \E b \in Batches : Write(b) \/ LeaseExpires(b)
  \/ Scheduler \/ Workers \/ Control \/ CallRaises \/ Start
  \/ \E op \in {"drain", "stop"} : Call(op)

Spec == Init /\ [][Next]_vars

ClaimReturns(t) == sched.target = t /\ SchedClaim /\ sched'.pc # "raised"

\* Threads run, remote calls return (request_timeout), leases run out, and a
\* claim made again and again does not raise every time.  Nobody has to call
\* anything, and no peer has to accept anything.
FairSpec ==
  /\ Spec
  /\ WF_vars(Scheduler) /\ \A t \in Targets : SF_vars(ClaimReturns(t))
  /\ WF_vars(Workers) /\ WF_vars(Control) /\ WF_vars(\E b \in Batches : LeaseExpires(b))
-----------------------------------------------------------------------------
(* Properties *)

\* Counters, queue, threads and rows keep their types; in particular the slot
\* counters never go below zero.
TypeOK ==
  /\ stopped \in BOOLEAN
  /\ sched \in [pc : {"dead", "loop", "pick", "claim", "put", "defer", "release", "raised"},
                target : 1 .. Cardinality(Targets) + 1, flight : Flight \cup {None}]
  /\ active \in Nat /\ activeOf \in [Targets -> Nat]
  /\ queue \in Seq(Flight) /\ idle \in Nat
  /\ work \subseteq [flight : Flight, pc : {"got", "defer", "send", "release"}]
  /\ row \in [Batches -> [state : {"absent", "pending", "leased", "done"},
                          attempt : 0 .. MaxAttempts]]
  /\ starts \in 0 .. MaxStarts
  /\ ctl \in [op : {"drain", "stop"},
              pc : {"idle", "drain", "once", "send", "status", "slots", "set", "take",
                    "defer", "release", "recheck", "final"},
              target : 1 .. Cardinality(Targets) + 1, sent : 0 .. MaxInFlight,
              flight : Flight \cup {None}, clear : BOOLEAN, drained : BOOLEAN]
  /\ due \subseteq Batches

\* The batches in the background's hands, and the slots they stand for.
QueuedOrSent == ToSet(queue) \cup {w.flight : w \in work}
StopHolds == IF ctl.pc \in {"defer", "release"} THEN {ctl.flight} ELSE {}
SlotsOf(t) ==
  Cardinality({f \in QueuedOrSent \cup StopHolds : TargetOf[f.batch] = t})
    + (IF sched.pc \in {"claim", "put", "defer", "release", "raised"} /\ sched.target = t
       THEN 1 ELSE 0)

\* max_in_flight and per_target_in_flight bound what is really in flight,
\* across restarts that find workers of an earlier pool still sending; so
\* put_nowait never finds the queue full.  And every slot counted is held by
\* exactly one hand, whichever way a batch went: none leaks (work would stop)
\* and none is given back twice (the bounds would be passed).
InFlightBounded ==
  /\ \A t \in Targets : activeOf[t] = SlotsOf(t) /\ SlotsOf(t) <= PerTarget
  /\ Cardinality(QueuedOrSent) <= MaxInFlight
  /\ sched.pc = "put" => Len(queue) < MaxInFlight

\* After stop has returned, and until the next start, no batch sits in the
\* queue of a dispatcher nobody runs.
NothingQueuedAfterStop ==
  ctl.op = "stop" /\ ctl.pc = "idle" => stopped /\ queue = <<>>

\* A stop that reports drained is right: everything written before the call
\* is settled, and nothing is in flight, nor will be until the next start.
DrainedIsTrue ==
  ctl.op = "stop" /\ ctl.pc = "idle" /\ ctl.drained =>
     /\ \A b \in due : row[b].state = "done"
     /\ QueuedOrSent = {} /\ active = 0

\* A written batch is sent and settled in the end, unless the dispatcher was
\* stopped: no slot, lease or thread is lost for good.
BatchesSettle ==
  \A b \in Batches :
     row[b].state = "pending" /\ Alive ~> row[b].state = "done" \/ stopped

\* A stop is final for the threads it found: all of them end, and every slot
\* is free again, unless a new start comes first.
StopEndsThreads ==
  stopped ~> (~stopped \/ (~Alive /\ idle = 0 /\ work = {} /\ active = 0))
=============================================================================
