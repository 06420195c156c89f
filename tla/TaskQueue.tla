------------------------------- MODULE TaskQueue -------------------------------
(***************************************************************************)
(* The durable background tasks of memplex/worker.py: one task file shared *)
(* by the BackgroundWorkers of several processes.  Every TaskStore method  *)
(* reads the file anew and replaces it under a lock, so it is one step;    *)
(* between two methods anything may happen.  A worker holds, in memory,    *)
(* a queue of hints (task ids that were due), the ids in it, and callbacks *)
(* under one state lock; handlers run outside it.                          *)
(*                                                                         *)
(* Time is reduced to what the methods compare: whether a pending row is   *)
(* due and whether a lease has run out.  A lease id (uuid4) is the thread  *)
(* that claimed: a thread carries one claim at a time, so no two claims    *)
(* that are still in somebody's hands look alike.  The hints are a set:    *)
(* their order is lost on claim_due, which looks at the file.  A write of  *)
(* the file may fail before the replacement (nothing changed) or after it  *)
(* (changed, and the store object refuses everything until reopened).      *)
(***************************************************************************)
EXTENDS Integers, FiniteSets, FiniteSetsExt

CONSTANTS
  Procs,        \* processes with a worker on the same file
  Tasks,
  WithCallback, \* those submitted with a callback
  None,
  Capacity,     \* queue_capacity, of the file and of the hint queue
  ClaimSize,    \* claim_size: hints taken in at a turn
  MaxAttempts,  \* max_retries + 1
  MaxStarts,    \* bound: loop threads started in one process
  Callers,      \* bound: processes whose callers submit, replay and cancel
  Stopping,     \* bound: processes that stop their worker, the others only crash
  MaxCrashes,   \* bound: crashes of processes
  MaxFaults     \* bound: writes of the file that fail

Threads == Procs \X (1 .. MaxStarts)
ProcOf(th) == th[1]

ASSUME TaskQueueAssumptions ==
  /\ IsFiniteSet(Procs) /\ IsFiniteSet(Tasks)
  /\ \A n \in {Capacity, ClaimSize, MaxAttempts, MaxStarts} : n \in Nat \ {0}
  /\ WithCallback \subseteq Tasks /\ Callers \subseteq Procs /\ MaxCrashes \in Nat /\ MaxFaults \in Nat
  /\ None \notin Tasks \cup (Procs \X (1 .. MaxStarts))

VARIABLES
  row,       \* the task file
  poisoned,  \* _poisoned of each process's store
  running,   \* _running, and _accepting after the first start
  started,   \* threads started; the last is _worker_thread
  thread,    \* the loop threads
  hints,     \* _queue
  queued,    \* _queued_ids
  active,    \* _active_task_id
  callbacks, \* _callbacks
  submitting, \* the task a submit is between admission and return with
  stop,      \* the caller of stop, and its last result
  crashes,
  faults

vars == <<row, poisoned, running, started, thread, hints, queued, active, callbacks,
          submitting, stop, crashes, faults>>
fileVars == <<row, poisoned, faults>>
hintVars == <<hints, queued, active>>
callVars == <<running, started, stop, crashes>>

Absent == [status |-> "absent", retry |-> 0, lease |-> None, due |-> FALSE, expired |-> FALSE]
Dead == [pc |-> "dead", task |-> None]
NoStop == [pc |-> "idle", drained |-> FALSE, exceeded |-> FALSE, late |-> FALSE]

Init ==
  /\ row = [t \in Tasks |-> Absent]
  /\ poisoned = [p \in Procs |-> FALSE]
  /\ running = [p \in Procs |-> FALSE] /\ started = [p \in Procs |-> 0]
  /\ thread = [th \in Threads |-> Dead]
  /\ hints = [p \in Procs |-> {}] /\ queued = [p \in Procs |-> {}]
  /\ active = [p \in Procs |-> None]
  /\ callbacks = [p \in Procs |-> {}] /\ submitting = [p \in Procs |-> None]
  /\ stop = [p \in Procs |-> NoStop] /\ crashes = 0
  /\ faults = 0
-----------------------------------------------------------------------------
(* TaskStore *)

\* A write of the file by p that takes effect and returns, and one that raises.
Saves(p, row2) == ~poisoned[p] /\ row' = row2 /\ UNCHANGED <<poisoned, faults>>
Raises(p, row2) ==
  \/ poisoned[p] /\ UNCHANGED fileVars
  \/ /\ ~poisoned[p] /\ faults < MaxFaults
     /\ faults' = faults + 1
     /\ \/ row' = row /\ UNCHANGED poisoned
        \/ row' = row2 /\ poisoned' = [poisoned EXCEPT ![p] = TRUE]

Active(t) == row[t].status \in {"PENDING", "RUNNING"}
HasRoom == Cardinality({t \in Tasks : Active(t)}) < Capacity

\* due_task_ids and the test of claim.  Rows whose lease ran out come last: their
\* due time counts as now.
Due == {t \in Tasks : \/ row[t].status = "PENDING" /\ row[t].due
                      \/ row[t].status = "RUNNING" /\ row[t].expired}
Earliest ==
  LET pending == {t \in Due : row[t].status = "PENDING"}
  IN  IF pending = {} THEN Due ELSE pending

Admitted(t) == [row EXCEPT ![t] = [Absent EXCEPT !.status = "PENDING", !.due = TRUE]]
Claimed(t, th) == [row EXCEPT ![t].status = "RUNNING", ![t].lease = th,
                              ![t].due = FALSE, ![t].expired = FALSE]
Completed(t) == [row EXCEPT ![t].status = "COMPLETED", ![t].lease = None, ![t].expired = FALSE]

\* Mutant: one attempt too many.
Failed_OffByOne(t) ==
  LET retry == row[t].retry + 1
  IN  [row EXCEPT ![t].status = IF retry <= MaxAttempts THEN "PENDING" ELSE "FAILED",
                  ![t].retry = retry, ![t].lease = None, ![t].expired = FALSE]

Failed(t) ==
  LET retry == row[t].retry + 1
  IN  [row EXCEPT ![t].status = IF retry < MaxAttempts THEN "PENDING" ELSE "FAILED",
                  ![t].retry = retry, ![t].lease = None, ![t].expired = FALSE]

\* Mutant: the lease id is not compared.
LeaseMatches_AnyLease(t, th) == row[t].status = "RUNNING" /\ ~row[t].expired

LeaseMatches(t, th) == row[t].status = "RUNNING" /\ row[t].lease = th /\ ~row[t].expired

\* Time passes.
BecomesDue(t) ==
  /\ row[t].status = "PENDING" /\ ~row[t].due
  /\ row' = [row EXCEPT ![t].due = TRUE]
  /\ UNCHANGED <<poisoned, faults, thread, hintVars, callbacks, submitting, callVars>>

LeaseExpires(t) ==
  /\ row[t].status = "RUNNING" /\ ~row[t].expired
  /\ row' = [row EXCEPT ![t].expired = TRUE]
  /\ UNCHANGED <<poisoned, faults, thread, hintVars, callbacks, submitting, callVars>>
-----------------------------------------------------------------------------
(* Callers.  submit and replay_failed hold the state lock from their test to *)
(* their return; but a task may be claimed as soon as it is admitted, before *)
(* its callback is known.                                                    *)

Unlocked(p) == submitting[p] = None

\* _accepting: true before the first start, false from stop to the next start.
Accepts(p) == running[p] \/ started[p] = 0

\* put_nowait of a hint, when there is room.
Hinted(p, t) ==
  IF Cardinality(hints[p]) < Capacity
  THEN /\ hints' = [hints EXCEPT ![p] = @ \cup {t}]
       /\ queued' = [queued EXCEPT ![p] = @ \cup {t}]
  ELSE UNCHANGED <<hints, queued>>

Submit(p, t) ==
  /\ Unlocked(p) /\ Accepts(p) /\ row[t].status = "absent" /\ HasRoom
  /\ \/ /\ Saves(p, Admitted(t)) /\ Hinted(p, t)
        /\ submitting' = IF t \in WithCallback THEN [submitting EXCEPT ![p] = t] ELSE submitting
     \/ Raises(p, Admitted(t)) /\ UNCHANGED <<hints, queued, submitting>>
  /\ UNCHANGED <<thread, active, callbacks, callVars>>

SubmitReturns(p) ==
  /\ submitting[p] # None
  /\ callbacks' = [callbacks EXCEPT ![p] = @ \cup {submitting[p]}]
  /\ submitting' = [submitting EXCEPT ![p] = None]
  /\ UNCHANGED <<fileVars, thread, hintVars, callVars>>

ReplayFailed(p, t) ==
  /\ Unlocked(p) /\ Accepts(p) /\ row[t].status = "FAILED" /\ HasRoom
  /\ \/ Saves(p, Admitted(t)) /\ Hinted(p, t)
     \/ Raises(p, Admitted(t)) /\ UNCHANGED <<hints, queued>>
  /\ UNCHANGED <<thread, active, callbacks, submitting, callVars>>

Cancel(p, t) ==
  /\ row[t].status = "PENDING"
  /\ LET cancelled == [row EXCEPT ![t].status = "CANCELLED", ![t].due = FALSE]
     IN  Saves(p, cancelled) \/ Raises(p, cancelled)
  /\ UNCHANGED <<thread, hintVars, callbacks, submitting, callVars>>
-----------------------------------------------------------------------------
(* The loop: _run_loop, _fill_due_queue, _run_once, _execute_claimed *)

Goes(th, pc) == thread' = [thread EXCEPT ![th].pc = pc]
Rests(th) == [thread EXCEPT ![th] = [Dead EXCEPT !.pc = "loop"]]
Inactive(th) == active' = [active EXCEPT ![ProcOf(th)] = None]

\* A turn of the loop ends with the thread, or begins with hints for what is due
\* and has none, while there is room.
Fill(th) ==
  LET p    == ProcOf(th)
      free == Capacity - Cardinality(hints[p])
      news == Due \ (queued[p] \cup {active[p]})
      some == Min({ClaimSize, free, Cardinality(news)})
  IN  /\ thread[th].pc = "loop" /\ Unlocked(p)
      /\ \/ ~running[p] /\ Goes(th, "dead") /\ UNCHANGED <<hints, queued>>
         \/ /\ running[p] /\ (free = 0 \/ ~poisoned[p])
            /\ \E ids \in kSubset(some, news) :
                 /\ hints' = [hints EXCEPT ![p] = @ \cup ids]
                 /\ queued' = [queued EXCEPT ![p] = @ \cup ids]
            /\ Goes(th, "pop")
      /\ UNCHANGED <<fileVars, active, callbacks, submitting, callVars>>

\* Mutant: the id is not taken out of _queued_ids.
Pop_KeepsId(th) ==
  LET p == ProcOf(th)
  IN  /\ thread[th].pc = "pop" /\ Unlocked(p)
      /\ IF ~running[p] \/ hints[p] = {}
         THEN Goes(th, "loop") /\ UNCHANGED hintVars
         ELSE /\ \E t \in hints[p] :
                   /\ hints' = [hints EXCEPT ![p] = @ \ {t}]
                   /\ active' = [active EXCEPT ![p] = t]
              /\ Goes(th, "pick") /\ UNCHANGED queued
      /\ UNCHANGED <<fileVars, callbacks, submitting, callVars>>

Pop(th) ==
  LET p == ProcOf(th)
  IN  /\ thread[th].pc = "pop" /\ Unlocked(p)
      /\ IF ~running[p] \/ hints[p] = {}
         THEN Goes(th, "loop") /\ UNCHANGED hintVars
         ELSE /\ \E t \in hints[p] :
                   /\ hints' = [hints EXCEPT ![p] = @ \ {t}]
                   /\ queued' = [queued EXCEPT ![p] = @ \ {t}]
                   /\ active' = [active EXCEPT ![p] = t]
              /\ Goes(th, "pick")
      /\ UNCHANGED <<fileVars, callbacks, submitting, callVars>>

\* claim_due(limit=1): first the id of the earliest due task, whatever the hint was ...
Pick(th) ==
  /\ thread[th].pc = "pick"
  /\ \/ /\ ~poisoned[ProcOf(th)]
        /\ \E t \in Earliest : thread' = [thread EXCEPT ![th].pc = "claim", ![th].task = t]
        /\ UNCHANGED active
     \/ /\ Earliest = {} \/ poisoned[ProcOf(th)]
        /\ thread' = Rests(th) /\ Inactive(th)
  /\ UNCHANGED <<fileVars, hints, queued, callbacks, submitting, callVars>>

\* ... then a claim that tests it again.
Claim(th) ==
  LET t == thread[th].task
  IN  /\ thread[th].pc = "claim"
      /\ IF t \in Due
         THEN \/ /\ Saves(ProcOf(th), Claimed(t, th)) /\ Goes(th, "run")
                 /\ active' = [active EXCEPT ![ProcOf(th)] = t]
              \/ Raises(ProcOf(th), Claimed(t, th)) /\ thread' = Rests(th) /\ Inactive(th)
         ELSE thread' = Rests(th) /\ Inactive(th) /\ UNCHANGED fileVars
      /\ UNCHANGED <<hints, queued, callbacks, submitting, callVars>>

\* The handler has returned or raised: the outcome is stored if the lease is
\* still this claim's.
Settles(th, settled) ==
  LET t == thread[th].task
  IN  /\ thread[th].pc = "run" /\ LeaseMatches(t, th)
      /\ Saves(ProcOf(th), settled)
      /\ IF settled[t].status = "PENDING" \/ t \notin WithCallback THEN thread' = Rests(th) /\ Inactive(th)
         ELSE Goes(th, "callback") /\ UNCHANGED active
      /\ UNCHANGED <<hints, queued, callbacks, submitting, callVars>>

LosesLease(th) ==
  LET t == thread[th].task
  IN  /\ thread[th].pc = "run"
      /\ \/ ~LeaseMatches(t, th) /\ UNCHANGED fileVars
         \/ LeaseMatches(t, th)
              /\ (Raises(ProcOf(th), Completed(t)) \/ Raises(ProcOf(th), Failed(t)))
      /\ thread' = Rests(th) /\ Inactive(th)
      /\ UNCHANGED <<hints, queued, callbacks, submitting, callVars>>

SettlesInTime(th) ==
  LET t == thread[th].task
  IN  t # None /\ (Settles(th, Completed(t)) \/ Settles(th, Failed(t)))

\* The callback is taken out: called after a completion, dropped with a dead letter.
CallsBack(th) ==
  /\ thread[th].pc = "callback"
  /\ callbacks' = [callbacks EXCEPT ![ProcOf(th)] = @ \ {thread[th].task}]
  /\ thread' = Rests(th) /\ Inactive(th)
  /\ UNCHANGED <<fileVars, hints, queued, submitting, callVars>>

Thread(th) ==
  /\ thread[th].pc # "dead"
  /\ \/ Fill(th) \/ Pop(th) \/ Pick(th) \/ Claim(th)
     \/ SettlesInTime(th) \/ LosesLease(th) \/ CallsBack(th)
-----------------------------------------------------------------------------
(* start and stop, called one after the other; a crash, and the next life *)

Start(p) ==
  LET th == <<p, started[p] + 1>>
  IN  /\ Unlocked(p) /\ ~running[p] /\ stop[p].pc = "idle" /\ started[p] < MaxStarts
      /\ running' = [running EXCEPT ![p] = TRUE]
      /\ started' = [started EXCEPT ![p] = @ + 1]
      /\ thread' = [thread EXCEPT ![th].pc = "loop"]
      /\ stop' = [stop EXCEPT ![p] = [NoStop EXCEPT !.late = stop[p].late \/ stop[p].exceeded]]
      /\ UNCHANGED <<fileVars, hintVars, callbacks, submitting, crashes>>

StopBegins(p) ==
  /\ Unlocked(p) /\ started[p] > 0 /\ p \in Stopping /\ stop[p].pc = "idle"
  /\ running' = [running EXCEPT ![p] = FALSE]
  /\ stop' = [stop EXCEPT ![p].pc = "join", ![p].drained = FALSE]
  /\ UNCHANGED <<fileVars, started, thread, hintVars, callbacks, submitting, crashes>>

\* The thread joined is the last one started; a join may time out.
StopJoins(p) ==
  /\ stop[p].pc = "join"
  /\ stop' = [stop EXCEPT ![p].pc = "drain",
                          ![p].exceeded = thread[<<p, started[p]>>].pc # "dead"]
  /\ UNCHANGED <<fileVars, running, started, thread, hintVars, callbacks, submitting,
                 crashes>>

\* The hints are dropped, then the file is asked; a store that cannot tell raises.
\* Mutant: a lease that has run out counts as given back.
StopReports_LiveLeases(p) ==
  /\ stop[p].pc = "drain" /\ Unlocked(p)
  /\ hints' = [hints EXCEPT ![p] = {}]
  /\ queued' = [queued EXCEPT ![p] = @ \ hints[p]]
  /\ stop' = [stop EXCEPT ![p].pc = "idle",
                ![p].drained = ~poisoned[p]
                  /\ \A t \in Tasks : row[t].status = "RUNNING" => row[t].expired]
  /\ UNCHANGED <<fileVars, running, started, thread, active, callbacks, submitting, crashes>>

StopReports(p) ==
  /\ stop[p].pc = "drain" /\ Unlocked(p)
  /\ hints' = [hints EXCEPT ![p] = {}]
  /\ queued' = [queued EXCEPT ![p] = @ \ hints[p]]
  /\ stop' = [stop EXCEPT ![p].pc = "idle",
                ![p].drained = ~poisoned[p] /\ \A t \in Tasks : row[t].status # "RUNNING"]
  /\ UNCHANGED <<fileVars, running, started, thread, active, callbacks, submitting, crashes>>

\* Everything but the file is lost.  The next life is a new worker on a new
\* store object (its constructor fills the hints, as the first Fill does).
Crash(p) ==
  /\ crashes < MaxCrashes /\ started[p] > 0
  /\ crashes' = crashes + 1
  /\ poisoned' = [poisoned EXCEPT ![p] = FALSE]
  /\ running' = [running EXCEPT ![p] = FALSE] /\ started' = [started EXCEPT ![p] = 0]
  /\ thread' = [th \in Threads |-> IF ProcOf(th) = p THEN Dead ELSE thread[th]]
  /\ hints' = [hints EXCEPT ![p] = {}] /\ queued' = [queued EXCEPT ![p] = {}]
  /\ active' = [active EXCEPT ![p] = None]
  /\ callbacks' = [callbacks EXCEPT ![p] = {}]
  /\ submitting' = [submitting EXCEPT ![p] = None]
  /\ stop' = [stop EXCEPT ![p] = NoStop]
  /\ UNCHANGED <<row, faults>>

Next ==
  \/ \E t \in Tasks : BecomesDue(t) \/ LeaseExpires(t)
  \/ \E p \in Callers, t \in Tasks : Submit(p, t) \/ ReplayFailed(p, t) \/ Cancel(p, t)
  \/ \E th \in Threads : Thread(th)
  \/ \E p \in Procs :
       \/ SubmitReturns(p) \/ Start(p) \/ Crash(p)
       \/ StopBegins(p) \/ StopJoins(p) \/ StopReports(p)

Spec == Init /\ [][Next]_vars

\* Threads run, submits return and time passes; and a task that is executed
\* again and again is, some time, done within its lease by a store that works.
\* (Each of these steps changes the variable its fairness is subscripted with.)
FairSpec ==
  /\ Spec
  /\ \A th \in Threads : WF_thread(Thread(th))
  /\ \A p \in Procs : WF_submitting(SubmitReturns(p))
  /\ \A t \in Tasks :
       /\ WF_row(BecomesDue(t) \/ LeaseExpires(t))
       /\ SF_thread(\E th \in Threads : thread[th].task = t /\ SettlesInTime(th))
-----------------------------------------------------------------------------
(* Properties *)

\* Rows, threads and the memory of the workers keep their types.
TypeOK ==
  /\ row \in [Tasks -> [status : {"absent", "PENDING", "RUNNING", "COMPLETED", "FAILED",
                                  "CANCELLED"},
                        retry : 0 .. MaxAttempts, lease : Threads \cup {None},
                        due : BOOLEAN, expired : BOOLEAN]]
  /\ poisoned \in [Procs -> BOOLEAN] /\ running \in [Procs -> BOOLEAN]
  /\ started \in [Procs -> 0 .. MaxStarts]
  /\ thread \in [Threads -> [pc : {"dead", "loop", "pop", "pick", "claim", "run", "callback"},
                             task : Tasks \cup {None}]]
  /\ hints \in [Procs -> SUBSET Tasks] /\ \A p \in Procs : Cardinality(hints[p]) <= Capacity
  /\ queued \in [Procs -> SUBSET Tasks] /\ active \in [Procs -> Tasks \cup {None}]
  /\ callbacks \in [Procs -> SUBSET Tasks] /\ submitting \in [Procs -> Tasks \cup {None}]
  /\ stop \in [Procs -> [pc : {"idle", "join", "drain"}, drained : BOOLEAN,
                         exceeded : BOOLEAN, late : BOOLEAN]]
  /\ crashes \in 0 .. MaxCrashes /\ faults \in 0 .. MaxFaults

\* Only the holder of the current lease may publish: while a lease runs, no
\* late completion, failure or cancellation of an earlier claim touches the row,
\* and a thread that stores an outcome holds that lease.
OnlyHolderPublishes ==
  [][\A t \in Tasks :
       row[t].status = "RUNNING" /\ row'[t].status # "RUNNING" =>
         \E th \in Threads :
           /\ thread[th].pc = "run" /\ thread[th].task = t
           /\ row[t].lease = th /\ ~row[t].expired /\ thread'[th].pc # "run"]_vars

\* A stop that says drained, within its deadline, by a worker none of whose
\* earlier stops missed theirs, holds until the next start: no thread of the
\* worker lives, and none of them has left a lease in the file, running or run
\* out, that another claim, a replay or a restart would have to wait for.
DrainedIsTrue ==
  \A p \in Procs :
    stop[p].pc = "idle" /\ stop[p].drained /\ ~stop[p].exceeded /\ ~stop[p].late /\ ~running[p]
      => \A th \in Threads : ProcOf(th) = p =>
           /\ thread[th].pc = "dead"
           /\ \A t \in Tasks : ~(row[t].status = "RUNNING" /\ row[t].lease = th)

\* An accepted task is completed, dead-lettered or cancelled in the end, over
\* retries, lost leases and crashes of the worker that had it, while one worker
\* goes on with a store that works.
TasksSettle ==
  \A t \in Tasks, p \in Procs :
    Active(t) /\ running[p] /\ ~poisoned[p] ~> ~Active(t) \/ ~running[p] \/ poisoned[p]
=============================================================================
