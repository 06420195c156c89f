---------------------------- MODULE TaskQueue_proofs ----------------------------
(***************************************************************************)
(* Theorems about TaskQueue, for any finite sets of processes and tasks,   *)
(* any capacity, number of attempts and of starts.                         *)
(*                                                                         *)
(* The argument: a row that may be claimed has an attempt left, so that a  *)
(* failure never counts beyond the bound; a thread past its pick has a     *)
(* task; and of a worker's threads only the one started last may live,     *)
(* unless a stop missed its deadline: a start is the only step that brings *)
(* a thread to life, and it comes after a stop that joined the last one.   *)
(* So once a stop has found no row running, in time, nothing of the worker *)
(* is left that could claim: no lease of one of its threads appears.       *)
(***************************************************************************)
EXTENDS TaskQueue, FiniteSetTheorems, TLAPS

\* The values of a row, of a thread and of a stop.
Rows ==
  [status : {"absent", "PENDING", "RUNNING", "COMPLETED", "FAILED", "CANCELLED"},
   retry : 0 .. MaxAttempts, lease : Threads \cup {None}, due : BOOLEAN, expired : BOOLEAN]
ThreadStates ==
  [pc : {"dead", "loop", "pop", "pick", "claim", "run", "callback"}, task : Tasks \cup {None}]
StopStates ==
  [pc : {"idle", "join", "drain"}, drained : BOOLEAN, exceeded : BOOLEAN, late : BOOLEAN]

\* A task file: a row that may be claimed has an attempt left.
IsFile(file) ==
  /\ file \in [Tasks -> Rows]
  /\ \A t \in Tasks : file[t].status \in {"PENDING", "RUNNING"} => file[t].retry < MaxAttempts

FileOK == IsFile(row) /\ poisoned \in [Procs -> BOOLEAN] /\ faults \in 0 .. MaxFaults

\* The hints never exceed the capacity.
HintsOK ==
  /\ hints \in [Procs -> SUBSET Tasks] /\ \A p \in Procs : Cardinality(hints[p]) <= Capacity
  /\ queued \in [Procs -> SUBSET Tasks] /\ active \in [Procs -> Tasks \cup {None}]

\* A thread past its pick has a task.
ThreadsOK ==
  /\ thread \in [Threads -> ThreadStates]
  /\ \A th \in Threads : thread[th].pc \in {"claim", "run", "callback"} => thread[th].task \in Tasks

\* A stop finds the worker started, and leaves it not running.
CallsOK ==
  /\ callbacks \in [Procs -> SUBSET Tasks] /\ submitting \in [Procs -> Tasks \cup {None}]
  /\ running \in [Procs -> BOOLEAN] /\ started \in [Procs -> 0 .. MaxStarts]
  /\ stop \in [Procs -> StopStates] /\ crashes \in 0 .. MaxCrashes
  /\ \A p \in Procs : stop[p].pc # "idle" => ~running[p] /\ started[p] > 0

\* Of the threads of a worker those not started yet are dead, the earlier ones
\* too unless a stop missed its deadline, and the last one if the last stop that
\* joined it met its own.
LastLives ==
  \A p \in Procs, i \in 1 .. MaxStarts :
    /\ i > started[p] => thread[<<p, i>>].pc = "dead"
    /\ ~stop[p].late /\ i < started[p] => thread[<<p, i>>].pc = "dead"
    /\ stop[p].pc # "join" /\ ~running[p] /\ ~stop[p].exceeded /\ i = started[p]
         => thread[<<p, i>>].pc = "dead"

\* A stop that said drained, in time, and has not been followed by a start.
Drained(p) ==
  stop[p].pc = "idle" /\ stop[p].drained /\ ~stop[p].exceeded /\ ~stop[p].late /\ ~running[p]

\* Thread th has a lease in the file, running or run out.
Leased(t, th) == row[t].status = "RUNNING" /\ row[t].lease = th

\* A worker that is drained has none.
NothingLeased ==
  \A p \in Procs, i \in 1 .. MaxStarts, t \in Tasks : Drained(p) => ~Leased(t, <<p, i>>)

IInv == FileOK /\ HintsOK /\ ThreadsOK /\ CallsOK /\ LastLives /\ NothingLeased
-----------------------------------------------------------------------------
(* The task file *)

\* The bounds are positive.
LEMMA Bounds ==
  /\ Capacity \in Nat \ {0} /\ ClaimSize \in Nat \ {0} /\ MaxAttempts \in Nat \ {0} /\ MaxStarts \in Nat \ {0}
BY TaskQueueAssumptions

\* Only processes have callers.
LEMMA CallersAreProcs == \A p \in Callers : p \in Procs
BY TaskQueueAssumptions

\* A file stays a task file when a row that has an attempt left, or needs none, is stored.
LEMMA RowStored ==
  ASSUME FileOK, NEW t \in Tasks, NEW r \in Rows,
         r.status \in {"PENDING", "RUNNING"} => r.retry < MaxAttempts
  PROVE  IsFile([row EXCEPT ![t] = r])
BY DEF FileOK, IsFile

\* The outcome of a failure is a task file if an attempt is left or none is needed.
LEMMA Settled ==
  ASSUME FileOK, NEW t \in Tasks, NEW status \in {"PENDING", "FAILED"},
         NEW retry \in 0 .. MaxAttempts, status = "PENDING" => retry < MaxAttempts
  PROVE  IsFile([row EXCEPT ![t].status = status, ![t].retry = retry,
                            ![t].lease = None, ![t].expired = FALSE])
<1> DEFINE r == [row[t] EXCEPT !.status = status, !.retry = retry, !.lease = None, !.expired = FALSE]
<1>1. row \in [Tasks -> Rows] /\ row[t] \in Rows
  BY DEF FileOK, IsFile
<1>2. r \in Rows
  BY <1>1 DEF Rows
<1>3. r.status = status /\ r.retry = retry
  BY <1>1 DEF Rows
<1>4. [row EXCEPT ![t].status = status, ![t].retry = retry, ![t].lease = None, ![t].expired = FALSE]
        = [row EXCEPT ![t] = r]
  BY <1>1 DEF Rows
<1> HIDE DEF r
<1>5. IsFile([row EXCEPT ![t] = r])
  BY <1>2, <1>3, RowStored
<1> QED
  BY <1>4, <1>5

\* What submit, replay_failed, claim, complete, fail and cancel store is a task
\* file, and a failure counts only an attempt that was left.
LEMMA Stores ==
  ASSUME FileOK, NEW t \in Tasks
  PROVE  /\ IsFile(Admitted(t)) /\ IsFile(Completed(t))
         /\ Active(t) => \A th \in Threads : IsFile(Claimed(t, th))
         /\ row[t].status = "RUNNING" => IsFile(Failed(t))
         /\ IsFile([row EXCEPT ![t].status = "CANCELLED", ![t].due = FALSE])
<1>1. row \in [Tasks -> Rows] /\ row[t] \in Rows
  BY DEF FileOK, IsFile
<1>2. IsFile(Admitted(t))
  <2> DEFINE r == [Absent EXCEPT !.status = "PENDING", !.due = TRUE]
  <2>1. Absent \in Rows /\ Absent.retry = 0
    BY Bounds DEF Absent, Rows
  <2>2. r \in Rows /\ r.retry = 0
    BY <2>1 DEF Rows
  <2>3. Admitted(t) = [row EXCEPT ![t] = r]
    BY DEF Admitted
  <2> HIDE DEF r
  <2>4. IsFile([row EXCEPT ![t] = r])
    BY <2>2, Bounds, RowStored
  <2> QED
    BY <2>3, <2>4
<1>3. IsFile(Completed(t))
  <2> DEFINE r == [row[t] EXCEPT !.status = "COMPLETED", !.lease = None, !.expired = FALSE]
  <2>1. r \in Rows /\ r.status = "COMPLETED"
    BY <1>1 DEF Rows
  <2>2. Completed(t) = [row EXCEPT ![t] = r]
    BY <1>1 DEF Completed, Rows
  <2> QED
    BY <2>1, <2>2, RowStored
<1>4. IsFile([row EXCEPT ![t].status = "CANCELLED", ![t].due = FALSE])
  BY DEF FileOK, IsFile, Rows
<1>5. ASSUME row[t].status = "RUNNING" PROVE IsFile(Failed(t))
  <2>1. CASE row[t].retry + 1 < MaxAttempts
    <3>1. row[t].retry + 1 \in 0 .. MaxAttempts
      BY <1>1, <2>1, Bounds DEF Rows
    <3>2. Failed(t) = [row EXCEPT ![t].status = "PENDING", ![t].retry = row[t].retry + 1,
                                  ![t].lease = None, ![t].expired = FALSE]
      BY <2>1 DEF Failed
    <3> QED
      BY <2>1, <3>1, <3>2, Settled
  <2>2. CASE ~(row[t].retry + 1 < MaxAttempts)
    <3>1. row[t].retry + 1 \in 0 .. MaxAttempts
      BY <1>1, <1>5, Bounds DEF FileOK, IsFile, Rows
    <3>2. Failed(t) = [row EXCEPT ![t].status = "FAILED", ![t].retry = row[t].retry + 1,
                                  ![t].lease = None, ![t].expired = FALSE]
      BY <2>2 DEF Failed
    <3> QED
      BY <3>1, <3>2, Settled
  <2> QED
    BY <2>1, <2>2
<1>6. ASSUME Active(t), NEW th \in Threads PROVE IsFile(Claimed(t, th))
  <2> DEFINE r == [row[t] EXCEPT !.status = "RUNNING", !.lease = th, !.due = FALSE, !.expired = FALSE]
  <2>1. row[t].retry < MaxAttempts
    BY <1>6 DEF Active, FileOK, IsFile
  <2>2. r \in Rows /\ r.retry = row[t].retry
    BY <1>1 DEF Rows
  <2>3. Claimed(t, th) = [row EXCEPT ![t] = r]
    BY <1>1 DEF Claimed, Rows
  <2> HIDE DEF r
  <2> QED
    BY <2>1, <2>2, <2>3, RowStored
<1> QED
  BY <1>2, <1>3, <1>4, <1>5, <1>6

\* A write that returns or raises leaves a task file.
LEMMA Writes ==
  ASSUME FileOK, NEW p \in Procs, NEW file, IsFile(file), Saves(p, file) \/ Raises(p, file)
  PROVE  FileOK'
<1>1. IsFile(row') /\ faults' \in 0 .. MaxFaults
  BY TaskQueueAssumptions DEF FileOK, Saves, Raises, fileVars
<1>2. poisoned' \in [Procs -> BOOLEAN]
  BY DEF FileOK, Saves, Raises, fileVars
<1> QED
  BY <1>1, <1>2 DEF FileOK, IsFile

\* The hints of a process are finitely many.
LEMMA HintsFinite ==
  ASSUME HintsOK, NEW p \in Procs
  PROVE  IsFiniteSet(hints[p]) /\ Cardinality(hints[p]) \in Nat
BY TaskQueueAssumptions, FS_Subset, FS_CardinalityType DEF HintsOK

\* A hint is dropped, or put where there is room.
LEMMA HintsKept ==
  ASSUME HintsOK, NEW p \in Procs, NEW t \in Tasks
  PROVE  /\ Hinted(p, t) /\ UNCHANGED active => HintsOK'
         /\ hints' = [hints EXCEPT ![p] = @ \ {t}] /\ queued' = [queued EXCEPT ![p] = @ \ {t}]
              /\ active' = [active EXCEPT ![p] = t] => HintsOK'
<1>1. IsFiniteSet(hints[p]) /\ Cardinality(hints[p]) \in Nat /\ Capacity \in Nat
  BY HintsFinite, Bounds
<1>2. Cardinality(hints[p] \cup {t}) \in {Cardinality(hints[p]), Cardinality(hints[p]) + 1}
  <2>1. Cardinality(hints[p] \cup {t})
          = IF t \in hints[p] THEN Cardinality(hints[p]) ELSE Cardinality(hints[p]) + 1
    BY <1>1, FS_AddElement, Zenon
  <2> QED
    BY <2>1
<1>3. Cardinality(hints[p] \ {t}) \in {Cardinality(hints[p]), Cardinality(hints[p]) - 1}
  <2>1. Cardinality(hints[p] \ {t})
          = IF t \in hints[p] THEN Cardinality(hints[p]) - 1 ELSE Cardinality(hints[p])
    BY <1>1, FS_RemoveElement, Zenon
  <2> QED
    BY <2>1
<1>4. ASSUME Hinted(p, t), UNCHANGED active PROVE HintsOK'
  <2>1. CASE Cardinality(hints[p]) < Capacity
    <3>1. Cardinality(hints[p] \cup {t}) <= Capacity
      BY <1>1, <1>2, <2>1
    <3>2. /\ hints' = [hints EXCEPT ![p] = hints[p] \cup {t}]
          /\ queued' = [queued EXCEPT ![p] = queued[p] \cup {t}]
      BY <1>4, <2>1 DEF Hinted
    <3> QED
      BY <1>4, <3>1, <3>2 DEF HintsOK
  <2>2. CASE ~(Cardinality(hints[p]) < Capacity)
    BY <1>4, <2>2 DEF Hinted, HintsOK
  <2> QED
    BY <2>1, <2>2
<1>5. ASSUME hints' = [hints EXCEPT ![p] = @ \ {t}], queued' = [queued EXCEPT ![p] = @ \ {t}],
             active' = [active EXCEPT ![p] = t]
      PROVE  HintsOK'
  <2>1. Cardinality(hints[p] \ {t}) <= Capacity
    BY <1>1, <1>3 DEF HintsOK
  <2> QED
    BY <1>5, <2>1 DEF HintsOK
<1> QED
  BY <1>4, <1>5

\* The least of three naturals is a natural and none of them is below it.
LEMMA LeastOfThree ==
  ASSUME NEW a \in Nat, NEW b \in Nat, NEW c \in Nat
  PROVE  Min({a, b, c}) \in Nat /\ Min({a, b, c}) <= b
<1>1. \E x \in {a, b, c} : \A y \in {a, b, c} : x =< y
  <2>1. CASE a <= b /\ a <= c
    BY <2>1
  <2>2. CASE b <= a /\ b <= c
    BY <2>2
  <2>3. CASE c <= a /\ c <= b
    BY <2>3
  <2> QED
    BY <2>1, <2>2, <2>3
<1>2. /\ Min({a, b, c}) \in {a, b, c}
      /\ \A y \in {a, b, c} : Min({a, b, c}) =< y
  BY <1>1, Zenon DEF Min
<1> QED
  BY <1>2

\* A turn of the loop hints at no more tasks than there is room for.
LEMMA FillHints ==
  ASSUME HintsOK, NEW th \in Threads, Fill(th)
  PROVE  HintsOK'
<1> DEFINE p    == ProcOf(th)
           free == Capacity - Cardinality(hints[p])
           news == Due \ (queued[p] \cup {active[p]})
<1>1. p \in Procs
  BY DEF Threads, ProcOf
<1>2. IsFiniteSet(hints[p]) /\ Cardinality(hints[p]) \in Nat /\ Capacity \in Nat
      /\ Cardinality(hints[p]) <= Capacity
  BY <1>1, HintsFinite, Bounds DEF HintsOK
<1>3. news \subseteq Tasks /\ IsFiniteSet(news) /\ Cardinality(news) \in Nat
  <2>1. news \subseteq Tasks
    BY DEF Due
  <2> QED
    BY <2>1, FS_Subset, FS_CardinalityType, TaskQueueAssumptions
<1> DEFINE some == Min({ClaimSize, free, Cardinality(news)})
<1>4. some \in Nat /\ some <= free
  <2>1. free \in Nat /\ ClaimSize \in Nat
    BY <1>2, Bounds
  <2> QED
    BY <1>3, <2>1, LeastOfThree
<1>5. CASE UNCHANGED <<hints, queued, active>>
  BY <1>5 DEF HintsOK
<1>6. ASSUME NEW ids \in kSubset(some, news),
             hints' = [hints EXCEPT ![p] = @ \cup ids],
             queued' = [queued EXCEPT ![p] = @ \cup ids], UNCHANGED active
      PROVE  HintsOK'
  <2>1. ids \subseteq news /\ Cardinality(ids) <= free /\ Cardinality(ids) \in Nat
    BY <1>4 DEF kSubset
  <2>2. IsFiniteSet(ids) /\ ids \subseteq Tasks
    BY <1>3, <2>1, FS_Subset
  <2>3. Cardinality(hints[p] \cup ids) <= Cardinality(hints[p]) + Cardinality(ids)
    <3>1. Cardinality(hints[p] \cap ids) \in Nat
      BY <2>2, FS_Subset, FS_CardinalityType
    <3> QED
      <4>1. Cardinality(hints[p] \cup ids)
              = Cardinality(hints[p]) + Cardinality(ids) - Cardinality(hints[p] \cap ids)
        BY <1>2, <2>2, FS_Union, Zenon
      <4> QED
        BY <1>2, <2>1, <3>1, <4>1
  <2>4. Cardinality(hints[p] \cup ids) \in Nat
    BY <1>2, <2>2, FS_Union, FS_CardinalityType
  <2>5. Cardinality(hints[p] \cup ids) <= Capacity
    BY <1>2, <2>1, <2>3, <2>4
  <2> QED
    BY <1>1, <1>6, <2>2, <2>5 DEF HintsOK
<1> QED
  BY <1>5, <1>6 DEF Fill
-----------------------------------------------------------------------------
(* The invariant *)

\* The process of a thread.
LEMMA ThreadNames ==
  /\ \A th \in Threads : ProcOf(th) \in Procs
  /\ \A p \in Procs, i \in 1 .. MaxStarts : <<p, i>> \in Threads /\ ProcOf(<<p, i>>) = p
  /\ \A th \in Threads : \E i \in 1 .. MaxStarts : th = <<ProcOf(th), i>>
BY DEF Threads, ProcOf

\* The passing of time and a call of a client keep the file.
LEMMA ClientsKeepFile ==
  ASSUME FileOK, NEW t \in Tasks,
         \/ BecomesDue(t) \/ LeaseExpires(t)
         \/ \E p \in Procs : Submit(p, t) \/ ReplayFailed(p, t) \/ Cancel(p, t)
  PROVE  FileOK'
<1>1. CASE BecomesDue(t) \/ LeaseExpires(t)
  <2>1. row[t] \in Rows /\ row \in [Tasks -> Rows]
    BY DEF FileOK, IsFile
  <2>2. PICK r \in {[row[t] EXCEPT !.due = TRUE], [row[t] EXCEPT !.expired = TRUE]} : row' = [row EXCEPT ![t] = r]
    BY <1>1 DEF BecomesDue, LeaseExpires
  <2>3. r \in Rows /\ r.status = row[t].status /\ r.retry = row[t].retry
    BY <2>1 DEF Rows
  <2>4. r.status \in {"PENDING", "RUNNING"} => r.retry < MaxAttempts
    BY <2>3 DEF FileOK, IsFile
  <2>5. UNCHANGED <<poisoned, faults>>
    BY <1>1 DEF BecomesDue, LeaseExpires
  <2> QED
    BY <2>2, <2>3, <2>4, <2>5, RowStored DEF FileOK, IsFile
<1>2. ASSUME NEW p \in Procs, Submit(p, t) \/ ReplayFailed(p, t) PROVE FileOK'
  <2>1. IsFile(Admitted(t))
    BY Stores
  <2> QED
    BY <1>2, <2>1, Writes DEF Submit, ReplayFailed
<1>3. ASSUME NEW p \in Procs, Cancel(p, t) PROVE FileOK'
  <2>1. IsFile([row EXCEPT ![t].status = "CANCELLED", ![t].due = FALSE])
    BY DEF FileOK, IsFile, Rows
  <2> QED
    BY <1>3, <2>1, Writes DEF Cancel
<1> QED
  BY <1>1, <1>2, <1>3

\* A thread keeps the file: it claims what may run, and settles what runs.
LEMMA ThreadKeepsFile ==
  ASSUME FileOK, ThreadsOK, NEW th \in Threads, Thread(th)
  PROVE  FileOK'
<1> DEFINE t == thread[th].task
<1>1. ProcOf(th) \in Procs
  BY ThreadNames
<1>2. CASE Fill(th) \/ Pop(th) \/ Pick(th) \/ CallsBack(th)
  <2>1. UNCHANGED fileVars
    BY <1>2 DEF Fill, Pop, Pick, CallsBack
  <2> QED
    BY <2>1 DEF fileVars, FileOK, IsFile
<1>3. CASE Claim(th)
  <2>1. t \in Tasks
    BY <1>3 DEF Claim, ThreadsOK
  <2>2. CASE t \in Due
    <3>1. Active(t)
      BY <2>2 DEF Due, Active
    <3>2. IsFile(Claimed(t, th))
      BY <2>1, <3>1, Stores
    <3> QED
      BY <1>1, <1>3, <2>2, <3>2, Writes DEF Claim
  <2>3. CASE t \notin Due
    BY <1>3, <2>3 DEF Claim, fileVars, FileOK, IsFile
  <2> QED
    BY <2>2, <2>3
<1>4. CASE SettlesInTime(th) \/ LosesLease(th)
  <2>1. t \in Tasks
    BY <1>4 DEF SettlesInTime, Settles, LosesLease, ThreadsOK
  <2>2. CASE LeaseMatches(t, th)
    <3>1. IsFile(Completed(t)) /\ IsFile(Failed(t))
      BY <2>1, <2>2, Stores DEF LeaseMatches
    <3>2. \/ \E file \in {Completed(t), Failed(t)} : Saves(ProcOf(th), file) \/ Raises(ProcOf(th), file)
      BY <1>4, <2>2 DEF SettlesInTime, Settles, LosesLease
    <3> QED
      BY <1>1, <3>1, <3>2, Writes
  <2>3. CASE ~LeaseMatches(t, th)
    <3>1. UNCHANGED fileVars
      BY <1>4, <2>3 DEF SettlesInTime, Settles, LosesLease
    <3> QED
      BY <3>1 DEF fileVars, FileOK, IsFile
  <2> QED
    BY <2>2, <2>3
<1> QED
  BY <1>2, <1>3, <1>4 DEF Thread

\* A step of a process keeps the file.
LEMMA ProcKeepsFile ==
  ASSUME FileOK, NEW p \in Procs,
         \/ SubmitReturns(p) \/ Start(p) \/ Crash(p)
         \/ StopBegins(p) \/ StopJoins(p) \/ StopReports(p)
  PROVE  FileOK'
<1>1. row' = row /\ faults' = faults /\ poisoned' \in {poisoned, [poisoned EXCEPT ![p] = FALSE]}
  BY DEF SubmitReturns, Start, Crash, StopBegins, StopJoins, StopReports, fileVars
<1> QED
  BY <1>1 DEF FileOK, IsFile

\* Every step keeps the hints within the capacity.
LEMMA NextKeepsHints ==
  ASSUME FileOK, HintsOK, ThreadsOK, Next
  PROVE  HintsOK'
<1>1. ASSUME UNCHANGED hintVars PROVE HintsOK'
  BY <1>1 DEF hintVars, HintsOK
<1>2. ASSUME NEW t \in Tasks, BecomesDue(t) \/ LeaseExpires(t) PROVE HintsOK'
  BY <1>1, <1>2 DEF BecomesDue, LeaseExpires
<1>3. ASSUME NEW p \in Procs, NEW t \in Tasks, Submit(p, t) \/ ReplayFailed(p, t) \/ Cancel(p, t)
      PROVE  HintsOK'
  <2>1. (Hinted(p, t) /\ UNCHANGED active) \/ UNCHANGED hintVars
    BY <1>3 DEF Submit, ReplayFailed, Cancel, hintVars
  <2> QED
    BY <1>1, <2>1, HintsKept
<1>4. ASSUME NEW th \in Threads, Thread(th) PROVE HintsOK'
  <2>1. ProcOf(th) \in Procs
    BY ThreadNames
  <2>2. CASE Fill(th)
    BY <2>2, FillHints
  <2>3. CASE Pop(th)
    <3>1. CASE UNCHANGED hintVars
      BY <1>1, <3>1
    <3>2. ASSUME NEW t \in hints[ProcOf(th)],
                 hints' = [hints EXCEPT ![ProcOf(th)] = @ \ {t}],
                 queued' = [queued EXCEPT ![ProcOf(th)] = @ \ {t}],
                 active' = [active EXCEPT ![ProcOf(th)] = t]
          PROVE  HintsOK'
      <4>1. t \in Tasks
        BY <2>1 DEF HintsOK
      <4> QED
        BY <2>1, <3>2, <4>1, HintsKept
    <3> QED
      BY <2>3, <3>1, <3>2 DEF Pop
  <2>4. CASE Pick(th) \/ Claim(th) \/ SettlesInTime(th) \/ LosesLease(th) \/ CallsBack(th)
    <3>1. /\ UNCHANGED <<hints, queued>>
          /\ \/ UNCHANGED active \/ active' = [active EXCEPT ![ProcOf(th)] = None]
             \/ active' = [active EXCEPT ![ProcOf(th)] = thread[th].task]
      BY <2>4 DEF Pick, Claim, SettlesInTime, Settles, LosesLease, CallsBack, Inactive
    <3>2. thread[th].task \in Tasks \cup {None}
      BY DEF ThreadsOK, ThreadStates
    <3> QED
      BY <3>1, <3>2 DEF HintsOK
  <2> QED
    BY <1>4, <2>2, <2>3, <2>4 DEF Thread
<1>5. ASSUME NEW p \in Procs, SubmitReturns(p) \/ Start(p) \/ StopBegins(p) \/ StopJoins(p)
      PROVE  HintsOK'
  BY <1>1, <1>5 DEF SubmitReturns, Start, StopBegins, StopJoins
<1>6. ASSUME NEW p \in Procs, StopReports(p) \/ Crash(p) PROVE HintsOK'
  <2>1. /\ hints' = [hints EXCEPT ![p] = {}]
        /\ queued' \in {[queued EXCEPT ![p] = {}], [queued EXCEPT ![p] = @ \ hints[p]]}
        /\ active' \in {active, [active EXCEPT ![p] = None]}
    BY <1>6 DEF StopReports, Crash
  <2>2. Cardinality({}) = 0 /\ Capacity \in Nat
    BY FS_EmptySet, Bounds
  <2> QED
    BY <2>1, <2>2 DEF HintsOK
<1> QED
  BY <1>2, <1>3, <1>4, <1>5, <1>6, CallersAreProcs DEF Next

\* Every step keeps the states of the threads.
LEMMA NextKeepsThreads ==
  ASSUME IInv, Next
  PROVE  ThreadsOK'
<1>1. ASSUME UNCHANGED thread PROVE ThreadsOK'
  BY <1>1 DEF IInv, ThreadsOK
<1>2. ASSUME NEW th \in Threads, NEW s \in ThreadStates, thread' = [thread EXCEPT ![th] = s],
             s.pc \in {"claim", "run", "callback"} => s.task \in Tasks
      PROVE  ThreadsOK'
  BY <1>2 DEF IInv, ThreadsOK
<1>3. ASSUME NEW t \in Tasks, BecomesDue(t) \/ LeaseExpires(t) PROVE ThreadsOK'
  BY <1>1, <1>3 DEF BecomesDue, LeaseExpires
<1>4. ASSUME NEW p \in Procs, NEW t \in Tasks, Submit(p, t) \/ ReplayFailed(p, t) \/ Cancel(p, t)
      PROVE  ThreadsOK'
  BY <1>1, <1>4 DEF Submit, ReplayFailed, Cancel
<1>5. ASSUME NEW th \in Threads, Thread(th) PROVE ThreadsOK'
  <2>1. thread[th] \in ThreadStates /\ thread \in [Threads -> ThreadStates]
    BY DEF IInv, ThreadsOK
  <2>2. CASE thread' = Rests(th)
    <3>1. [Dead EXCEPT !.pc = "loop"] \in ThreadStates /\ [Dead EXCEPT !.pc = "loop"].pc = "loop"
      BY DEF Dead, ThreadStates
    <3> QED
      BY <1>2, <2>2, <3>1 DEF Rests
  <2>3. ASSUME NEW q \in {"dead", "loop", "pop", "pick"}, Goes(th, q) PROVE ThreadsOK'
    BY <2>1, <2>3 DEF Goes, IInv, ThreadsOK, ThreadStates
  <2>4. ASSUME thread[th].task \in Tasks, Goes(th, "run") \/ Goes(th, "callback") PROVE ThreadsOK'
    BY <2>1, <2>4 DEF Goes, IInv, ThreadsOK, ThreadStates
  <2>5. ASSUME NEW t \in Tasks, thread' = [thread EXCEPT ![th].pc = "claim", ![th].task = t]
        PROVE  ThreadsOK'
    BY <2>1, <2>5 DEF IInv, ThreadsOK, ThreadStates
  <2>6. CASE Fill(th) \/ Pop(th)
    BY <2>3, <2>6 DEF Fill, Pop
  <2>7. CASE Pick(th)
    <3>1. Earliest \subseteq Tasks
      BY DEF Earliest, Due
    <3> QED
      BY <2>2, <2>5, <2>7, <3>1 DEF Pick
  <2>8. CASE Claim(th) \/ SettlesInTime(th) \/ LosesLease(th) \/ CallsBack(th)
    <3>1. thread[th].task \in Tasks
      BY <2>8 DEF Claim, SettlesInTime, Settles, LosesLease, CallsBack, IInv, ThreadsOK
    <3> QED
      BY <2>2, <2>4, <2>8, <3>1 DEF Claim, SettlesInTime, Settles, LosesLease, CallsBack
  <2> QED
    BY <1>5, <2>6, <2>7, <2>8 DEF Thread
<1>6. ASSUME NEW p \in Procs, SubmitReturns(p) \/ StopBegins(p) \/ StopJoins(p) \/ StopReports(p)
      PROVE  ThreadsOK'
  BY <1>1, <1>6 DEF SubmitReturns, StopBegins, StopJoins, StopReports
<1>7. ASSUME NEW p \in Procs, Start(p) PROVE ThreadsOK'
  BY <1>7 DEF Start, IInv, ThreadsOK, ThreadStates
<1>8. ASSUME NEW p \in Procs, Crash(p) PROVE ThreadsOK'
  BY <1>8 DEF Crash, Dead, IInv, ThreadsOK, ThreadStates
<1> QED
  BY <1>3, <1>4, <1>5, <1>6, <1>7, <1>8, CallersAreProcs DEF Next

\* Every step of a thread, of a client and of time leaves the calls alone, but
\* for the callback that was registered or taken out.
LEMMA OthersKeepCalls ==
  ASSUME IInv,
         \/ \E t \in Tasks : BecomesDue(t) \/ LeaseExpires(t)
         \/ \E p \in Procs, t \in Tasks : Submit(p, t) \/ ReplayFailed(p, t) \/ Cancel(p, t)
         \/ \E th \in Threads : Thread(th)
  PROVE  UNCHANGED callVars /\ CallsOK'
<1>1. UNCHANGED callVars
  <2>1. ASSUME NEW t \in Tasks, BecomesDue(t) \/ LeaseExpires(t) PROVE UNCHANGED callVars
    BY <2>1 DEF BecomesDue, LeaseExpires
  <2>2. ASSUME NEW p \in Procs, NEW t \in Tasks, Submit(p, t) \/ ReplayFailed(p, t) \/ Cancel(p, t)
        PROVE  UNCHANGED callVars
    BY <2>2 DEF Submit, ReplayFailed, Cancel
  <2>3. ASSUME NEW th \in Threads, Thread(th) PROVE UNCHANGED callVars
    BY <2>3 DEF Thread, Fill, Pop, Pick, Claim, SettlesInTime, Settles, LosesLease, CallsBack
  <2> QED
    BY <2>1, <2>2, <2>3
<1>2. callbacks' \in [Procs -> SUBSET Tasks] /\ submitting' \in [Procs -> Tasks \cup {None}]
  <2>1. ASSUME NEW t \in Tasks, BecomesDue(t) \/ LeaseExpires(t)
        PROVE  UNCHANGED <<callbacks, submitting>>
    BY <2>1 DEF BecomesDue, LeaseExpires
  <2>2. ASSUME NEW p \in Procs, NEW t \in Tasks, Submit(p, t) \/ ReplayFailed(p, t) \/ Cancel(p, t)
        PROVE  UNCHANGED callbacks /\ submitting' \in {submitting, [submitting EXCEPT ![p] = t]}
    BY <2>2 DEF Submit, ReplayFailed, Cancel
  <2>3. ASSUME NEW th \in Threads, Thread(th)
        PROVE  /\ UNCHANGED submitting
               /\ callbacks' \in {callbacks, [callbacks EXCEPT ![ProcOf(th)] = @ \ {thread[th].task}]}
    BY <2>3 DEF Thread, Fill, Pop, Pick, Claim, SettlesInTime, Settles, LosesLease, CallsBack
  <2> QED
    BY <2>1, <2>2, <2>3, ThreadNames DEF IInv, CallsOK
<1> QED
  BY <1>1, <1>2 DEF callVars, IInv, CallsOK

\* Every step of a process keeps the state of its calls.
LEMMA ProcKeepsCalls ==
  ASSUME IInv, NEW p \in Procs,
         \/ SubmitReturns(p) \/ Start(p) \/ Crash(p)
         \/ StopBegins(p) \/ StopJoins(p) \/ StopReports(p)
  PROVE  CallsOK'
<1>1. CASE SubmitReturns(p)
  BY <1>1 DEF SubmitReturns, callVars, IInv, CallsOK
<1>2. stop[p] \in StopStates /\ started[p] \in 0 .. MaxStarts /\ MaxStarts \in Nat \ {0}
  BY Bounds DEF IInv, CallsOK
<1>3. CASE Start(p)
  <2>1. PICK b \in BOOLEAN : stop' = [stop EXCEPT ![p] = [NoStop EXCEPT !.late = b]]
    BY <1>3, Zenon DEF Start
  <2>2. stop' \in [Procs -> StopStates] /\ stop'[p].pc = "idle"
    BY <2>1 DEF NoStop, IInv, CallsOK, StopStates
  <2>3. running' \in [Procs -> BOOLEAN] /\ started' \in [Procs -> 0 .. MaxStarts]
    BY <1>2, <1>3 DEF Start, IInv, CallsOK
  <2>4. \A q \in Procs : stop'[q].pc # "idle" => ~running'[q] /\ started'[q] > 0
    BY <1>3, <2>2 DEF Start, IInv, CallsOK
  <2> QED
    BY <1>3, <2>2, <2>3, <2>4 DEF Start, IInv, CallsOK
<1>4. CASE StopBegins(p)
  BY <1>2, <1>4 DEF StopBegins, IInv, CallsOK, StopStates
<1>5. CASE StopJoins(p)
  <2>1. PICK b \in BOOLEAN : stop' = [stop EXCEPT ![p].pc = "drain", ![p].exceeded = b]
    BY <1>5, Zenon DEF StopJoins
  <2>2. stop' \in [Procs -> StopStates] /\ \A q \in Procs : q # p => stop'[q] = stop[q]
    BY <2>1 DEF IInv, CallsOK, StopStates
  <2>3. ~running[p] /\ started[p] > 0
    BY <1>5 DEF StopJoins, IInv, CallsOK
  <2> QED
    BY <1>5, <2>2, <2>3 DEF StopJoins, IInv, CallsOK
<1>6. CASE StopReports(p)
  <2>1. PICK b \in BOOLEAN : stop' = [stop EXCEPT ![p].pc = "idle", ![p].drained = b]
    BY <1>6, Zenon DEF StopReports
  <2>2. stop' \in [Procs -> StopStates] /\ \A q \in Procs : q # p => stop'[q] = stop[q]
    BY <2>1 DEF IInv, CallsOK, StopStates
  <2>3. ~running[p] /\ started[p] > 0
    BY <1>6 DEF StopReports, IInv, CallsOK
  <2> QED
    BY <1>6, <2>2, <2>3 DEF StopReports, IInv, CallsOK
<1>7. CASE Crash(p)
  <2>1. NoStop \in StopStates /\ NoStop.pc = "idle"
    BY DEF NoStop, StopStates
  <2>2. crashes' \in 0 .. MaxCrashes
    BY <1>7, TaskQueueAssumptions DEF Crash, IInv, CallsOK
  <2> QED
    BY <1>2, <1>7, <2>1, <2>2 DEF Crash, IInv, CallsOK
<1> QED
  BY <1>1, <1>3, <1>4, <1>5, <1>6, <1>7

\* Only a start brings a thread to life.
LEMMA OnlyStartRevives ==
  ASSUME IInv, Next, NEW p \in Procs, NEW i \in 1 .. MaxStarts, thread[<<p, i>>].pc = "dead",
         thread'[<<p, i>>].pc # "dead"
  PROVE  Start(p) /\ i = started[p] + 1
<1>1. <<p, i>> \in Threads /\ ProcOf(<<p, i>>) = p
  BY ThreadNames
<1>2. ~ UNCHANGED thread
  OBVIOUS
<1>3. \A t \in Tasks : ~BecomesDue(t) /\ ~LeaseExpires(t)
  BY <1>2 DEF BecomesDue, LeaseExpires
<1>4. \A q \in Procs, t \in Tasks : ~Submit(q, t) /\ ~ReplayFailed(q, t) /\ ~Cancel(q, t)
  BY <1>2 DEF Submit, ReplayFailed, Cancel
<1>5. ASSUME NEW th \in Threads, Thread(th) PROVE FALSE
  <2>1. thread[th].pc # "dead"
    BY <1>5 DEF Thread
  <2>2. thread' = [thread EXCEPT ![th] = thread'[th]]
    BY <1>5 DEF Thread, Fill, Pop, Pick, Claim, SettlesInTime, Settles, LosesLease, CallsBack,
                Goes, Rests, IInv, ThreadsOK
  <2> QED
    BY <1>1, <2>1, <2>2 DEF IInv, ThreadsOK
<1>6. \A q \in Procs : ~SubmitReturns(q) /\ ~StopBegins(q) /\ ~StopJoins(q) /\ ~StopReports(q)
  BY <1>2 DEF SubmitReturns, StopBegins, StopJoins, StopReports
<1>7. ASSUME NEW q \in Procs, Crash(q) PROVE FALSE
  BY <1>1, <1>7 DEF Crash, Dead
<1>8. PICK q \in Procs : Start(q)
  BY <1>3, <1>4, <1>5, <1>6, <1>7, CallersAreProcs DEF Next
<1>9. q = p /\ i = started[p] + 1
  BY <1>1, <1>8 DEF Start, IInv, ThreadsOK, CallsOK
<1> QED
  BY <1>8, <1>9

\* Every step keeps the earlier threads dead, and the last one once it is joined.
LEMMA NextKeepsLives ==
  ASSUME IInv, Next
  PROVE  LastLives'
<1>1. SUFFICES ASSUME NEW p \in Procs, NEW i \in 1 .. MaxStarts
               PROVE  /\ i > started'[p] => thread'[<<p, i>>].pc = "dead"
                      /\ ~stop'[p].late /\ i < started'[p] => thread'[<<p, i>>].pc = "dead"
                      /\ stop'[p].pc # "join" /\ ~running'[p] /\ ~stop'[p].exceeded /\ i = started'[p]
                           => thread'[<<p, i>>].pc = "dead"
  BY DEF LastLives
<1> DEFINE dead == thread[<<p, i>>].pc = "dead"
           dies == thread'[<<p, i>>].pc = "dead"
<1>2. /\ i > started[p] => dead
      /\ ~stop[p].late /\ i < started[p] => dead
      /\ stop[p].pc # "join" /\ ~running[p] /\ ~stop[p].exceeded /\ i = started[p] => dead
  BY DEF IInv, LastLives
<1>3. /\ started[p] \in 0 .. MaxStarts /\ stop \in [Procs -> StopStates]
      /\ stop[p].pc # "idle" => ~running[p] /\ started[p] > 0
      /\ running \in [Procs -> BOOLEAN] /\ started \in [Procs -> 0 .. MaxStarts]
  BY DEF IInv, CallsOK
<1>4. dead => dies \/ (Start(p) /\ i = started[p] + 1)
  BY OnlyStartRevives
<1>5. CASE Start(p)
  <2>1. /\ running'[p] /\ started'[p] = started[p] + 1 /\ stop[p].pc = "idle" /\ ~running[p]
    BY <1>3, <1>5 DEF Start
  <2>2. ~stop'[p].late => ~stop[p].late /\ ~stop[p].exceeded
    <3>1. stop'[p] = [NoStop EXCEPT !.late = stop[p].late \/ stop[p].exceeded]
      BY <1>3, <1>5 DEF Start
    <3>2. stop'[p].late <=> stop[p].late \/ stop[p].exceeded
      BY <3>1 DEF NoStop
    <3> QED
      BY <3>2
  <2> QED
    BY <1>2, <1>3, <1>4, <2>1, <2>2
<1>6. CASE Crash(p)
  BY <1>6, ThreadNames DEF Crash, Dead
<1>7. CASE StopJoins(p)
  <2>1. /\ UNCHANGED <<running, started, thread>> /\ stop[p].pc = "join"
        /\ stop'[p].late = stop[p].late
    BY <1>3, <1>7 DEF StopJoins, StopStates
  <2>2. stop'[p].exceeded = (thread[<<p, started[p]>>].pc # "dead")
    BY <1>3, <1>7 DEF StopJoins, StopStates
  <2> QED
    BY <1>2, <2>1, <2>2
<1>8. CASE StopBegins(p) \/ StopReports(p)
  <2>1. /\ UNCHANGED <<started, thread>> /\ stop'[p].late = stop[p].late
        /\ stop'[p].exceeded = stop[p].exceeded
    BY <1>3, <1>8 DEF StopBegins, StopReports, StopStates
  <2>2. CASE StopBegins(p)
    BY <1>2, <1>3, <2>1, <2>2 DEF StopBegins, StopStates
  <2>3. CASE StopReports(p)
    BY <1>2, <1>3, <2>1, <2>3 DEF StopReports, StopStates
  <2> QED
    BY <1>8, <2>2, <2>3
<1>9. CASE started'[p] = started[p] /\ running'[p] = running[p] /\ stop'[p] = stop[p] /\ ~Start(p)
  BY <1>2, <1>4, <1>9
<1>10. ASSUME NEW q \in Procs, q # p, Start(q) \/ Crash(q) \/ StopBegins(q) \/ StopJoins(q) \/ StopReports(q)
       PROVE  started'[p] = started[p] /\ running'[p] = running[p] /\ stop'[p] = stop[p] /\ ~Start(p)
  <2>1. CASE Start(q)
    BY <1>3, <1>10, <2>1 DEF Start, IInv, CallsOK
  <2>2. CASE Crash(q) \/ StopBegins(q) \/ StopJoins(q) \/ StopReports(q)
    BY <1>3, <1>10, <2>2 DEF Start, Crash, StopBegins, StopJoins, StopReports, IInv, CallsOK
  <2> QED
    BY <1>10, <2>1, <2>2
<1>11. ASSUME NEW q \in Procs, SubmitReturns(q)
       PROVE  started'[p] = started[p] /\ running'[p] = running[p] /\ stop'[p] = stop[p] /\ ~Start(p)
  BY <1>11 DEF SubmitReturns, callVars, Start, IInv, CallsOK
<1>12. ASSUME \/ \E t \in Tasks : BecomesDue(t) \/ LeaseExpires(t)
              \/ \E q \in Procs, t \in Tasks : Submit(q, t) \/ ReplayFailed(q, t) \/ Cancel(q, t)
              \/ \E th \in Threads : Thread(th)
       PROVE  started'[p] = started[p] /\ running'[p] = running[p] /\ stop'[p] = stop[p] /\ ~Start(p)
  <2>1. UNCHANGED callVars
    BY <1>12, OthersKeepCalls
  <2> QED
    BY <1>3, <2>1 DEF callVars, Start, IInv, CallsOK
<1> QED
  BY <1>5, <1>6, <1>7, <1>8, <1>9, <1>10, <1>11, <1>12, CallersAreProcs DEF Next

\* A lease appears in the file only when the thread it names claims, and a claim
\* leaves the calls alone.
LEMMA LeasesAreClaimed ==
  ASSUME IInv, Next, NEW th \in Threads, NEW t \in Tasks, Leased(t, th)', ~Leased(t, th)
  PROVE  thread[th].pc # "dead" /\ UNCHANGED callVars
<1>1. row \in [Tasks -> Rows] /\ ~ UNCHANGED row
  BY DEF IInv, FileOK, IsFile, Leased
<1>2. \A u \in Tasks : ~BecomesDue(u) /\ ~LeaseExpires(u)
  BY <1>1 DEF BecomesDue, LeaseExpires, Leased, Rows
<1>3. \A p \in Procs, u \in Tasks : ~Submit(p, u) /\ ~ReplayFailed(p, u) /\ ~Cancel(p, u)
  <2>1. ASSUME NEW p \in Procs, NEW u \in Tasks, Submit(p, u) \/ ReplayFailed(p, u) PROVE FALSE
    <3>1. row' = Admitted(u)
      BY <1>1, <2>1 DEF Submit, ReplayFailed, Saves, Raises, fileVars
    <3>2. \A v \in Tasks : row'[v] = row[v] \/ row'[v].status = "PENDING"
      BY <1>1, <3>1 DEF Admitted, Absent
    <3> QED
      BY <3>2 DEF Leased
  <2>2. ASSUME NEW p \in Procs, NEW u \in Tasks, Cancel(p, u) PROVE FALSE
    <3>1. row' = [row EXCEPT ![u].status = "CANCELLED", ![u].due = FALSE]
      BY <1>1, <2>2 DEF Cancel, Saves, Raises, fileVars
    <3> QED
      BY <1>1, <3>1 DEF Leased, Rows
  <2> QED
    BY <2>1, <2>2
<1>4. \A p \in Procs : ~(\/ SubmitReturns(p) \/ Start(p) \/ Crash(p)
                         \/ StopBegins(p) \/ StopJoins(p) \/ StopReports(p))
  BY <1>1 DEF SubmitReturns, Start, Crash, StopBegins, StopJoins, StopReports, fileVars
<1>5. PICK x \in Threads : Thread(x)
  BY <1>2, <1>3, <1>4, CallersAreProcs DEF Next
<1>6. ~Fill(x) /\ ~Pop(x) /\ ~Pick(x) /\ ~CallsBack(x)
  BY <1>1 DEF Fill, Pop, Pick, CallsBack, fileVars
<1>7. thread[x].task \in Tasks
  BY <1>5, <1>6 DEF Thread, Claim, SettlesInTime, Settles, LosesLease, IInv, ThreadsOK
<1>8. Claim(x) /\ row' = Claimed(thread[x].task, x)
  <2>1. CASE Claim(x)
    BY <1>1, <2>1 DEF Claim, Saves, Raises, fileVars
  <2>2. CASE SettlesInTime(x) \/ LosesLease(x)
    <3>1. row' \in {Completed(thread[x].task), Failed(thread[x].task)}
      BY <1>1, <2>2 DEF SettlesInTime, Settles, LosesLease, Saves, Raises, fileVars
    <3>2. \A u \in Tasks : row'[u] = row[u] \/ row'[u].status \in {"COMPLETED", "PENDING", "FAILED"}
      BY <1>1, <1>7, <3>1 DEF Completed, Failed, Rows
    <3> QED
      BY <3>2 DEF Leased
  <2> QED
    BY <1>5, <1>6, <2>1, <2>2 DEF Thread
<1>9. x = th
  BY <1>1, <1>7, <1>8 DEF Claimed, Leased, Rows
<1> QED
  BY <1>5, <1>8, <1>9 DEF Thread, Claim

\* Every step keeps a drained worker without leases: a stop says drained when no
\* row is running, and then no thread of the worker lives that could claim.
LEMMA NextKeepsDrained ==
  ASSUME IInv, Next
  PROVE  NothingLeased'
<1>1. SUFFICES ASSUME NEW p \in Procs, NEW i \in 1 .. MaxStarts, NEW t \in Tasks, Drained(p)'
               PROVE  ~Leased(t, <<p, i>>)'
  BY DEF NothingLeased
<1>2. /\ stop \in [Procs -> StopStates] /\ running \in [Procs -> BOOLEAN]
      /\ started[p] \in 0 .. MaxStarts
  BY DEF IInv, CallsOK
<1>3. CASE Drained(p)
  <2>1. ~Leased(t, <<p, i>>) /\ thread[<<p, i>>].pc = "dead"
    BY <1>2, <1>3 DEF IInv, NothingLeased, LastLives, Drained
  <2> QED
    BY <2>1, LeasesAreClaimed, ThreadNames
<1>4. CASE ~Drained(p)
  <2>1. ~ UNCHANGED <<stop, running>>
    BY <1>1, <1>4 DEF Drained
  <2>2. PICK q \in Procs : Start(q) \/ Crash(q) \/ StopBegins(q) \/ StopJoins(q) \/ StopReports(q)
    BY <2>1, OthersKeepCalls, CallersAreProcs DEF Next, SubmitReturns, callVars
  <2>3. q = p
    BY <1>1, <1>2, <1>4, <2>2 DEF Drained, Start, Crash, StopBegins, StopJoins, StopReports
  <2>4. StopReports(p)
    BY <1>1, <1>2, <2>2, <2>3
       DEF Drained, Start, Crash, StopBegins, StopJoins, NoStop, StopStates
  <2>5. stop'[p].drained => row[t].status # "RUNNING"
    BY <1>2, <2>4 DEF StopReports, StopStates
  <2> QED
    BY <1>1, <2>4, <2>5 DEF Drained, Leased, StopReports, fileVars
<1> QED
  BY <1>3, <1>4

(* Theorems *)

\* The initial state satisfies the invariant.
LEMMA InitInv ==
  ASSUME Init
  PROVE  IInv
<1>1. FileOK
  BY Bounds, TaskQueueAssumptions DEF Init, Absent, FileOK, IsFile, Rows
<1>2. HintsOK
  BY Bounds, FS_EmptySet DEF Init, HintsOK
<1>3. ThreadsOK
  BY DEF Init, Dead, ThreadsOK, ThreadStates
<1>4. CallsOK
  BY Bounds, TaskQueueAssumptions DEF Init, NoStop, CallsOK, StopStates
<1>5. LastLives
  BY ThreadNames DEF Init, Dead, LastLives
<1>6. NothingLeased
  BY DEF Init, NoStop, NothingLeased, Drained
<1> QED
  BY <1>1, <1>2, <1>3, <1>4, <1>5, <1>6 DEF IInv

\* Every step keeps the invariant.
LEMMA NextInv ==
  ASSUME IInv, [Next]_vars
  PROVE  IInv'
<1>1. CASE Next
  <2>1. FileOK'
    BY <1>1, ClientsKeepFile, ThreadKeepsFile, ProcKeepsFile, CallersAreProcs DEF Next, IInv
  <2>2. HintsOK'
    BY <1>1, NextKeepsHints DEF IInv
  <2>3. CallsOK'
    BY <1>1, OthersKeepCalls, ProcKeepsCalls, CallersAreProcs DEF Next
  <2> QED
    BY <1>1, <2>1, <2>2, <2>3, NextKeepsThreads, NextKeepsLives, NextKeepsDrained DEF IInv
<1>2. CASE UNCHANGED vars
  BY <1>2 DEF vars, IInv, FileOK, IsFile, HintsOK, ThreadsOK, CallsOK, LastLives,
                   NothingLeased, Drained, Leased
<1> QED
  BY <1>1, <1>2

\* An attempt is left to every row that may be claimed, and only the thread
\* started last may live, in every reachable state.
THEOREM QueueInvariant == Spec => []IInv
<1>1. Init => IInv
  BY InitInv
<1>2. IInv /\ [Next]_vars => IInv'
  BY NextInv
<1> QED
  BY <1>1, <1>2, PTL DEF Spec

\* Rows, threads and the memory of the workers keep their types: no failure is
\* counted beyond the bound (fail), and no hint beyond the capacity (_fill_due_queue).
THEOREM TypeCorrect == Spec => []TypeOK
<1>1. IInv => TypeOK
  BY DEF IInv, FileOK, IsFile, HintsOK, ThreadsOK, CallsOK, TypeOK, Rows, ThreadStates, StopStates
<1> QED
  BY <1>1, QueueInvariant, PTL

\* After a stop that says drained within its deadline no thread of the worker
\* lives, and none has a lease in the file, until the next start (stop,
\* _worker_thread, status_counts).
THEOREM DrainedLeavesNothing == Spec => []DrainedIsTrue
<1>1. IInv => DrainedIsTrue
  <2>1. SUFFICES ASSUME IInv, NEW p \in Procs, NEW i \in 1 .. MaxStarts, Drained(p)
                 PROVE  /\ thread[<<p, i>>].pc = "dead"
                        /\ \A t \in Tasks : ~Leased(t, <<p, i>>)
    BY ThreadNames DEF DrainedIsTrue, Drained, Leased
  <2>2. started[p] \in 0 .. MaxStarts
    BY <2>1 DEF IInv, CallsOK
  <2> QED
    BY <2>1, <2>2 DEF IInv, LastLives, NothingLeased, Drained
<1> QED
  BY <1>1, QueueInvariant, PTL

\* A row stops running only through the thread that holds its lease (complete,
\* fail): whatever else writes the file leaves a running row running.
THEOREM LeaseHolderPublishes == Spec => OnlyHolderPublishes
<1> DEFINE Published ==
      \A t \in Tasks :
        row[t].status = "RUNNING" /\ row'[t].status # "RUNNING" =>
          \E th \in Threads :
            /\ thread[th].pc = "run" /\ thread[th].task = t
            /\ row[t].lease = th /\ ~row[t].expired /\ thread'[th].pc # "run"
<1>1. ASSUME IInv, Next, NEW t \in Tasks, row[t].status = "RUNNING", row'[t].status # "RUNNING"
      PROVE  \E th \in Threads :
               /\ thread[th].pc = "run" /\ thread[th].task = t
               /\ row[t].lease = th /\ ~row[t].expired /\ thread'[th].pc # "run"
  <2>1. row \in [Tasks -> Rows] /\ thread \in [Threads -> ThreadStates]
    BY <1>1 DEF IInv, FileOK, IsFile, ThreadsOK
  <2>2. \A u \in Tasks : ~BecomesDue(u) /\ ~LeaseExpires(u)
    BY <1>1, <2>1 DEF BecomesDue, LeaseExpires, Rows
  <2>3. \A p \in Procs, u \in Tasks : ~Submit(p, u) /\ ~ReplayFailed(p, u) /\ ~Cancel(p, u)
    <3>1. ASSUME NEW p \in Procs, NEW u \in Tasks, NEW r, row' \in {row, [row EXCEPT ![u] = r]},
                 row[u].status # "RUNNING"
          PROVE  FALSE
      BY <1>1, <2>1, <3>1
    <3>2. ASSUME NEW p \in Procs, NEW u \in Tasks, Submit(p, u) \/ ReplayFailed(p, u)
          PROVE  FALSE
      BY <3>1, <3>2 DEF Submit, ReplayFailed, Saves, Raises, fileVars, Admitted
    <3>3. ASSUME NEW p \in Procs, NEW u \in Tasks, Cancel(p, u) PROVE FALSE
      <4>1. /\ row' \in {row, [row EXCEPT ![u].status = "CANCELLED", ![u].due = FALSE]}
            /\ row[u].status = "PENDING"
        BY <3>3 DEF Cancel, Saves, Raises, fileVars
      <4> QED
        BY <1>1, <2>1, <4>1
    <3> QED
      BY <3>2, <3>3
  <2>4. \A p \in Procs : UNCHANGED row \/ ~(\/ SubmitReturns(p) \/ Start(p) \/ Crash(p)
                                            \/ StopBegins(p) \/ StopJoins(p) \/ StopReports(p))
    BY DEF SubmitReturns, Start, Crash, StopBegins, StopJoins, StopReports, fileVars
  <2>5. PICK th \in Threads : Thread(th)
    BY <1>1, <2>2, <2>3, <2>4, CallersAreProcs DEF Next
  <2>6. ~Fill(th) /\ ~Pop(th) /\ ~Pick(th) /\ ~CallsBack(th)
    BY <1>1 DEF Fill, Pop, Pick, CallsBack, fileVars
  <2>7. ~Claim(th)
    <3>1. SUFFICES ASSUME Claim(th) PROVE FALSE
      OBVIOUS
    <3>2. row' \in {row, Claimed(thread[th].task, th)} /\ thread[th].task \in Tasks
      BY <1>1, <3>1 DEF Claim, Saves, Raises, fileVars, IInv, ThreadsOK
    <3> QED
      BY <1>1, <2>1, <3>2 DEF Claimed, Rows
  <2>8. /\ thread[th].pc = "run" /\ thread[th].task \in Tasks
        /\ LeaseMatches(thread[th].task, th)
        /\ row' \in {Completed(thread[th].task), Failed(thread[th].task)}
    BY <1>1, <2>5, <2>6, <2>7
       DEF Thread, SettlesInTime, Settles, LosesLease, Saves, Raises, fileVars, IInv, ThreadsOK
  <2>9. thread[th].task = t
    BY <1>1, <2>1, <2>8 DEF Completed, Failed
  <2>10. thread'[th].pc # "run"
    BY <2>1, <2>5, <2>6, <2>7
       DEF Thread, SettlesInTime, Settles, LosesLease, Rests, Goes, Dead, ThreadStates
  <2> QED
    BY <2>8, <2>9, <2>10 DEF LeaseMatches
<1>2. ASSUME IInv, [Next]_vars PROVE [Published]_vars
  BY <1>1, <1>2, Zenon
<1>3. IInv /\ [Next]_vars => [Published]_vars
  BY <1>2
<1> QED
  BY <1>3, QueueInvariant, PTL DEF Spec, OnlyHolderPublishes
=================================================================================
