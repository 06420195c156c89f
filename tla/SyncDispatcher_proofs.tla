------------------------- MODULE SyncDispatcher_proofs -------------------------
(***************************************************************************)
(* Theorems about SyncDispatcher, for any number of targets, any batches   *)
(* and any limits.                                                         *)
(*                                                                         *)
(* The argument: a flight is in one hand at a time, in the queue, with a   *)
(* worker, with the stop that took it out of the queue or with the         *)
(* scheduler that claimed it, because every claim has an attempt number of *)
(* its own; so each slot counted is one flight, or the claim under way.    *)
(***************************************************************************)
EXTENDS SyncDispatcher, FiniteSetTheorems, TLAPS

\* The scheduler has a slot reserved for its target.
SlotPcs == {"claim", "put", "defer", "release", "raised"}

PoolOK ==
  /\ stopped \in BOOLEAN
  /\ active \in Nat /\ activeOf \in [Targets -> Nat]
  /\ queue \in Seq(Flight) /\ idle \in Nat
  /\ work \subseteq [flight : Flight, pc : {"got", "defer", "send", "release"}]
  /\ starts \in 0 .. MaxStarts /\ due \subseteq Batches

SchedOK ==
  /\ sched \in [pc : SlotPcs \cup {"dead", "loop", "pick"},
                target : 1 .. Cardinality(Targets) + 1, flight : Flight \cup {None}]
  /\ sched.pc \in SlotPcs => sched.target \in Targets
  /\ sched.pc \in {"put", "defer"} =>
       sched.flight \in Flight /\ TargetOf[sched.flight.batch] = sched.target

CtlOK ==
  /\ ctl \in [op : {"drain", "stop"},
              pc : {"idle", "drain", "once", "send", "status", "slots", "set", "take",
                    "defer", "release", "recheck", "final"},
              target : 1 .. Cardinality(Targets) + 1, sent : 0 .. MaxInFlight,
              flight : Flight \cup {None}, clear : BOOLEAN, drained : BOOLEAN]
  /\ ctl.pc \in {"send", "defer", "release"} => ctl.flight \in Flight

\* What waits to be claimed has an attempt left.
RowsOK ==
  /\ row \in [Batches -> [state : {"absent", "pending", "leased", "done"},
                          attempt : 0 .. MaxAttempts]]
  /\ \A b \in Batches : row[b].state \in {"absent", "pending"} => row[b].attempt < MaxAttempts

\* Flights in someone's hands: those that hold a slot, and the scheduler's.
Sent == {w.flight : w \in work}
Hands == QueuedOrSent \cup StopHolds
SchedHolds == IF sched.pc = "put" THEN {sched.flight} ELSE {}

\* A flight is in one place, and no claim made later has its attempt number.
Apart ==
  /\ \A i, j \in DOMAIN queue : queue[i] = queue[j] => i = j
  /\ \A w, x \in work : w.flight = x.flight => w = x
  /\ ToSet(queue) \cap Sent = {} /\ StopHolds \cap QueuedOrSent = {}
  /\ SchedHolds \cap Hands = {}
  /\ \A f \in Hands \cup SchedHolds : f.attempt <= row[f.batch].attempt

\* The scheduler's own slot.
SchedSlot == IF sched.pc \in SlotPcs THEN 1 ELSE 0

\* Every slot counted is a flight, or the scheduler's.
SlotsOK ==
  /\ IsFiniteSet(Hands)
  /\ active = Cardinality(Hands) + SchedSlot /\ active <= MaxInFlight
  /\ \A t \in Targets : activeOf[t] = SlotsOf(t) /\ activeOf[t] <= PerTarget

\* A stop that is past its drain: nothing is queued any more once it has seen
\* the queue empty.
StopOK ==
  /\ ctl.pc \in {"set", "take", "defer", "release", "recheck", "final"} => ctl.op = "stop"
  /\ ctl.op = "stop" /\ ctl.pc \in {"take", "defer", "release", "recheck", "final", "idle"} => stopped
  /\ ctl.op = "stop" /\ ctl.pc \in {"recheck", "final", "idle"} => queue = <<>>

\* What the last look at the rows found settled stays so.
SettledOK ==
  /\ ctl.op = "stop" => \A b \in due : row[b].state # "absent"
  /\ ctl.pc = "final" /\ ctl.clear => \A b \in due : row[b].state = "done"
  /\ ctl.op = "stop" /\ ctl.pc = "idle" /\ ctl.drained =>
       active = 0 /\ \A b \in due : row[b].state = "done"

IInv ==
  /\ PoolOK /\ SchedOK /\ CtlOK /\ RowsOK /\ Apart /\ SlotsOK /\ StopOK /\ SettledOK

-----------------------------------------------------------------------------
(* The repository's rows *)

\* The bounds are positive integers, and every batch has a target.
LEMMA Bounds ==
  /\ MaxInFlight \in Nat \ {0} /\ PerTarget \in Nat \ {0} /\ MaxAttempts \in Nat \ {0}
  /\ MaxStarts \in Nat \ {0} /\ Cardinality(Targets) \in Nat
  /\ Targets = 1 .. Cardinality(Targets) /\ TargetOf \in [Batches -> Targets]
BY FS_CardinalityType, DispatcherAssumptions DEF DispatcherAssumptions

\* What a step may do to the rows: attempts are never taken back, what was written
\* stays written, and what is settled stays settled.
RowsMay ==
  \A b \in Batches :
    /\ row'[b].attempt >= row[b].attempt
    /\ row[b].state # "absent" => row'[b].state # "absent"
    /\ row[b].state = "done" => row'[b].state = "done"

\* A row that is leased goes back to the queue or to the dead letters.
LEMMA RetriedRow ==
  ASSUME RowsOK, NEW b \in Batches, row[b].state = "leased", row' = Retried(b)
  PROVE  RowsOK' /\ RowsMay
<1>1. row[b].attempt \in 0 .. MaxAttempts /\ MaxAttempts \in Nat
  BY Bounds DEF RowsOK
<1>2. ASSUME NEW st \in {"done", "pending"}, row' = [row EXCEPT ![b].state = st],
             st = "pending" => row[b].attempt < MaxAttempts
      PROVE  RowsOK' /\ RowsMay
  BY <1>1, <1>2 DEF RowsOK, RowsMay
<1>3. CASE row[b].attempt >= MaxAttempts
  BY <1>2, <1>3 DEF Retried
<1>4. CASE ~(row[b].attempt >= MaxAttempts)
  <2>1. row' = [row EXCEPT ![b].state = "pending"]
    BY <1>4 DEF Retried
  <2>2. row[b].attempt < MaxAttempts
    BY <1>1, <1>4
  <2> QED
    BY <1>2, <2>1, <2>2
<1> QED
  BY <1>3, <1>4

\* A flight that holds its row settles it.
LEMMA SettledRow ==
  ASSUME RowsOK, NEW f \in Flight, SettleRow(f) \/ FailRow(f) \/ row' = row
  PROVE  RowsOK' /\ RowsMay
<1>1. f.batch \in Batches
  BY DEF Flight
<1>2. CASE row' = row
  BY <1>2, Bounds DEF RowsOK, RowsMay
<1>3. CASE HoldsRow(f) /\ row' = [row EXCEPT ![f.batch].state = "done"]
  <2>1. PICK b \in Batches : b = f.batch
    BY <1>1
  <2>2. row' = [row EXCEPT ![b].state = "done"]
    BY <1>3, <2>1
  <2> QED
    BY <2>2, Bounds DEF RowsOK, RowsMay
<1>4. CASE HoldsRow(f) /\ row' = Retried(f.batch)
  BY <1>1, <1>4, RetriedRow DEF HoldsRow
<1> QED
  BY <1>2, <1>3, <1>4 DEF SettleRow, FailRow

\* A claim leases a row, with the next attempt number.
LEMMA ClaimedRow ==
  ASSUME RowsOK, NEW t, NEW b \in Pending(t), ClaimRow(b)
  PROVE  /\ RowsOK' /\ RowsMay
         /\ NewFlight(b) \in Flight /\ NewFlight(b).batch = b /\ TargetOf[b] = t
         /\ NewFlight(b).attempt > row[b].attempt /\ row'[b].attempt = NewFlight(b).attempt
<1>1. b \in Batches /\ row[b].state = "pending" /\ TargetOf[b] = t
  BY DEF Pending
<1>2. row[b].attempt \in Nat /\ row[b].attempt + 1 \in 1 .. MaxAttempts
  BY <1>1, Bounds DEF RowsOK
<1>3. row' = [row EXCEPT ![b] = [state |-> "leased", attempt |-> row[b].attempt + 1]]
  BY DEF ClaimRow
<1>4. RowsOK'
  BY <1>1, <1>2, <1>3 DEF RowsOK
<1>5. RowsMay
  BY <1>1, <1>2, <1>3 DEF RowsOK, RowsMay
<1> QED
  BY <1>1, <1>2, <1>3, <1>4, <1>5 DEF NewFlight, Flight, RowsOK

\* Every step treats the rows as the repository does.
LEMMA NextKeepsRows ==
  ASSUME IInv, Next
  PROVE  RowsOK' /\ RowsMay
<1>1. RowsOK
  BY DEF IInv
<1>2. ASSUME row' = row PROVE RowsOK' /\ RowsMay
  BY <1>1, <1>2, Bounds DEF RowsOK, RowsMay
<1>3. ASSUME NEW b \in Batches, Write(b) PROVE RowsOK' /\ RowsMay
  BY <1>1, <1>3, Bounds DEF Write, RowsOK, RowsMay
<1>4. ASSUME NEW b \in Batches, LeaseExpires(b) PROVE RowsOK' /\ RowsMay
  BY <1>1, <1>4, RetriedRow DEF LeaseExpires
<1>5. CASE Scheduler
  <2>1. CASE SchedLoop \/ SchedPick \/ SchedPut \/ SchedRelease
    BY <1>2, <2>1 DEF SchedLoop, SchedPick, SchedPut, SchedRelease
  <2>2. CASE SchedClaim
    BY <1>1, <1>2, <2>2, ClaimedRow DEF SchedClaim
  <2>3. CASE SchedDefer
    BY <1>1, <2>3, SettledRow DEF SchedDefer, IInv, SchedOK
  <2> QED
    BY <1>5, <2>1, <2>2, <2>3 DEF Scheduler
<1>6. CASE Workers
  <2>1. CASE WorkerExits \/ WorkerGets
    BY <1>2, <2>1 DEF WorkerExits, WorkerGets
  <2>2. ASSUME NEW w \in work, WorkerDecides(w) \/ WorkerReleases(w) PROVE RowsOK' /\ RowsMay
    BY <1>2, <2>2 DEF WorkerDecides, WorkerReleases
  <2>3. ASSUME NEW w \in work, WorkerSettles(w) PROVE RowsOK' /\ RowsMay
    <3>1. w.flight \in Flight
      BY DEF IInv, PoolOK
    <3> QED
      BY <1>1, <2>3, <3>1, SettledRow DEF WorkerSettles
  <2> QED
    BY <1>6, <2>1, <2>2, <2>3 DEF Workers
<1>7. CASE Control \/ CallRaises
  <2>1. CASE \/ DrainRound \/ OnceEnds \/ DrainReadsStatus \/ DrainReadsSlots \/ StopSets
             \/ StopTakes \/ StopReleases \/ StopRechecks \/ StopReturns \/ CallRaises
    BY <1>2, <2>1 DEF DrainRound, OnceEnds, DrainReadsStatus, DrainReadsSlots, StopSets, StopTakes,
                      StopReleases, StopRechecks, StopReturns, CallRaises, Moves
  <2>2. CASE OnceClaims
    BY <1>1, <1>2, <2>2, ClaimedRow DEF OnceClaims
  <2>3. CASE OnceSends \/ StopDefers
    BY <1>1, <2>3, SettledRow DEF OnceSends, StopDefers, IInv, CtlOK
  <2> QED
    BY <1>7, <2>1, <2>2, <2>3 DEF Control
<1>8. CASE Start \/ \E op \in {"drain", "stop"} : Call(op)
  BY <1>2, <1>8 DEF Start, Call
<1> QED
  BY <1>3, <1>4, <1>5, <1>6, <1>7, <1>8 DEF Next

-----------------------------------------------------------------------------
(* The caller of start, drain and stop *)

\* What happens without the caller.
Background == (\E b \in Batches : Write(b) \/ LeaseExpires(b)) \/ Scheduler \/ Workers

\* A slot that is given back was counted.
LEMMA HandsCounted ==
  ASSUME SlotsOK, NEW f \in Hands
  PROVE  active >= 1
<1>1. Cardinality(Hands) \in Nat /\ Cardinality(Hands) # 0
  BY FS_CardinalityType, FS_EmptySet DEF SlotsOK
<1>2. SchedSlot \in {0, 1}
  BY DEF SchedSlot
<1> QED
  BY <1>1, <1>2 DEF SlotsOK

\* What a worker carries is in a hand.
LEMMA WorkIsHeld ==
  ASSUME NEW w \in work
  PROVE  w.flight \in Hands
BY DEF Hands, QueuedOrSent

\* Without the caller the stop event stays as it is; once it is set, the empty
\* queue stays empty, and no slot is reserved.
LEMMA BackgroundFrame ==
  ASSUME IInv, Background
  PROVE  /\ UNCHANGED <<stopped, ctlVars>>
         /\ stopped /\ queue = <<>> => queue' = <<>>
         /\ stopped /\ active = 0 => active' = 0
<1>1. CASE \E b \in Batches : Write(b) \/ LeaseExpires(b)
  BY <1>1 DEF Write, LeaseExpires, slotVars, poolVars, ctlVars
<1>2. CASE Scheduler
  <2>1. CASE SchedLoop \/ SchedClaim \/ SchedDefer
    BY <2>1 DEF SchedLoop, SchedClaim, SchedDefer, slotVars, poolVars, ctlVars
  <2>2. CASE SchedPick
    BY <2>2 DEF SchedPick, slotVars, poolVars, ctlVars
  <2>3. CASE SchedPut
    BY <2>3 DEF SchedPut, slotVars, poolVars, ctlVars
  <2>4. CASE SchedRelease
    <3>1. active # 0
      <4>1. SchedSlot = 1
        BY <2>4 DEF SchedRelease, SchedSlot, SlotPcs
      <4>2. Cardinality(Hands) \in Nat
        BY FS_CardinalityType DEF IInv, SlotsOK
      <4> QED
        BY <4>1, <4>2 DEF IInv, SlotsOK
    <3> QED
      BY <2>4, <3>1 DEF SchedRelease, poolVars, ctlVars
  <2> QED
    BY <1>2, <2>1, <2>2, <2>3, <2>4 DEF Scheduler
<1>3. CASE Workers
  <2>1. CASE WorkerExits \/ WorkerGets
    BY <2>1 DEF WorkerExits, WorkerGets, slotVars, ctlVars
  <2>2. ASSUME NEW w \in work, WorkerDecides(w) \/ WorkerSettles(w)
        PROVE  UNCHANGED <<stopped, ctlVars, queue, active>>
    BY <2>2 DEF WorkerDecides, WorkerSettles, slotVars, ctlVars
  <2>3. ASSUME NEW w \in work, WorkerReleases(w)
        PROVE  UNCHANGED <<stopped, ctlVars, queue>> /\ active >= 1
    <3>1. active >= 1
      BY WorkIsHeld, HandsCounted DEF IInv
    <3> QED
      BY <2>3, <3>1 DEF WorkerReleases, ctlVars
  <2> QED
    BY <1>3, <2>1, <2>2, <2>3 DEF Workers
<1> QED
  BY <1>1, <1>2, <1>3 DEF Background

\* The caller's record keeps its type.
LEMMA CallerKeepsType ==
  ASSUME IInv, Next
  PROVE  CtlOK'
<1>1. /\ ctl \in [op : {"drain", "stop"},
              pc : {"idle", "drain", "once", "send", "status", "slots", "set", "take",
                    "defer", "release", "recheck", "final"},
              target : 1 .. Cardinality(Targets) + 1, sent : 0 .. MaxInFlight,
              flight : Flight \cup {None}, clear : BOOLEAN, drained : BOOLEAN]
      /\ ctl.pc \in {"send", "defer", "release"} => ctl.flight \in Flight
      /\ 1 \in 1 .. Cardinality(Targets) + 1 /\ 0 \in 0 .. MaxInFlight
  BY Bounds DEF IInv, CtlOK
<1>2. Aborted \in [op : {"drain", "stop"},
              pc : {"idle", "drain", "once", "send", "status", "slots", "set", "take",
                    "defer", "release", "recheck", "final"},
              target : 1 .. Cardinality(Targets) + 1, sent : 0 .. MaxInFlight,
              flight : Flight \cup {None}, clear : BOOLEAN, drained : BOOLEAN]
      /\ Aborted.pc = "idle"
  BY <1>1 DEF Aborted
<1>3. CASE Background
  BY <1>3, BackgroundFrame DEF ctlVars, IInv, CtlOK
<1>4. CASE DrainRound
  BY <1>1, <1>4 DEF DrainRound, Moves, CtlOK
<1>5. CASE OnceClaims
  <2>0. ctl.target \in Targets /\ ctl.sent < MaxInFlight
    BY <1>5 DEF OnceClaims
  <2>1. ctl.target + 1 \in 1 .. Cardinality(Targets) + 1
    BY <2>0, Bounds
  <2>2. ctl.sent + 1 \in 0 .. MaxInFlight
    <3>1. ctl.sent \in 0 .. MaxInFlight
      BY <1>1
    <3> QED
      BY <2>0, <3>1, Bounds
  <2>3. CASE Pending(ctl.target) = {}
    BY <1>1, <1>5, <2>1, <2>3 DEF OnceClaims, CtlOK
  <2>4. ASSUME NEW b \in Pending(ctl.target), ClaimRow(b),
               ctl' = [ctl EXCEPT !.pc = "send", !.target = @ + 1, !.sent = @ + 1, !.flight = NewFlight(b)]
        PROVE  CtlOK'
    <3>1. NewFlight(b) \in Flight
      BY <2>4, ClaimedRow DEF IInv
    <3> QED
      BY <1>1, <2>1, <2>2, <2>4, <3>1 DEF CtlOK
  <2> QED
    BY <1>5, <2>3, <2>4 DEF OnceClaims
<1>6. CASE OnceSends
  BY <1>1, <1>2, <1>6 DEF OnceSends, CtlOK
<1>7. CASE OnceEnds
  BY <1>1, <1>7 DEF OnceEnds, Moves, CtlOK
<1>8. CASE CallRaises
  BY <1>2, <1>8 DEF CallRaises, Moves, CtlOK
<1>9. CASE DrainReadsStatus \/ StopRechecks
  <2>1. PICK c \in BOOLEAN, p \in {"slots", "final"} : ctl' = [ctl EXCEPT !.pc = p, !.clear = c]
    BY <1>9, Zenon DEF DrainReadsStatus, StopRechecks, Moves, NothingOpen
  <2> QED
    BY <1>1, <2>1 DEF CtlOK
<1>10. CASE DrainReadsSlots \/ StopReturns
  <2>1. \/ \E d \in BOOLEAN, p \in {"set", "idle"} :
             ctl' = [ctl EXCEPT !.pc = p, !.clear = FALSE, !.drained = d]
        \/ ctl' = [ctl EXCEPT !.pc = "drain", !.clear = FALSE]
    BY <1>10, Zenon DEF DrainReadsSlots, StopReturns, Moves, FinallyDrained
  <2> QED
    BY <1>1, <2>1 DEF CtlOK
<1>11. CASE StopSets \/ StopDefers \/ StopReleases
  BY <1>1, <1>11 DEF StopSets, StopDefers, StopReleases, CtlOK
<1>12. CASE StopTakes
  <2>1. queue # <<>> => Head(queue) \in Flight
    BY DEF IInv, PoolOK
  <2> QED
    BY <1>1, <1>12, <2>1 DEF StopTakes, CtlOK
<1>13. CASE Start
  BY <1>1, <1>13 DEF Start, CtlOK
<1>14. ASSUME NEW op \in {"drain", "stop"}, Call(op) PROVE CtlOK'
  BY <1>1, <1>14 DEF Call, CtlOK
<1> QED
  BY <1>3, <1>4, <1>5, <1>6, <1>7, <1>8, <1>9, <1>10, <1>11, <1>12, <1>13, <1>14
     DEF Next, Control, Background

\* Everything settled now was settled before: the rows that a stop waits for.
LEMMA DueStay ==
  ASSUME IInv, Next, due' = due
  PROVE  /\ (\A b \in due : row[b].state # "absent") => \A b \in due' : row'[b].state # "absent"
         /\ (\A b \in due : row[b].state = "done") => \A b \in due' : row'[b].state = "done"
<1>1. due \subseteq Batches
  BY DEF IInv, PoolOK
<1> QED
  BY <1>1, NextKeepsRows DEF RowsMay

\* A stop sets the event before it empties the queue; with the event set nobody
\* fills it again.
LEMMA NextKeepsStop ==
  ASSUME IInv, Next
  PROVE  StopOK' /\ SettledOK'
<1>1. CtlOK /\ StopOK /\ SettledOK
  BY DEF IInv
<1>2. CASE Background
  <2>1. UNCHANGED <<stopped, ctl, due>>
    BY <1>2, BackgroundFrame DEF ctlVars
  <2>2. StopOK'
    BY <1>1, <1>2, <2>1, BackgroundFrame DEF StopOK
  <2>3. SettledOK'
    <3>1. ctl.op = "stop" /\ ctl.pc = "idle" /\ active = 0 => active' = 0
      BY <1>1, <1>2, BackgroundFrame DEF StopOK
    <3> QED
      BY <1>1, <2>1, <3>1, DueStay DEF SettledOK
  <2> QED
    BY <2>2, <2>3
\* In each of the caller's own steps: what it finds, where it goes, what it changes.
<1>3. ASSUME UNCHANGED <<stopped, queue, active, row, due>>,
             ctl'.op = ctl.op, ctl.pc \notin {"idle", "final", "take", "defer", "release"},
             ctl'.pc \in {"drain", "once", "status", "slots"} \/ (ctl.pc = "recheck" /\ ctl'.pc = "final"),
             ctl'.pc = "final" /\ ctl'.clear => NothingOpen
      PROVE  StopOK' /\ SettledOK'
  <2>1. StopOK'
    BY <1>1, <1>3 DEF StopOK
  <2>2. ctl'.pc = "final" => ctl.op = "stop"
    BY <1>1, <1>3 DEF StopOK
  <2>3. due \subseteq Batches
    BY DEF IInv, PoolOK
  <2> QED
    BY <1>1, <1>3, <2>1, <2>2, <2>3 DEF SettledOK, NothingOpen
<1>4. CASE DrainRound \/ OnceEnds \/ DrainReadsStatus \/ StopRechecks
  <2>1. UNCHANGED <<stopped, queue, active, row, due>>
    BY <1>4 DEF DrainRound, OnceEnds, DrainReadsStatus, StopRechecks, Moves, slotVars, poolVars
  <2>2. ctl'.op = ctl.op /\ ctl.pc \in {"drain", "once", "status", "recheck"}
        /\ (ctl'.pc \in {"drain", "once", "status", "slots"} \/ (ctl.pc = "recheck" /\ ctl'.pc = "final"))
    BY <1>1, <1>4 DEF DrainRound, OnceEnds, DrainReadsStatus, StopRechecks, Moves, CtlOK
  <2>3. ctl'.pc = "final" /\ ctl'.clear => NothingOpen
    <3>1. CASE StopRechecks
      <4>1. PICK c \in BOOLEAN : ctl' = [ctl EXCEPT !.pc = "final", !.clear = c] /\ (c => NothingOpen)
        BY <3>1, Zenon DEF StopRechecks, Moves, NothingOpen
      <4> QED
        BY <1>1, <4>1 DEF CtlOK
    <3>2. CASE DrainRound \/ OnceEnds \/ DrainReadsStatus
      <4>1. ctl.pc \in {"drain", "once", "status"}
        BY <3>2 DEF DrainRound, OnceEnds, DrainReadsStatus
      <4> QED
        BY <2>2, <4>1
    <3> QED
      BY <1>4, <3>1, <3>2
  <2> QED
    BY <1>3, <2>1, <2>2, <2>3
<1>5. ASSUME ctl'.op = "drain", ctl'.pc = "idle" PROVE StopOK' /\ SettledOK'
  BY <1>5 DEF StopOK, SettledOK
<1>6. CASE OnceClaims \/ OnceSends
  <2>1. UNCHANGED <<stopped, queue, active, due>>
    BY <1>6 DEF OnceClaims, OnceSends, slotVars, poolVars
  <2>2. ctl' = Aborted \/ (ctl'.op = ctl.op /\ ctl'.pc \in {"once", "send"})
    <3>1. CASE OnceClaims
      BY <1>1, <3>1 DEF OnceClaims, CtlOK
    <3>2. CASE OnceSends
      BY <1>1, <3>2 DEF OnceSends, CtlOK
    <3> QED
      BY <1>6, <3>1, <3>2
  <2>3. Aborted.op = "drain" /\ Aborted.pc = "idle"
    BY <1>1 DEF Aborted, CtlOK
  <2>4. CASE ctl'.op = ctl.op /\ ctl'.pc \in {"once", "send"}
    BY <1>1, <2>1, <2>4, DueStay DEF StopOK, SettledOK
  <2> QED
    BY <1>5, <2>2, <2>3, <2>4
<1>7. CASE CallRaises \/ Start
  BY <1>1, <1>5, <1>7 DEF CallRaises, Start, Moves, Aborted, CtlOK
<1>8. ASSUME NEW op \in {"drain", "stop"}, Call(op) PROVE StopOK' /\ SettledOK'
  <2>1. ctl'.op = op /\ ctl'.pc = "drain" /\ row' = row
    BY <1>1, <1>8 DEF Call, CtlOK
  <2>2. op = "stop" => \A b \in due' : row[b].state # "absent"
    BY <1>8 DEF Call
  <2> QED
    BY <2>1, <2>2 DEF StopOK, SettledOK
<1>9. CASE DrainReadsSlots
  <2>1. UNCHANGED <<stopped, queue, active, row, due>>
    BY <1>9 DEF DrainReadsSlots, Moves, slotVars, poolVars
  <2>2. ctl.pc = "slots"
    BY <1>9 DEF DrainReadsSlots
  <2>3. ctl'.op = ctl.op /\ ctl'.pc = (IF ctl'.pc = "drain" THEN "drain" ELSE IF ctl.op = "stop" THEN "set" ELSE "idle")
    BY <1>1, <1>9 DEF DrainReadsSlots, Moves, CtlOK
  <2> QED
    BY <1>1, <2>1, <2>2, <2>3, DueStay DEF StopOK, SettledOK
<1>10. CASE StopSets \/ StopTakes \/ StopDefers \/ StopReleases
  <2>1. ctl'.op = ctl.op /\ ctl.op = "stop" /\ stopped' /\ due' = due
    BY <1>1, <1>10 DEF StopSets, StopTakes, StopDefers, StopReleases, CtlOK, StopOK
  <2>2. ctl'.pc \in {"take", "defer", "release", "recheck"} /\ (ctl'.pc = "recheck" => queue' = <<>>)
    BY <1>1, <1>10 DEF StopSets, StopTakes, StopDefers, StopReleases, CtlOK
  <2> QED
    BY <1>1, <2>1, <2>2, DueStay DEF StopOK, SettledOK
<1>11. CASE StopReturns
  <2>1. UNCHANGED <<stopped, queue, active, row, due>> /\ ctl.pc = "final"
    BY <1>11 DEF StopReturns, Moves, slotVars, poolVars
  <2>2. PICK d \in BOOLEAN : /\ ctl' = [ctl EXCEPT !.pc = "idle", !.clear = FALSE, !.drained = d]
                             /\ d => ctl.clear /\ active = 0
    BY <1>11, Zenon DEF StopReturns, Moves, FinallyDrained
  <2>3. ctl'.op = ctl.op /\ ctl'.pc = "idle" /\ (ctl'.drained => ctl.clear /\ active = 0)
    BY <1>1, <2>2 DEF CtlOK
  <2> QED
    BY <1>1, <2>1, <2>3 DEF StopOK, SettledOK
<1> QED
  BY <1>2, <1>4, <1>6, <1>7, <1>8, <1>9, <1>10, <1>11 DEF Next, Control, Background

-----------------------------------------------------------------------------
(* Where the flights are *)

\* Records and counters other than the caller's keep their types.
LEMMA NextKeepsSched ==
  ASSUME IInv, Next
  PROVE  SchedOK'
<1>1. /\ sched \in [pc : SlotPcs \cup {"dead", "loop", "pick"},
                    target : 1 .. Cardinality(Targets) + 1, flight : Flight \cup {None}]
      /\ sched.pc \in SlotPcs => sched.target \in Targets
      /\ 1 \in 1 .. Cardinality(Targets) + 1
      /\ \A t \in Targets : t + 1 \in 1 .. Cardinality(Targets) + 1
  BY Bounds DEF IInv, SchedOK
<1>2. ASSUME sched' = sched PROVE SchedOK'
  BY <1>2 DEF IInv, SchedOK
<1>3. CASE SchedLoop
  BY <1>1, <1>3 DEF SchedLoop, SchedOK, SlotPcs
<1>4. CASE SchedPick
  BY <1>1, <1>4 DEF SchedPick, NextTarget, EndPass, SchedOK, SlotPcs
<1>5. CASE SchedClaim
  <2>1. CASE sched' = [sched EXCEPT !.pc = "release"] \/ sched' = [sched EXCEPT !.pc = "raised"]
    BY <1>1, <1>5, <2>1 DEF SchedClaim, SchedOK, SlotPcs
  <2>2. ASSUME NEW b \in Pending(sched.target), ClaimRow(b),
               sched' = [sched EXCEPT !.pc = "put", !.flight = NewFlight(b)]
        PROVE  SchedOK'
    <3>1. NewFlight(b) \in Flight /\ TargetOf[NewFlight(b).batch] = sched.target
      BY <2>2, ClaimedRow DEF IInv
    <3>2. sched.target \in Targets
      BY <1>1, <1>5 DEF SchedClaim, SlotPcs
    <3> QED
      BY <1>1, <2>2, <3>1, <3>2 DEF SchedOK, SlotPcs
  <2> QED
    BY <1>5, <2>1, <2>2 DEF SchedClaim
<1>6. CASE SchedPut \/ SchedDefer \/ SchedRelease
  <2>1. sched.pc \in SlotPcs /\ sched.target \in Targets
    BY <1>1, <1>6 DEF SchedPut, SchedDefer, SchedRelease, SlotPcs
  <2>2. sched.pc \in {"put", "defer"} =>
          sched.flight \in Flight /\ TargetOf[sched.flight.batch] = sched.target
    BY DEF IInv, SchedOK
  <2> QED
    BY <1>1, <1>6, <2>1, <2>2
       DEF SchedPut, SchedDefer, SchedRelease, NextTarget, EndPass, SchedOK, SlotPcs
<1>7. CASE \E b \in Batches : Write(b) \/ LeaseExpires(b)
  BY <1>2, <1>7 DEF Write, LeaseExpires
<1>8. CASE Workers
  BY <1>2, <1>8 DEF Workers, WorkerExits, WorkerGets, WorkerDecides, WorkerSettles, WorkerReleases
<1>9. CASE Control \/ CallRaises \/ \E op \in {"drain", "stop"} : Call(op)
  BY <1>2, <1>9 DEF Control, CallRaises, Call, DrainRound, OnceClaims, OnceSends, OnceEnds,
                    DrainReadsStatus, DrainReadsSlots, StopSets, StopTakes, StopDefers,
                    StopReleases, StopRechecks, StopReturns, Moves
<1>10. CASE Start
  BY <1>1, <1>10 DEF Start, SchedOK, SlotPcs
<1> QED
  BY <1>3, <1>4, <1>5, <1>6, <1>7, <1>8, <1>9, <1>10 DEF Next, Scheduler

\* Giving back a slot.
LEMMA ReleaseTypes ==
  ASSUME PoolOK, NEW t \in Targets, active >= 1, Release(t)
  PROVE  active' \in Nat /\ activeOf' \in [Targets -> Nat]
<1>1. \A n \in Nat : (IF n <= 1 THEN 0 ELSE n - 1) \in Nat
  OBVIOUS
<1> QED
  BY <1>1 DEF Release, PoolOK

\* The target of a flight.
LEMMA FlightTarget ==
  ASSUME NEW f \in Flight
  PROVE  f.batch \in Batches /\ TargetOf[f.batch] \in Targets
BY Bounds DEF Flight

\* Counters, queue and threads keep their types over every step.
LEMMA NextKeepsPool ==
  ASSUME IInv, Next
  PROVE  PoolOK'
<1>1. PoolOK
  BY DEF IInv
<1>2. CASE Background
  <2>1. stopped' \in BOOLEAN /\ starts' \in 0 .. MaxStarts /\ due' \subseteq Batches
    BY <1>1, <1>2, BackgroundFrame DEF PoolOK, ctlVars
  <2>2. CASE \E b \in Batches : Write(b) \/ LeaseExpires(b)
    BY <1>1, <2>1, <2>2 DEF Write, LeaseExpires, slotVars, poolVars, PoolOK
  <2>3. CASE Scheduler
    <3>1. CASE SchedLoop \/ SchedClaim \/ SchedDefer
      BY <1>1, <2>1, <3>1 DEF SchedLoop, SchedClaim, SchedDefer, slotVars, poolVars, PoolOK
    <3>2. CASE SchedPick
      <4>1. (sched.target \in Targets /\ Reserve(sched.target)) \/ UNCHANGED slotVars
        BY <3>2 DEF SchedPick
      <4>2. active' \in Nat /\ activeOf' \in [Targets -> Nat]
        BY <1>1, <4>1 DEF Reserve, slotVars, PoolOK
      <4> QED
        BY <1>1, <2>1, <3>2, <4>2 DEF SchedPick, poolVars, PoolOK
    <3>3. CASE SchedPut
      <4>1. sched.flight \in Flight
        BY <3>3 DEF SchedPut, IInv, SchedOK
      <4> QED
        BY <1>1, <2>1, <3>3, <4>1 DEF SchedPut, slotVars, PoolOK
    <3>4. CASE SchedRelease
      <4>1. sched.target \in Targets /\ SchedSlot = 1
        BY <3>4 DEF SchedRelease, IInv, SchedOK, SlotPcs, SchedSlot
      <4>2. Cardinality(Hands) \in Nat
        BY FS_CardinalityType DEF IInv, SlotsOK
      <4>3. active >= 1
        BY <4>1, <4>2 DEF IInv, SlotsOK
      <4>4. active' \in Nat /\ activeOf' \in [Targets -> Nat]
        BY <1>1, <3>4, <4>1, <4>3, ReleaseTypes DEF SchedRelease
      <4> QED
        BY <1>1, <2>1, <3>4, <4>4 DEF SchedRelease, poolVars, PoolOK
    <3> QED
      BY <2>3, <3>1, <3>2, <3>3, <3>4 DEF Scheduler
  <2>4. CASE Workers
    <3>1. CASE WorkerExits
      BY <1>1, <2>1, <3>1 DEF WorkerExits, slotVars, PoolOK
    <3>2. CASE WorkerGets
      <4>1. Head(queue) \in Flight /\ Tail(queue) \in Seq(Flight)
        BY <1>1, <3>2 DEF WorkerGets, PoolOK
      <4>2. work' = work \cup {[flight |-> Head(queue), pc |-> "got"]} /\ queue' = Tail(queue)
            /\ idle' = idle - 1 /\ idle > 0 /\ UNCHANGED slotVars
        BY <3>2 DEF WorkerGets
      <4>3. work' \subseteq [flight : Flight, pc : {"got", "defer", "send", "release"}]
        BY <1>1, <4>1, <4>2 DEF PoolOK
      <4> QED
        BY <1>1, <2>1, <4>1, <4>2, <4>3 DEF PoolOK, slotVars
    <3>3. ASSUME NEW w \in work, WorkerDecides(w) \/ WorkerSettles(w) PROVE PoolOK'
      <4>1. PICK p \in {"defer", "send", "release"} : work' = (work \ {w}) \cup {[w EXCEPT !.pc = p]}
        BY <3>3 DEF WorkerDecides, WorkerSettles
      <4>2. w \in [flight : Flight, pc : {"got", "defer", "send", "release"}]
        BY <1>1 DEF PoolOK
      <4>3. work' \subseteq [flight : Flight, pc : {"got", "defer", "send", "release"}]
        BY <1>1, <4>1, <4>2 DEF PoolOK
      <4> QED
        BY <1>1, <2>1, <3>3, <4>3 DEF WorkerDecides, WorkerSettles, slotVars, PoolOK
    <3>4. ASSUME NEW w \in work, WorkerReleases(w) PROVE PoolOK'
      <4>1. TargetOf[w.flight.batch] \in Targets
        BY <1>1, FlightTarget DEF PoolOK
      <4>2. active >= 1
        BY WorkIsHeld, HandsCounted DEF IInv
      <4>3. active' \in Nat /\ activeOf' \in [Targets -> Nat]
        BY <1>1, <3>4, <4>1, <4>2, ReleaseTypes DEF WorkerReleases
      <4> QED
        BY <1>1, <2>1, <3>4, <4>3 DEF WorkerReleases, PoolOK
    <3> QED
      BY <2>4, <3>1, <3>2, <3>3, <3>4 DEF Workers
  <2> QED
    BY <1>2, <2>2, <2>3, <2>4 DEF Background
<1>3. CASE Control \/ CallRaises
  <2>1. CASE \/ DrainRound \/ OnceEnds \/ DrainReadsStatus \/ DrainReadsSlots
             \/ StopRechecks \/ StopReturns \/ CallRaises
    <3>1. UNCHANGED <<stopped, slotVars, poolVars, starts, due>>
      BY <2>1 DEF DrainRound, OnceEnds, DrainReadsStatus, DrainReadsSlots, StopRechecks, StopReturns,
                  CallRaises, Moves
    <3> QED
      BY <1>1, <3>1 DEF slotVars, poolVars, PoolOK
  <2>2. CASE OnceClaims \/ OnceSends \/ StopSets \/ StopDefers
    BY <1>1, <2>2 DEF OnceClaims, OnceSends, StopSets, StopDefers, slotVars, poolVars, PoolOK
  <2>3. CASE StopTakes
    <3>1. queue' = queue \/ (queue # <<>> /\ queue' = Tail(queue))
      BY <2>3 DEF StopTakes
    <3>2. queue' \in Seq(Flight)
      BY <1>1, <3>1 DEF PoolOK
    <3> QED
      BY <1>1, <2>3, <3>2 DEF StopTakes, slotVars, PoolOK
  <2>4. CASE StopReleases
    <3>1. ctl.flight \in Flight /\ ctl.flight \in Hands
      BY <2>4 DEF StopReleases, IInv, CtlOK, Hands, StopHolds
    <3>2. TargetOf[ctl.flight.batch] \in Targets /\ active >= 1
      BY <3>1, FlightTarget, HandsCounted DEF IInv
    <3>3. active' \in Nat /\ activeOf' \in [Targets -> Nat]
      BY <1>1, <2>4, <3>2, ReleaseTypes DEF StopReleases
    <3> QED
      BY <1>1, <2>4, <3>3 DEF StopReleases, poolVars, PoolOK
  <2> QED
    BY <1>3, <2>1, <2>2, <2>3, <2>4 DEF Control
<1>4. CASE Start
  <2>1. idle' \in Nat
    BY <1>1, <1>4, Bounds DEF Start, PoolOK
  <2>2. starts' \in 0 .. MaxStarts
    BY <1>1, <1>4, Bounds DEF Start, PoolOK
  <2>3. stopped' \in BOOLEAN /\ UNCHANGED <<slotVars, queue, work, due>>
    BY <1>4 DEF Start
  <2> QED
    BY <1>1, <2>1, <2>2, <2>3 DEF slotVars, PoolOK
<1>5. ASSUME NEW op \in {"drain", "stop"}, Call(op) PROVE PoolOK'
  BY <1>1, <1>5 DEF Call, slotVars, poolVars, PoolOK
<1> QED
  BY <1>2, <1>3, <1>4, <1>5 DEF Next, Background

\* What a queue holds after an append, and what is left of it after a get.
LEMMA QueueAppends ==
  ASSUME NEW q \in Seq(Flight), NEW f \in Flight
  PROVE  /\ ToSet(Append(q, f)) = ToSet(q) \cup {f}
         /\ (\A i, j \in DOMAIN q : q[i] = q[j] => i = j) /\ f \notin ToSet(q) =>
              \A i, j \in DOMAIN Append(q, f) : Append(q, f)[i] = Append(q, f)[j] => i = j
<1>1. /\ DOMAIN Append(q, f) = 1 .. Len(q) + 1 /\ DOMAIN q = 1 .. Len(q) /\ Len(q) \in Nat
      /\ \A i \in 1 .. Len(q) : Append(q, f)[i] = q[i]
      /\ Append(q, f)[Len(q) + 1] = f
  OBVIOUS
<1>2. \A i \in 1 .. Len(q) + 1 : i \in 1 .. Len(q) \/ i = Len(q) + 1
  BY <1>1
<1>3. ToSet(Append(q, f)) = ToSet(q) \cup {f}
  <2>1. ASSUME NEW x \in ToSet(Append(q, f)) PROVE x \in ToSet(q) \cup {f}
    BY <1>1, <1>2, <2>1 DEF ToSet
  <2>2. ASSUME NEW x \in ToSet(q) PROVE x \in ToSet(Append(q, f))
    <3>1. PICK i \in 1 .. Len(q) : q[i] = x
      BY <1>1, <2>2 DEF ToSet
    <3>2. i \in 1 .. Len(q) + 1
      BY <1>1, <3>1
    <3> QED
      BY <1>1, <3>1, <3>2 DEF ToSet
  <2>3. f \in ToSet(Append(q, f))
    <3>1. Len(q) + 1 \in 1 .. Len(q) + 1
      BY <1>1
    <3> QED
      BY <1>1, <3>1 DEF ToSet
  <2> QED
    BY <2>1, <2>2, <2>3
<1>4. f \notin ToSet(q) => \A i \in 1 .. Len(q) : q[i] # f
  BY <1>1 DEF ToSet
<1> QED
  BY <1>1, <1>2, <1>3, <1>4

\* What Head and Tail take from a queue without repetitions: its head is in
\* the tail no longer.
LEMMA QueueGets ==
  ASSUME NEW q \in Seq(Flight), q # <<>>, \A i, j \in DOMAIN q : q[i] = q[j] => i = j
  PROVE  /\ Head(q) \in Flight /\ Tail(q) \in Seq(Flight)
         /\ ToSet(q) = {Head(q)} \cup ToSet(Tail(q)) /\ Head(q) \notin ToSet(Tail(q))
         /\ \A i, j \in DOMAIN Tail(q) : Tail(q)[i] = Tail(q)[j] => i = j
<1>1. /\ Head(q) \in Flight /\ Tail(q) \in Seq(Flight) /\ Head(q) = q[1]
      /\ Len(q) \in Nat /\ Len(q) >= 1 /\ DOMAIN q = 1 .. Len(q)
      /\ DOMAIN Tail(q) = 1 .. Len(q) - 1
      /\ \A i \in 1 .. Len(q) - 1 : Tail(q)[i] = q[i + 1]
  OBVIOUS
<1>2. \A i \in 1 .. Len(q) - 1 : i + 1 \in 1 .. Len(q) /\ i + 1 # 1
  BY <1>1
<1>3. \A i \in 1 .. Len(q) : i = 1 \/ (i - 1 \in 1 .. Len(q) - 1 /\ i = (i - 1) + 1)
  BY <1>1
<1>4. 1 \in 1 .. Len(q)
  BY <1>1
<1>5. ToSet(q) = {Head(q)} \cup ToSet(Tail(q))
  <2>1. ASSUME NEW x \in ToSet(q) PROVE x \in {Head(q)} \cup ToSet(Tail(q))
    <3>1. PICK i \in 1 .. Len(q) : q[i] = x
      BY <1>1, <2>1 DEF ToSet
    <3>2. CASE i - 1 \in 1 .. Len(q) - 1 /\ i = (i - 1) + 1
      <4>1. Tail(q)[i - 1] = x /\ i - 1 \in DOMAIN Tail(q)
        BY <1>1, <3>1, <3>2
      <4> QED
        BY <4>1 DEF ToSet
    <3> QED
      BY <1>1, <1>3, <3>1, <3>2
  <2>2. ASSUME NEW x \in ToSet(Tail(q)) PROVE x \in ToSet(q)
    BY <1>1, <1>2, <2>2 DEF ToSet
  <2>3. Head(q) \in ToSet(q)
    BY <1>1, <1>4 DEF ToSet
  <2> QED
    BY <2>1, <2>2, <2>3
<1>6. Head(q) \notin ToSet(Tail(q))
  BY <1>1, <1>2, <1>4 DEF ToSet
<1>7. ASSUME NEW i \in DOMAIN Tail(q), NEW j \in DOMAIN Tail(q), Tail(q)[i] = Tail(q)[j]
      PROVE  i = j
  <2>1. i + 1 = j + 1
    BY <1>1, <1>2, <1>7
  <2> QED
    BY <1>1, <2>1
<1> QED
  BY <1>1, <1>5, <1>6, <1>7

\* The attempt numbers of flights stay behind those of their rows.
LEMMA AttemptsStay ==
  ASSUME IInv, Next
  PROVE  \A f \in Hands \cup SchedHolds : f \in Flight /\ f.attempt <= row'[f.batch].attempt
<1>1. \A f \in Hands \cup SchedHolds : f \in Flight
  BY DEF IInv, PoolOK, SchedOK, CtlOK, Hands, QueuedOrSent, StopHolds, SchedHolds, ToSet
<1>2. ASSUME NEW f \in Hands \cup SchedHolds PROVE f.attempt <= row'[f.batch].attempt
  <2>1. f.batch \in Batches /\ f.attempt \in Int
    BY <1>1, Bounds DEF Flight
  <2>2. row'[f.batch].attempt \in Int /\ row[f.batch].attempt \in Int
        /\ row'[f.batch].attempt >= row[f.batch].attempt
    BY <2>1, NextKeepsRows, Bounds DEF IInv, RowsOK, RowsMay
  <2>3. f.attempt <= row[f.batch].attempt
    BY DEF IInv, Apart
  <2> QED
    BY <2>1, <2>2, <2>3
<1> QED
  BY <1>1, <1>2

\* No flight changes hands, and the scheduler has no new one.
LEMMA PlacesStay ==
  ASSUME IInv, Next, queue' = queue, Sent' = Sent, StopHolds' = StopHolds, SchedHolds' \subseteq SchedHolds,
         \A w, x \in work' : w.flight = x.flight => w = x
  PROVE  Apart' /\ Hands' = Hands
<1>1. Hands' = Hands /\ QueuedOrSent' = QueuedOrSent
  BY DEF Hands, QueuedOrSent, Sent
<1> QED
  BY <1>1, AttemptsStay DEF IInv, Apart

\* sync_claim hands the scheduler a flight nobody has.
LEMMA ClaimHands ==
  ASSUME IInv, Next, SchedClaim, sched'.pc = "put"
  PROVE  Apart' /\ Hands' = Hands
<1>1. PICK b \in Pending(sched.target) :
        ClaimRow(b) /\ sched' = [sched EXCEPT !.pc = "put", !.flight = NewFlight(b)]
  BY DEF SchedClaim, IInv, SchedOK
<1>2. UNCHANGED <<queue, work, ctl>>
  BY DEF SchedClaim, poolVars, ctlVars
<1>3. Hands' = Hands /\ QueuedOrSent' = QueuedOrSent /\ Sent' = Sent /\ StopHolds' = StopHolds
  BY <1>2 DEF Hands, QueuedOrSent, Sent, StopHolds
<1>4. PICK f : f = NewFlight(b)
  OBVIOUS
<1>5. /\ f \in Flight /\ f.batch = b /\ b \in Batches
      /\ f.attempt > row[b].attempt /\ row'[b].attempt = f.attempt
  BY <1>1, <1>4, ClaimedRow DEF IInv, Flight
<1>6. SchedHolds' = {f}
  BY <1>1, <1>4 DEF SchedHolds, IInv, SchedOK
<1>7. f \notin Hands
  <2>1. SUFFICES ASSUME f \in Hands PROVE FALSE
    OBVIOUS
  <2>2. f.attempt <= row[b].attempt
    BY <1>5, <2>1 DEF IInv, Apart
  <2>3. f.attempt \in Int /\ row[b].attempt \in Int
    BY <1>5, Bounds DEF Flight, IInv, RowsOK
  <2> QED
    BY <1>5, <2>2, <2>3
<1>8. f.attempt <= row'[f.batch].attempt
  BY <1>5, Bounds DEF Flight
<1> QED
  BY <1>2, <1>3, <1>6, <1>7, <1>8, AttemptsStay DEF IInv, Apart

\* _schedule_once queues the flight it claimed.
LEMMA PutHands ==
  ASSUME IInv, Next, SchedPut, ~stopped
  PROVE  Apart' /\ Hands' = Hands \cup {sched.flight} /\ sched.flight \notin Hands
<1>1. queue' = Append(queue, sched.flight) /\ sched' = NextTarget /\ UNCHANGED <<work, ctl>>
      /\ sched.pc = "put"
  BY DEF SchedPut, ctlVars
<1>2. sched'.pc = "pick"
  BY <1>1 DEF NextTarget, IInv, SchedOK
<1>3. SchedHolds' = {} /\ SchedHolds = {sched.flight} /\ sched.flight \in Flight
  BY <1>1, <1>2 DEF SchedHolds, IInv, SchedOK
<1>4. Sent' = Sent /\ StopHolds' = StopHolds
  BY <1>1 DEF Sent, StopHolds
<1>5. sched.flight \notin Hands
  BY <1>3 DEF IInv, Apart
<1>6. queue \in Seq(Flight) /\ \A i, j \in DOMAIN queue : queue[i] = queue[j] => i = j
  BY DEF IInv, PoolOK, Apart
<1>7. sched.flight \notin ToSet(queue) /\ sched.flight \notin Sent /\ sched.flight \notin StopHolds
  BY <1>5 DEF Hands, QueuedOrSent, Sent
<1>8. /\ ToSet(queue') = ToSet(queue) \cup {sched.flight}
      /\ \A i, j \in DOMAIN queue' : queue'[i] = queue'[j] => i = j
  BY <1>1, <1>3, <1>6, <1>7, QueueAppends
<1>9. QueuedOrSent' = QueuedOrSent \cup {sched.flight}
  BY <1>4, <1>8 DEF QueuedOrSent, Sent
<1>10. Hands' = Hands \cup {sched.flight}
  BY <1>4, <1>9 DEF Hands
<1> QED
  BY <1>1, <1>3, <1>4, <1>5, <1>7, <1>8, <1>9, <1>10, AttemptsStay DEF IInv, Apart

\* A worker takes the head of the queue.
LEMMA GetHands ==
  ASSUME IInv, Next, WorkerGets
  PROVE  Apart' /\ Hands' = Hands
<1>1. PICK f : f = Head(queue)
  OBVIOUS
<1>2. queue # <<>> /\ queue' = Tail(queue) /\ work' = work \cup {[flight |-> f, pc |-> "got"]}
      /\ UNCHANGED <<sched, ctl>>
  BY <1>1 DEF WorkerGets, ctlVars
<1>3. queue \in Seq(Flight) /\ \A i, j \in DOMAIN queue : queue[i] = queue[j] => i = j
  BY DEF IInv, PoolOK, Apart
<1>4. /\ ToSet(queue) = {f} \cup ToSet(queue') /\ f \notin ToSet(queue')
      /\ \A i, j \in DOMAIN queue' : queue'[i] = queue'[j] => i = j
  BY <1>1, <1>2, <1>3, QueueGets
<1>5. Sent' = Sent \cup {f}
  <2>1. PICK x : x = [flight |-> f, pc |-> "got"]
    OBVIOUS
  <2>2. x.flight = f /\ work' = work \cup {x}
    BY <1>2, <2>1
  <2> QED
    BY <2>2 DEF Sent
<1>6. f \notin Sent
  BY <1>4 DEF IInv, Apart
<1>7. \A w, x \in work' : w.flight = x.flight => w = x
  BY <1>2, <1>6 DEF IInv, Apart, Sent
<1>8. StopHolds' = StopHolds /\ SchedHolds' = SchedHolds
  BY <1>2 DEF StopHolds, SchedHolds
<1>9. QueuedOrSent' = QueuedOrSent
  BY <1>4, <1>5 DEF QueuedOrSent, Sent
<1>10. Hands' = Hands
  BY <1>8, <1>9 DEF Hands
<1>11. ToSet(queue') \cap Sent' = {}
  BY <1>4, <1>5 DEF IInv, Apart
<1> QED
  BY <1>4, <1>7, <1>8, <1>9, <1>10, <1>11, AttemptsStay DEF IInv, Apart

\* What a worker does with a flight leaves it in its hand.
LEMMA WorkHands ==
  ASSUME IInv, Next, NEW w \in work, WorkerDecides(w) \/ WorkerSettles(w)
  PROVE  Apart' /\ Hands' = Hands
<1>1. PICK p \in {"defer", "send", "release"} : work' = (work \ {w}) \cup {[w EXCEPT !.pc = p]}
  BY DEF WorkerDecides, WorkerSettles
<1>2. UNCHANGED <<queue, sched, ctl>>
  BY DEF WorkerDecides, WorkerSettles, ctlVars
<1>3. PICK x : x = [w EXCEPT !.pc = p]
  OBVIOUS
<1>4. w \in [flight : Flight, pc : {"got", "defer", "send", "release"}] /\ x.flight = w.flight
  BY <1>3 DEF IInv, PoolOK
<1>5. Sent' = Sent
  BY <1>1, <1>3, <1>4 DEF Sent
<1>6. \A y, z \in work' : y.flight = z.flight => y = z
  BY <1>1, <1>3, <1>4 DEF IInv, Apart
<1>7. StopHolds' = StopHolds /\ SchedHolds' = SchedHolds
  BY <1>2 DEF StopHolds, SchedHolds
<1> QED
  BY <1>2, <1>5, <1>6, <1>7, PlacesStay

\* A worker is done with a flight.
LEMMA ReleaseHands ==
  ASSUME IInv, Next, NEW w \in work, WorkerReleases(w)
  PROVE  Apart' /\ Hands' = Hands \ {w.flight} /\ w.flight \in Hands
<1>1. work' = work \ {w} /\ UNCHANGED <<queue, sched, ctl>>
  BY DEF WorkerReleases, ctlVars
<1>2. Sent' = Sent \ {w.flight}
  BY <1>1 DEF Sent, IInv, Apart
<1>3. w.flight \in Sent /\ w.flight \notin ToSet(queue) /\ w.flight \notin StopHolds
  BY DEF Sent, IInv, Apart, QueuedOrSent
<1>4. StopHolds' = StopHolds /\ SchedHolds' = SchedHolds
  BY <1>1 DEF StopHolds, SchedHolds
<1>5. QueuedOrSent' = QueuedOrSent \ {w.flight}
  BY <1>1, <1>2, <1>3 DEF QueuedOrSent, Sent
<1>6. Hands' = Hands \ {w.flight}
  BY <1>3, <1>4, <1>5 DEF Hands
<1>7. \A x, y \in work' : x.flight = y.flight => x = y
  BY <1>1 DEF IInv, Apart
<1> QED
  BY <1>1, <1>2, <1>3, <1>4, <1>5, <1>6, <1>7, AttemptsStay, WorkIsHeld DEF IInv, Apart

\* stop takes a flight out of the queue.
LEMMA TakeHands ==
  ASSUME IInv, Next, StopTakes, queue # <<>>
  PROVE  Apart' /\ Hands' = Hands
<1>1. PICK f : f = Head(queue)
  OBVIOUS
<1>2. queue' = Tail(queue) /\ ctl' = [ctl EXCEPT !.pc = "defer", !.flight = f]
      /\ UNCHANGED <<sched, work>> /\ ctl.pc = "take"
  BY <1>1 DEF StopTakes
<1>3. queue \in Seq(Flight) /\ \A i, j \in DOMAIN queue : queue[i] = queue[j] => i = j
  BY DEF IInv, PoolOK, Apart
<1>4. /\ ToSet(queue) = {f} \cup ToSet(queue') /\ f \notin ToSet(queue')
      /\ \A i, j \in DOMAIN queue' : queue'[i] = queue'[j] => i = j
  BY <1>1, <1>2, <1>3, QueueGets
<1>5. StopHolds = {} /\ StopHolds' = {f}
  BY <1>2 DEF StopHolds, IInv, CtlOK
<1>6. Sent' = Sent /\ SchedHolds' = SchedHolds
  BY <1>2 DEF Sent, SchedHolds
<1>7. f \notin Sent
  BY <1>4 DEF IInv, Apart
<1>8. QueuedOrSent' = QueuedOrSent \ {f} /\ f \in QueuedOrSent
  BY <1>4, <1>6, <1>7 DEF QueuedOrSent, Sent
<1>9. Hands' = Hands
  BY <1>5, <1>8 DEF Hands
<1>10. \A x, y \in work' : x.flight = y.flight => x = y
  BY <1>2 DEF IInv, Apart
<1>11. ToSet(queue') \cap Sent' = {}
  BY <1>4, <1>6 DEF IInv, Apart
<1> QED
  BY <1>4, <1>5, <1>6, <1>8, <1>9, <1>10, <1>11, AttemptsStay DEF IInv, Apart

\* stop is done with the flight it took.
LEMMA StopHands ==
  ASSUME IInv, Next, StopReleases
  PROVE  Apart' /\ Hands' = Hands \ {ctl.flight} /\ ctl.flight \in Hands
<1>1. ctl.pc = "release" /\ ctl'.pc = "take" /\ UNCHANGED <<sched, queue, work>>
  BY DEF StopReleases, poolVars, IInv, CtlOK
<1>2. StopHolds = {ctl.flight} /\ StopHolds' = {}
  BY <1>1 DEF StopHolds
<1>3. Sent' = Sent /\ SchedHolds' = SchedHolds /\ QueuedOrSent' = QueuedOrSent
  BY <1>1 DEF Sent, SchedHolds, QueuedOrSent
<1>4. ctl.flight \notin QueuedOrSent
  BY <1>2 DEF IInv, Apart
<1>5. Hands' = Hands \ {ctl.flight} /\ ctl.flight \in Hands
  BY <1>2, <1>3, <1>4 DEF Hands
<1>6. \A x, y \in work' : x.flight = y.flight => x = y
  BY <1>1 DEF IInv, Apart
<1> QED
  BY <1>1, <1>2, <1>3, <1>5, <1>6, AttemptsStay DEF IInv, Apart

-----------------------------------------------------------------------------
(* Flights and slots *)

\* The five things a step may do to flights and slots.
SlotsStay ==
  /\ Hands' = Hands /\ UNCHANGED slotVars
  /\ sched'.pc \in SlotPcs <=> sched.pc \in SlotPcs
  /\ sched.pc \in SlotPcs => sched'.target = sched.target
SlotReserved ==
  /\ Hands' = Hands /\ sched.pc \notin SlotPcs /\ sched'.pc \in SlotPcs /\ sched'.target = sched.target
  /\ sched.target \in Targets /\ CanReserve(sched.target) /\ Reserve(sched.target)
SlotReturned ==
  /\ Hands' = Hands /\ sched.pc \in SlotPcs /\ sched'.pc \notin SlotPcs /\ Release(sched.target)
SlotFilled ==
  /\ sched.pc \in SlotPcs /\ sched'.pc \notin SlotPcs /\ UNCHANGED slotVars
  /\ sched.flight \notin Hands /\ Hands' = Hands \cup {sched.flight}
  /\ TargetOf[sched.flight.batch] = sched.target
SlotFreed ==
  \E f \in Hands :
    Hands' = Hands \ {f} /\ Release(TargetOf[f.batch]) /\ sched' = sched

\* What the scheduler does to flights and slots: it reserves a slot, gives it
\* back, or puts a flight into it.
LEMMA SchedulerHands ==
  ASSUME IInv, Next, Scheduler
  PROVE  Apart' /\ (SlotsStay \/ SlotReserved \/ SlotReturned \/ SlotFilled)
<1>1. sched \in [pc : SlotPcs \cup {"dead", "loop", "pick"},
                 target : 1 .. Cardinality(Targets) + 1, flight : Flight \cup {None}]
  BY DEF IInv, SchedOK
<1>2. UNCHANGED <<work, ctl>>
  BY DEF Scheduler, SchedLoop, SchedPick, SchedClaim, SchedPut, SchedDefer, SchedRelease, poolVars, ctlVars
<1>3. Sent' = Sent /\ StopHolds' = StopHolds /\ \A w, x \in work' : w.flight = x.flight => w = x
  BY <1>2 DEF Sent, StopHolds, IInv, Apart
<1>4. ASSUME queue' = queue, sched'.pc # "put" PROVE Apart' /\ Hands' = Hands
  BY <1>3, <1>4, PlacesStay DEF SchedHolds
<1>5. CASE SchedLoop
  <2>1. sched'.pc \in {"dead", "pick"} /\ sched.pc = "loop" /\ UNCHANGED <<slotVars, queue>>
    BY <1>1, <1>5 DEF SchedLoop, poolVars
  <2> QED
    BY <1>4, <2>1 DEF SlotsStay, SlotPcs
<1>6. CASE SchedPick
  <2>1. sched.pc = "pick" /\ queue' = queue
    BY <1>6 DEF SchedPick, poolVars
  <2>2. \/ sched'.pc \in {"pick", "loop"} /\ UNCHANGED slotVars
        \/ /\ sched'.pc = "claim" /\ sched'.target = sched.target
           /\ sched.target \in Targets /\ CanReserve(sched.target) /\ Reserve(sched.target)
    BY <1>1, <1>6 DEF SchedPick, NextTarget, EndPass
  <2> QED
    BY <1>4, <2>1, <2>2 DEF SlotsStay, SlotReserved, SlotPcs
<1>7. CASE SchedClaim
  <2>1. sched.pc = "claim" /\ sched'.pc \in {"release", "raised", "put"} /\ sched'.target = sched.target
        /\ UNCHANGED <<slotVars, queue>>
    BY <1>1, <1>7 DEF SchedClaim, poolVars
  <2> QED
    BY <1>4, <1>7, <2>1, ClaimHands DEF SlotsStay, SlotPcs
<1>8. CASE SchedPut /\ stopped
  <2>1. sched.pc = "put" /\ sched'.pc = "defer" /\ sched'.target = sched.target
        /\ UNCHANGED <<slotVars, queue>>
    BY <1>1, <1>8 DEF SchedPut
  <2> QED
    BY <1>4, <2>1 DEF SlotsStay, SlotPcs
<1>9. CASE SchedPut /\ ~stopped
  <2>1. sched.pc = "put" /\ sched'.pc = "pick" /\ UNCHANGED slotVars
    BY <1>1, <1>9 DEF SchedPut, NextTarget
  <2>2. TargetOf[sched.flight.batch] = sched.target
    BY <2>1 DEF IInv, SchedOK
  <2> QED
    BY <1>9, <2>1, <2>2, PutHands DEF SlotFilled, SlotPcs
<1>10. CASE SchedDefer
  <2>1. sched.pc = "defer" /\ sched'.pc \in {"release", "raised"} /\ sched'.target = sched.target
        /\ UNCHANGED <<slotVars, queue>>
    BY <1>1, <1>10 DEF SchedDefer, poolVars
  <2> QED
    BY <1>4, <2>1 DEF SlotsStay, SlotPcs
<1>11. CASE SchedRelease
  <2>1. sched.pc \in {"release", "raised"} /\ sched'.pc \in {"pick", "loop"} /\ Release(sched.target)
        /\ queue' = queue
    BY <1>1, <1>11 DEF SchedRelease, NextTarget, EndPass, poolVars
  <2> QED
    BY <1>4, <2>1 DEF SlotReturned, SlotPcs
<1> QED
  BY <1>5, <1>6, <1>7, <1>8, <1>9, <1>10, <1>11 DEF Scheduler

\* The caller of drain and stop frees a slot per flight it takes, and touches
\* no other.
LEMMA ControlHands ==
  ASSUME IInv, Next, Control \/ CallRaises \/ \E op \in {"drain", "stop"} : Call(op)
  PROVE  Apart' /\ (SlotsStay \/ SlotFreed)
<1>1. ctl \in [op : {"drain", "stop"},
              pc : {"idle", "drain", "once", "send", "status", "slots", "set", "take",
                    "defer", "release", "recheck", "final"},
              target : 1 .. Cardinality(Targets) + 1, sent : 0 .. MaxInFlight,
              flight : Flight \cup {None}, clear : BOOLEAN, drained : BOOLEAN]
  BY DEF IInv, CtlOK
<1>2. UNCHANGED <<sched, work>>
  BY DEF Control, CallRaises, Call, DrainRound, OnceClaims, OnceSends, OnceEnds, DrainReadsStatus,
         DrainReadsSlots, StopSets, StopTakes, StopDefers, StopReleases, StopRechecks, StopReturns,
         Moves, poolVars
<1>3. Sent' = Sent /\ SchedHolds' = SchedHolds /\ \A w, x \in work' : w.flight = x.flight => w = x
  BY <1>2 DEF Sent, SchedHolds, IInv, Apart
<1>4. ASSUME UNCHANGED <<queue, slotVars>>, StopHolds' = StopHolds PROVE Apart' /\ SlotsStay
  BY <1>2, <1>3, <1>4, PlacesStay DEF SlotsStay
<1>5. ASSUME ctl.pc \notin {"defer", "release"}, ctl'.pc \notin {"defer", "release"}
      PROVE  StopHolds' = StopHolds
  BY <1>5 DEF StopHolds
<1>6. CASE \/ DrainRound \/ OnceEnds \/ DrainReadsStatus \/ DrainReadsSlots
           \/ StopRechecks \/ StopReturns \/ CallRaises
  <2>1. UNCHANGED <<queue, slotVars>>
    BY <1>6 DEF DrainRound, OnceEnds, DrainReadsStatus, DrainReadsSlots, StopRechecks, StopReturns,
                CallRaises, Moves, poolVars
  <2>2. ctl.pc \notin {"defer", "release"} /\ ctl'.pc \notin {"defer", "release"}
    BY <1>1, <1>6 DEF DrainRound, OnceEnds, DrainReadsStatus, DrainReadsSlots, StopRechecks, StopReturns,
                      CallRaises, Moves, Aborted
  <2> QED
    BY <1>4, <1>5, <2>1, <2>2
<1>7. CASE OnceClaims \/ OnceSends \/ StopSets \/ \E op \in {"drain", "stop"} : Call(op)
  <2>1. UNCHANGED <<queue, slotVars>>
    BY <1>7 DEF OnceClaims, OnceSends, StopSets, Call, poolVars
  <2>2. ctl.pc \notin {"defer", "release"} /\ ctl'.pc \notin {"defer", "release"}
    BY <1>1, <1>7 DEF OnceClaims, OnceSends, StopSets, Call, Aborted
  <2> QED
    BY <1>4, <1>5, <2>1, <2>2
<1>8. CASE StopTakes /\ queue = <<>>
  <2>1. UNCHANGED <<queue, slotVars>> /\ ctl.pc = "take" /\ ctl'.pc = "recheck"
    BY <1>1, <1>8 DEF StopTakes
  <2> QED
    BY <1>4, <1>5, <2>1
<1>9. CASE StopTakes /\ queue # <<>>
  BY <1>2, <1>9, TakeHands DEF StopTakes, SlotsStay
<1>10. CASE StopDefers
  <2>1. ctl.pc = "defer" /\ ctl'.pc = "release" /\ ctl'.flight = ctl.flight
        /\ UNCHANGED <<queue, slotVars>>
    BY <1>1, <1>10 DEF StopDefers, poolVars
  <2>2. StopHolds' = StopHolds
    BY <2>1 DEF StopHolds
  <2> QED
    BY <1>4, <2>1, <2>2
<1>11. CASE StopReleases
  BY <1>2, <1>11, StopHands DEF StopReleases, SlotFreed
<1> QED
  BY <1>6, <1>7, <1>8, <1>9, <1>10, <1>11 DEF Control

\* Every step does one of the five things to flights and slots.
LEMMA NextHands ==
  ASSUME IInv, Next
  PROVE  Apart' /\ (SlotsStay \/ SlotReserved \/ SlotReturned \/ SlotFilled \/ SlotFreed)
<1>1. ASSUME UNCHANGED <<queue, work, ctl, sched, slotVars>> PROVE Apart' /\ SlotsStay
  <2>1. Sent' = Sent /\ StopHolds' = StopHolds /\ SchedHolds' = SchedHolds
    BY <1>1 DEF Sent, StopHolds, SchedHolds
  <2>2. \A w, x \in work' : w.flight = x.flight => w = x
    BY <1>1 DEF IInv, Apart
  <2> QED
    BY <1>1, <2>1, <2>2, PlacesStay DEF SlotsStay
<1>2. CASE \E b \in Batches : Write(b) \/ LeaseExpires(b)
  BY <1>1, <1>2 DEF Write, LeaseExpires, poolVars, ctlVars
<1>3. CASE WorkerExits
  BY <1>1, <1>3 DEF WorkerExits, ctlVars
<1>4. CASE WorkerGets
  BY <1>4, GetHands DEF WorkerGets, SlotsStay
<1>5. ASSUME NEW w \in work, WorkerDecides(w) \/ WorkerSettles(w) PROVE Apart' /\ SlotsStay
  BY <1>5, WorkHands DEF WorkerDecides, WorkerSettles, SlotsStay
<1>6. ASSUME NEW w \in work, WorkerReleases(w) PROVE Apart' /\ SlotFreed
  BY <1>6, ReleaseHands DEF WorkerReleases, SlotFreed
<1>7. CASE Start
  <2>1. UNCHANGED <<queue, work, slotVars>> /\ sched.pc = "dead" /\ sched'.pc = "loop"
    BY <1>7 DEF Start, Alive, IInv, SchedOK
  <2>2. ctl.pc = "idle" /\ ctl'.pc = "idle"
    BY <1>7 DEF Start, IInv, CtlOK
  <2>3. Sent' = Sent /\ StopHolds' = StopHolds /\ SchedHolds' = SchedHolds
    BY <2>1, <2>2 DEF Sent, StopHolds, SchedHolds
  <2>4. \A w, x \in work' : w.flight = x.flight => w = x
    BY <2>1 DEF IInv, Apart
  <2> QED
    BY <2>1, <2>3, <2>4, PlacesStay DEF SlotsStay, SlotPcs
<1> QED
  BY <1>2, <1>3, <1>4, <1>5, <1>6, <1>7, SchedulerHands, ControlHands DEF Next, Workers

\* The flights of a set that go to a target.
For(H, t) == {h \in H : TargetOf[h.batch] = t}

\* K has one flight more than H.
OneMore(H, K, f) ==
  /\ IsFiniteSet(K) /\ Cardinality(H) \in Nat /\ Cardinality(K) = Cardinality(H) + 1
  /\ \A t : /\ Cardinality(For(H, t)) \in Nat
            /\ Cardinality(For(K, t)) =
                 Cardinality(For(H, t)) + (IF TargetOf[f.batch] = t THEN 1 ELSE 0)

\* A flight more is a flight more for its target, and for no other.
LEMMA CountAdds ==
  ASSUME NEW H, IsFiniteSet(H), NEW f, f \notin H, NEW K, K = H \cup {f}
  PROVE  OneMore(H, K, f)
<1>1. ASSUME NEW t
      PROVE  /\ Cardinality(For(H, t)) \in Nat
             /\ Cardinality(For(K, t)) =
                  Cardinality(For(H, t)) + (IF TargetOf[f.batch] = t THEN 1 ELSE 0)
  <2>1. IsFiniteSet(For(H, t)) /\ f \notin For(H, t)
    BY FS_Subset DEF For
  <2>2. Cardinality(For(H, t)) \in Nat
    BY <2>1, FS_CardinalityType
  <2>3. CASE TargetOf[f.batch] = t
    <3>1. For(K, t) = For(H, t) \cup {f}
      BY <2>3 DEF For
    <3>2. Cardinality(For(H, t) \cup {f}) = Cardinality(For(H, t)) + 1
      BY <2>1, FS_AddElement
    <3> QED
      BY <2>2, <2>3, <3>1, <3>2
  <2>4. CASE TargetOf[f.batch] # t
    <3>1. For(K, t) = For(H, t)
      BY <2>4 DEF For
    <3> QED
      BY <2>2, <2>4, <3>1
  <2> QED
    BY <2>3, <2>4
<1>2. IsFiniteSet(H \cup {f}) /\ Cardinality(H \cup {f}) = Cardinality(H) + 1
  BY FS_AddElement
<1>3. Cardinality(H) \in Nat
  BY FS_CardinalityType
<1> QED
  BY <1>1, <1>2, <1>3 DEF OneMore

\* What the slots of a target count.
LEMMA SlotsOfHands ==
  /\ \A t : SlotsOf(t) = Cardinality(For(Hands, t))
                           + (IF sched.pc \in SlotPcs /\ sched.target = t THEN 1 ELSE 0)
  /\ \A t : SlotsOf(t)' = Cardinality(For(Hands', t))
                           + (IF sched'.pc \in SlotPcs /\ sched'.target = t THEN 1 ELSE 0)
BY DEF SlotsOf, For, Hands, SlotPcs

\* The slots that are counted are the flights, and the scheduler's claim.
LEMMA NextKeepsSlots ==
  ASSUME IInv, Next
  PROVE  SlotsOK'
<1>1. /\ IsFiniteSet(Hands) /\ Cardinality(Hands) \in Nat
      /\ active = Cardinality(Hands) + SchedSlot /\ active <= MaxInFlight
      /\ active \in Nat /\ activeOf \in [Targets -> Nat]
      /\ MaxInFlight \in Nat /\ PerTarget \in Nat
  BY FS_CardinalityType, Bounds DEF IInv, SlotsOK, PoolOK
<1>2. \A t \in Targets : Cardinality(For(Hands, t)) \in Nat /\ activeOf[t] \in Nat
  <2>1. \A t \in Targets : IsFiniteSet(For(Hands, t))
    BY <1>1, FS_Subset DEF For
  <2> QED
    BY <1>1, <2>1, FS_CardinalityType
<1>3. \A t \in Targets :
        /\ activeOf[t] = Cardinality(For(Hands, t))
                           + (IF sched.pc \in SlotPcs /\ sched.target = t THEN 1 ELSE 0)
        /\ activeOf[t] <= PerTarget
  BY SlotsOfHands DEF IInv, SlotsOK
\* The goal, in these terms.
<1>4. ASSUME IsFiniteSet(Hands'),
             active' = Cardinality(Hands') + (IF sched'.pc \in SlotPcs THEN 1 ELSE 0),
             active' <= MaxInFlight,
             \A t \in Targets :
               /\ activeOf'[t] = Cardinality(For(Hands', t))
                                   + (IF sched'.pc \in SlotPcs /\ sched'.target = t THEN 1 ELSE 0)
               /\ activeOf'[t] <= PerTarget
      PROVE  SlotsOK'
  BY <1>4, SlotsOfHands DEF SlotsOK, SchedSlot
<1>5. \A n \in Nat : n >= 1 => (IF n <= 1 THEN 0 ELSE n - 1) = n - 1
  OBVIOUS
<1>6. CASE SlotsStay
  <2>1. \A t \in Targets : (sched'.pc \in SlotPcs /\ sched'.target = t) <=> (sched.pc \in SlotPcs /\ sched.target = t)
    BY <1>6 DEF SlotsStay
  <2> QED
    BY <1>1, <1>3, <1>4, <1>6, <2>1 DEF SlotsStay, SchedSlot, slotVars
<1>7. CASE SlotReserved
  <2>1. active' = active + 1 /\ activeOf' = [activeOf EXCEPT ![sched.target] = @ + 1]
        /\ sched.target \in Targets /\ active < MaxInFlight /\ activeOf[sched.target] < PerTarget
    BY <1>7 DEF SlotReserved, Reserve, CanReserve
  <2>2. SchedSlot = 0 /\ Hands' = Hands /\ sched'.pc \in SlotPcs /\ sched.pc \notin SlotPcs
        /\ sched'.target = sched.target
    BY <1>7 DEF SlotReserved, SchedSlot
  <2>3. active' = Cardinality(Hands') + (IF sched'.pc \in SlotPcs THEN 1 ELSE 0) /\ active' <= MaxInFlight
    BY <1>1, <2>1, <2>2
  <2>4. ASSUME NEW t \in Targets
        PROVE  /\ activeOf'[t] = Cardinality(For(Hands', t))
                                   + (IF sched'.pc \in SlotPcs /\ sched'.target = t THEN 1 ELSE 0)
               /\ activeOf'[t] <= PerTarget
    <3>1. CASE t = sched.target
      BY <1>1, <1>2, <1>3, <2>1, <2>2, <3>1
    <3>2. CASE t # sched.target
      BY <1>1, <1>2, <1>3, <2>1, <2>2, <3>2
    <3> QED
      BY <3>1, <3>2
  <2>5. IsFiniteSet(Hands')
    BY <1>1, <2>2
  <2> QED
    BY <1>4, <2>3, <2>4, <2>5
<1>8. CASE SlotReturned
  <2>1. active' = active - 1
        /\ activeOf' = [activeOf EXCEPT ![sched.target] = IF @ <= 1 THEN 0 ELSE @ - 1]
    BY <1>8 DEF SlotReturned, Release
  <2>2. SchedSlot = 1 /\ Hands' = Hands /\ sched'.pc \notin SlotPcs /\ sched.pc \in SlotPcs
        /\ sched.target \in Targets
    BY <1>8 DEF SlotReturned, SchedSlot, IInv, SchedOK
  <2>3. active' = Cardinality(Hands') /\ active' <= MaxInFlight
    BY <1>1, <2>1, <2>2
  <2>4. ASSUME NEW t \in Targets
        PROVE  activeOf'[t] = Cardinality(For(Hands', t)) /\ activeOf'[t] <= PerTarget
    <3>1. CASE t = sched.target
      <4>1. activeOf[t] = Cardinality(For(Hands, t)) + 1 /\ activeOf[t] >= 1
        BY <1>2, <1>3, <2>2, <3>1
      <4>2. activeOf'[t] = activeOf[t] - 1
        BY <1>1, <1>2, <1>5, <2>1, <3>1, <4>1
      <4> QED
        BY <1>1, <1>2, <1>3, <2>2, <4>1, <4>2
    <3>2. CASE t # sched.target
      BY <1>1, <1>2, <1>3, <2>1, <2>2, <3>2
    <3> QED
      BY <3>1, <3>2
  <2>5. IsFiniteSet(Hands') /\ active' = Cardinality(Hands') + (IF sched'.pc \in SlotPcs THEN 1 ELSE 0)
    BY <1>1, <2>2, <2>3
  <2>6. \A t \in Targets :
          /\ activeOf'[t] = Cardinality(For(Hands', t))
                              + (IF sched'.pc \in SlotPcs /\ sched'.target = t THEN 1 ELSE 0)
          /\ activeOf'[t] <= PerTarget
    BY <1>1, <1>2, <2>2, <2>4
  <2> QED
    BY <1>4, <2>3, <2>5, <2>6
<1>9. CASE SlotFilled
  <2>1. PICK f : f = sched.flight
    OBVIOUS
  <2>2. SchedSlot = 1 /\ Hands' = Hands \cup {f} /\ f \notin Hands /\ sched'.pc \notin SlotPcs
        /\ sched.pc \in SlotPcs /\ TargetOf[f.batch] = sched.target /\ active' = active /\ activeOf' = activeOf
    BY <1>9, <2>1 DEF SlotFilled, SchedSlot, slotVars
  <2>3. PICK H, K : H = Hands /\ K = Hands'
    OBVIOUS
  <2>4. OneMore(H, K, f)
    <3>1. IsFiniteSet(H) /\ f \notin H /\ K = H \cup {f}
      BY <1>1, <2>2, <2>3
    <3> QED
      BY <3>1, CountAdds
  <2>5. IsFiniteSet(K) /\ active' = Cardinality(K) /\ active' <= MaxInFlight
    BY <1>1, <2>2, <2>3, <2>4 DEF OneMore
  <2>6. ASSUME NEW t \in Targets
        PROVE  activeOf'[t] = Cardinality(For(K, t)) /\ activeOf'[t] <= PerTarget
    BY <1>2, <1>3, <2>2, <2>3, <2>4 DEF OneMore
  <2>7. \A t \in Targets : activeOf'[t] = Cardinality(For(K, t)) + 0
    BY <1>2, <2>2, <2>6
  <2> QED
    <3>1. active' = Cardinality(Hands') + (IF sched'.pc \in SlotPcs THEN 1 ELSE 0)
      BY <1>1, <2>2, <2>3, <2>5
    <3>2. \A t \in Targets :
            /\ activeOf'[t] = Cardinality(For(Hands', t))
                                + (IF sched'.pc \in SlotPcs /\ sched'.target = t THEN 1 ELSE 0)
            /\ activeOf'[t] <= PerTarget
      BY <2>2, <2>3, <2>6, <2>7
    <3> QED
      BY <1>4, <2>3, <2>5, <3>1, <3>2
<1>10. CASE SlotFreed
  <2>1. PICK f \in Hands : Hands' = Hands \ {f} /\ Release(TargetOf[f.batch]) /\ sched' = sched
    BY <1>10 DEF SlotFreed
  <2>2. PICK H : H = Hands \ {f}
    OBVIOUS
  <2>3. Hands = H \cup {f} /\ Hands' = H
    BY <2>1, <2>2
  <2>4. PICK r \in Targets : r = TargetOf[f.batch]
    <3>1. f \in Flight
      BY AttemptsStay
    <3> QED
      BY <3>1, FlightTarget
  <2>5. active' = active - 1 /\ activeOf' = [activeOf EXCEPT ![r] = IF @ <= 1 THEN 0 ELSE @ - 1]
    BY <2>1, <2>4 DEF Release
  <2>6. Cardinality(Hands) = Cardinality(H) + 1 /\ Cardinality(H) \in Nat
        /\ \A t \in Targets : /\ Cardinality(For(H, t)) \in Nat
                              /\ Cardinality(For(Hands, t)) =
                                   Cardinality(For(H, t)) + (IF r = t THEN 1 ELSE 0)
    <3>1. PICK K : K = Hands
      OBVIOUS
    <3>2. IsFiniteSet(H) /\ f \notin H /\ K = H \cup {f}
      BY <1>1, <2>2, <2>3, <3>1, FS_Subset
    <3>3. OneMore(H, K, f)
      BY <3>2, CountAdds
    <3>4. \A t \in Targets : (IF TargetOf[f.batch] = t THEN 1 ELSE 0) = (IF r = t THEN 1 ELSE 0)
      BY <2>4
    <3>5. Cardinality(K) = Cardinality(H) + 1 /\ Cardinality(H) \in Nat
      BY <3>3 DEF OneMore
    <3>6. \A t \in Targets : /\ Cardinality(For(H, t)) \in Nat
                             /\ Cardinality(For(K, t)) =
                                  Cardinality(For(H, t)) + (IF r = t THEN 1 ELSE 0)
      BY <3>3, <3>4 DEF OneMore
    <3> QED
      BY <3>1, <3>5, <3>6
  <2>7. IsFiniteSet(Hands')
    BY <1>1, <2>1, FS_Subset
  <2>8. active' = Cardinality(Hands') + (IF sched'.pc \in SlotPcs THEN 1 ELSE 0) /\ active' <= MaxInFlight
    <3>1. SchedSlot = IF sched'.pc \in SlotPcs THEN 1 ELSE 0
      BY <2>1 DEF SchedSlot
    <3>2. SchedSlot \in Nat
      BY DEF SchedSlot
    <3>3. PICK n \in Nat : n = Cardinality(H)
      BY <2>6
    <3>4. Cardinality(Hands) = n + 1 /\ Cardinality(Hands') = n
      BY <2>3, <2>6, <3>3
    <3>5. active' = n + SchedSlot /\ active' <= MaxInFlight
      BY <1>1, <2>5, <3>2, <3>4
    <3> QED
      BY <3>1, <3>4, <3>5
  <2>9. ASSUME NEW t \in Targets
        PROVE  /\ activeOf'[t] = Cardinality(For(H, t))
                                   + (IF sched'.pc \in SlotPcs /\ sched'.target = t THEN 1 ELSE 0)
               /\ activeOf'[t] <= PerTarget
    <3>1. PICK n \in Nat : n = (IF sched.pc \in SlotPcs /\ sched.target = t THEN 1 ELSE 0)
      OBVIOUS
    <3>2. n = (IF sched'.pc \in SlotPcs /\ sched'.target = t THEN 1 ELSE 0)
      BY <2>1, <3>1
    <3>3. activeOf[t] = Cardinality(For(Hands, t)) + n /\ activeOf[t] <= PerTarget
      BY <1>3, <3>1
    <3>4. CASE t = r
      <4>1. activeOf[t] = Cardinality(For(H, t)) + 1 + n
        BY <2>6, <3>3, <3>4
      <4>2. activeOf[t] >= 1
        BY <2>6, <4>1
      <4>3. activeOf'[t] = activeOf[t] - 1
        BY <1>1, <1>2, <1>5, <2>5, <3>4, <4>2
      <4> QED
        BY <1>1, <1>2, <2>6, <3>2, <3>3, <4>1, <4>3
    <3>5. CASE t # r
      <4>1. activeOf'[t] = activeOf[t]
        BY <1>1, <2>5, <3>5
      <4>2. Cardinality(For(Hands, t)) = Cardinality(For(H, t))
        BY <2>6, <3>5
      <4> QED
        BY <3>2, <3>3, <4>1, <4>2
    <3> QED
      BY <3>4, <3>5
  <2> QED
    BY <1>4, <2>3, <2>8, <2>9, <2>7
<1> QED
  BY <1>6, <1>7, <1>8, <1>9, <1>10, NextHands

\* A dispatcher that was never started satisfies the invariant.
LEMMA InitInv == Init => IInv
<1> SUFFICES ASSUME Init PROVE IInv
  OBVIOUS
<1>1. PoolOK
  <2>1. queue \in Seq(Flight) /\ activeOf \in [Targets -> Nat]
    BY DEF Init
  <2>2. starts \in 0 .. MaxStarts
    BY Bounds DEF Init
  <2> QED
    BY <2>1, <2>2 DEF Init, PoolOK
<1>2. SchedOK
  BY Bounds DEF Init, SchedOK, SlotPcs
<1>3. CtlOK
  BY Bounds DEF Init, CtlOK
<1>4. RowsOK
  BY Bounds DEF Init, RowsOK
<1>5. ToSet(queue) = {} /\ Sent = {} /\ StopHolds = {} /\ SchedHolds = {} /\ Hands = {} /\ DOMAIN queue = {}
  BY DEF Init, ToSet, Sent, StopHolds, SchedHolds, Hands, QueuedOrSent
<1>6. Apart
  BY <1>5 DEF Init, Apart
<1>7. SlotsOK
  <2>1. IsFiniteSet({}) /\ Cardinality({}) = 0
    BY FS_EmptySet
  <2>2. SchedSlot = 0 /\ sched.pc \notin SlotPcs
    BY DEF Init, SchedSlot, SlotPcs
  <2>3. \A t \in Targets : For(Hands, t) = {}
    BY <1>5 DEF For
  <2>4. \A t \in Targets : SlotsOf(t) = 0
    BY <2>1, <2>2, <2>3, SlotsOfHands
  <2> QED
    BY <1>5, <2>1, <2>2, <2>4, Bounds DEF Init, SlotsOK
<1>8. StopOK /\ SettledOK
  BY DEF Init, StopOK, SettledOK
<1> QED
  BY <1>1, <1>2, <1>3, <1>4, <1>6, <1>7, <1>8 DEF IInv

\* Every step keeps the invariant.
LEMMA NextInv == IInv /\ [Next]_vars => IInv'
<1>1. IInv /\ Next => IInv'
  BY NextKeepsRows, CallerKeepsType, NextKeepsStop, NextKeepsSched, NextKeepsPool, NextHands,
     NextKeepsSlots DEF IInv
<1>2. ASSUME IInv, UNCHANGED vars PROVE IInv'
  <2>1. /\ UNCHANGED <<stopped, sched, active, activeOf, queue, idle, work, row, starts, ctl, due>>
        /\ IInv
    BY <1>2 DEF vars
  <2>2. PoolOK' /\ SchedOK' /\ CtlOK' /\ RowsOK' /\ StopOK' /\ SettledOK'
    BY <2>1 DEF IInv, PoolOK, SchedOK, CtlOK, RowsOK, StopOK, SettledOK
  <2>3. Sent' = Sent /\ QueuedOrSent' = QueuedOrSent /\ StopHolds' = StopHolds /\ SchedHolds' = SchedHolds
        /\ Hands' = Hands /\ SchedSlot' = SchedSlot
    BY <2>1 DEF Sent, QueuedOrSent, StopHolds, SchedHolds, Hands, SchedSlot
  <2>4. Apart'
    BY <2>1, <2>3 DEF IInv, Apart
  <2>5. \A t : SlotsOf(t)' = SlotsOf(t)
    BY <2>1, <2>3, SlotsOfHands
  <2>6. SlotsOK'
    BY <2>1, <2>3, <2>5 DEF IInv, SlotsOK
  <2> QED
    BY <2>2, <2>4, <2>6 DEF IInv
<1> QED
  BY <1>1, <1>2

\* The flights, slots, rows and threads of a dispatcher agree in every reachable
\* state, across any number of starts and stops.
THEOREM DispatcherInvariant == Spec => []IInv
<1>1. Init => IInv
  BY InitInv
<1>2. IInv /\ [Next]_vars => IInv'
  BY NextInv
<1> QED
  BY <1>1, <1>2, PTL DEF Spec

-----------------------------------------------------------------------------
(* What follows for the runs' properties *)

\* Counters, queue, threads and rows keep their types; the slot counters never go
\* below zero.
THEOREM TypeCorrect == Spec => []TypeOK
<1>1. IInv => TypeOK
  BY DEF IInv, TypeOK, PoolOK, SchedOK, CtlOK, RowsOK, SlotPcs
<1> QED
  BY <1>1, DispatcherInvariant, PTL

\* max_in_flight and per_target_in_flight bound what is in flight, no slot leaks
\* or is given back twice, and put_nowait never finds the queue full.
THEOREM SlotsAreFlights == Spec => []InFlightBounded
<1>1. ASSUME IInv PROVE InFlightBounded
  <2>1. /\ IsFiniteSet(Hands) /\ Cardinality(Hands) \in Nat
        /\ active = Cardinality(Hands) + SchedSlot /\ active <= MaxInFlight
        /\ SchedSlot \in {0, 1} /\ MaxInFlight \in Nat
    BY <1>1, FS_CardinalityType, Bounds DEF IInv, SlotsOK, SchedSlot
  <2>2. \A t \in Targets : activeOf[t] = SlotsOf(t) /\ SlotsOf(t) <= PerTarget
    BY <1>1 DEF IInv, SlotsOK
  <2>3. Cardinality(QueuedOrSent) <= MaxInFlight
    <3>1. QueuedOrSent \subseteq Hands
      BY DEF Hands
    <3>2. Cardinality(QueuedOrSent) \in Nat /\ Cardinality(QueuedOrSent) <= Cardinality(Hands)
      BY <2>1, <3>1, FS_Subset, FS_CardinalityType
    <3> QED
      BY <2>1, <3>2
  <2>4. sched.pc = "put" => Len(queue) < MaxInFlight
    <3>1. ToSet(queue) \subseteq Hands
      BY DEF Hands, QueuedOrSent
    <3>2. IsFiniteSet(ToSet(queue)) /\ Cardinality(ToSet(queue)) \in Nat
          /\ Cardinality(ToSet(queue)) <= Cardinality(Hands)
      BY <2>1, <3>1, FS_Subset, FS_CardinalityType
    <3>3. Len(queue) \in Nat /\ DOMAIN queue = 1 .. Len(queue) /\ queue \in Seq(Flight)
      BY <1>1 DEF IInv, PoolOK
    <3>4. Cardinality(1 .. Len(queue)) = Len(queue) /\ IsFiniteSet(1 .. Len(queue))
      BY <3>3, FS_Interval
    <3>5. Cardinality(1 .. Len(queue)) <= Cardinality(ToSet(queue))
      <4>1. \A i \in 1 .. Len(queue) : queue[i] \in ToSet(queue)
        BY <3>3 DEF ToSet
      <4>2. PICK q : q = [i \in 1 .. Len(queue) |-> queue[i]]
        OBVIOUS
      <4>3. q \in Injection(1 .. Len(queue), ToSet(queue))
        BY <1>1, <3>3, <4>1, <4>2 DEF Injection, IsInjective, IInv, Apart
      <4> QED
        BY <3>2, <3>4, <4>3, FS_Injection DEF ExistsInjection
    <3>6. sched.pc = "put" => SchedSlot = 1
      BY DEF SchedSlot, SlotPcs
    <3> QED
      BY <2>1, <3>2, <3>3, <3>4, <3>5, <3>6
  <2> QED
    BY <2>2, <2>3, <2>4 DEF InFlightBounded
<1> QED
  BY <1>1, DispatcherInvariant, PTL

\* A dispatcher that stop has returned from has an empty queue until the next start.
THEOREM StopEmptiesQueue == Spec => []NothingQueuedAfterStop
<1>1. IInv => NothingQueuedAfterStop
  BY DEF IInv, StopOK, NothingQueuedAfterStop
<1> QED
  BY <1>1, DispatcherInvariant, PTL

\* A stop that reports drained left nothing open of what was written before it,
\* and nothing in flight.
THEOREM DrainedIsReal == Spec => []DrainedIsTrue
<1>1. ASSUME IInv, ctl.op = "stop", ctl.pc = "idle", ctl.drained
      PROVE  (\A b \in due : row[b].state = "done") /\ QueuedOrSent = {} /\ active = 0
  <2>1. active = 0 /\ \A b \in due : row[b].state = "done"
    BY <1>1 DEF IInv, SettledOK
  <2>2. \A f \in Hands : FALSE
    BY <1>1, <2>1, HandsCounted DEF IInv
  <2> QED
    BY <2>1, <2>2 DEF Hands
<1>2. IInv => DrainedIsTrue
  BY <1>1 DEF DrainedIsTrue
<1> QED
  BY <1>2, DispatcherInvariant, PTL

================================================================================
