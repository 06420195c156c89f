----------------------- MODULE ConnectionPool_proofs -----------------------
(***************************************************************************)
(* Theorems about ConnectionPool, for any number of threads, connections,  *)
(* failed driver calls and late requests.                                  *)
(*                                                                         *)
(* The argument: the state of a record follows from the place of its       *)
(* thread, so each counter changes with the records it counts.  A          *)
(* connection that is out belongs to a lease that has not returned it, so  *)
(* one that is handed out anew can only be in a lease that waits to be     *)
(* cleared: two leases share it until then, and the sets, from which the   *)
(* clearing takes it, are never more than the leases they stand for.       *)
(***************************************************************************)
EXTENDS ConnectionPool, FiniteSetTheorems, SequenceTheorems, TLAPS

\* Where a thread is in its own program: a callback returns there.
Pos(a) == IF at[a].pc \in InCallback THEN at[a].then ELSE at[a].pc

\* The connections of the leases that have not returned them.
Unreturned == ConnsOf({b \in Borrowers : Pos(b) # "clear"})

\* The types of a thread's place, of the pool, of a record and of the resources.
Threads == [Actors -> [pc : PC, then : PC \ InCallback, wait : BOOLEAN]]
Flags == [requested : BOOLEAN, closed : BOOLEAN, closing : BOOLEAN, error : BOOLEAN, fault : BOOLEAN]

LeaseTypes ==
  [state : {"none", "QUEUED", "RESERVED", "CHECKED_OUT", "PUBLISHED", "RETURNING"},
   conn : Conns \cup {None}, prior : {"none", "CHECKED_OUT", "PUBLISHED"}]
ResTypes ==
  [state : {"NEW", "INITIALIZING", "READY", "CLOSING", "CLOSED", "FAULTED"}, closing : BOOLEAN]

\* The record of a lease at each point of its program.
LeaseAt(b) ==
  LET s == lease[b].state
      c == lease[b].conn
      p == Pos(b)
  IN  \/ p \in {"idle", "finalize"} /\ s = "none" /\ c = None
      \/ p \in {"reserve", "release"} /\ s = "QUEUED" /\ c = None
      \/ p \in {"get", "release"} /\ s = "RESERVED" /\ c = None
      \/ p \in {"verify", "register"} /\ s = "RESERVED" /\ c # None
      \/ p = "release" /\ s = "RESERVED" /\ c # None /\ Shut
      \/ p \in {"bind", "refinalize", "release"} /\ s = "CHECKED_OUT" /\ c # None
      \/ p \in {"use", "refinalize", "release"} /\ s = "PUBLISHED" /\ c # None
      \/ /\ p \in {"rollback", "put", "restore", "clear"} /\ s = "RETURNING" /\ c # None
         /\ lease[b].prior # "none"

RecordsOK == \A b \in Borrowers : LeaseAt(b)

\* The sets name connections of leases past their reservation.
Leased(c) ==
  \E b \in Borrowers :
    lease[b].state \in {"CHECKED_OUT", "PUBLISHED", "RETURNING"} /\ lease[b].conn = c
SetsOK == \A c \in checked \cup business : Leased(c)

\* No two leases have the same connection, unless one is about to be cleared.
Distinct ==
  \A b, d \in Borrowers : b # d /\ lease[b].conn # None /\ lease[b].conn = lease[d].conn
    => at[b].pc = "clear" \/ at[d].pc = "clear"

\* What the driver has handed out is in a lease that will return it, unless a return
\* failed, and what is leased is out until it is returned.
DriverOK ==
  /\ driver.out \subseteq Unreturned \/ pool.fault
  /\ driver.open => \A b \in Borrowers :
       lease[b].conn # None => lease[b].conn \in driver.out \/ at[b].pc = "clear"

\* The queue holds the leases that wait, each once.
QueueOK ==
  /\ ToSet(queue) = With({"QUEUED"})
  /\ \A i, j \in DOMAIN queue : queue[i] = queue[j] => i = j
  /\ Len(queue) = Cardinality(With({"QUEUED"}))

\* _waiting_borrowers counts the reservations.
Counted == waiting = Cardinality(With({"RESERVED"}))

IInv ==
  /\ TypeOK /\ RecordsOK /\ QueueOK /\ Counted /\ SetsOK /\ Distinct /\ DriverOK
  /\ ClosedUnreserved
-----------------------------------------------------------------------------

\* A lease whose record and thread stand still is where it was.
LEMMA LeaseStays ==
  ASSUME NEW b \in Borrowers, LeaseAt(b), lease'[b] = lease[b], at'[b] = at[b], Shut => Shut'
  PROVE  LeaseAt(b)'
BY DEF LeaseAt, Pos, InCallback

\* A step that moves threads, faults the pool, closes it when it is idle or shuts the
\* driver keeps the invariant if the leases stay where their threads are.
LEMMA QuietStep ==
  ASSUME IInv, TypeOK', UNCHANGED leaseVars,
         driver'.out = driver.out, driver'.open => driver.open,
         pool.fault => pool'.fault, Shut => Shut',
         pool'.closed => pool.closed \/ ~Busy,
         \A b \in Borrowers : LeaseAt(b)',
         \A b \in Borrowers : at[b].pc = "clear" => at'[b].pc = "clear",
         \A b \in Borrowers : Pos(b)' = "clear" => Pos(b) = "clear"
  PROVE  IInv'
<1> USE DEF leaseVars
<1>1. With({"RESERVED"})' = With({"RESERVED"}) /\ With({"QUEUED"})' = With({"QUEUED"})
      /\ Unreturned \subseteq Unreturned'
  BY DEF With, Unreturned, ConnsOf
<1>2. RecordsOK'
  BY DEF RecordsOK
<1>3. QueueOK'
  BY <1>1 DEF IInv, QueueOK
<1>4. Counted'
  BY <1>1 DEF IInv, Counted
<1>5. SetsOK'
  BY DEF IInv, SetsOK, Leased
<1>6. Distinct'
  BY DEF IInv, Distinct
<1>7. DriverOK'
  BY <1>1 DEF IInv, DriverOK
<1>8. ClosedUnreserved'
  <2> SUFFICES ASSUME pool'.closed
               PROVE  With({"RESERVED"}) = {} /\ checked = {} /\ waiting = 0
    BY <1>1 DEF ClosedUnreserved
  <2>1. CASE pool.closed
    BY <2>1 DEF IInv, ClosedUnreserved
  <2>2. CASE ~Busy
    <3>1. checked = {} /\ waiting = 0
      BY <2>2 DEF Busy
    <3>2. IsFiniteSet(With({"RESERVED"}))
      BY FS_Subset, ConnectionPoolAssumptions DEF With
    <3> QED BY <3>1, <3>2, FS_EmptySet DEF IInv, Counted
  <2> QED BY <2>1, <2>2
<1> QED BY <1>2, <1>3, <1>4, <1>5, <1>6, <1>7, <1>8 DEF IInv
-----------------------------------------------------------------------------
(* Steps that leave the leases alone *)

\* Nothing is leased at first.
LEMMA InitIInv == Init => IInv
<1> SUFFICES ASSUME Init PROVE IInv
  OBVIOUS
<1> USE ConnectionPoolAssumptions
<1>1. TypeOK
  <2>1. lease \in [Borrowers -> [state : {"none", "QUEUED", "RESERVED", "CHECKED_OUT",
                                        "PUBLISHED", "RETURNING"},
                               conn : Conns \cup {None},
                               prior : {"none", "CHECKED_OUT", "PUBLISHED"}]]
    BY DEF Init, NoLease
  <2>2. at \in [Actors -> [pc : PC, then : PC \ InCallback, wait : BOOLEAN]]
    BY DEF Init, Idle, PC, InBorrow, InClose, InCallback
  <2> QED BY <2>1, <2>2 DEF Init, TypeOK
<1>2. \A b \in Borrowers : lease[b] = NoLease /\ at[b] = Idle
  BY DEF Init, Actors
<1>3. RecordsOK
  BY <1>2 DEF RecordsOK, LeaseAt, Pos, InCallback, NoLease, Idle
<1>4. With({"RESERVED"}) = {} /\ With({"QUEUED"}) = {}
  BY <1>2 DEF With, NoLease
<1>5. QueueOK
  <2>1. queue = <<>> /\ DOMAIN queue = {} /\ Len(queue) = 0
    BY DEF Init
  <2> QED BY <1>4, <2>1, FS_EmptySet DEF QueueOK, ToSet
<1>6. Counted
  BY <1>4, FS_EmptySet DEF Counted, Init
<1>7. SetsOK /\ Distinct /\ DriverOK /\ ClosedUnreserved
  BY <1>2, <1>4 DEF SetsOK, Distinct, DriverOK, ClosedUnreserved, NoLease, Init
<1> QED BY <1>1, <1>3, <1>5, <1>6, <1>7 DEF IInv

\* One thread moves, and its lease is where it should be.
LEMMA ThreadStep ==
  ASSUME IInv, TypeOK', UNCHANGED leaseVars, NEW a \in Actors,
         driver'.out = driver.out, driver'.open => driver.open,
         pool.fault => pool'.fault, Shut => Shut',
         pool'.closed => pool.closed \/ ~Busy,
         \A x \in Actors : x # a => at'[x] = at[x],
         at[a].pc # "clear",
         a \in Borrowers => LeaseAt(a)' /\ (Pos(a)' = "clear" => Pos(a) = "clear")
  PROVE  IInv'
<1>1. \A b \in Borrowers : LeaseAt(b)'
  BY LeaseStays DEF IInv, RecordsOK, Actors, leaseVars
<1>2. \A b \in Borrowers : at[b].pc = "clear" => at'[b].pc = "clear"
  BY DEF Actors
<1>3. \A b \in Borrowers : Pos(b)' = "clear" => Pos(b) = "clear"
  BY DEF Actors, Pos
<1> QED BY <1>1, <1>2, <1>3, QuietStep

\* ensure_ready touches the resources only.
LEMMA InitializingInv ==
  ASSUME IInv, EnsureReady \/ Initializing PROVE IInv'
<1> USE DEF leaseVars
<1>1. UNCHANGED <<leaseVars, pool, driver, at, asleep, late>>
  BY DEF EnsureReady, Initializing, InitRuns, InitPublishes, InitFails
<1>2. TypeOK'
  <2>1. init' \in {"none", "migrate", "publish", "failed", "done", "dead"}
    BY DEF EnsureReady, Initializing, InitRuns, InitPublishes, InitFails
  <2>2. faults' \in 0 .. MaxFaults
    BY ConnectionPoolAssumptions DEF IInv, TypeOK, EnsureReady, Initializing, InitRuns, InitPublishes, InitFails, MayFail
  <2>3. res' \in ResTypes
    BY DEF IInv, TypeOK, ResTypes, EnsureReady, Initializing, InitRuns, InitPublishes, InitFails
  <2> QED BY <1>1, <2>1, <2>2, <2>3 DEF IInv, TypeOK, ResTypes
<1>3. Shut => Shut'
  BY <1>1 DEF Shut
<1>4. \A b \in Borrowers : LeaseAt(b)'
  BY <1>1, <1>3, LeaseStays DEF IInv, RecordsOK
<1>5. \A b \in Borrowers : Pos(b)' = Pos(b)
  BY <1>1 DEF Pos
<1> QED BY <1>1, <1>2, <1>3, <1>4, <1>5, QuietStep

\* A thread that goes on at p: its place, and nobody else's, is another.
LEMMA GoesStep ==
  ASSUME TypeOK, NEW a \in Actors, NEW p \in PC, Goes(a, p)
  PROVE  /\ at' \in Threads
         /\ at'[a].pc = p /\ at'[a].then = at[a].then /\ at'[a].wait = at[a].wait
         /\ \A x \in Actors : x # a => at'[x] = at[x]
BY DEF TypeOK, Goes, Threads

\* A thread that goes on at p, and later at q.
LEMMA DetourStep ==
  ASSUME TypeOK, NEW a \in Actors, NEW p \in PC, NEW q \in PC \ InCallback,
         at' = [at EXCEPT ![a].pc = p, ![a].then = q]
  PROVE  /\ at' \in Threads /\ at'[a].pc = p /\ at'[a].then = q
         /\ \A x \in Actors : x # a => at'[x] = at[x]
BY DEF TypeOK, Threads

\* A thread that starts on something else.
LEMMA StartsStep ==
  ASSUME TypeOK, NEW a \in Actors, NEW p \in PC, NEW q \in PC \ InCallback, NEW w \in BOOLEAN,
         at' = [at EXCEPT ![a] = [pc |-> p, then |-> q, wait |-> w]]
  PROVE  /\ at' \in Threads /\ \A x \in Actors : x # a => at'[x] = at[x]
BY DEF TypeOK, Threads

\* A driver call that fails: the thread is at p, or will be after the callback.
LEMMA FailsStep ==
  ASSUME TypeOK, NEW a \in Actors, NEW p \in PC \ InCallback, Fails(a, p)
  PROVE  /\ at' \in Threads /\ Pos(a)' = p
         /\ \A x \in Actors : x # a => at'[x] = at[x]
         /\ pool' \in Flags /\ pool'.fault /\ (Shut => Shut')
         /\ pool'.closed = pool.closed /\ pool'.requested = pool.requested
         /\ asleep' = {}
<1>1. at' \in Threads /\ Pos(a)' = p
  <2> DEFINE q == IF pool.fault THEN p ELSE "onfault"
  <2>1. q \in PC
    BY DEF PC, InBorrow, InClose, InCallback
  <2>2. at' = [at EXCEPT ![a].pc = q, ![a].then = p]
    BY DEF Fails
  <2> HIDE DEF q
  <2>3. at' \in Threads /\ at'[a].pc = q /\ at'[a].then = p
    BY <2>1, <2>2, DetourStep
  <2> QED BY <2>3 DEF q, Pos, InCallback
<1>2. \A x \in Actors : x # a => at'[x] = at[x]
  BY DEF TypeOK, Fails
<1>3. pool' \in Flags /\ pool'.fault /\ pool'.closed = pool.closed
      /\ pool'.requested = pool.requested
  BY DEF TypeOK, Fails, Flags
<1> QED BY <1>1, <1>2, <1>3 DEF Fails, Shut, NotifyAll

\* The states in which a callback leaves the resources.
LEMMA ResTyped ==
  /\ [state |-> "FAULTED", closing |-> FALSE] \in ResTypes
  /\ [state |-> "CLOSED", closing |-> FALSE] \in ResTypes
  /\ TypeOK => res \in ResTypes
BY DEF ResTypes, TypeOK

\* MayFail stays in its bound.
LEMMA MayFailStep == ASSUME TypeOK, MayFail PROVE faults' \in 0 .. MaxFaults
BY ConnectionPoolAssumptions DEF TypeOK, MayFail

\* A lease whose record stands still, and whose thread is where it may be with it.
LEMMA LeaseMoves ==
  ASSUME NEW b \in Borrowers, LeaseAt(b), lease'[b] = lease[b], NEW p, Pos(b)' = p,
         Shut => Shut',
         \/ p = Pos(b)
         \/ Pos(b) = "verify" /\ p = "register"
         \/ Pos(b) \in {"verify", "register"} /\ p = "release" /\ Shut'
         \/ Pos(b) = "get" /\ p = "release"
         \/ Pos(b) \in {"bind", "use", "refinalize"} /\ p = "release"
         \/ Pos(b) \in {"rollback", "put", "restore"} /\ p \in {"put", "restore", "clear"}
         \/ Pos(b) = "finalize" /\ p = "idle"
  PROVE  LeaseAt(b)'
BY DEF LeaseAt

\* The check of a connection passes, or faults the pool.
LEMMA VerifyInv == ASSUME IInv, NEW b \in Borrowers, Verify(b) PROVE IInv'
<1> USE DEF leaseVars
<1>1. TypeOK /\ b \in Actors /\ Pos(b) = "verify" /\ LeaseAt(b) /\ at[b].pc # "clear"
  BY DEF IInv, RecordsOK, Actors, Verify, Pos, InCallback
<1>2. CASE Goes(b, "register") /\ UNCHANGED <<pool, asleep, faults>>
  <2>1. /\ at' \in Threads /\ Pos(b)' = "register"
        /\ \A x \in Actors : x # b => at'[x] = at[x]
    BY <1>1, <1>2, GoesStep DEF PC, InBorrow, InClose, Pos, InCallback
  <2>2. TypeOK'
    BY <1>1, <1>2, <2>1 DEF TypeOK, Threads, Verify
  <2>3. LeaseAt(b)'
    BY <1>1, <1>2, <2>1, LeaseMoves DEF Verify, Shut
  <2> QED BY <1>1, <1>2, <2>1, <2>2, <2>3, ThreadStep DEF Verify, Shut
<1>3. CASE MayFail /\ \E p \in {"release"} : Fails(b, p)
  <2> PICK p \in {"release"} : Fails(b, p)
    BY <1>3
  <2>1. /\ at' \in Threads /\ Pos(b)' = p
        /\ \A x \in Actors : x # b => at'[x] = at[x]
        /\ pool' \in Flags /\ pool'.fault /\ (Shut => Shut') /\ pool'.closed = pool.closed
        /\ asleep' = {}
    BY <1>1, FailsStep DEF PC, InBorrow, InClose, InCallback
  <2>2. TypeOK'
    BY <1>1, <1>3, <2>1, MayFailStep DEF TypeOK, Threads, Flags, Verify
  <2>3. LeaseAt(b)'
    BY <1>1, <2>1, LeaseMoves DEF Verify, Shut
  <2> QED BY <1>1, <2>1, <2>2, <2>3, ThreadStep DEF Verify, Shut
<1> QED BY <1>2, <1>3 DEF Verify

\* A commit or a rollback returns, or faults the pool.
LEMMA UseEndsInv == ASSUME IInv, NEW b \in Borrowers, UseEnds(b) PROVE IInv'
<1> USE DEF leaseVars
<1>1. TypeOK /\ b \in Actors /\ Pos(b) = "use" /\ LeaseAt(b) /\ at[b].pc # "clear"
  BY DEF IInv, RecordsOK, Actors, UseEnds, Pos, InCallback
<1>2. CASE Goes(b, "release") /\ UNCHANGED <<pool, asleep, faults>>
  <2>1. /\ at' \in Threads /\ Pos(b)' = "release"
        /\ \A x \in Actors : x # b => at'[x] = at[x]
    BY <1>1, <1>2, GoesStep DEF PC, InBorrow, InClose, Pos, InCallback
  <2>2. TypeOK'
    BY <1>1, <1>2, <2>1 DEF TypeOK, Threads, UseEnds
  <2>3. LeaseAt(b)'
    BY <1>1, <1>2, <2>1, LeaseMoves DEF UseEnds, Shut
  <2> QED BY <1>1, <1>2, <2>1, <2>2, <2>3, ThreadStep DEF UseEnds, Shut
<1>3. CASE MayFail /\ \E p \in {"release"} : Fails(b, p)
  <2> PICK p \in {"release"} : Fails(b, p)
    BY <1>3
  <2>1. /\ at' \in Threads /\ Pos(b)' = p
        /\ \A x \in Actors : x # b => at'[x] = at[x]
        /\ pool' \in Flags /\ pool'.fault /\ (Shut => Shut') /\ pool'.closed = pool.closed
        /\ asleep' = {}
    BY <1>1, FailsStep DEF PC, InBorrow, InClose, InCallback
  <2>2. TypeOK'
    BY <1>1, <1>3, <2>1, MayFailStep DEF TypeOK, Threads, Flags, UseEnds
  <2>3. LeaseAt(b)'
    BY <1>1, <2>1, LeaseMoves DEF UseEnds, Shut
  <2> QED BY <1>1, <2>1, <2>2, <2>3, ThreadStep DEF UseEnds, Shut
<1> QED BY <1>2, <1>3 DEF UseEnds

\* The rollback before a return does, too.
LEMMA RollbackInv == ASSUME IInv, NEW b \in Borrowers, Rollback(b) PROVE IInv'
<1> USE DEF leaseVars
<1>1. TypeOK /\ b \in Actors /\ Pos(b) = "rollback" /\ LeaseAt(b) /\ at[b].pc # "clear"
  BY DEF IInv, RecordsOK, Actors, Rollback, Pos, InCallback
<1>2. CASE Goes(b, "put") /\ UNCHANGED <<pool, asleep, faults>>
  <2>1. /\ at' \in Threads /\ Pos(b)' = "put"
        /\ \A x \in Actors : x # b => at'[x] = at[x]
    BY <1>1, <1>2, GoesStep DEF PC, InBorrow, InClose, Pos, InCallback
  <2>2. TypeOK'
    BY <1>1, <1>2, <2>1 DEF TypeOK, Threads, Rollback
  <2>3. LeaseAt(b)'
    BY <1>1, <1>2, <2>1, LeaseMoves DEF Rollback, Shut
  <2> QED BY <1>1, <1>2, <2>1, <2>2, <2>3, ThreadStep DEF Rollback, Shut
<1>3. CASE MayFail /\ \E p \in {"put", "restore"} : Fails(b, p)
  <2> PICK p \in {"put", "restore"} : Fails(b, p)
    BY <1>3
  <2>1. /\ at' \in Threads /\ Pos(b)' = p
        /\ \A x \in Actors : x # b => at'[x] = at[x]
        /\ pool' \in Flags /\ pool'.fault /\ (Shut => Shut') /\ pool'.closed = pool.closed
        /\ asleep' = {}
    BY <1>1, FailsStep DEF PC, InBorrow, InClose, InCallback
  <2>2. TypeOK'
    BY <1>1, <1>3, <2>1, MayFailStep DEF TypeOK, Threads, Flags, Rollback
  <2>3. LeaseAt(b)'
    BY <1>1, <2>1, LeaseMoves DEF Rollback, Shut
  <2> QED BY <1>1, <2>1, <2>2, <2>3, ThreadStep DEF Rollback, Shut
<1> QED BY <1>2, <1>3 DEF Rollback

\* A step of a callback, at a place it has in every thread.
LEMMA CallbackStep ==
  ASSUME TypeOK, RecordsOK, NEW a \in Actors, UNCHANGED lease, Pos(a)' = Pos(a),
         Shut => Shut'
  PROVE  a \in Borrowers => LeaseAt(a)'
BY LeaseMoves DEF RecordsOK

\* The physical close and the callbacks move threads, the pool and the resources.
LEMMA CallbacksInv == ASSUME IInv, NEW a \in Actors, Callbacks(a) PROVE IInv'
<1> USE DEF leaseVars
<1>1. TypeOK /\ RecordsOK /\ Pos(a) = at[a].then /\ at[a].then \in PC \ InCallback
      /\ at[a].pc \in InCallback /\ at[a].pc # "clear"
  BY DEF IInv, TypeOK, Callbacks, CloseAll, Told, OnPoolClosed, OnPoolFault, AskClose, Pos,
         InCallback
<1>2. CASE CloseAll(a)
  <2>1. PICK p \in {"told", "failed"} : Goes(a, p)
    BY <1>2 DEF CloseAll
  <2>2. /\ at' \in Threads /\ Pos(a)' = Pos(a)
        /\ \A x \in Actors : x # a => at'[x] = at[x]
    BY <1>1, <2>1, GoesStep DEF PC, InBorrow, InClose, Pos, InCallback
  <2>3. /\ pool' \in Flags /\ pool'.closed = pool.closed /\ (pool.fault => pool'.fault)
        /\ (Shut => Shut')
        /\ driver'.out = driver.out /\ (driver'.open => driver.open)
        /\ driver' \in [open : BOOLEAN, out : SUBSET Conns]
    BY <1>1, <1>2 DEF CloseAll, TypeOK, Flags, Shut
  <2>4. faults' \in 0 .. MaxFaults /\ asleep' \subseteq Actors
    BY <1>1, <1>2, MayFailStep DEF CloseAll, NotifyAll, TypeOK
  <2>5. TypeOK'
    BY <1>1, <1>2, <2>2, <2>3, <2>4 DEF TypeOK, Threads, Flags, CloseAll
  <2> QED BY <1>1, <1>2, <2>2, <2>3, <2>5, CallbackStep, ThreadStep DEF CloseAll
<1>3. CASE Told(a)
  <2>2. /\ at' \in Threads /\ Pos(a)' = Pos(a)
        /\ \A x \in Actors : x # a => at'[x] = at[x]
    BY <1>1, <1>3, GoesStep DEF PC, InBorrow, InClose, Pos, InCallback, Told
  <2>5. TypeOK' /\ pool'.closed = pool.closed /\ (pool.fault => pool'.fault) /\ (Shut => Shut')
    BY <1>1, <1>3, <2>2 DEF TypeOK, Threads, Flags, Told, NotifyAll, Shut
  <2> QED BY <1>1, <1>3, <2>2, <2>5, CallbackStep, ThreadStep DEF Told
<1>4. CASE OnPoolClosed(a)
  <2>2. /\ at' \in Threads /\ Pos(a)' = Pos(a)
        /\ \A x \in Actors : x # a => at'[x] = at[x]
    BY <1>1, <1>4, GoesStep DEF PC, InBorrow, InClose, Pos, InCallback, OnPoolClosed
  <2>3. res' \in ResTypes
    <3>1. res' \in {res, [state |-> "FAULTED", closing |-> FALSE],
                    [state |-> "CLOSED", closing |-> FALSE]}
      BY <1>4 DEF OnPoolClosed
    <3> QED BY <1>1, <3>1, ResTyped
  <2>5. TypeOK'
    BY <1>1, <1>4, <2>2, <2>3 DEF TypeOK, Threads, ResTypes, OnPoolClosed
  <2> QED BY <1>1, <1>4, <2>2, <2>5, CallbackStep, ThreadStep DEF OnPoolClosed, Shut
<1>5. CASE OnPoolFault(a)
  <2>1. PICK p \in {"told", at[a].then, "askfailed", "ask"} : Goes(a, p)
    BY <1>5 DEF OnPoolFault
  <2>2. /\ at' \in Threads /\ Pos(a)' = Pos(a)
        /\ \A x \in Actors : x # a => at'[x] = at[x]
    BY <1>1, <2>1, GoesStep DEF PC, InBorrow, InClose, Pos, InCallback
  <2>3. res' \in ResTypes
    <3>1. res' \in {res, [state |-> "FAULTED", closing |-> FALSE]}
      BY <1>5 DEF OnPoolFault
    <3> QED BY <1>1, <3>1, ResTyped
  <2>5. TypeOK'
    BY <1>1, <1>5, <2>2, <2>3 DEF TypeOK, Threads, ResTypes, OnPoolFault
  <2> QED BY <1>1, <1>5, <2>2, <2>5, CallbackStep, ThreadStep DEF OnPoolFault, Shut
<1>6. CASE AskClose(a)
  <2>1. at' = at \/ \E p \in {"told", at[a].then, "closeall"} : Goes(a, p)
    BY <1>6 DEF AskClose, Goes
  <2>2. /\ at' \in Threads /\ Pos(a)' = Pos(a)
        /\ \A x \in Actors : x # a => at'[x] = at[x]
    <3>1. CASE at' = at
      BY <1>1, <3>1 DEF TypeOK, Threads, Pos
    <3>2. ASSUME NEW p \in {"told", at[a].then, "closeall"}, Goes(a, p)
          PROVE /\ at' \in Threads /\ Pos(a)' = Pos(a)
                /\ \A x \in Actors : x # a => at'[x] = at[x]
      BY <1>1, <3>2, GoesStep DEF PC, InBorrow, InClose, Pos, InCallback
    <3> QED BY <2>1, <3>1, <3>2
  <2>3. /\ pool' \in Flags /\ (pool.fault => pool'.fault) /\ (Shut => Shut')
        /\ (pool'.closed => pool.closed \/ ~Busy)
    BY <1>1, <1>6 DEF AskClose, TypeOK, Flags, Shut
  <2>4. asleep' \subseteq Actors
    BY <1>1, <1>6 DEF AskClose, NotifyAll, Sleeps, TypeOK
  <2>5. TypeOK'
    BY <1>1, <1>6, <2>2, <2>3, <2>4 DEF TypeOK, Threads, Flags, AskClose
  <2> QED BY <1>1, <1>6, <2>2, <2>3, <2>5, CallbackStep, ThreadStep DEF AskClose
<1> QED BY <1>2, <1>3, <1>4, <1>5, <1>6 DEF Callbacks

\* A thread that looks for the physical close to do.
LEMMA FinalizesStep ==
  ASSUME TypeOK, NEW a \in Actors, NEW p \in PC \ InCallback, Finalizes(a, p)
  PROVE  /\ at' \in Threads /\ Pos(a)' = p
         /\ \A x \in Actors : x # a => at'[x] = at[x]
         /\ pool' \in Flags /\ (pool.fault => pool'.fault) /\ (Shut => Shut')
         /\ (pool'.closed => pool.closed \/ ~Busy)
<1>1. CASE CanFinalize
  <2>1. at' = [at EXCEPT ![a].pc = "closeall", ![a].then = p]
        /\ pool' = [pool EXCEPT !.closed = TRUE, !.closing = TRUE]
    BY <1>1 DEF Finalizes
  <2>2. at' \in Threads /\ at'[a].pc = "closeall" /\ at'[a].then = p
        /\ \A x \in Actors : x # a => at'[x] = at[x]
    <3>1. "closeall" \in PC
      BY DEF PC, InBorrow, InClose, InCallback
    <3> QED BY <2>1, <3>1, DetourStep
  <2>3. pool' \in Flags /\ (pool.fault => pool'.fault) /\ (Shut => Shut')
    BY <2>1 DEF TypeOK, Flags, Shut
  <2> QED BY <1>1, <2>2, <2>3 DEF CanFinalize, Pos, InCallback
<1>2. CASE ~CanFinalize
  <2>1. Goes(a, p) /\ UNCHANGED pool
    BY <1>2 DEF Finalizes
  <2> QED BY <2>1, GoesStep DEF Pos, TypeOK, Flags, Shut
<1> QED BY <1>1, <1>2

\* After a return, the physical close is taken when nothing is leased.
LEMMA FinalizeIfIdleInv == ASSUME IInv, NEW b \in Borrowers, FinalizeIfIdle(b) PROVE IInv'
<1> USE DEF leaseVars
<1> DEFINE p == IF at[b].pc = "finalize" THEN "idle" ELSE "release"
<1>1. TypeOK /\ b \in Actors /\ Pos(b) = at[b].pc /\ LeaseAt(b) /\ at[b].pc # "clear"
      /\ at[b].pc \in {"finalize", "refinalize"} /\ p \in PC \ InCallback
  BY DEF IInv, RecordsOK, Actors, FinalizeIfIdle, Pos, InCallback, PC, InBorrow, InClose
<1>2. Finalizes(b, p)
  BY DEF FinalizeIfIdle
<1>3. /\ at' \in Threads /\ Pos(b)' = p
      /\ \A x \in Actors : x # b => at'[x] = at[x]
      /\ pool' \in Flags /\ (pool.fault => pool'.fault) /\ (Shut => Shut')
      /\ (pool'.closed => pool.closed \/ ~Busy)
  <2> HIDE DEF p
  <2> QED BY <1>1, <1>2, FinalizesStep
<1>4. TypeOK'
  BY <1>1, <1>3 DEF TypeOK, Threads, Flags, FinalizeIfIdle
<1>5. LeaseAt(b)'
  <2>1. lease' = lease
    BY DEF FinalizeIfIdle
  <2> QED BY <1>1, <1>3, <2>1, LeaseMoves
<1> QED BY <1>1, <1>3, <1>4, <1>5, ThreadStep DEF FinalizeIfIdle

\* A close of the resources begins.
LEMMA CloseInv ==
  ASSUME IInv, NEW c \in Closers, NEW wait \in BOOLEAN, Close(c, wait) PROVE IInv'
<1> USE DEF leaseVars
<1>1. TypeOK /\ c \in Actors /\ c \notin Borrowers /\ at[c].pc # "clear"
  BY ConnectionPoolAssumptions DEF IInv, Actors, Close
<1>2. at' \in Threads /\ \A x \in Actors : x # c => at'[x] = at[x]
  <2>1. CASE at' = at
    BY <1>1, <2>1 DEF TypeOK, Threads
  <2>2. CASE Goes(c, "waitres")
    BY <1>1, <2>2, GoesStep DEF PC, InBorrow, InClose
  <2>3. CASE at' = [at EXCEPT ![c] = [pc |-> "close", then |-> "idle", wait |-> wait]]
    <3>1. "close" \in PC /\ "idle" \in PC \ InCallback
      BY DEF PC, InBorrow, InClose, InCallback
    <3> QED BY <1>1, <2>3, <3>1, StartsStep
  <2> QED BY <2>1, <2>2, <2>3 DEF Close
<1>3. res' \in ResTypes
  <2>1. \/ res' = res
        \/ res' = [res EXCEPT !.state = "CLOSED"] \/ res' = [res EXCEPT !.state = "CLOSING"]
        \/ res' = [state |-> "CLOSING", closing |-> TRUE]
    BY DEF Close
  <2>2. [state |-> "CLOSING", closing |-> TRUE] \in ResTypes
    BY DEF ResTypes
  <2> QED BY <1>1, <2>1, <2>2, ResTyped DEF ResTypes
<1>4. TypeOK'
  BY <1>1, <1>2, <1>3 DEF TypeOK, Threads, ResTypes, Close
<1> QED BY <1>1, <1>2, <1>4, ThreadStep DEF Close, Shut

\* It waits, asks the pool, takes the physical close, or returns.
LEMMA ClosingInv == ASSUME IInv, NEW c \in Closers, Closing(c) PROVE IInv'
<1> USE DEF leaseVars
<1>1. TypeOK /\ c \in Actors /\ c \notin Borrowers /\ at[c].pc # "clear"
  BY ConnectionPoolAssumptions
     DEF IInv, Actors, Closing, WaitRes, ManagerClose, AwaitIdle, CloseReturns
<1>2. CASE WaitRes(c)
  <2>1. at' \in Threads /\ \A x \in Actors : x # c => at'[x] = at[x]
    <3>1. "close" \in PC /\ "idle" \in PC \ InCallback
      BY DEF PC, InBorrow, InClose, InCallback
    <3>2. \/ at' = [at EXCEPT ![c] = [pc |-> "idle", then |-> "idle", wait |-> FALSE]]
          \/ at' = [at EXCEPT ![c] = [pc |-> "close", then |-> "idle", wait |-> TRUE]]
      BY <1>2 DEF WaitRes, Idle
    <3>3. "idle" \in PC /\ TRUE \in BOOLEAN /\ FALSE \in BOOLEAN
      BY <3>1
    <3>4. CASE at' = [at EXCEPT ![c] = [pc |-> "idle", then |-> "idle", wait |-> FALSE]]
      BY <1>1, <3>1, <3>3, <3>4, StartsStep
    <3>5. CASE at' = [at EXCEPT ![c] = [pc |-> "close", then |-> "idle", wait |-> TRUE]]
      BY <1>1, <3>1, <3>3, <3>5, StartsStep
    <3> QED BY <3>2, <3>4, <3>5
  <2>2. res' \in ResTypes
    <3>1. res' = res \/ res' = [res EXCEPT !.closing = TRUE]
      BY <1>2 DEF WaitRes
    <3> QED BY <1>1, <3>1, ResTyped DEF ResTypes
  <2>3. TypeOK'
    BY <1>1, <1>2, <2>1, <2>2 DEF TypeOK, Threads, ResTypes, WaitRes
  <2> QED BY <1>1, <1>2, <2>1, <2>3, ThreadStep DEF WaitRes, Shut
<1>3. CASE CloseReturns(c)
  <2>1. at' \in Threads /\ \A x \in Actors : x # c => at'[x] = at[x]
    <3>1. "idle" \in PC \ InCallback
      BY DEF PC, InBorrow, InClose, InCallback
    <3>2. at' = [at EXCEPT ![c] = [pc |-> "idle", then |-> "idle", wait |-> FALSE]]
      BY <1>3 DEF CloseReturns, Idle
    <3> QED BY <1>1, <3>1, <3>2, StartsStep
  <2>2. res' \in ResTypes
    <3>1. PICK s \in {"FAULTED", "CLOSED", res.state} : res' = [state |-> s, closing |-> FALSE]
      BY <1>3 DEF CloseReturns
    <3> QED BY <1>1, <3>1, ResTyped DEF ResTypes
  <2>3. TypeOK'
    BY <1>1, <1>3, <2>1, <2>2 DEF TypeOK, Threads, ResTypes, CloseReturns
  <2> QED BY <1>1, <1>3, <2>1, <2>3, ThreadStep DEF CloseReturns, Shut
<1>4. ASSUME ManagerClose(c) \/ AwaitIdle(c)
      PROVE  IInv'
  <2>1. \/ \E p \in {"await", "raised", "closed", "open"} : Goes(c, p)
        \/ at' = [at EXCEPT ![c].pc = "closeall", ![c].then = "closed"]
    BY <1>4 DEF ManagerClose, AwaitIdle, ClosedResult, Waits, Finalizes
  <2>2. at' \in Threads /\ \A x \in Actors : x # c => at'[x] = at[x]
    <3>1. ASSUME NEW p \in {"await", "raised", "closed", "open"}, Goes(c, p)
          PROVE  at' \in Threads /\ \A x \in Actors : x # c => at'[x] = at[x]
      BY <1>1, <3>1, GoesStep DEF PC, InBorrow, InClose
    <3>2. ASSUME at' = [at EXCEPT ![c].pc = "closeall", ![c].then = "closed"]
          PROVE  at' \in Threads /\ \A x \in Actors : x # c => at'[x] = at[x]
      <4>1. "closeall" \in PC /\ "closed" \in PC \ InCallback
        BY DEF PC, InBorrow, InClose, InCallback
      <4> QED BY <1>1, <3>2, <4>1, DetourStep
    <3> QED BY <2>1, <3>1, <3>2
  <2>3. \/ pool' = pool
        \/ Busy /\ pool' = [pool EXCEPT !.requested = TRUE]
        \/ ~Busy /\ pool' = [pool EXCEPT !.requested = TRUE, !.closed = TRUE, !.closing = TRUE]
        \/ ~Busy /\ pool' = [pool EXCEPT !.closed = TRUE, !.closing = TRUE]
    BY <1>4 DEF ManagerClose, AwaitIdle, ClosedResult, Waits, Finalizes
  <2>4. /\ pool' \in Flags /\ (pool.fault => pool'.fault) /\ (Shut => Shut')
        /\ (pool'.closed => pool.closed \/ ~Busy)
    BY <1>1, <2>3 DEF TypeOK, Flags, Shut
  <2>5. asleep' \subseteq Actors
    BY <1>1, <1>4 DEF TypeOK, ManagerClose, AwaitIdle, ClosedResult, Waits, Sleeps, NotifyAll
  <2>6. UNCHANGED <<leaseVars, driver, res, init, faults, late>>
    BY <1>4 DEF ManagerClose, AwaitIdle
  <2>7. TypeOK'
    BY <1>1, <2>2, <2>4, <2>5, <2>6 DEF TypeOK, Threads, Flags
  <2> QED BY <1>1, <2>2, <2>4, <2>6, <2>7, ThreadStep
<1> QED BY <1>2, <1>3, <1>4 DEF Closing
-----------------------------------------------------------------------------
(* Steps that change one record *)

\* The leases in some states, and how many, when one record changes.
LEMMA WithFinite == \A states : IsFiniteSet(With(states)) /\ Cardinality(With(states)) \in Nat
BY FS_Subset, FS_CardinalityType, ConnectionPoolAssumptions DEF With

\* The leases in some states stay the same,
LEMMA WithStays ==
  ASSUME NEW b \in Borrowers, NEW states,
         \A d \in Borrowers : d # b => lease'[d] = lease[d],
         lease[b].state \in states <=> lease'[b].state \in states
  PROVE  With(states)' = With(states)
BY DEF With

\* gain one,
LEMMA WithGains ==
  ASSUME NEW b \in Borrowers, NEW states,
         \A d \in Borrowers : d # b => lease'[d] = lease[d],
         lease[b].state \notin states, lease'[b].state \in states
  PROVE  /\ With(states)' = With(states) \cup {b}
         /\ Cardinality(With(states)') = Cardinality(With(states)) + 1
<1>1. With(states)' = With(states) \cup {b} /\ b \notin With(states)
  BY DEF With
<1> QED BY <1>1, WithFinite, FS_AddElement

\* or lose one.
LEMMA WithLoses ==
  ASSUME NEW b \in Borrowers, NEW states,
         \A d \in Borrowers : d # b => lease'[d] = lease[d],
         lease[b].state \in states, lease'[b].state \notin states
  PROVE  /\ With(states)' = With(states) \ {b}
         /\ Cardinality(With(states)') = Cardinality(With(states)) - 1
<1>1. With(states)' = With(states) \ {b} /\ b \in With(states)
  BY DEF With
<1> QED BY <1>1, WithFinite, FS_RemoveElement

\* One record changes, in a lease that keeps its connection or drops it.
LEMMA RecordStep ==
  ASSUME IInv, NEW b \in Borrowers, LeaseAt(b)',
         \A d \in Borrowers : d # b => lease'[d] = lease[d] /\ at'[d] = at[d],
         \/ lease'[b].conn = None
         \/ lease'[b].conn = lease[b].conn /\ (at[b].pc = "clear" => at'[b].pc = "clear"),
         Shut => Shut'
  PROVE  RecordsOK' /\ Distinct'
<1>1. RecordsOK'
  BY LeaseStays DEF IInv, RecordsOK
<1>2. Distinct'
  BY DEF IInv, Distinct
<1> QED BY <1>1, <1>2

\* A connection goes back to the driver, or does not.
LEMMA PutConnInv == ASSUME IInv, NEW b \in Borrowers, PutConn(b) PROVE IInv'
<1> DEFINE c == lease[b].conn
<1> USE DEF leaseVars
<1>1. TypeOK /\ b \in Actors /\ Pos(b) = "put" /\ LeaseAt(b) /\ lease[b].state = "RETURNING"
      /\ c # None /\ at[b].pc = "put"
  BY DEF IInv, RecordsOK, Actors, PutConn, Pos, InCallback, LeaseAt
<1>2. UNCHANGED <<leaseVars, res, init, late>> /\ driver'.open = driver.open
      /\ driver' \in [open : BOOLEAN, out : SUBSET Conns]
  BY <1>1 DEF PutConn, TypeOK
<1>3. \/ /\ driver.open /\ driver'.out = driver.out \ {c}
         /\ Goes(b, "clear") /\ UNCHANGED <<pool, asleep>> /\ UNCHANGED faults
      \/ /\ ~driver.open /\ driver'.out = driver.out \ {c} /\ Fails(b, "clear") /\ UNCHANGED faults
      \/ /\ driver.open /\ driver'.out = driver.out /\ Fails(b, "clear") /\ MayFail
  BY <1>1 DEF PutConn, TypeOK
<1>4. /\ at' \in Threads /\ Pos(b)' = "clear"
      /\ \A x \in Actors : x # b => at'[x] = at[x]
      /\ pool' \in Flags /\ (Shut => Shut') /\ pool'.closed = pool.closed
      /\ asleep' \subseteq Actors /\ (pool.fault => pool'.fault)
  <2>1. CASE Goes(b, "clear") /\ UNCHANGED <<pool, asleep>>
    BY <1>1, <2>1, GoesStep DEF PC, InBorrow, InClose, Pos, InCallback, TypeOK, Flags, Shut
  <2>2. CASE Fails(b, "clear")
    BY <1>1, <2>2, FailsStep DEF PC, InBorrow, InClose, InCallback
  <2> QED BY <1>3, <2>1, <2>2
<1>5. faults' \in 0 .. MaxFaults
  BY <1>1, <1>3, MayFailStep DEF TypeOK
<1>6. TypeOK'
  BY <1>1, <1>2, <1>4, <1>5 DEF TypeOK, Threads, Flags
<1>7. With({"RESERVED"})' = With({"RESERVED"}) /\ With({"QUEUED"})' = With({"QUEUED"})
  BY <1>2 DEF With
<1>8. QueueOK' /\ Counted' /\ ClosedUnreserved'
  BY <1>2, <1>4, <1>7 DEF IInv, QueueOK, Counted, ClosedUnreserved
<1>9. RecordsOK' /\ Distinct'
  <2>1. LeaseAt(b)'
    BY <1>1, <1>2, <1>4, LeaseMoves
  <2> QED BY <1>1, <1>2, <1>4, <2>1, RecordStep DEF Actors
<1>10. SetsOK'
  BY <1>2, <1>4 DEF IInv, SetsOK, Leased
<1>11. DriverOK'
  <2>1. driver'.out \subseteq Unreturned' \/ pool'.fault
    <3>1. CASE Fails(b, "clear")
      BY <1>1, <3>1, FailsStep DEF PC, InBorrow, InClose, InCallback
    <3>2. CASE driver'.out = driver.out \ {c} /\ UNCHANGED pool
      <4> SUFFICES ASSUME ~pool.fault, NEW x \in driver.out, x # c PROVE x \in Unreturned'
        BY <3>2
      <4>1. PICK d \in Borrowers : Pos(d) # "clear" /\ lease[d].conn = x /\ x # None
        BY DEF IInv, DriverOK, Unreturned, ConnsOf
      <4>2. Pos(d)' # "clear" /\ lease'[d].conn = x
        BY <1>2, <1>4, <4>1 DEF Pos, Actors
      <4> QED BY <4>1, <4>2 DEF Unreturned, ConnsOf
    <3> QED BY <1>3, <3>1, <3>2
  <2>2. ASSUME driver'.open, NEW d \in Borrowers, lease'[d].conn # None
        PROVE  lease'[d].conn \in driver'.out \/ at'[d].pc = "clear"
    <3>1. CASE d = b
      <4>1. CASE Goes(b, "clear")
        BY <1>1, <3>1, <4>1, GoesStep DEF PC, InBorrow
      <4>2. CASE driver'.out = driver.out
        BY <1>1, <1>2, <2>2, <3>1, <4>2 DEF IInv, DriverOK
      <4> QED BY <1>2, <1>3, <2>2, <4>1, <4>2
    <3>2. CASE d # b
      BY <1>1, <1>2, <1>3, <1>4, <2>2, <3>2 DEF IInv, DriverOK, Distinct, Actors
    <3> QED BY <3>1, <3>2
  <2> QED BY <2>1, <2>2 DEF DriverOK
<1> QED BY <1>6, <1>8, <1>9, <1>10, <1>11 DEF IInv

\* A lease that keeps its connection, before it has returned it.
LEMMA KeepStep ==
  ASSUME IInv, NEW b \in Borrowers, LeaseAt(b)', UNCHANGED <<driver, pool>>,
         \A d \in Borrowers : d # b => lease'[d] = lease[d] /\ at'[d] = at[d],
         lease'[b].conn = lease[b].conn, at[b].pc # "clear", Pos(b)' # "clear"
  PROVE  RecordsOK' /\ Distinct' /\ DriverOK'
<1>1. RecordsOK' /\ Distinct'
  <2>1. Shut' = Shut
    BY DEF Shut
  <2> QED BY <2>1, RecordStep
<1>2. DriverOK'
  <2>1. \A d \in Borrowers : lease'[d].conn = lease[d].conn
    OBVIOUS
  <2>2. \A d \in Borrowers : at[d].pc = "clear" => at'[d].pc = "clear"
    OBVIOUS
  <2>3. \A d \in Borrowers : Pos(d)' = "clear" => Pos(d) = "clear"
    BY DEF Pos
  <2>4. Unreturned \subseteq Unreturned'
    BY <2>1, <2>3 DEF Unreturned, ConnsOf
  <2> QED BY <2>1, <2>2, <2>4 DEF IInv, DriverOK
<1> QED BY <1>1, <1>2

\* A thread that goes on at a place of its own program.
LEMMA OwnStep ==
  ASSUME TypeOK, NEW a \in Actors, NEW p \in PC \ InCallback, Goes(a, p)
  PROVE  /\ at' \in Threads /\ Pos(a)' = p /\ \A x \in Actors : x # a => at'[x] = at[x]
BY GoesStep DEF Pos

\* A lease is published, or its scope was not bound.
LEMMA PublishInv == ASSUME IInv, NEW b \in Borrowers, Publish(b) PROVE IInv'
<1> DEFINE c == lease[b].conn
<1> USE DEF leaseVars
<1>1. TypeOK /\ b \in Actors /\ Pos(b) = "bind" /\ LeaseAt(b) /\ at[b].pc # "clear"
      /\ lease[b].state = "CHECKED_OUT" /\ c # None /\ c \in Conns
      /\ "release" \in PC \ InCallback /\ "use" \in PC \ InCallback
  BY DEF IInv, RecordsOK, TypeOK, Actors, Publish, Pos, InCallback, LeaseAt, PC, InBorrow, InClose
<1>2. CASE Goes(b, "release") /\ UNCHANGED <<lease, business>>
  <2>1. /\ at' \in Threads /\ Pos(b)' = "release" /\ \A x \in Actors : x # b => at'[x] = at[x]
    BY <1>1, <1>2, OwnStep
  <2>2. TypeOK'
    BY <1>1, <1>2, <2>1 DEF TypeOK, Threads, Publish
  <2>3. LeaseAt(b)'
    BY <1>1, <1>2, <2>1, LeaseMoves DEF Publish, Shut
  <2> QED BY <1>1, <1>2, <2>1, <2>2, <2>3, ThreadStep DEF Publish, Shut
<1>3. CASE /\ ~Shut
           /\ lease' = [lease EXCEPT ![b].state = "PUBLISHED"]
           /\ business' = business \cup {c}
           /\ Goes(b, "use")
  <2>1. /\ at' \in Threads /\ Pos(b)' = "use" /\ \A x \in Actors : x # b => at'[x] = at[x]
    BY <1>1, <1>3, OwnStep
  <2>2. /\ lease' \in [Borrowers -> LeaseTypes]
        /\ \A d \in Borrowers : d # b => lease'[d] = lease[d]
        /\ lease'[b].state = "PUBLISHED" /\ lease'[b].conn = c
    BY <1>1, <1>3 DEF TypeOK, LeaseTypes
  <2>3. TypeOK'
    BY <1>1, <1>3, <2>1, <2>2 DEF TypeOK, Threads, LeaseTypes, Publish
  <2>4. LeaseAt(b)'
    BY <1>1, <2>1, <2>2 DEF LeaseAt
  <2>5. RecordsOK' /\ Distinct' /\ DriverOK'
    BY <1>1, <2>1, <2>2, <2>3, <2>4, KeepStep DEF Publish, Actors
  <2>6. QueueOK' /\ Counted'
    <3>1. With({"QUEUED"})' = With({"QUEUED"}) /\ With({"RESERVED"})' = With({"RESERVED"})
      BY <1>1, <2>2, WithStays
    <3> QED BY <3>1 DEF IInv, QueueOK, Counted, Publish
  <2>7. SetsOK'
    <3>1. \A x : Leased(x) => Leased(x)'
      BY <1>1, <2>2 DEF Leased
    <3>2. Leased(c)'
      BY <2>2 DEF Leased
    <3> QED BY <1>3, <3>1, <3>2 DEF IInv, SetsOK, Publish
  <2>8. ClosedUnreserved'
    BY <1>3 DEF Publish, ClosedUnreserved, Shut
  <2> QED BY <2>3, <2>5, <2>6, <2>7, <2>8 DEF IInv
<1> QED BY <1>2, <1>3 DEF Publish

\* A return that was interrupted can be claimed again.
LEMMA RestoreInv == ASSUME IInv, NEW b \in Borrowers, Restore(b) PROVE IInv'
<1> DEFINE c == lease[b].conn
<1> USE DEF leaseVars
<1>1. TypeOK /\ b \in Actors /\ Pos(b) = "restore" /\ LeaseAt(b) /\ at[b].pc # "clear"
      /\ lease[b].state = "RETURNING" /\ lease[b].prior # "none" /\ c # None
      /\ "refinalize" \in PC \ InCallback
  BY DEF IInv, RecordsOK, Actors, Restore, Pos, InCallback, LeaseAt, PC, InBorrow, InClose
<1>2. /\ at' \in Threads /\ Pos(b)' = "refinalize"
      /\ \A x \in Actors : x # b => at'[x] = at[x]
  BY <1>1, OwnStep DEF Restore
<1>3. /\ lease' \in [Borrowers -> LeaseTypes]
      /\ \A d \in Borrowers : d # b => lease'[d] = lease[d]
      /\ lease'[b].state = lease[b].prior /\ lease'[b].conn = c
      /\ lease[b].prior \in {"CHECKED_OUT", "PUBLISHED"}
  BY <1>1 DEF TypeOK, LeaseTypes, Restore
<1>4. TypeOK'
  BY <1>1, <1>2, <1>3 DEF TypeOK, Threads, LeaseTypes, Restore, NotifyAll
<1>5. LeaseAt(b)'
  BY <1>1, <1>2, <1>3 DEF LeaseAt
<1>6. RecordsOK' /\ Distinct' /\ DriverOK'
  BY <1>1, <1>2, <1>3, <1>4, <1>5, KeepStep DEF Restore, Actors
<1>7. QueueOK' /\ Counted'
  <2>1. With({"QUEUED"})' = With({"QUEUED"}) /\ With({"RESERVED"})' = With({"RESERVED"})
    BY <1>1, <1>3, WithStays
  <2> QED BY <2>1 DEF IInv, QueueOK, Counted, Restore
<1>8. SetsOK'
  BY <1>1, <1>3 DEF IInv, SetsOK, Leased, Restore
<1>9. ClosedUnreserved'
  <2>1. With({"RESERVED"})' = With({"RESERVED"})
    BY <1>1, <1>3, WithStays
  <2> QED BY <2>1 DEF IInv, ClosedUnreserved, Restore
<1> QED BY <1>4, <1>6, <1>7, <1>8, <1>9 DEF IInv

\* A reservation becomes a checkout, or is refused.
LEMMA RegisterInv == ASSUME IInv, NEW b \in Borrowers, Register(b) PROVE IInv'
<1> DEFINE c == lease[b].conn
<1> USE DEF leaseVars
<1>1. TypeOK /\ b \in Actors /\ Pos(b) = "register" /\ LeaseAt(b) /\ at[b].pc # "clear"
      /\ lease[b].state = "RESERVED" /\ c # None /\ c \in Conns
      /\ "release" \in PC \ InCallback /\ "bind" \in PC \ InCallback
  BY DEF IInv, RecordsOK, TypeOK, Actors, Register, Pos, InCallback, LeaseAt, PC, InBorrow, InClose
<1>2. CASE Shut
  <2>0. Goes(b, "release") /\ UNCHANGED <<leaseVars, asleep>>
    BY <1>2 DEF Register
  <2>1. /\ at' \in Threads /\ Pos(b)' = "release" /\ \A x \in Actors : x # b => at'[x] = at[x]
    BY <1>1, <2>0, OwnStep
  <2>2. TypeOK'
    BY <1>1, <2>0, <2>1 DEF TypeOK, Threads, Register
  <2>3. LeaseAt(b)'
    BY <1>1, <1>2, <2>0, <2>1, LeaseMoves DEF Register, Shut
  <2> QED BY <1>1, <2>0, <2>1, <2>2, <2>3, ThreadStep DEF Register, Shut
<1>3. CASE ~Shut
  <2>0. /\ lease' = [lease EXCEPT ![b].state = "CHECKED_OUT"]
        /\ waiting' = waiting - 1 /\ checked' = checked \cup {c}
        /\ asleep' = {} /\ Goes(b, "bind")
        /\ UNCHANGED <<conns, queue, business, pool, driver, res, init, faults, late>>
    BY <1>3 DEF Register, NotifyAll
  <2>1. /\ at' \in Threads /\ Pos(b)' = "bind" /\ \A x \in Actors : x # b => at'[x] = at[x]
    BY <1>1, <2>0, OwnStep
  <2>2. /\ lease' \in [Borrowers -> LeaseTypes]
        /\ \A d \in Borrowers : d # b => lease'[d] = lease[d]
        /\ lease'[b].state = "CHECKED_OUT" /\ lease'[b].conn = c
    BY <1>1, <2>0 DEF TypeOK, LeaseTypes
  <2>3. /\ With({"QUEUED"})' = With({"QUEUED"})
        /\ Cardinality(With({"RESERVED"})') = Cardinality(With({"RESERVED"})) - 1
        /\ With({"RESERVED"})' = With({"RESERVED"}) \ {b}
    BY <1>1, <2>2, WithStays, WithLoses
  <2>4. QueueOK' /\ Counted'
    BY <2>0, <2>3 DEF IInv, QueueOK, Counted
  <2>5. TypeOK'
    <3>1. Cardinality(With({"RESERVED"})') \in Nat
      <4>1. IsFiniteSet(With({"RESERVED"})')
        BY <2>3, WithFinite, FS_RemoveElement
      <4> QED BY <4>1, FS_CardinalityType
    <3>2. waiting' \in Nat
      BY <2>4, <3>1 DEF Counted
    <3> QED BY <1>1, <2>0, <2>1, <2>2, <3>2 DEF TypeOK, Threads, LeaseTypes
  <2>6. LeaseAt(b)'
    BY <1>1, <2>1, <2>2 DEF LeaseAt
  <2>7. RecordsOK' /\ Distinct' /\ DriverOK'
    BY <1>1, <2>0, <2>1, <2>2, <2>5, <2>6, KeepStep DEF Actors
  <2>8. SetsOK'
    <3>1. \A x : Leased(x) => Leased(x)'
      BY <1>1, <2>2 DEF Leased
    <3>2. Leased(c)'
      BY <2>2 DEF Leased
    <3> QED BY <2>0, <3>1, <3>2 DEF IInv, SetsOK
  <2>9. ClosedUnreserved'
    BY <1>3, <2>0 DEF ClosedUnreserved, Shut
  <2> QED BY <2>4, <2>5, <2>7, <2>8, <2>9 DEF IInv
<1> QED BY <1>2, <1>3

\* A lease ends: what the sets keep is in another.
LEMMA ClearInv == ASSUME IInv, NEW b \in Borrowers, Clear(b) PROVE IInv'
<1> DEFINE c == lease[b].conn
<1> USE DEF leaseVars
<1>1. TypeOK /\ b \in Actors /\ Pos(b) = "clear" /\ LeaseAt(b)
      /\ lease[b].state = "RETURNING" /\ c # None /\ "finalize" \in PC \ InCallback
  BY DEF IInv, RecordsOK, TypeOK, Actors, Clear, Pos, InCallback, LeaseAt, PC, InBorrow, InClose
<1>2. /\ at' \in Threads /\ Pos(b)' = "finalize" /\ \A x \in Actors : x # b => at'[x] = at[x]
  BY <1>1, OwnStep DEF Clear
<1>3. /\ lease' \in [Borrowers -> LeaseTypes]
      /\ \A d \in Borrowers : d # b => lease'[d] = lease[d]
      /\ lease'[b].state = "none" /\ lease'[b].conn = None
  BY <1>1 DEF TypeOK, LeaseTypes, Clear, NoLease
<1>4. TypeOK'
  BY <1>1, <1>2, <1>3 DEF TypeOK, Threads, LeaseTypes, Clear, NotifyAll
<1>5. LeaseAt(b)'
  BY <1>2, <1>3 DEF LeaseAt
<1>6. RecordsOK' /\ Distinct'
  BY <1>2, <1>3, <1>5, RecordStep DEF Actors, Clear, Shut
<1>7. QueueOK' /\ Counted' /\ ClosedUnreserved'
  <2>1. With({"QUEUED"})' = With({"QUEUED"}) /\ With({"RESERVED"})' = With({"RESERVED"})
    BY <1>1, <1>3, WithStays
  <2> QED BY <2>1 DEF IInv, QueueOK, Counted, ClosedUnreserved, Clear
<1>8. UNCHANGED <<pool, driver>> /\ business' = business \ {c} /\ checked' = checked \ {c}
  BY DEF Clear
<1>9. SetsOK'
  <2>1. \A x : Leased(x) /\ x # c => Leased(x)'
    BY <1>3 DEF Leased
  <2> QED BY <1>8, <2>1 DEF IInv, SetsOK
<1>10. DriverOK'
  <2>1. \A d \in Borrowers : d # b => at'[d] = at[d] /\ Pos(d)' = Pos(d)
    BY <1>2 DEF Actors, Pos
  <2>2. Unreturned \subseteq Unreturned'
    BY <1>1, <1>3, <2>1 DEF Unreturned, ConnsOf
  <2> QED BY <1>3, <1>8, <2>1, <2>2 DEF IInv, DriverOK
<1> QED BY <1>4, <1>6, <1>7, <1>9, <1>10 DEF IInv

\* Giving up a place in the queue leaves the others, in their order.
LEMMA LeavesStep ==
  ASSUME TypeOK, QueueOK, NEW b \in Borrowers, lease[b].state = "QUEUED"
  PROVE  /\ Leaves(b) \in Seq(Borrowers) /\ Len(Leaves(b)) = Len(queue) - 1
         /\ ToSet(Leaves(b)) = ToSet(queue) \ {b}
         /\ \A i, j \in DOMAIN Leaves(b) : Leaves(b)[i] = Leaves(b)[j] => i = j
<1> DEFINE q == queue
           n == Len(queue)
<1>1. q \in Seq(Borrowers) /\ n \in Nat /\ DOMAIN q = 1 .. n
  BY DEF TypeOK
<1>2. \A i \in 1 .. n : q[i] \in Borrowers
  BY <1>1
<1>3. PICK k \in 1 .. n : k = (CHOOSE i \in DOMAIN q : q[i] = b) /\ q[k] = b
  <2>1. \E i \in DOMAIN q : q[i] = b
    BY DEF QueueOK, ToSet, With
  <2> QED BY <1>1, <2>1
<1> DEFINE l == SubSeq(q, 1, k - 1)
           r == SubSeq(q, k + 1, n)
<1>4. l \in Seq(Borrowers) /\ Len(l) = k - 1 /\ \A i \in 1 .. k - 1 : l[i] = q[i]
  <2>1. \A i \in 1 .. k - 1 : q[i] \in Borrowers
    BY <1>1, <1>2, <1>3
  <2> HIDE DEF q, n
  <2>2. 1 \in Int /\ k - 1 \in Int /\ k - 1 >= 0
    BY <1>1, <1>3
  <2> QED BY <2>1, <2>2, SubSeqProperties
<1>5. r \in Seq(Borrowers) /\ Len(r) = n - k /\ \A i \in 1 .. n - k : r[i] = q[k + i]
  <2>1. \A i \in k + 1 .. n : q[i] \in Borrowers
    BY <1>1, <1>2, <1>3
  <2> HIDE DEF q
  <2>2. k + 1 \in Int /\ n \in Int /\ k <= n
    BY <1>1, <1>3
  <2> HIDE DEF n
  <2>3. /\ SubSeq(q, k + 1, n) \in Seq(Borrowers)
        /\ Len(SubSeq(q, k + 1, n)) = IF k + 1 <= n THEN n - (k + 1) + 1 ELSE 0
        /\ \A i \in 1 .. n - (k + 1) + 1 : SubSeq(q, k + 1, n)[i] = q[k + 1 + i - 1]
    BY <2>1, <2>2, SubSeqProperties
  <2>4. n - (k + 1) + 1 = n - k /\ (IF k + 1 <= n THEN n - (k + 1) + 1 ELSE 0) = n - k
    BY <1>3, <2>2
  <2>5. \A i \in 1 .. n - k : k + 1 + i - 1 = k + i
    BY <1>3, <2>2
  <2> QED BY <2>3, <2>4, <2>5
<1>6. Leaves(b) = l \o r
  BY <1>3 DEF Leaves, RemoveAt
<1> HIDE DEF l, r
<1>7. /\ Leaves(b) \in Seq(Borrowers) /\ Len(Leaves(b)) = n - 1
      /\ \A i \in 1 .. n - 1 : Leaves(b)[i] = IF i < k THEN q[i] ELSE q[i + 1]
  <2> HIDE DEF q, n
  <2>1. /\ l \o r \in Seq(Borrowers) /\ Len(l \o r) = Len(l) + Len(r)
        /\ \A i \in 1 .. Len(l) + Len(r) : (l \o r)[i] =
              IF i <= Len(l) THEN l[i] ELSE r[i - Len(l)]
    BY <1>4, <1>5, ConcatProperties
  <2>2. Len(l) + Len(r) = n - 1
    BY <1>1, <1>3, <1>4, <1>5
  <2>3. ASSUME NEW i \in 1 .. n - 1
        PROVE  (l \o r)[i] = IF i < k THEN q[i] ELSE q[i + 1]
    <3>1. CASE i < k
      BY <1>1, <1>3, <1>4, <2>1, <2>2, <3>1
    <3>2. CASE ~(i < k)
      <4>1. (l \o r)[i] = r[i - (k - 1)] /\ i - (k - 1) \in 1 .. n - k
        BY <1>1, <1>3, <1>4, <2>1, <2>2, <3>2
      <4>2. r[i - (k - 1)] = q[k + (i - (k - 1))] /\ k + (i - (k - 1)) = i + 1
        BY <1>1, <1>3, <1>5, <4>1
      <4> QED BY <3>2, <4>1, <4>2
    <3> QED BY <3>1, <3>2
  <2> QED BY <1>6, <2>1, <2>2, <2>3
<1>8. \A i, j \in 1 .. n : q[i] = q[j] => i = j
  BY <1>1 DEF QueueOK
<1>9. DOMAIN Leaves(b) = 1 .. n - 1
  BY <1>1, <1>3, <1>7
<1>10. ToSet(Leaves(b)) = ToSet(q) \ {b}
  <2> HIDE DEF q, n
  <2>1. ASSUME NEW x \in ToSet(Leaves(b)) PROVE x \in ToSet(q) \ {b}
    <3>1. PICK i \in 1 .. n - 1 : x = Leaves(b)[i]
      BY <1>9 DEF ToSet
    <3> DEFINE j == IF i < k THEN i ELSE i + 1
    <3>2. j \in 1 .. n /\ x = q[j] /\ j # k
      <4>1. x = IF i < k THEN q[i] ELSE q[i + 1]
        BY <1>7, <3>1
      <4>2. x = q[j]
        BY <4>1
      <4>3. n \in Nat /\ k \in 1 .. n /\ i \in 1 .. n - 1
        BY <1>1
      <4>4. j \in 1 .. n /\ j # k
        BY <4>3
      <4> QED BY <4>2, <4>4
    <3> HIDE DEF j
    <3> QED BY <1>1, <1>3, <1>8, <3>2 DEF ToSet
  <2>2. ASSUME NEW x \in ToSet(q) \ {b} PROVE x \in ToSet(Leaves(b))
    <3>1. PICK j \in 1 .. n : x = q[j] /\ j # k
      BY <1>1, <1>3 DEF ToSet
    <3>2. \E i \in 1 .. n - 1 : x = Leaves(b)[i]
      <4>1. CASE j < k
        BY <1>1, <1>3, <1>7, <3>1, <4>1
      <4>2. CASE j > k
        <5>1. j - 1 \in 1 .. n - 1 /\ ~(j - 1 < k) /\ j - 1 + 1 = j
          BY <1>1, <1>3, <4>2
        <5> QED BY <1>7, <3>1, <5>1
      <4> QED BY <1>1, <1>3, <3>1, <4>1, <4>2
    <3> QED BY <1>9, <3>2 DEF ToSet
  <2> QED BY <2>1, <2>2
<1>11. \A i, j \in DOMAIN Leaves(b) : Leaves(b)[i] = Leaves(b)[j] => i = j
  <2> HIDE DEF q, n
  <2> SUFFICES ASSUME NEW i \in 1 .. n - 1, NEW j \in 1 .. n - 1, Leaves(b)[i] = Leaves(b)[j]
               PROVE  i = j
    BY <1>9
  <2> DEFINE u == IF i < k THEN i ELSE i + 1
             v == IF j < k THEN j ELSE j + 1
  <2>1. u \in 1 .. n /\ v \in 1 .. n /\ q[u] = q[v]
    BY <1>1, <1>3, <1>7
  <2>2. u = v
    <3> HIDE DEF u, v
    <3> QED BY <1>8, <2>1
  <2> QED BY <1>1, <1>3, <2>2
<1> QED BY <1>7, <1>10, <1>11

\* release decides on a record once.
LEMMA ReleaseInv == ASSUME IInv, NEW b \in Borrowers, Release(b) PROVE IInv'
<1> DEFINE c == lease[b].conn
           s == lease[b].state
<1> USE DEF leaseVars
<1>1. TypeOK /\ b \in Actors /\ Pos(b) = "release" /\ LeaseAt(b) /\ at[b].pc # "clear"
      /\ s \in {"QUEUED", "RESERVED", "CHECKED_OUT", "PUBLISHED"}
      /\ (s = "QUEUED" => c = None) /\ (s \in {"CHECKED_OUT", "PUBLISHED"} => c # None)
      /\ (s = "RESERVED" /\ c # None => Shut)
      /\ "finalize" \in PC \ InCallback /\ "rollback" \in PC \ InCallback
  BY DEF IInv, RecordsOK, Actors, Release, Releases, Pos, InCallback, LeaseAt, PC, InBorrow, InClose
<1>2. /\ waiting' = IF s = "RESERVED" THEN waiting - 1 ELSE waiting
      /\ queue' = IF s = "QUEUED" THEN Leaves(b) ELSE queue
      /\ UNCHANGED <<conns, checked, business, pool, driver, res, init, faults, late>>
  BY DEF Release, Releases
<1>3. PICK p \in {"finalize", "rollback"} :
        /\ Goes(b, p)
        /\ p = "finalize" => c = None /\ lease' = [lease EXCEPT ![b] = NoLease]
        /\ p = "rollback" => c # None /\ lease' = [lease EXCEPT ![b].state = "RETURNING",
               ![b].prior = IF s = "RESERVED" THEN "CHECKED_OUT" ELSE s]
  BY DEF Release, Releases
<1>4. /\ at' \in Threads /\ Pos(b)' = p /\ \A x \in Actors : x # b => at'[x] = at[x]
  BY <1>1, <1>3, OwnStep
<1>5. /\ lease' \in [Borrowers -> LeaseTypes]
      /\ \A d \in Borrowers : d # b => lease'[d] = lease[d]
      /\ lease'[b].conn = c
      /\ p = "finalize" => lease'[b].state = "none"
      /\ p = "rollback" => /\ lease'[b].state = "RETURNING"
                           /\ lease'[b].prior = IF s = "RESERVED" THEN "CHECKED_OUT" ELSE s
  <2>1. CASE p = "finalize"
    BY <1>1, <1>3, <2>1 DEF TypeOK, LeaseTypes, NoLease
  <2>2. CASE p = "rollback"
    <3> DEFINE w == IF s = "RESERVED" THEN "CHECKED_OUT" ELSE s
    <3>1. w \in {"CHECKED_OUT", "PUBLISHED"}
      BY <1>1, <1>3, <2>2
    <3>2. lease' = [lease EXCEPT ![b].state = "RETURNING", ![b].prior = w]
      BY <1>3, <2>2
    <3> HIDE DEF w
    <3>3. /\ lease' \in [Borrowers -> LeaseTypes]
          /\ \A d \in Borrowers : d # b => lease'[d] = lease[d]
          /\ lease'[b].conn = c /\ lease'[b].state = "RETURNING" /\ lease'[b].prior = w
      BY <1>1, <3>1, <3>2 DEF TypeOK, LeaseTypes
    <3> QED BY <2>2, <3>3 DEF w
  <2> QED BY <2>1, <2>2
<1>6. QueueOK' /\ queue' \in Seq(Borrowers)
  <2>1. CASE s = "QUEUED"
    <3>1. /\ With({"QUEUED"})' = With({"QUEUED"}) \ {b}
          /\ Cardinality(With({"QUEUED"})') = Cardinality(With({"QUEUED"})) - 1
      BY <1>3, <1>5, <2>1, WithLoses
    <3> QED BY <1>1, <1>2, <2>1, <3>1, LeavesStep DEF IInv, QueueOK
  <2>2. CASE s # "QUEUED"
    <3>1. With({"QUEUED"})' = With({"QUEUED"})
      BY <1>3, <1>5, <2>2, WithStays
    <3> QED BY <1>1, <1>2, <2>2, <3>1 DEF IInv, QueueOK, TypeOK
  <2> QED BY <2>1, <2>2
<1>7. Counted' /\ waiting' \in Nat
  <2>1. CASE s = "RESERVED"
    <3>1. /\ With({"RESERVED"})' = With({"RESERVED"}) \ {b}
          /\ Cardinality(With({"RESERVED"})') = Cardinality(With({"RESERVED"})) - 1
      BY <1>3, <1>5, <2>1, WithLoses
    <3>2. Cardinality(With({"RESERVED"})') \in Nat
      <4>1. IsFiniteSet(With({"RESERVED"})')
        BY <3>1, WithFinite, FS_RemoveElement
      <4> QED BY <4>1, FS_CardinalityType
    <3> QED BY <1>2, <2>1, <3>1, <3>2 DEF IInv, Counted
  <2>2. CASE s # "RESERVED"
    <3>1. With({"RESERVED"})' = With({"RESERVED"})
      BY <1>3, <1>5, <2>2, WithStays
    <3> QED BY <1>1, <1>2, <2>2, <3>1 DEF IInv, Counted, TypeOK
  <2> QED BY <2>1, <2>2
<1>8. asleep' \subseteq Actors
  BY <1>1 DEF TypeOK, Release, Releases, NotifyAll
<1>9. TypeOK'
  BY <1>1, <1>2, <1>4, <1>5, <1>6, <1>7, <1>8 DEF TypeOK, Threads, LeaseTypes
<1>10. LeaseAt(b)'
  BY <1>1, <1>3, <1>4, <1>5 DEF LeaseAt
<1>11. RecordsOK' /\ Distinct' /\ DriverOK'
  BY <1>1, <1>2, <1>3, <1>4, <1>5, <1>9, <1>10, KeepStep DEF Actors
<1>12. SetsOK'
  <2>1. ASSUME NEW x \in Conns, Leased(x) PROVE Leased(x)'
    <3>1. PICK d \in Borrowers :
            lease[d].state \in {"CHECKED_OUT", "PUBLISHED", "RETURNING"} /\ lease[d].conn = x
      BY <2>1 DEF Leased
    <3>2. CASE d # b
      BY <1>5, <3>1, <3>2 DEF Leased
    <3>3. CASE d = b
      BY <1>1, <1>3, <1>5, <3>1, <3>3 DEF Leased
    <3> QED BY <3>2, <3>3
  <2> QED BY <1>1, <1>2, <2>1 DEF IInv, SetsOK, TypeOK
<1>13. ClosedUnreserved'
  <2> SUFFICES ASSUME pool.closed
               PROVE  With({"RESERVED"})' = {} /\ checked' = {} /\ waiting' = 0
    BY <1>2 DEF ClosedUnreserved
  <2>1. With({"RESERVED"}) = {} /\ checked = {} /\ waiting = 0
    BY DEF IInv, ClosedUnreserved
  <2>2. s # "RESERVED"
    BY <2>1 DEF With
  <2>3. With({"RESERVED"})' = With({"RESERVED"})
    BY <1>3, <1>5, <2>2, WithStays
  <2> QED BY <1>2, <2>1, <2>2, <2>3
<1> QED BY <1>6, <1>7, <1>9, <1>11, <1>12, <1>13 DEF IInv

\* A connection that is to be had is in no lease but one that is about to be cleared.
LEMMA FreeIsReturned ==
  ASSUME IInv, driver.open, NEW c \in conns \ driver.out
  PROVE  /\ c # None /\ c \in Conns
         /\ \A d \in Borrowers : lease[d].conn = c => at[d].pc = "clear"
<1>1. c # None /\ c \in Conns
  BY ConnectionPoolAssumptions DEF IInv, TypeOK, Conns
<1> QED BY <1>1 DEF IInv, DriverOK

\* The driver hands out a connection, or none.
LEMMA GetConnInv == ASSUME IInv, NEW b \in Borrowers, GetConn(b) PROVE IInv'
<1> USE DEF leaseVars
<1>1. TypeOK /\ b \in Actors /\ Pos(b) = "get" /\ LeaseAt(b) /\ at[b].pc # "clear"
      /\ lease[b].state = "RESERVED" /\ lease[b].conn = None /\ at[b].pc = "get"
      /\ "release" \in PC \ InCallback /\ "verify" \in PC \ InCallback
  BY DEF IInv, RecordsOK, Actors, GetConn, Pos, InCallback, LeaseAt, PC, InBorrow, InClose
<1>2. CASE Goes(b, "release") /\ UNCHANGED <<driver, lease>>
  <2>1. /\ at' \in Threads /\ Pos(b)' = "release" /\ \A x \in Actors : x # b => at'[x] = at[x]
    BY <1>1, <1>2, OwnStep
  <2>2. faults' \in 0 .. MaxFaults
    BY <1>1, MayFailStep DEF GetConn, TypeOK
  <2>3. TypeOK'
    BY <1>1, <1>2, <2>1, <2>2 DEF TypeOK, Threads, GetConn
  <2>4. LeaseAt(b)'
    BY <1>1, <1>2, <2>1, LeaseMoves DEF GetConn, Shut
  <2> QED BY <1>1, <1>2, <2>1, <2>3, <2>4, ThreadStep DEF GetConn, Shut
<1>3. CASE /\ driver.open
           /\ \E c \in conns \ driver.out :
                /\ driver' = [driver EXCEPT !.out = @ \cup {c}]
                /\ lease' = [lease EXCEPT ![b].conn = c]
           /\ Goes(b, "verify") /\ UNCHANGED faults
  <2>0. PICK c \in conns \ driver.out :
                /\ driver' = [driver EXCEPT !.out = @ \cup {c}]
                /\ lease' = [lease EXCEPT ![b].conn = c]
    BY <1>3
  <2>1. /\ c # None /\ c \in Conns
        /\ \A d \in Borrowers : lease[d].conn = c => at[d].pc = "clear"
    BY <1>3, FreeIsReturned
  <2>2. /\ at' \in Threads /\ Pos(b)' = "verify" /\ \A x \in Actors : x # b => at'[x] = at[x]
    BY <1>1, <1>3, OwnStep
  <2>3. /\ lease' \in [Borrowers -> LeaseTypes]
        /\ \A d \in Borrowers : d # b => lease'[d] = lease[d]
        /\ lease'[b].state = "RESERVED" /\ lease'[b].conn = c
        /\ driver' \in [open : BOOLEAN, out : SUBSET Conns]
        /\ driver'.out = driver.out \cup {c} /\ driver'.open = driver.open
    BY <1>1, <2>0, <2>1 DEF TypeOK, LeaseTypes
  <2>4. UNCHANGED <<conns, queue, waiting, checked, business, pool, res, init, asleep, late, faults>>
    BY <1>3 DEF GetConn
  <2>5. TypeOK'
    BY <1>1, <2>2, <2>3, <2>4 DEF TypeOK, Threads, LeaseTypes
  <2>6. RecordsOK'
    <3>1. LeaseAt(b)'
      BY <2>2, <2>3, <2>1 DEF LeaseAt
    <3>2. \A d \in Borrowers : d # b => LeaseAt(d)'
      BY <2>2, <2>3, <2>4, LeaseStays DEF IInv, RecordsOK, Actors, Shut
    <3> QED BY <3>1, <3>2 DEF RecordsOK
  <2>7. Distinct'
    <3>1. \A d \in Borrowers : d # b => at'[d] = at[d] /\ lease'[d] = lease[d]
      BY <2>2, <2>3 DEF Actors
    <3> QED BY <2>3, <2>1, <3>1 DEF IInv, Distinct
  <2>8. QueueOK' /\ Counted'
    <3>1. With({"QUEUED"})' = With({"QUEUED"}) /\ With({"RESERVED"})' = With({"RESERVED"})
      BY <1>1, <2>3, WithStays
    <3> QED BY <2>4, <3>1 DEF IInv, QueueOK, Counted
  <2>9. SetsOK'
    <3>1. \A x : Leased(x) => Leased(x)'
      BY <1>1, <2>3 DEF Leased
    <3> QED BY <2>4, <3>1 DEF IInv, SetsOK
  <2>10. DriverOK'
    <3>1. \A d \in Borrowers : d # b => at'[d] = at[d] /\ Pos(d)' = Pos(d) /\ lease'[d] = lease[d]
      BY <2>2, <2>3 DEF Actors, Pos
    <3>2. Unreturned \cup {c} \subseteq Unreturned'
      BY <1>1, <2>2, <2>3, <2>1, <3>1 DEF Unreturned, ConnsOf
    <3>3. ASSUME driver'.open, NEW d \in Borrowers, lease'[d].conn # None
          PROVE  lease'[d].conn \in driver'.out \/ at'[d].pc = "clear"
      BY <2>3, <3>1, <3>3 DEF IInv, DriverOK
    <3> QED BY <2>3, <2>4, <3>2, <3>3 DEF IInv, DriverOK
  <2>11. ClosedUnreserved'
    <3>1. With({"RESERVED"})' = With({"RESERVED"})
      BY <1>1, <2>3, WithStays
    <3> QED BY <2>4, <3>1 DEF IInv, ClosedUnreserved
  <2> QED BY <2>5, <2>6, <2>7, <2>8, <2>9, <2>10, <2>11 DEF IInv
<1> QED BY <1>2, <1>3 DEF GetConn

\* The turn of a lease that is queued, or was just put at the end of the queue.
LEMMA TriesInv ==
  ASSUME IInv, NEW b \in Borrowers, NEW q \in Seq(Borrowers), NEW ls \in [Borrowers -> LeaseTypes],
         Tries(b, q, ls, HasRoom), late' \in 0 .. MaxLate,
         at[b].pc \in {"idle", "reserve"}, lease[b].state \in {"none", "QUEUED"},
         lease[b].conn = None,
         \A d \in Borrowers : d # b => ls[d] = lease[d],
         ls[b].state = "QUEUED", ls[b].conn = None,
         ToSet(q) = With({"QUEUED"}) \cup {b},
         Len(q) = Cardinality(With({"QUEUED"}) \cup {b}),
         \A i, j \in DOMAIN q : q[i] = q[j] => i = j
  PROVE  IInv'
<1> USE DEF leaseVars
<1>1. TypeOK /\ b \in Actors /\ at[b].pc # "clear"
      /\ "release" \in PC \ InCallback /\ "get" \in PC \ InCallback
      /\ "reserve" \in PC \ InCallback
  BY DEF IInv, Actors, PC, InBorrow, InClose, InCallback
<1>2. UNCHANGED <<conns, checked, business, pool, driver, res, init, faults>> /\ Shut' = Shut
  BY DEF Tries, Shut
<1>3. ASSUME NEW d \in Borrowers, lease[d].state \notin {"none", "QUEUED"}
      PROVE  ls[d] = lease[d] /\ d # b
  BY <1>3
<1>4. CASE lease' = ls /\ queue' = q /\ waiting' = waiting /\ \E p \in {"release", "reserve"} : Goes(b, p)
  <2>1. PICK p \in {"release", "reserve"} : Goes(b, p)
    BY <1>4
  <2>2. /\ at' \in Threads /\ Pos(b)' = p /\ \A x \in Actors : x # b => at'[x] = at[x]
    BY <1>1, <2>1, OwnStep
  <2>3. asleep' \subseteq Actors
    BY <1>1 DEF Tries, TypeOK, NotifyAll, Sleeps
  <2>4. TypeOK'
    BY <1>1, <1>2, <1>4, <2>2, <2>3 DEF TypeOK, Threads, LeaseTypes
  <2>5. LeaseAt(b)'
    BY <1>4, <2>2 DEF LeaseAt
  <2>6. RecordsOK' /\ Distinct' /\ DriverOK'
    BY <1>1, <1>2, <1>4, <2>2, <2>4, <2>5, KeepStep DEF Actors
  <2>7. QueueOK'
    <3>1. With({"QUEUED"})' = With({"QUEUED"}) \cup {b}
      BY <1>4 DEF With
    <3> QED BY <1>4, <3>1 DEF QueueOK
  <2>8. With({"RESERVED"})' = With({"RESERVED"})
    BY <1>4, WithStays
  <2>9. Counted' /\ ClosedUnreserved'
    BY <1>2, <1>4, <2>8 DEF IInv, Counted, ClosedUnreserved
  <2>10. SetsOK'
    <3>1. \A x : Leased(x) => Leased(x)'
      BY <1>3, <1>4 DEF Leased
    <3> QED BY <1>2, <3>1 DEF IInv, SetsOK
  <2> QED BY <2>4, <2>6, <2>7, <2>9, <2>10 DEF IInv
<1>5. CASE /\ ~Shut /\ Head(q) = b /\ HasRoom
           /\ queue' = Tail(q) /\ lease' = [ls EXCEPT ![b].state = "RESERVED"]
           /\ waiting' = waiting + 1
           /\ NotifyAll /\ Goes(b, "get")
  <2>2. /\ at' \in Threads /\ Pos(b)' = "get" /\ \A x \in Actors : x # b => at'[x] = at[x]
    BY <1>1, <1>5, OwnStep
  <2>3. /\ lease' \in [Borrowers -> LeaseTypes]
        /\ \A d \in Borrowers : d # b => lease'[d] = lease[d]
        /\ lease'[b].state = "RESERVED" /\ lease'[b].conn = None
    BY <1>5 DEF LeaseTypes
  <2>4. IsFiniteSet(With({"QUEUED"})) /\ IsFiniteSet(With({"QUEUED"}) \cup {b})
        /\ Cardinality(With({"QUEUED"}) \cup {b}) \in Nat
    BY WithFinite, FS_AddElement, FS_CardinalityType
  <2>5. Len(q) # 0 /\ q # <<>>
    <3>1. Cardinality(With({"QUEUED"}) \cup {b}) # 0
      BY <2>4, FS_EmptySet
    <3> QED BY <3>1
  <2>6. /\ Tail(q) \in Seq(Borrowers) /\ Len(Tail(q)) = Len(q) - 1
        /\ \A i \in 1 .. Len(q) - 1 : Tail(q)[i] = q[i + 1]
        /\ q[1] = b /\ Len(q) \in Nat /\ DOMAIN q = 1 .. Len(q)
        /\ DOMAIN Tail(q) = 1 .. Len(q) - 1
    <3>1. /\ Tail(q) \in Seq(Borrowers) /\ Len(Tail(q)) = Len(q) - 1
          /\ \A i \in 1 .. Len(Tail(q)) : Tail(q)[i] = q[i + 1]
      BY <2>5, HeadTailProperties
    <3>2. q[1] = b /\ Len(q) \in Nat /\ DOMAIN q = 1 .. Len(q)
      BY <1>5, <2>5
    <3>3. DOMAIN Tail(q) = 1 .. Len(Tail(q))
      BY <3>1
    <3> QED BY <3>1, <3>2, <3>3
  <2>7. ToSet(Tail(q)) = ToSet(q) \ {b}
    <3>1. ASSUME NEW x \in ToSet(Tail(q)) PROVE x \in ToSet(q) \ {b}
      <4>1. PICK i \in 1 .. Len(q) - 1 : x = q[i + 1]
        BY <2>6 DEF ToSet
      <4>2. i + 1 \in DOMAIN q /\ 1 \in DOMAIN q /\ i + 1 # 1
        BY <2>5, <2>6
      <4> QED BY <2>6, <4>1, <4>2 DEF ToSet
    <3>2. ASSUME NEW x \in ToSet(q) \ {b} PROVE x \in ToSet(Tail(q))
      <4>1. PICK i \in 1 .. Len(q) : x = q[i] /\ i # 1
        BY <2>6 DEF ToSet
      <4>2. i - 1 \in 1 .. Len(q) - 1 /\ i - 1 + 1 = i
        BY <2>6, <4>1
      <4>3. Tail(q)[i - 1] = x /\ i - 1 \in DOMAIN Tail(q)
        BY <2>6, <4>1, <4>2
      <4> QED BY <4>3 DEF ToSet
    <3> QED BY <3>1, <3>2
  <2>8. \A i, j \in DOMAIN Tail(q) : Tail(q)[i] = Tail(q)[j] => i = j
    <3> SUFFICES ASSUME NEW i \in 1 .. Len(q) - 1, NEW j \in 1 .. Len(q) - 1,
                        Tail(q)[i] = Tail(q)[j]
                 PROVE  i = j
      BY <2>6
    <3>1. i + 1 \in DOMAIN q /\ j + 1 \in DOMAIN q /\ q[i + 1] = q[j + 1]
      BY <2>6
    <3>2. i + 1 = j + 1
      BY <3>1
    <3> QED BY <2>6, <3>2
  <2>9. QueueOK'
    <3>1. With({"QUEUED"})' = With({"QUEUED"}) \ {b}
      BY <2>3 DEF With
    <3>2. (With({"QUEUED"}) \cup {b}) \ {b} = With({"QUEUED"}) \ {b}
      OBVIOUS
    <3>3. Cardinality(With({"QUEUED"}) \ {b}) = Len(q) - 1
      <4> DEFINE Q == With({"QUEUED"}) \cup {b}
      <4>1. IsFiniteSet(Q) /\ b \in Q /\ Cardinality(Q) = Len(q)
        BY <2>4
      <4> HIDE DEF Q
      <4>2. Cardinality(Q \ {b}) = Cardinality(Q) - 1
        BY <4>1, FS_RemoveElement
      <4> QED BY <3>2, <4>1, <4>2 DEF Q
    <3> QED BY <1>5, <2>6, <2>7, <2>8, <3>1, <3>2, <3>3 DEF QueueOK
  <2>10. TypeOK'
    BY <1>1, <1>2, <1>5, <2>2, <2>3, <2>6 DEF TypeOK, Threads, LeaseTypes, NotifyAll
  <2>11. Counted'
    <3>1. Cardinality(With({"RESERVED"})') = Cardinality(With({"RESERVED"})) + 1
      BY <2>3, WithGains
    <3> QED BY <1>5, <3>1 DEF IInv, Counted
  <2>12. LeaseAt(b)'
    BY <2>2, <2>3 DEF LeaseAt
  <2>13. RecordsOK' /\ Distinct' /\ DriverOK'
    BY <1>1, <1>2, <2>2, <2>3, <2>12, KeepStep DEF Actors
  <2>14. SetsOK'
    <3>1. \A x : Leased(x) => Leased(x)'
      BY <2>3 DEF Leased
    <3> QED BY <1>2, <3>1 DEF IInv, SetsOK
  <2>15. ClosedUnreserved'
    BY <1>2, <1>5 DEF ClosedUnreserved, Shut
  <2> QED BY <2>9, <2>10, <2>11, <2>13, <2>14, <2>15 DEF IInv
<1>6. \/ lease' = ls /\ queue' = q /\ waiting' = waiting /\ \E p \in {"release", "reserve"} : Goes(b, p)
      \/ /\ ~Shut /\ Head(q) = b /\ HasRoom
         /\ queue' = Tail(q) /\ lease' = [ls EXCEPT ![b].state = "RESERVED"]
         /\ waiting' = waiting + 1
         /\ NotifyAll /\ Goes(b, "get")
  BY DEF Tries
<1> QED BY <1>4, <1>5, <1>6

\* A thread that waits looks again,
LEMMA ReserveInv == ASSUME IInv, NEW b \in Borrowers, Reserve(b) PROVE IInv'
<1>1. lease[b].state = "QUEUED" /\ lease[b].conn = None /\ at[b].pc = "reserve"
  BY DEF IInv, RecordsOK, LeaseAt, Pos, InCallback, Reserve
<1>2. With({"QUEUED"}) \cup {b} = With({"QUEUED"})
  BY <1>1 DEF With
<1>3. queue \in Seq(Borrowers) /\ lease \in [Borrowers -> LeaseTypes] /\ late' \in 0 .. MaxLate
  BY DEF IInv, TypeOK, LeaseTypes, Reserve
<1>4. Tries(b, queue, lease, HasRoom)
  BY DEF Reserve
<1> QED BY <1>1, <1>2, <1>3, <1>4, TriesInv DEF IInv, QueueOK

\* and one that asks looks for the first time, at the end of the queue.
LEMMA EnterInv == ASSUME IInv, NEW b \in Borrowers, Enter(b) PROVE IInv'
<1> DEFINE q == Append(queue, b)
           ls == [lease EXCEPT ![b].state = "QUEUED"]
<1>1. lease[b].state = "none" /\ lease[b].conn = None /\ at[b].pc = "idle"
  BY DEF IInv, RecordsOK, LeaseAt, Pos, InCallback, Enter
<1>2. TypeOK /\ QueueOK /\ queue \in Seq(Borrowers) /\ Len(queue) \in Nat
      /\ DOMAIN queue = 1 .. Len(queue)
  BY DEF IInv, TypeOK
<1>3. /\ ls \in [Borrowers -> LeaseTypes]
      /\ \A d \in Borrowers : d # b => ls[d] = lease[d]
      /\ ls[b].state = "QUEUED" /\ ls[b].conn = None
  BY <1>1, <1>2 DEF TypeOK, LeaseTypes
<1>4. late' \in 0 .. MaxLate
  BY <1>2, ConnectionPoolAssumptions DEF Enter, TypeOK
<1>5. Tries(b, q, ls, HasRoom)
  BY DEF Enter
<1>6. /\ q \in Seq(Borrowers) /\ Len(q) = Len(queue) + 1
      /\ \A i \in 1 .. Len(queue) : q[i] = queue[i]
      /\ q[Len(queue) + 1] = b /\ DOMAIN q = 1 .. Len(queue) + 1
  <2>1. q \in Seq(Borrowers) /\ Len(q) = Len(queue) + 1
        /\ (\A i \in 1 .. Len(queue) : q[i] = queue[i]) /\ q[Len(queue) + 1] = b
    BY <1>2, AppendProperties
  <2> HIDE DEF q
  <2> QED BY <2>1
<1> HIDE DEF q, ls
<1>7. \A i \in 1 .. Len(queue) : queue[i] # b
  BY <1>1, <1>2 DEF QueueOK, ToSet, With
<1>8. ToSet(q) = With({"QUEUED"}) \cup {b}
  <2>1. ASSUME NEW x \in ToSet(q) PROVE x \in ToSet(queue) \cup {b}
    <3>1. PICK i \in 1 .. Len(queue) + 1 : x = q[i]
      BY <1>6 DEF ToSet
    <3>2. CASE i = Len(queue) + 1
      BY <1>6, <3>1, <3>2
    <3>3. CASE i # Len(queue) + 1
      <4>1. i \in 1 .. Len(queue)
        BY <1>2, <3>3
      <4> QED BY <1>2, <1>6, <3>1, <4>1 DEF ToSet
    <3> QED BY <3>2, <3>3
  <2>2. ASSUME NEW x \in ToSet(queue) PROVE x \in ToSet(q)
    <3>1. PICK i \in 1 .. Len(queue) : x = queue[i]
      BY <1>2 DEF ToSet
    <3>2. i \in DOMAIN q /\ q[i] = x
      BY <1>2, <1>6, <3>1
    <3> QED BY <3>2 DEF ToSet
  <2>3. b \in ToSet(q)
    <3>1. Len(queue) + 1 \in DOMAIN q
      BY <1>2, <1>6
    <3> QED BY <1>6, <3>1 DEF ToSet
  <2> QED BY <1>2, <2>1, <2>2, <2>3 DEF QueueOK
<1>9. Len(q) = Cardinality(With({"QUEUED"}) \cup {b})
  <2>1. b \notin With({"QUEUED"})
    BY <1>1 DEF With
  <2> QED BY <1>2, <1>6, <2>1, WithFinite, FS_AddElement DEF QueueOK
<1>10. \A i, j \in DOMAIN q : q[i] = q[j] => i = j
  <2> SUFFICES ASSUME NEW i \in 1 .. Len(queue) + 1, NEW j \in 1 .. Len(queue) + 1, q[i] = q[j]
               PROVE  i = j
    BY <1>6
  <2>1. \A k \in 1 .. Len(queue) + 1 : k = Len(queue) + 1 \/ k \in 1 .. Len(queue)
    BY <1>2
  <2> QED BY <1>2, <1>6, <1>7, <2>1 DEF QueueOK
<1> QED BY <1>1, <1>3, <1>4, <1>5, <1>6, <1>8, <1>9, <1>10, TriesInv
-----------------------------------------------------------------------------
(* The invariant, and what follows from it *)

\* Every step keeps the invariant.
LEMMA NextInv == ASSUME IInv, [Next]_vars PROVE IInv'
<1>1. CASE EnsureReady \/ Initializing
  BY <1>1, InitializingInv
<1>2. ASSUME NEW b \in Borrowers, Enter(b) \/ Borrow(b) PROVE IInv'
  BY <1>2, EnterInv, ReserveInv, GetConnInv, VerifyInv, RegisterInv, PublishInv, UseEndsInv,
     ReleaseInv, RollbackInv, RestoreInv, PutConnInv, ClearInv, FinalizeIfIdleInv DEF Borrow
<1>3. ASSUME NEW a \in Actors, Callbacks(a) PROVE IInv'
  BY <1>3, CallbacksInv
<1>4. ASSUME NEW c \in ClosersOf[conns], Closing(c) \/ \E wait \in BOOLEAN : Close(c, wait) PROVE IInv'
  <2>1. c \in Closers
    BY DEF IInv, TypeOK, Closers
  <2> QED BY <1>4, <2>1, ClosingInv, CloseInv
<1>5. CASE UNCHANGED vars
  <2>1. \A b \in Borrowers : LeaseAt(b)'
    BY <1>5 DEF vars, IInv, RecordsOK, LeaseAt, Pos, Shut
  <2>2. TypeOK'
    BY <1>5 DEF vars, IInv, TypeOK
  <2> QED BY <1>5, <2>1, <2>2, QuietStep DEF vars, leaseVars, Shut, Pos
<1> QED BY <1>1, <1>2, <1>3, <1>4, <1>5 DEF Next

\* Each lease is counted where its thread is, and the counters follow the leases,
\* whatever fails and whoever closes.
THEOREM PoolInvariant == Spec => []IInv
<1>1. Init => IInv
  BY InitIInv
<1>2. IInv /\ [Next]_vars => IInv'
  BY NextInv
<1> QED BY <1>1, <1>2, PTL DEF Spec

\* The records, the counters and the threads keep their types.
THEOREM TypeCorrect == Spec => []TypeOK
<1>1. IInv => TypeOK
  BY DEF IInv
<1> QED BY <1>1, PoolInvariant, PTL

\* The accounting, from the invariant.
LEMMA InvAccounted == IInv => LeasesAccounted
<1> SUFFICES ASSUME IInv PROVE LeasesAccounted
  OBVIOUS
<1>1. /\ ToSet(queue) = With({"QUEUED"}) /\ Len(queue) = Cardinality(With({"QUEUED"}))
      /\ waiting = Cardinality(With({"RESERVED"}))
  BY DEF IInv, QueueOK, Counted
<1>2. /\ checked \subseteq ConnsOf(With({"CHECKED_OUT", "PUBLISHED", "RETURNING"}))
      /\ business \subseteq ConnsOf(With({"CHECKED_OUT", "PUBLISHED", "RETURNING"}))
  <2>1. \A c \in Conns : Leased(c) => c \in ConnsOf(With({"CHECKED_OUT", "PUBLISHED", "RETURNING"}))
    BY ConnectionPoolAssumptions DEF Leased, ConnsOf, With, Conns
  <2> QED BY <2>1 DEF IInv, SetsOK, TypeOK
<1>3. \A b, d \in Borrowers : b # d /\ lease[b].conn # None /\ lease[b].conn = lease[d].conn
        => at[b].pc = "clear" \/ at[d].pc = "clear"
  BY DEF IInv, Distinct
<1>4. driver.out \subseteq ConnsOf(Borrowers) \/ pool.fault
  BY DEF IInv, DriverOK, Unreturned, ConnsOf
<1> QED BY <1>1, <1>2, <1>3, <1>4 DEF LeasesAccounted

\* The accounting of the pool holds for any number of threads and connections, in the
\* time two leases share a connection too.
THEOREM CountsAreLeases == Spec => []LeasesAccounted
<1>1. IInv => LeasesAccounted
  BY InvAccounted
<1> QED BY <1>1, PoolInvariant, PTL

\* From the physical close on nobody has reserved a connection or registers one.
THEOREM ClosesUnreserved == Spec => []ClosedUnreserved
<1>1. IInv => ClosedUnreserved
  BY DEF IInv
<1> QED BY <1>1, PoolInvariant, PTL
=============================================================================
