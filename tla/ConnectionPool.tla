----------------------------- MODULE ConnectionPool ----------------------------
(***************************************************************************)
(* PostgresPoolManager (memplex/storage/pool.py) under its owner,          *)
(* PostgresStorageResources (storage/postgres_resources.py).  Borrowers    *)
(* take a connection in FIFO order, verify it, publish a lease, use it and *)
(* return it; closers close the resources; whoever finds a requested close *)
(* and an idle pool does the one physical close.  A driver call may fail,  *)
(* and a failure of the pool is a callback into the resources, which       *)
(* request a close of the pool in turn, on the thread that failed.         *)
(*                                                                         *)
(* Each action is one critical section of the manager's or the resources'  *)
(* condition, or one driver call between two of them.  A thread that waits *)
(* on the manager's condition sleeps until the next notify_all; the        *)
(* resources' condition is notified at every change of their state, and    *)
(* its waiters look at the state alone.  A lease token is its borrower:    *)
(* it is in one borrow at a time.                                          *)
(***************************************************************************)
EXTENDS Integers, FiniteSets, Sequences, SequencesExt

CONSTANTS
  Borrowers,  \* threads of the business stores
  Pools,      \* the driver's pools: sets of connections, max_connections in each
  ClosersOf,  \* the threads that close the resources, for each pool
  None,
  MaxFaults,  \* bound: driver calls that fail
  MaxLate     \* bound: leases that are asked for after the pool is shut

Conns == UNION Pools
Closers == UNION {ClosersOf[S] : S \in Pools}
Actors == Borrowers \cup Closers

ASSUME ConnectionPoolAssumptions ==
  /\ \A S \in Pools : IsFiniteSet(S) /\ S # {} /\ None \notin S
  /\ IsFiniteSet(Borrowers) /\ Borrowers \cap Closers = {}
  /\ MaxFaults \in Nat /\ MaxLate \in Nat

VARIABLES
  conns,   \* the connections of the pool, which has one size all along
  lease,   \* _lease_records; "none" once a record is popped
  queue,   \* _borrow_queue
  waiting, \* _waiting_borrowers
  checked, \* _checked_out
  business, \* _business_leases
  pool,    \* _close_requested, _closed, _closing_in_progress, _close_error, _fault
  driver,  \* psycopg2's pool: open or not, and the connections it has handed out
  res,     \* the resources' state, and _close_in_progress
  init,    \* the thread in ensure_ready
  at,      \* what each thread does, and what it does after a callback
  asleep,  \* threads waiting on the manager's condition
  faults,  \* driver calls that failed
  late     \* leases asked for too late

vars == <<conns, lease, queue, waiting, checked, business, pool, driver, res, init, at, asleep, faults, late>>
leaseVars == <<conns, lease, queue, waiting, checked, business>>

NoLease == [state |-> "none", conn |-> None, prior |-> "none"]
Idle == [pc |-> "idle", then |-> "idle", wait |-> FALSE]

Init ==
  /\ conns \in Pools
  /\ lease = [b \in Borrowers |-> NoLease]
  /\ queue = <<>> /\ waiting = 0 /\ checked = {} /\ business = {}
  /\ pool = [requested |-> FALSE, closed |-> FALSE, closing |-> FALSE, error |-> FALSE,
             fault |-> FALSE]
  /\ driver = [open |-> TRUE, out |-> {}]
  /\ res = [state |-> "NEW", closing |-> FALSE]
  /\ init = "none"
  /\ at = [a \in Actors |-> Idle]
  /\ asleep = {} /\ faults = 0 /\ late = 0

Shut == pool.closed \/ pool.requested \/ pool.fault
Busy == checked # {} \/ waiting # 0 \/ queue # <<>>

Goes(a, pc) == at' = [at EXCEPT ![a].pc = pc]
Awake(a) == a \notin asleep
Sleeps(a) == asleep' = asleep \cup {a}
NotifyAll == asleep' = {}

\* A driver call fails: _mark_fault wakes everybody, and the first fault is
\* reported to the resources before the thread goes on at pc.
Fails(a, pc) ==
  /\ pool' = [pool EXCEPT !.fault = TRUE]
  /\ at' = [at EXCEPT ![a].pc = IF pool.fault THEN pc ELSE "onfault", ![a].then = pc]
  /\ NotifyAll
MayFail == faults < MaxFaults /\ faults' = faults + 1
-----------------------------------------------------------------------------
(* ensure_ready: migrations and checks, a staged pool, and its publication *)

EnsureReady ==
  /\ res.state = "NEW" /\ init = "none"
  /\ res' = [res EXCEPT !.state = "INITIALIZING"] /\ init' = "migrate"
  /\ UNCHANGED <<leaseVars, pool, driver, at, asleep, faults, late>>

\* Everything before the staged manager exists, and the probes on it.
InitRuns ==
  /\ init = "migrate"
  /\ \/ init' = IF res.state = "INITIALIZING" THEN "publish" ELSE "failed"
     \/ init' = "failed"
  /\ UNCHANGED <<leaseVars, pool, driver, res, at, asleep, faults, late>>

InitPublishes ==
  /\ init = "publish"
  /\ IF res.state = "INITIALIZING"
     THEN init' = "done" /\ res' = [res EXCEPT !.state = "READY"]
     ELSE init' = "failed" /\ UNCHANGED res
  /\ UNCHANGED <<leaseVars, pool, driver, at, asleep, faults, late>>

\* _finish_initialization_failure: closes what was staged.
InitFails ==
  /\ init = "failed"
  /\ \E clean \in BOOLEAN :
       /\ IF clean THEN UNCHANGED faults ELSE MayFail
       /\ res' = [res EXCEPT !.state =
                    IF clean /\ @ = "CLOSING" THEN "CLOSED" ELSE "FAULTED"]
  /\ init' = "dead"
  /\ UNCHANGED <<leaseVars, pool, driver, at, asleep, late>>

Published == init = "done"
-----------------------------------------------------------------------------
(* Borrowing: _reserve_capacity, borrow, publish *)

\* The turn of b in queue q, whose record is still QUEUED in leases: it is refused,
\* takes its place at the head if room says so, or waits.
Tries(b, q, leases, room) ==
  /\ \/ Shut /\ Goes(b, "release") /\ queue' = q /\ lease' = leases
        /\ UNCHANGED <<waiting, asleep>>
     \/ /\ ~Shut /\ Head(q) = b /\ room
        /\ queue' = Tail(q) /\ lease' = [leases EXCEPT ![b].state = "RESERVED"]
        /\ waiting' = waiting + 1
        /\ NotifyAll /\ Goes(b, "get")
     \/ /\ ~Shut /\ ~(Head(q) = b /\ room)
        /\ queue' = q /\ lease' = leases
        /\ Sleeps(b) /\ Goes(b, "reserve") /\ UNCHANGED waiting
  /\ UNCHANGED <<conns, checked, business, pool, driver, res, init, faults>>

HasRoom == Cardinality(checked) + waiting < Cardinality(conns)

\* _reserve_capacity.  A store that holds the published pool asks after a close too.
Enter(b) ==
  /\ at[b].pc = "idle" /\ Published
  /\ IF Shut THEN late < MaxLate /\ late' = late + 1 ELSE UNCHANGED late
  /\ Tries(b, Append(queue, b), [lease EXCEPT ![b].state = "QUEUED"], HasRoom)

Reserve(b) ==
  /\ at[b].pc = "reserve" /\ Awake(b)
  /\ Tries(b, queue, lease, HasRoom)
  /\ UNCHANGED late

\* getconn and the attachment to the record; the driver has no connection left,
\* cannot connect, or is closed already.
GetConn(b) ==
  /\ at[b].pc = "get"
  /\ \/ /\ driver.open
        /\ \E c \in conns \ driver.out :
             /\ driver' = [driver EXCEPT !.out = @ \cup {c}]
             /\ lease' = [lease EXCEPT ![b].conn = c]
        /\ Goes(b, "verify") /\ UNCHANGED faults
     \/ /\ IF driver.open /\ driver.out # conns THEN MayFail ELSE UNCHANGED faults
        /\ Goes(b, "release") /\ UNCHANGED <<driver, lease>>
  /\ UNCHANGED <<conns, queue, waiting, checked, business, pool, res, init, asleep, late>>

\* _verify_borrowed_connection_target: another target, or an error, is a fault.
Verify(b) ==
  /\ at[b].pc = "verify"
  /\ \/ Goes(b, "register") /\ UNCHANGED <<pool, asleep, faults>>
     \/ MayFail /\ Fails(b, "release")
  /\ UNCHANGED <<leaseVars, driver, res, init, late>>

Register(b) ==
  /\ at[b].pc = "register"
  /\ IF Shut THEN Goes(b, "release") /\ UNCHANGED <<leaseVars, asleep>>
     ELSE /\ lease' = [lease EXCEPT ![b].state = "CHECKED_OUT"]
          /\ waiting' = waiting - 1 /\ checked' = checked \cup {lease[b].conn}
          /\ NotifyAll /\ Goes(b, "bind") /\ UNCHANGED <<conns, queue, business>>
  /\ UNCHANGED <<pool, driver, res, init, faults, late>>

\* The scope is bound; or that failed, or the lease is a probe of readiness.
Publish(b) ==
  /\ at[b].pc = "bind"
  /\ \/ Goes(b, "release") /\ UNCHANGED <<lease, business>>
     \/ /\ ~Shut
        /\ lease' = [lease EXCEPT ![b].state = "PUBLISHED"]
        /\ business' = business \cup {lease[b].conn}
        /\ Goes(b, "use")
  /\ UNCHANGED <<conns, queue, waiting, checked, pool, driver, res, init, asleep, faults, late>>

\* The end of the transaction, or of the cursor: a commit or rollback may fail.
UseEnds(b) ==
  /\ at[b].pc = "use"
  /\ \/ Goes(b, "release") /\ UNCHANGED <<pool, asleep, faults>>
     \/ MayFail /\ Fails(b, "release")
  /\ UNCHANGED <<leaseVars, driver, res, init, late>>
-----------------------------------------------------------------------------
(* release: the record decides once, the driver call is outside the lock *)

\* The queue after b has given up its place.
\* Mutant: it gives up the first place, not its own.
Leaves_First(b) == Tail(queue)

Leaves(b) == RemoveAt(queue, CHOOSE i \in DOMAIN queue : queue[i] = b)

\* With left reservations left, the token is gone, or its connection is returned.
Releases(b, left) ==
  LET l == lease[b]
      prior == IF l.state = "RESERVED" THEN "CHECKED_OUT" ELSE l.state
  IN  /\ at[b].pc = "release"
      /\ waiting' = left
      /\ queue' = IF l.state = "QUEUED" THEN Leaves(b) ELSE queue
      /\ IF l.conn = None
         THEN lease' = [lease EXCEPT ![b] = NoLease] /\ NotifyAll /\ Goes(b, "finalize")
         ELSE /\ lease' = [lease EXCEPT ![b].state = "RETURNING", ![b].prior = prior]
              /\ Goes(b, "rollback") /\ UNCHANGED asleep
      /\ UNCHANGED <<conns, checked, business, pool, driver, res, init, faults, late>>

\* Mutant: gives up a reservation that became a checkout long ago.
Release_Twice(b) ==
  Releases(b, IF lease[b].state \in {"RESERVED", "CHECKED_OUT"} THEN waiting - 1 ELSE waiting)

Release(b) ==
  Releases(b, IF lease[b].state = "RESERVED" THEN waiting - 1 ELSE waiting)

Rollback(b) ==
  /\ at[b].pc = "rollback"
  /\ \/ Goes(b, "put") /\ UNCHANGED <<pool, asleep, faults>>
     \/ MayFail /\ \E pc \in {"put", "restore"} : Fails(b, pc)
  /\ UNCHANGED <<leaseVars, driver, res, init, late>>

\* The release was interrupted before putconn: the record can be claimed again,
\* which the callers do.
Restore(b) ==
  /\ at[b].pc = "restore"
  /\ lease' = [lease EXCEPT ![b].state = lease[b].prior, ![b].prior = "none"]
  /\ NotifyAll /\ Goes(b, "refinalize")
  /\ UNCHANGED <<conns, queue, waiting, checked, business, pool, driver, res, init, faults, late>>

\* putconn; a closed driver refuses, and what it refuses is closed already.  A
\* failure may leave the connection with the driver: it is not put again.
PutConn(b) ==
  /\ at[b].pc = "put"
  /\ \/ /\ driver' = [driver EXCEPT !.out = @ \ {lease[b].conn}]
        /\ IF driver.open THEN Goes(b, "clear") /\ UNCHANGED <<pool, asleep>>
           ELSE Fails(b, "clear")
        /\ UNCHANGED faults
     \/ driver.open /\ MayFail /\ Fails(b, "clear") /\ UNCHANGED driver
  /\ UNCHANGED <<leaseVars, res, init, late>>

Clear(b) ==
  /\ at[b].pc = "clear"
  /\ business' = business \ {lease[b].conn} /\ checked' = checked \ {lease[b].conn}
  /\ lease' = [lease EXCEPT ![b] = NoLease]
  /\ NotifyAll /\ Goes(b, "finalize")
  /\ UNCHANGED <<conns, queue, waiting, pool, driver, res, init, faults, late>>
-----------------------------------------------------------------------------
(* The physical close, and the callbacks *)

\* Mutant: looks at the connections that are out, not at the reservations.
CanFinalize_Reserved == pool.requested /\ ~pool.closed /\ ~pool.closing /\ checked = {}

\* _take_finalizer_locked.
CanFinalize == pool.requested /\ ~pool.closed /\ ~pool.closing /\ ~Busy

\* Takes the physical close, and goes on at pc after it or without it.
Finalizes(a, pc) ==
  IF CanFinalize
  THEN /\ pool' = [pool EXCEPT !.closed = TRUE, !.closing = TRUE]
       /\ at' = [at EXCEPT ![a].pc = "closeall", ![a].then = pc]
  ELSE Goes(a, pc) /\ UNCHANGED pool

FinalizeIfIdle(b) ==
  /\ at[b].pc \in {"finalize", "refinalize"}
  /\ Finalizes(b, IF at[b].pc = "finalize" THEN "idle" ELSE "release")
  /\ UNCHANGED <<leaseVars, driver, res, init, asleep, faults, late>>

\* closeall; when it fails the fault is marked while the close is in progress.
CloseAll(a) ==
  /\ at[a].pc = "closeall"
  /\ driver' = [driver EXCEPT !.open = FALSE]
  /\ \/ Goes(a, "told") /\ UNCHANGED <<pool, asleep, faults>>
     \/ /\ MayFail
        /\ pool' = [pool EXCEPT !.fault = TRUE, !.error = TRUE]
        /\ Goes(a, IF pool.fault THEN "told" ELSE "failed") /\ NotifyAll
  /\ UNCHANGED <<leaseVars, res, init, late>>

\* Mutant: those who wait for the end of the close are not woken.
Told_Silent(a) ==
  /\ at[a].pc = "told"
  /\ pool' = [pool EXCEPT !.closing = FALSE]
  /\ Goes(a, "onclosed")
  /\ UNCHANGED <<leaseVars, driver, res, init, asleep, faults, late>>

Told(a) ==
  /\ at[a].pc = "told"
  /\ pool' = [pool EXCEPT !.closing = FALSE]
  /\ NotifyAll /\ Goes(a, "onclosed")
  /\ UNCHANGED <<leaseVars, driver, res, init, faults, late>>

OnPoolClosed(a) ==
  /\ at[a].pc = "onclosed"
  /\ res' = CASE res.state = "READY" -> [state |-> "FAULTED", closing |-> FALSE]
              [] res.state = "CLOSING" ->
                   [state |-> IF pool.error THEN "FAULTED" ELSE "CLOSED", closing |-> FALSE]
              [] OTHER -> res
  /\ Goes(a, at[a].then)
  /\ UNCHANGED <<leaseVars, pool, driver, init, asleep, faults, late>>

\* _on_pool_fault: the resources are faulted, and the pool is asked to close.
\* "failed" is the same in the middle of a close.
OnPoolFault(a) ==
  /\ at[a].pc \in {"onfault", "failed"}
  /\ LET back == IF at[a].pc = "failed" THEN "told" ELSE at[a].then
         ask  == IF at[a].pc = "failed" THEN "askfailed" ELSE "ask"
     IN  IF res.state \in {"READY", "CLOSING"}
         THEN res' = [state |-> "FAULTED", closing |-> FALSE] /\ Goes(a, ask)
         ELSE Goes(a, back) /\ UNCHANGED res
  /\ UNCHANGED <<leaseVars, pool, driver, init, asleep, faults, late>>

\* manager.close(wait=False) on the thread that failed: it waits for a close
\* that is under way, its own included.
AskClose(a) ==
  LET back == IF at[a].pc = "askfailed" THEN "told" ELSE at[a].then
  IN  /\ at[a].pc \in {"ask", "askfailed"} /\ Awake(a)
      /\ \/ pool.closed /\ pool.closing /\ Sleeps(a) /\ UNCHANGED <<at, pool>>
         \/ pool.closed /\ ~pool.closing /\ Goes(a, back) /\ UNCHANGED <<pool, asleep>>
         \/ /\ ~pool.closed /\ NotifyAll
            /\ IF Busy
               THEN Goes(a, back) /\ pool' = [pool EXCEPT !.requested = TRUE]
               ELSE /\ pool' = [pool EXCEPT !.requested = TRUE, !.closed = TRUE, !.closing = TRUE]
                    /\ at' = [at EXCEPT ![a].pc = "closeall"]
      /\ UNCHANGED <<leaseVars, driver, res, init, faults, late>>
-----------------------------------------------------------------------------
(* PostgresStorageResources.close *)

Close(c, wait) ==
  /\ at[c].pc = "idle"
  /\ \/ /\ res.state = "NEW" /\ res' = [res EXCEPT !.state = "CLOSED"]
        /\ UNCHANGED at
     \/ /\ res.state = "INITIALIZING" /\ res' = [res EXCEPT !.state = "CLOSING"]
        /\ IF wait THEN Goes(c, "waitres") ELSE UNCHANGED at
     \/ /\ res.state = "CLOSING" /\ (res.closing \/ ~Published)
        /\ wait /\ Goes(c, "waitres") /\ UNCHANGED res
     \/ /\ res.state = "READY" \/ (res.state = "CLOSING" /\ ~res.closing /\ Published)
        /\ res' = [state |-> "CLOSING", closing |-> TRUE]
        /\ at' = [at EXCEPT ![c] = [pc |-> "close", then |-> "idle", wait |-> wait]]
  /\ UNCHANGED <<leaseVars, pool, driver, init, asleep, faults, late>>

\* Waits for the thread that closes, or initializes; a close that gave up
\* waiting leaves CLOSING, which a waiter takes over.
WaitRes(c) ==
  /\ at[c].pc = "waitres"
  /\ \/ res.state # "CLOSING" /\ at' = [at EXCEPT ![c] = Idle] /\ UNCHANGED res
     \/ /\ res.state = "CLOSING" /\ ~res.closing /\ Published
        /\ res' = [res EXCEPT !.closing = TRUE]
        /\ at' = [at EXCEPT ![c] = [pc |-> "close", then |-> "idle", wait |-> TRUE]]
  /\ UNCHANGED <<leaseVars, pool, driver, init, asleep, faults, late>>

\* manager.close from where the pool is found closed or idle, or not.
Waits(c) == Sleeps(c) /\ Goes(c, "await") /\ UNCHANGED pool
ClosedResult(c) ==
  IF pool.closing THEN Waits(c)
  ELSE /\ Goes(c, IF pool.error \/ pool.fault THEN "raised" ELSE "closed")
       /\ UNCHANGED <<pool, asleep, late>>

\* The request.  Who does not wait returns unless the pool is idle.
ManagerClose(c) ==
  /\ at[c].pc = "close"
  /\ \/ pool.closed /\ ClosedResult(c)
     \/ /\ ~pool.closed /\ Busy
        /\ pool' = [pool EXCEPT !.requested = TRUE]
        /\ asleep' = IF at[c].wait THEN {c} ELSE {}
        /\ Goes(c, IF at[c].wait THEN "await" ELSE "open")
     \/ /\ ~pool.closed /\ ~Busy /\ NotifyAll
        /\ pool' = [pool EXCEPT !.requested = TRUE, !.closed = TRUE, !.closing = TRUE]
        /\ at' = [at EXCEPT ![c].pc = "closeall", ![c].then = "closed"]
  /\ UNCHANGED <<leaseVars, driver, res, init, faults, late>>

\* Woken up: another thread has closed the pool or is about to, or nobody has.
AwaitIdle(c) ==
  /\ at[c].pc = "await" /\ Awake(c)
  /\ \/ pool.closed /\ ClosedResult(c)
     \/ ~pool.closed /\ Busy /\ Waits(c)
     \/ ~pool.closed /\ ~Busy /\ Finalizes(c, "closed") /\ UNCHANGED asleep
  /\ UNCHANGED <<leaseVars, driver, res, init, faults, late>>

\* Back in the resources.  A close that failed physically raises as well.
CloseReturns(c) ==
  /\ at[c].pc \in {"closed", "open", "raised"}
  /\ LET raised == at[c].pc = "raised" \/ (at[c].pc = "closed" /\ pool.error)
     IN  res' = [state |-> IF raised \/ res.state = "FAULTED" THEN "FAULTED"
                           ELSE IF at[c].pc = "closed" THEN "CLOSED" ELSE res.state,
                 closing |-> FALSE]
  /\ at' = [at EXCEPT ![c] = Idle]
  /\ UNCHANGED <<leaseVars, pool, driver, init, asleep, faults, late>>

\* Where a thread may be: in a borrow, in a callback, or in a close.
InBorrow ==
  {"reserve", "get", "verify", "register", "bind", "use", "release", "rollback", "restore",
   "put", "clear", "finalize", "refinalize"}
InCallback == {"onfault", "ask", "failed", "askfailed", "closeall", "told", "onclosed"}
InClose == {"waitres", "close", "await", "closed", "open", "raised"}
PC == {"idle"} \cup InBorrow \cup InCallback \cup InClose

Borrow(b) ==
  /\ at[b].pc \in InBorrow
  /\ \/ Reserve(b) \/ GetConn(b) \/ Verify(b) \/ Register(b) \/ Publish(b) \/ UseEnds(b)
     \/ Release(b) \/ Rollback(b) \/ Restore(b) \/ PutConn(b) \/ Clear(b) \/ FinalizeIfIdle(b)
Callbacks(a) ==
  /\ at[a].pc \in InCallback
  /\ CloseAll(a) \/ Told(a) \/ OnPoolClosed(a) \/ OnPoolFault(a) \/ AskClose(a)
Closing(c) ==
  /\ at[c].pc \in InClose
  /\ WaitRes(c) \/ ManagerClose(c) \/ AwaitIdle(c) \/ CloseReturns(c)
Initializing == InitRuns \/ InitPublishes \/ InitFails

Next ==
  \/ EnsureReady \/ Initializing
  \/ \E b \in Borrowers : Enter(b) \/ Borrow(b)
  \/ \E a \in Actors : Callbacks(a)
  \/ \E c \in ClosersOf[conns] : Closing(c) \/ \E wait \in BOOLEAN : Close(c, wait)

Spec == Init /\ [][Next]_vars

\* Threads run, leases end, driver calls and migrations return.  (Each step of a
\* thread changes where it is or puts it to sleep.)
FairSpec ==
  /\ Spec /\ WF_init(Initializing)
  /\ \A b \in Borrowers : WF_<<at, asleep>>(Borrow(b))
  /\ \A a \in Actors : WF_<<at, asleep>>(Callbacks(a))
  /\ \A c \in Closers : WF_<<at, asleep>>(Closing(c))
-----------------------------------------------------------------------------
(* Properties *)

\* Records, counters and threads keep their types.
TypeOK ==
  /\ conns \in Pools
  /\ lease \in [Borrowers -> [state : {"none", "QUEUED", "RESERVED", "CHECKED_OUT",
                                        "PUBLISHED", "RETURNING"},
                               conn : Conns \cup {None},
                               prior : {"none", "CHECKED_OUT", "PUBLISHED"}]]
  /\ queue \in Seq(Borrowers) /\ waiting \in Nat
  /\ checked \subseteq Conns /\ business \subseteq Conns
  /\ pool \in [requested : BOOLEAN, closed : BOOLEAN, closing : BOOLEAN, error : BOOLEAN,
                fault : BOOLEAN]
  /\ driver \in [open : BOOLEAN, out : SUBSET Conns]
  /\ res \in [state : {"NEW", "INITIALIZING", "READY", "CLOSING", "CLOSED", "FAULTED"},
               closing : BOOLEAN]
  /\ init \in {"none", "migrate", "publish", "failed", "done", "dead"}
  /\ at \in [Actors -> [pc : PC, then : PC \ InCallback, wait : BOOLEAN]]
  /\ asleep \subseteq Actors /\ faults \in 0 .. MaxFaults /\ late \in 0 .. MaxLate

With(states) == {b \in Borrowers : lease[b].state \in states}
ConnsOf(bs) == {lease[b].conn : b \in bs} \ {None}

\* The counters agree with the records, over every way a lease ends: the queue
\* holds those that wait, the reservations those without a checkout, the sets
\* name connections of leases past their checkout, and every connection that is
\* out has a lease that returns it, unless that failed.  Two leases share a
\* connection only while one of them, which has returned it to the driver, has not
\* been cleared yet (release does the one before the other); in that time the
\* sets may miss the second lease.
LeasesAccounted ==
  LET held == ConnsOf(With({"CHECKED_OUT", "PUBLISHED", "RETURNING"}))
  IN  /\ ToSet(queue) = With({"QUEUED"}) /\ Len(queue) = Cardinality(With({"QUEUED"}))
      /\ waiting = Cardinality(With({"RESERVED"}))
      /\ checked \subseteq held /\ business \subseteq held
      /\ \A b, d \in Borrowers : b # d /\ lease[b].conn # None /\ lease[b].conn = lease[d].conn
           => at[b].pc = "clear" \/ at[d].pc = "clear"
      /\ driver.out \subseteq ConnsOf(Borrowers) \/ pool.fault

\* The physical close comes once, and under no lease: from then on nobody waits
\* for a connection, has reserved one, or holds one he was given to use.
ClosedUnderNoLease ==
  pool.closed => With({"RESERVED", "PUBLISHED"}) = {} /\ checked = {} /\ waiting = 0

\* What does hold: from the physical close on nobody has reserved a connection or is
\* about to register one, whoever closed it and whatever ran meanwhile.
ClosedUnreserved ==
  pool.closed => With({"RESERVED"}) = {} /\ checked = {} /\ waiting = 0

\* Who waits for a connection gets one or is refused, and who closes comes back,
\* over faults, callbacks and closes of others: no wake-up is lost.  A physical
\* close that fails is left out.
EveryoneReturns ==
  \A a \in Actors : at[a].pc # "idle" ~> at[a].pc = "idle" \/ pool.error
=============================================================================
