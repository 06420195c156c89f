----------------------------- MODULE SyncOutbox -----------------------------
(***************************************************************************)
(* The durable sync repository of one node (memplex/storage/lite/          *)
(* sync_repository.py): an outbox of captured events, one delivery row per *)
(* event and push target, cursors for the remotes that pull, snapshots for *)
(* the remotes that fell behind, and compaction over all of them.          *)
(*                                                                         *)
(* Every operation runs inside LiteSyncRepository._mutation, which holds   *)
(* the writer lock, reloads the committed pair, and commits or discards    *)
(* the whole change: an operation is one step.  What interleaves are the   *)
(* operations of several dispatchers (each holds batches it claimed, maybe *)
(* long ago), of several pulling sessions per remote (each holds a signed  *)
(* cursor, maybe stale), of registration, replay and compaction.           *)
(*                                                                         *)
(* Clock readings are choices: a live lease may expire at any time, a      *)
(* back-off may elapse at any time, and compaction finds any cursor or     *)
(* snapshot expired and any prefix of the outbox old enough.               *)
(***************************************************************************)
EXTENDS Naturals, FiniteSets, FiniteSetsExt

CONSTANTS
  Remotes,        \* peers: push targets and pull consumers
  Origins,        \* the peers whose events arrive here (a subset of Remotes)
  Pullers,        \* the peers that read /sync/v1/changes (a subset of Remotes)
  Sessions,       \* client processes of one pulling peer, each with its cursor
  Local,          \* this node's identity as the origin of an event
  Leases,         \* lease identifiers (uuid4 in the code)
  None,           \* Python's None
  MaxSeq,         \* bound: events appended in one behaviour
  MaxAttempts,    \* sync_max_attempts
  MaxPending,     \* sync_max_pending_events
  ClaimSize,      \* the limit of sync_claim
  PageSize,       \* the limit of sync_page
  MaxSnapshotPages,       \* bound: pages of one snapshot; 0 disables snapshots
  MaxSnapshotsPerRemote   \* sync_max_active_snapshots_per_remote

Seqs == 1 .. MaxSeq
Rows == Remotes \X Seqs

ASSUME OutboxAssumptions ==
  /\ IsFiniteSet(Remotes) /\ Origins \subseteq Remotes /\ Pullers \subseteq Remotes
  /\ Local \notin Remotes /\ None \notin Remotes /\ None # Local
  /\ None \notin Nat /\ None \notin Leases
  /\ \A n \in {MaxSeq, MaxAttempts, MaxPending, ClaimSize, PageSize} :
        n \in Nat \ {0}
  /\ MaxSnapshotPages \in Nat /\ MaxSnapshotsPerRemote \in Nat

VARIABLES
  next,       \* next_stream_seq
  floor,      \* retention_floor = compacted_through
  outbox,     \* the stream_seqs still in the outbox
  origin,     \* origin_node_id of the event that got a stream_seq
  target,     \* "absent", "enabled" or "disabled"
  bootstrap,  \* bootstrap_seq of a registered target
  delivery,   \* the delivery row of <<target, stream_seq>>, or NoRow
  cursor,     \* after_seq of the cursor row of a puller, or None
  snapshot,   \* the snapshot of <<puller, session>>: resume_seq and pages
  held,       \* batches dispatchers have claimed and not settled
  token,      \* the signed cursor a pulling session holds
  got         \* (history) stream_seqs whose content a remote has received

vars == <<next, floor, outbox, origin, target, bootstrap, delivery, cursor,
          snapshot, held, token, got>>
streamVars == <<next, floor, outbox, origin>>
targetVars == <<target, bootstrap>>
pullVars == <<cursor, snapshot, token>>

-----------------------------------------------------------------------------
(* Rows, batches and tokens *)

NoRow == [state |-> "none", attempts |-> 0, lease |-> None, live |-> FALSE,
          ready |-> FALSE]
NewRow == [state |-> "pending", attempts |-> 0, lease |-> None, live |-> FALSE,
           ready |-> TRUE]

\* A row that holds no lease, in state st: ready says whether
\* next_attempt_at has passed.
Settle(row, st, rdy) ==
  [row EXCEPT !.state = st, !.lease = None, !.live = FALSE, !.ready = rdy]

Row == [state : {"none", "pending", "leased", "delivered", "dead_letter"},
        attempts : 0 .. MaxAttempts, lease : Leases \cup {None},
        live : BOOLEAN, ready : BOOLEAN]

\* One claimed batch: the SyncDelivery objects of one sync_claim.  received:
\* the peer has applied it (its answer may still be lost).
\* The code draws a lease id per row of a claim and gives them all one expiry;
\* here the batch has one.
Batch == [target : Remotes, lease : Leases, seqs : SUBSET Seqs,
          phase : {"claimed", "received", "fail", "dead_letter"}]

NoToken == [kind |-> "none", after |-> 0, upto |-> 0]
Token == [kind : {"none", "stream", "snapshot"}, after : Nat,
          upto : 0 .. MaxSeq]
NoSnapshot == [resume |-> 0, pages |-> 0]

Maximum(a, b) == IF a >= b THEN a ELSE b

\* The n smallest elements of S (sorted(...)[:n]).
First(n, S) == {s \in S : Cardinality({u \in S : u < s}) < n}

\* Rows that count against the quota (_assert_quota).
Active == {d \in Rows : delivery[d].state \in {"pending", "leased", "dead_letter"}}

QuotaAllows(extra) == Cardinality(Active) + extra <= MaxPending
-----------------------------------------------------------------------------
Init ==
  /\ next = 1 /\ floor = 0 /\ outbox = {}
  /\ origin = [s \in Seqs |-> None]
  /\ target = [t \in Remotes |-> "absent"]
  /\ bootstrap = [t \in Remotes |-> 0]
  /\ delivery = [d \in Rows |-> NoRow]
  /\ cursor = [r \in Remotes |-> None]
  /\ snapshot = [p \in Remotes \X Sessions |-> NoSnapshot]
  /\ held = {}
  /\ token = [p \in Remotes \X Sessions |-> NoToken]
  /\ got = [r \in Remotes |-> {}]

(* _append_event, reached from a local write (capture_local_event) and from *)
(* an accepted inbound event (_apply_events): the event gets the next       *)
(* sequence number and a pending row for every enabled target but its own   *)
(* origin; over quota, the whole mutation is discarded.                     *)
EnabledFor(o) == {t \in Remotes : target[t] = "enabled" /\ t # o}

Append(o) ==
  /\ next <= MaxSeq
  /\ QuotaAllows(Cardinality(EnabledFor(o)))
  /\ next' = next + 1
  /\ outbox' = outbox \cup {next}
  /\ origin' = [origin EXCEPT ![next] = o]
  /\ delivery' = [d \in Rows |-> IF d[1] \in EnabledFor(o) /\ d[2] = next
                                 THEN NewRow ELSE delivery[d]]
  /\ UNCHANGED <<floor, targetVars, pullVars, held, got>>

\* sync_register_target: "future" starts after the last event, "retained"
\* gets a row for every event still in the outbox that is not its own.
Retained(t, mode) ==
  IF mode = "retained" THEN {s \in outbox : origin[s] # t} ELSE {}

\* Mutant: "future" starts at the next event instead of after the last one.
RegisterTarget_NextSeq(t, mode) ==
  /\ target[t] = "absent"
  /\ QuotaAllows(Cardinality(Retained(t, mode)))
  /\ target' = [target EXCEPT ![t] = "enabled"]
  /\ bootstrap' = [bootstrap EXCEPT ![t] = IF mode = "future" THEN next ELSE floor]
  /\ delivery' = [d \in Rows |-> IF d[1] = t /\ d[2] \in Retained(t, mode)
                                 THEN NewRow ELSE delivery[d]]
  /\ UNCHANGED <<streamVars, pullVars, held, got>>

RegisterTarget(t, mode) ==
  /\ target[t] = "absent"
  /\ QuotaAllows(Cardinality(Retained(t, mode)))
  /\ target' = [target EXCEPT ![t] = "enabled"]
  /\ bootstrap' = [bootstrap EXCEPT ![t] = IF mode = "future" THEN next - 1 ELSE floor]
  /\ delivery' = [d \in Rows |-> IF d[1] = t /\ d[2] \in Retained(t, mode)
                                 THEN NewRow ELSE delivery[d]]
  /\ UNCHANGED <<streamVars, pullVars, held, got>>

SetTargetEnabled(t, enabled) ==
  /\ target[t] = (IF enabled THEN "disabled" ELSE "enabled")
  /\ target' = [target EXCEPT ![t] = IF enabled THEN "enabled" ELSE "disabled"]
  /\ UNCHANGED <<streamVars, bootstrap, delivery, pullVars, held, got>>
-----------------------------------------------------------------------------
(* Push: claim, send, settle *)

\* A row whose lease has run out goes back to the queue, or to the dead
\* letters when that was its last attempt.
LeaseReset(row) ==
  IF row.state = "leased" /\ ~row.live
  THEN Settle(row, IF row.attempts >= MaxAttempts THEN "dead_letter" ELSE "pending",
              row.ready)
  ELSE row

Claimable(row, s) ==
  /\ row.state = "pending" /\ row.ready /\ row.attempts < MaxAttempts
  /\ origin[s] = Local

\* A lease id that nothing but expired rows remembers is as good as new.
UnusedLeases ==
  Leases \ ({b.lease : b \in held}
             \cup {delivery[d].lease : d \in {x \in Rows : delivery[x].live}})

\* sync_claim.  The reset of expired leases is kept even when nothing can be
\* claimed.
Claim(t, lease) ==
  LET reset   == [s \in Seqs |-> LeaseReset(delivery[<<t, s>>])]
      claimed == First(ClaimSize, {s \in Seqs : Claimable(reset[s], s)})
      Leased(row) == [row EXCEPT !.state = "leased", !.attempts = row.attempts + 1,
                                 !.lease = lease, !.live = TRUE]
  IN  /\ target[t] = "enabled"
      /\ lease \in UnusedLeases
      /\ delivery' = [d \in Rows |->
                        IF d[1] # t THEN delivery[d]
                        ELSE IF d[2] \in claimed THEN Leased(reset[d[2]])
                        ELSE reset[d[2]]]
      /\ held' = IF claimed = {} THEN held
                 ELSE held \cup {[target |-> t, lease |-> lease, seqs |-> claimed,
                                  phase |-> "claimed"]}
      /\ UNCHANGED <<streamVars, targetVars, pullVars, got>>

\* The peer applies the posted batch (SyncDispatcher._send, sync_v1_batches).
PeerReceives(b) ==
  /\ b.phase = "claimed"
  /\ held' = (held \ {b}) \cup {[b EXCEPT !.phase = "received"]}
  /\ got' = [got EXCEPT ![b.target] = @ \cup b.seqs]
  /\ UNCHANGED <<streamVars, targetVars, delivery, pullVars>>

\* _require_active_lease: the batch still owns the row.
\* Mutant: failures are recorded without looking at the lease.
HoldsLease_Unchecked(b, s) == delivery[<<b.target, s>>].state # "none"

HoldsLease(b, s) ==
  LET row == delivery[<<b.target, s>>]
  IN  row.state = "leased" /\ row.lease = b.lease /\ row.live

\* Rows an acknowledgement passes over: compacted away, or already confirmed
\* by the peer's own cursor.
NothingToAck(b, s) == delivery[<<b.target, s>>].state \in {"none", "delivered"}

\* sync_ack_batch: every row of the batch, or none when one lease was lost
\* (SyncDeliveryBusy); the dispatcher forgets the batch either way.
AckBatch(b) ==
  /\ b.phase = "received"
  /\ held' = held \ {b}
  /\ delivery' =
       IF \A s \in b.seqs : NothingToAck(b, s) \/ HoldsLease(b, s)
       THEN [d \in Rows |->
               IF d[1] = b.target /\ d[2] \in b.seqs /\ ~NothingToAck(b, d[2])
               THEN Settle(delivery[d], "delivered", FALSE)
               ELSE delivery[d]]
       ELSE delivery
  /\ UNCHANGED <<streamVars, targetVars, pullVars, got>>

\* sync_fail and sync_dead_letter of one row.
\* Mutant: one retry too many, for a row no claim will take any more.
FailedRow_OffByOne(row, how) ==
  IF how = "dead_letter" \/ row.attempts > MaxAttempts
  THEN Settle(row, "dead_letter", FALSE)
  ELSE Settle(row, "pending", FALSE)

FailedRow(row, how) ==
  IF how = "dead_letter" \/ row.attempts >= MaxAttempts
  THEN Settle(row, "dead_letter", FALSE)
  ELSE Settle(row, "pending", FALSE)

\* SyncDispatcher._fail settles the rows of a batch one mutation at a time;
\* a row whose lease was lost raises, and the rows after it stay leased.
FailNext(b, how) ==
  LET s == CHOOSE x \in b.seqs : \A y \in b.seqs : x <= y
      row == delivery[<<b.target, s>>]
      rest == b.seqs \ {s}
  IN  /\ b.phase \in {"claimed", "received", how}
      /\ delivery' = IF HoldsLease(b, s)
                     THEN [delivery EXCEPT ![<<b.target, s>>] = FailedRow(row, how)]
                     ELSE delivery
      /\ held' = IF (HoldsLease(b, s) \/ row.state = "none") /\ rest # {}
                 THEN (held \ {b}) \cup {[b EXCEPT !.seqs = rest, !.phase = how]}
                 ELSE held \ {b}
      /\ UNCHANGED <<streamVars, targetVars, pullVars, got>>

\* The process that held the batch dies, or its worker thread gives up.
AbandonBatch(b) ==
  /\ held' = held \ {b}
  /\ UNCHANGED <<streamVars, targetVars, delivery, pullVars, got>>

ReplayDeadLetter(d) ==
  /\ delivery[d].state = "dead_letter"
  /\ delivery' = [delivery EXCEPT ![d] =
                    [Settle(@, "pending", TRUE) EXCEPT !.attempts = 0]]
  /\ UNCHANGED <<streamVars, targetVars, pullVars, held, got>>

\* The rows of one claim carry the same lease_expires_at.
LeaseExpires(lease) ==
  /\ \E d \in Rows : delivery[d].live /\ delivery[d].lease = lease
  /\ delivery' = [d \in Rows |-> IF delivery[d].lease = lease
                                 THEN [delivery[d] EXCEPT !.live = FALSE]
                                 ELSE delivery[d]]
  /\ UNCHANGED <<streamVars, targetVars, pullVars, held, got>>

BackoffElapses(d) ==
  /\ delivery[d].state = "pending" /\ ~delivery[d].ready
  /\ delivery' = [delivery EXCEPT ![d].ready = TRUE]
  /\ UNCHANGED <<streamVars, targetVars, pullVars, held, got>>
-----------------------------------------------------------------------------
(* Pull: GET /sync/v1/changes *)

\* The position a request reads from: the signed cursor's, or, without one,
\* that of the consumer's cursor row.
After(r, tok) ==
  IF tok.kind = "stream" THEN tok.after
  ELSE IF cursor[r] = None THEN 0 ELSE cursor[r]

\* The end of the stream a page reads to: a cursor inside a listing keeps its
\* snapshot_seq, a new listing ends at the last event.
Upto(r, tok) ==
  IF tok.kind = "stream" /\ tok.after # tok.upto THEN tok.upto
  ELSE IF outbox = {} THEN After(r, tok) ELSE Max(outbox)

PageRows(r, tok) ==
  {s \in outbox : After(r, tok) < s /\ s <= Upto(r, tok) /\ origin[s] # r}
PageItems(r, tok) == First(PageSize, PageRows(r, tok))

\* next_after_seq of the page.
NextAfter(r, tok) ==
  IF PageItems(r, tok) # PageRows(r, tok) THEN Max(PageItems(r, tok))
  ELSE Upto(r, tok)

\* Presenting a cursor confirms everything up to it: the peer's undelivered
\* rows are settled without a push.
\* Mutant: confirms the listing the cursor belongs to, not what was read of it.
ConfirmedByCursor_Listing(r, tok, d) ==
  /\ tok.kind = "stream" /\ d[1] = r /\ d[2] <= tok.upto
  /\ delivery[d].state \in {"pending", "leased"} /\ origin[d[2]] # r

ConfirmedByCursor(r, tok, d) ==
  /\ tok.kind = "stream" /\ d[1] = r /\ d[2] <= tok.after
  /\ delivery[d].state \in {"pending", "leased"} /\ origin[d[2]] # r

\* The progress a request leaves in the consumer's cursor row.
\* Mutant: remembers what the page serves, before the consumer has it.
CursorAfterPage_Served(r, tok) ==
  IF cursor[r] = None THEN NextAfter(r, tok) ELSE Maximum(cursor[r], NextAfter(r, tok))

CursorAfterPage(r, tok) ==
  IF cursor[r] = None THEN After(r, tok) ELSE Maximum(cursor[r], After(r, tok))

\* sync_page, and the puller's side (SyncDispatcher.pull): the page arrives
\* and is applied before the session keeps its next cursor, or the answer is
\* lost and the session keeps the cursor it had.
Page(r, k, arrives) ==
  LET tok == token[<<r, k>>]
  IN  /\ tok.kind \in {"none", "stream"}
      /\ After(r, tok) >= floor
      /\ delivery' = [d \in Rows |-> IF ConfirmedByCursor(r, tok, d)
                                     THEN Settle(delivery[d], "delivered", FALSE)
                                     ELSE delivery[d]]
      /\ cursor' = [cursor EXCEPT ![r] = CursorAfterPage(r, tok)]
      /\ IF arrives
         THEN /\ got' = [got EXCEPT ![r] = @ \cup PageItems(r, tok)]
              /\ token' = [token EXCEPT ![<<r, k>>] =
                   [kind |-> "stream", after |-> NextAfter(r, tok),
                    upto |-> Upto(r, tok)]]
         ELSE UNCHANGED <<got, token>>
      /\ UNCHANGED <<streamVars, targetVars, snapshot, held>>

\* The session loses its cursor: it restarts, the signed cursor is past its
\* expiry, or the server answers cursor_expired (After < floor, 409) and
\* pull() drops it.
DropToken(r, k) ==
  /\ token[<<r, k>>].kind # "none"
  /\ token' = [token EXCEPT ![<<r, k>>] = NoToken]
  /\ UNCHANGED <<streamVars, targetVars, delivery, cursor, snapshot, held, got>>
-----------------------------------------------------------------------------
(* Snapshots: GET /sync/v1/snapshot.  The items are frozen at creation, so a *)
(* snapshot is its resume_seq and its number of pages; a session's request   *)
(* id is its own.                                                            *)

Taken == {p \in Remotes \X Sessions : snapshot[p] # NoSnapshot}

\* _cleanup_expired_snapshots, at a time when exactly those in keep live.
Kept(keep) == [p \in Remotes \X Sessions |->
                 IF p \in keep THEN snapshot[p] ELSE NoSnapshot]

\* The session has page n of snapshot s: the last page hands it a stream
\* cursor at resume_seq, the others a cursor to the next page.
ReadSnapshotPage(r, k, s, n) ==
  IF n = s.pages
  THEN /\ token' = [token EXCEPT ![<<r, k>>] =
            [kind |-> "stream", after |-> s.resume, upto |-> s.resume]]
       /\ got' = [got EXCEPT ![r] = @ \cup 1 .. s.resume]
  ELSE /\ token' = [token EXCEPT ![<<r, k>>] =
            [kind |-> "snapshot", after |-> n, upto |-> s.resume]]
       /\ UNCHANGED got

\* sync_create_snapshot; a retry of the same request gets the same snapshot.
CreateSnapshot(r, k, keep, pages, arrives) ==
  LET p     == <<r, k>>
      fresh == [resume |-> next - 1, pages |-> pages]
      snap  == IF p \in keep THEN snapshot[p] ELSE fresh
  IN  /\ token[p].kind = "none"
      /\ p \in keep \/ Cardinality({q \in keep : q[1] = r}) < MaxSnapshotsPerRemote
      /\ snapshot' = [Kept(keep) EXCEPT ![p] = snap]
      /\ IF arrives THEN ReadSnapshotPage(r, k, snap, 1) ELSE UNCHANGED <<got, token>>
      /\ UNCHANGED <<streamVars, targetVars, delivery, cursor, held>>

\* sync_snapshot_page; a snapshot that has expired costs the session its
\* cursor (snapshot_expired).
SnapshotPage(r, k, keep, arrives) ==
  LET p == <<r, k>>
  IN  /\ token[p].kind = "snapshot"
      /\ snapshot' = Kept(keep)
      /\ IF ~arrives THEN UNCHANGED <<got, token>>
         ELSE IF p \in keep
              THEN ReadSnapshotPage(r, k, snapshot[p], token[p].after + 1)
              ELSE token' = [token EXCEPT ![p] = NoToken] /\ UNCHANGED got
      /\ UNCHANGED <<streamVars, targetVars, delivery, cursor, held>>
-----------------------------------------------------------------------------
(* Compaction *)

\* No enabled target that was there before the event still waits for it.
\* Mutant: a dead letter counts as done.
TargetsDone_DeadLetters(s) ==
  \A t \in Remotes : target[t] = "enabled" /\ s > bootstrap[t]
                       => delivery[<<t, s>>].state \in {"delivered", "dead_letter"}

TargetsDone(s) ==
  \A t \in Remotes : target[t] = "enabled" /\ s > bootstrap[t]
                       => delivery[<<t, s>>].state = "delivered"

\* What live cursors and snapshots still need.
\* Mutant: forgets that a snapshot resumes in the stream.
Pins_NoSnapshots(fresh, keep) == {cursor[r] : r \in fresh}

Pins(fresh, keep) ==
  {cursor[r] : r \in fresh} \cup {snapshot[p].resume : p \in keep}

\* An event compaction may drop, given the cursors and snapshots that live.
Compactable(s, fresh, keep) ==
  TargetsDone(s) /\ \A n \in Pins(fresh, keep) : s <= n

\* sync_compact: cursors outside fresh and snapshots outside keep are
\* expired, and the outbox loses a prefix, ended by the age or the limit
\* (through) or by the first event that is still needed.  That it
\* also expires inbound cursors is left out: they are no state of this module.
Compact(fresh, keep, through) ==
  /\ \A s \in outbox : s <= through => Compactable(s, fresh, keep)
  /\ cursor' = [r \in Remotes |-> IF r \in fresh THEN cursor[r] ELSE None]
  /\ snapshot' = Kept(keep)
  /\ outbox' = {s \in outbox : s > through}
  /\ delivery' = [d \in Rows |-> IF d[2] \in outbox /\ d[2] <= through
                                 THEN NoRow ELSE delivery[d]]
  /\ floor' = through
  /\ UNCHANGED <<next, origin, targetVars, held, token, got>>
-----------------------------------------------------------------------------
AppendNext == \E o \in Origins \cup {Local} : Append(o)
TargetNext ==
  \E t \in Remotes : \/ \E mode \in {"future", "retained"} : RegisterTarget(t, mode)
                     \/ \E enabled \in BOOLEAN : SetTargetEnabled(t, enabled)
PushNext ==
  \/ \E t \in Remotes, lease \in Leases : Claim(t, lease)
  \/ \E b \in held : \/ PeerReceives(b) \/ AckBatch(b) \/ AbandonBatch(b)
                     \/ \E how \in {"fail", "dead_letter"} : FailNext(b, how)
  \/ \E lease \in Leases : LeaseExpires(lease)
  \/ \E d \in Rows : ReplayDeadLetter(d) \/ BackoffElapses(d)
PullNext ==
  \E r \in Pullers, k \in Sessions :
     \/ DropToken(r, k)
     \/ \E arrives \in BOOLEAN :
          \/ Page(r, k, arrives)
          \/ \E keep \in SUBSET Taken :
               \/ \E pages \in 1 .. MaxSnapshotPages :
                    CreateSnapshot(r, k, keep, pages, arrives)
               \/ SnapshotPage(r, k, keep, arrives)
CompactNext ==
  \E fresh \in SUBSET {r \in Remotes : cursor[r] # None}, keep \in SUBSET Taken,
     through \in {floor} \cup outbox : Compact(fresh, keep, through)

Next == AppendNext \/ TargetNext \/ PushNext \/ PullNext \/ CompactNext

Spec == Init /\ [][Next]_vars

\* A dispatcher keeps claiming for every target (SyncDispatcher._run), clocks
\* move, and the process that holds a batch settles it or dies: nothing is
\* assumed about the peer's answers or about replay.
DispatchFairness ==
  /\ \A t \in Remotes : WF_vars(\E lease \in Leases : Claim(t, lease))
  /\ \A lease \in Leases : WF_vars(LeaseExpires(lease))
  /\ \A d \in Rows : WF_vars(BackoffElapses(d))
  /\ WF_vars(\E b \in held : AckBatch(b) \/ AbandonBatch(b)
                             \/ \E how \in {"fail", "dead_letter"} : FailNext(b, how))

FairSpec == Spec /\ DispatchFairness
-----------------------------------------------------------------------------
(* Properties *)

\* The persisted sync state, and what dispatchers and sessions hold of it,
\* keep their types.
TypeOK ==
  /\ next \in 1 .. MaxSeq + 1 /\ floor \in 0 .. MaxSeq
  /\ outbox \subseteq Seqs
  /\ origin \in [Seqs -> Origins \cup {Local, None}]
  /\ target \in [Remotes -> {"absent", "enabled", "disabled"}]
  /\ bootstrap \in [Remotes -> 0 .. MaxSeq]
  /\ delivery \in [Rows -> Row]
  /\ cursor \in [Remotes -> (0 .. MaxSeq) \cup {None}]
  /\ snapshot \in [Remotes \X Sessions ->
                     [resume : 0 .. MaxSeq, pages : 0 .. MaxSnapshotPages]]
  /\ held \subseteq Batch
  /\ token \in [Remotes \X Sessions -> Token]
  /\ got \in [Remotes -> SUBSET Seqs]

\* What _validate_sync_state demands of every pair before it is written or
\* used (a mutation that broke it would make the store unreadable), and the
\* quota on undelivered rows, however many a mutation adds at once.
StateValidates ==
  /\ outbox = floor + 1 .. next - 1
  /\ \A t \in Remotes : target[t] # "absent" => bootstrap[t] < next
  /\ \A d \in Rows :
       /\ delivery[d].state # "none" => d[2] \in outbox /\ target[d[1]] # "absent"
       /\ (delivery[d].state = "leased") = (delivery[d].lease # None)
  /\ \A r \in Remotes : cursor[r] # None => cursor[r] \in floor .. next - 1
  /\ \A p \in Taken : snapshot[p].resume \in floor .. next - 1
  /\ Cardinality(Active) <= MaxPending

\* A remote has event s: it is its own, or it received its content.
Has(r, s) == origin[s] = r \/ s \in got[r]

\* A row says "delivered" only when its peer has the event, whatever leases
\* were lost, retried or confirmed by the peer's cursor meanwhile.
DeliveredIsReceived ==
  \A d \in Rows : delivery[d].state = "delivered" => Has(d[1], d[2])

\* Progress never runs ahead of the consumer: everything up to a cursor row,
\* and up to a cursor some session still holds, has reached that remote, so
\* no listing that resumes there skips an event.
CursorIsReceived ==
  \A r \in Remotes :
     /\ cursor[r] # None => \A s \in 1 .. cursor[r] : Has(r, s)
     /\ \A k \in Sessions : token[<<r, k>>].kind = "stream" =>
          \A s \in 1 .. token[<<r, k>>].after : Has(r, s)

\* Compaction drops an event only when every enabled target that was
\* registered before it has it.
CompactionLosesNothing ==
  [][\A s \in outbox \ outbox' : \A t \in Remotes :
       target[t] = "enabled" /\ s > bootstrap[t] => Has(t, s)]_vars

\* "delivered" is final: late failures, expiries, claims and replays of a
\* batch leave the row alone until compaction removes it.
DeliveredIsFinal ==
  [][\A d \in Rows : delivery[d].state = "delivered"
       => delivery'[d].state \in {"delivered", "none"}]_vars

\* The process that holds the live lease of row d settles the row.
HolderSettles(d) ==
  \E b \in held \ held' :
    b.target = d[1] /\ d[2] \in b.seqs /\ b.lease = delivery[d].lease

\* The peer presents a cursor past the event of row d.
PeerConfirms(d) ==
  /\ delivery'[d].state = "delivered"
  /\ \E k \in Sessions :
       token[<<d[1], k>>].kind = "stream" /\ d[2] <= token[<<d[1], k>>].after

\* A live lease is respected: until it runs out nobody claims, fails, retries or
\* acknowledges the row but the process whose batch has that very lease; holders of
\* earlier leases of the row, other dispatchers and replay leave it alone.  Only the
\* peer's own cursor, and compaction once the target is disabled, end it otherwise.
LeaseIsRespected ==
  [][\A d \in Rows : delivery[d].live /\ delivery'[d] # delivery[d]
       => \/ delivery'[d] = [delivery[d] EXCEPT !.live = FALSE]
          \/ HolderSettles(d) \/ PeerConfirms(d)
          \/ delivery'[d] = NoRow /\ target[d[1]] = "disabled"]_vars

\* An event captured here for an enabled target is settled in the end,
\* delivered or handed to the operator as a dead letter, unless the target
\* is disabled: lost batches, expired leases and failures are retried, and
\* not for ever.
LocalEventsSettle ==
  \A d \in Rows :
     (delivery[d].state = "pending" /\ origin[d[2]] = Local)
        ~> (delivery[d].state \in {"delivered", "dead_letter", "none"}
            \/ target[d[1]] = "disabled")
=============================================================================
