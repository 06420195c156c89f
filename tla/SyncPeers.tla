------------------------------ MODULE SyncPeers ------------------------------
(***************************************************************************)
(* Nodes that exchange memory changes over the durable sync protocol: each *)
(* captures its own writes as versioned events, pushes them in batches     *)
(* (SyncDispatcher._send, sync_apply_batch), and reads the others' streams *)
(* page by page (SyncDispatcher.pull, sync_apply_page).                    *)
(*                                                                         *)
(* Delivery rows, leases and retention are SyncOutbox's subject: here a    *)
(* push is any batch of a node's own events that reaches a peer, at any    *)
(* time, in any grouping and any number of times, and streams are never    *)
(* compacted.  The subject here is what the receiver does with events: the *)
(* inbox, last-writer-wins versions, the graph checks and the inbound      *)
(* cursor.                                                                 *)
(***************************************************************************)
EXTENDS Integers, FiniteSets, Sequences, SequencesExt

CONSTANTS
  Nodes,       \* node ids, ordered like the ids in a version
  FunctionIds,  \* function nodes of the memory graph
  Edges,       \* graph edges
  Source,      \* the function an edge starts from
  None,
  PushLinks,   \* <<m, n>>: n is a registered push target of m
  PullLinks,   \* <<n, m>>: n pulls from m
  MaxTime,     \* bound: clock readings
  MaxEvents,   \* bound: own events of each node
  BatchSize,   \* claim_size
  PageSize     \* page_size of a pull

Entities == FunctionIds \cup Edges

ASSUME PeersAssumptions ==
  /\ Nodes \subseteq Nat
  /\ PushLinks \cup PullLinks \subseteq {p \in Nodes \X Nodes : p[1] # p[2]}
  /\ FunctionIds \cap Edges = {} /\ IsFiniteSet(Edges) /\ Source \in [Edges -> FunctionIds]
  /\ MaxEvents \in [Nodes -> Nat]
  /\ \A n \in {MaxTime, BatchSize, PageSize} : n \in Nat \ {0}

VARIABLES
  ver,      \* the event that made an entity what it is (entity_versions), or None
  log,      \* a node's outbox stream: its events in stream_seq order
  inbox,    \* foreign events a node has handled, applied or refused as conflicts
  cursor,   \* cursor[m, n]: after_seq of puller n at node m, or None
  inbound,  \* inbound[n, m]: inbound cursor of n on the stream of m
  token,    \* token[n, m]: the signed cursor n's process holds for m, or None
  behind    \* history: entities that a node has written with a version that is not
            \* newer than the one it had

vars == <<ver, log, inbox, cursor, inbound, token, behind>>

Pairs == {p \in Nodes \X Nodes : p[1] # p[2]}

Event == [ent : Entities, deleted : BOOLEAN, time : 1 .. MaxTime,
          origin : Nodes, id : Nat \ {0}]

ASSUME NoneAssumption == None \notin Event

\* SyncVersion orders by time, then origin, then event id.
Newer(e, f) ==
  \/ e.time > f.time
  \/ e.time = f.time /\ e.origin > f.origin
  \/ e.time = f.time /\ e.origin = f.origin /\ e.id > f.id

Exists(v, x) == v[x] # None /\ ~v[x].deleted
\* Edges are known by their source.  The code asks the same of the target of
\* an edge that does not lead to a scope.
EdgesFrom(v, f) == {x \in Edges : Source[x] = f /\ Exists(v, x)}

Own(n) == {e \in ToSet(log[n]) : e.origin = n}

Init ==
  /\ ver = [n \in Nodes |-> [x \in Entities |-> None]]
  /\ log = [n \in Nodes |-> <<>>]
  /\ inbox = [n \in Nodes |-> {}]
  /\ cursor = [p \in Pairs |-> None]
  /\ inbound = [p \in Pairs |-> 0]
  /\ token = [p \in Pairs |-> None]
  /\ behind = {}
-----------------------------------------------------------------------------
(* Local writes *)

\* The captured events of one mutation: entities xs in order, all stamped with the
\* reading t of the node's clock (capture_node, capture_edge: datetime.now, whatever
\* version the entity has) and each with an id of its own (uuid4).
Captured(n, xs, ids, deleted, t) ==
  [i \in DOMAIN xs |-> [ent |-> xs[i], deleted |-> deleted, time |-> t,
                        origin |-> n, id |-> ids[i]]]

FreshIds(n) == (1 .. MaxEvents[n]) \ {e.id : e \in Own(n)}

\* The events whose entity has an equal or newer version in v.
Backwards(v, events) == {e \in ToSet(events) : v[e.ent] # None /\ ~Newer(e, v[e.ent])}

\* _append_event: the stream grows and the entity takes the event's version, also
\* when the clock stood still, stepped back, or is behind a peer's.
AppendEvents(n, events) ==
  /\ log' = [log EXCEPT ![n] = @ \o events]
  /\ ver' = [ver EXCEPT ![n] = [x \in Entities |->
       IF \E i \in DOMAIN events : events[i].ent = x
       THEN events[CHOOSE i \in DOMAIN events : events[i].ent = x]
       ELSE ver[n][x]]]
  /\ behind' = behind \cup {e.ent : e \in Backwards(ver[n], events)}
  /\ UNCHANGED <<inbox, cursor, inbound, token>>

Capture(n, xs, deleted, t) ==
  \E ids \in Injection(DOMAIN xs, FreshIds(n)) :
    AppendEvents(n, Captured(n, xs, ids, deleted, t))

\* Add or update: an edge needs its source (_validate_resident_graph).
Upsert(n, x, t) ==
  /\ x \in Edges => Exists(ver[n], Source[x])
  /\ Capture(n, <<x>>, FALSE, t)

\* delete: the incident edges go first, each with a tombstone of its own.
Delete(n, x, t) ==
  /\ Exists(ver[n], x)
  /\ Capture(n, (IF x \in Edges THEN <<>> ELSE SetToSeq(EdgesFrom(ver[n], x))) \o <<x>>,
             TRUE, t)
-----------------------------------------------------------------------------
(* Applying foreign events (_apply_events) *)

\* _apply_business_event raises when an upserted edge has no source, or when
\* a function tombstone would leave edges behind.
\* Mutant: a function tombstone does not look at the edges that remain.
Applies_AnyTombstone(v, e) ==
  e.ent \in Edges => e.deleted \/ Exists(v, Source[e.ent])

Applies(v, e) ==
  IF e.ent \in Edges THEN e.deleted \/ Exists(v, Source[e.ent])
  ELSE e.deleted => EdgesFrom(v, e.ent) = {}

\* An event the node has: an equal or newer version of its entity.
\* Mutant: forgets the version of what was deleted.
Stale_NoTombstones(v, e) == Exists(v, e.ent) /\ ~Newer(e, v[e.ent])

Stale(v, e) == v[e.ent] # None /\ ~Newer(e, v[e.ent])

\* One event: known to the inbox, refused as a conflict, an error for the
\* whole mutation, or applied and relayed through the node's own stream.
\* Mutant: only conflicts are entered in the inbox.
ApplyEvent_Forgets(st, e) ==
  IF ~st.ok \/ e \in st.inbox THEN st
  ELSE IF Stale(st.ver, e) THEN [st EXCEPT !.inbox = @ \cup {e}]
  ELSE IF ~Applies(st.ver, e) THEN [st EXCEPT !.ok = FALSE]
  ELSE [st EXCEPT !.ver[e.ent] = e, !.log = Append(@, e)]

ApplyEvent(st, e) ==
  IF ~st.ok \/ e \in st.inbox THEN st
  ELSE IF Stale(st.ver, e) THEN [st EXCEPT !.inbox = @ \cup {e}]
  ELSE IF ~Applies(st.ver, e) THEN [st EXCEPT !.ok = FALSE]
  ELSE [st EXCEPT !.ver[e.ent] = e, !.log = Append(@, e), !.inbox = @ \cup {e}]

\* The events at the positions S of a stream, in order.
ApplyEvents(n, stream, S) ==
  LET st[i \in 0 .. Len(stream)] ==
        IF i = 0 THEN [ok |-> TRUE, ver |-> ver[n], log |-> log[n], inbox |-> inbox[n]]
        ELSE IF i \in S THEN ApplyEvent(st[i - 1], stream[i]) ELSE st[i - 1]
  IN  st[Len(stream)]

\* The mutation commits as a whole, or (st.ok false) leaves no trace.
CommitApplied(n, st) ==
  /\ st.ok
  /\ ver' = [ver EXCEPT ![n] = st.ver]
  /\ log' = [log EXCEPT ![n] = st.log]
  /\ inbox' = [inbox EXCEPT ![n] = st.inbox]

\* A batch of m's own events in stream order reaches n (sync_apply_batch).
\* One that raises is answered 422 and becomes m's dead letters: nothing
\* changes here, and an operator's replay is a later batch.  A batch_id seen
\* before is answered from the stored response; its events are all in the
\* inbox by then, so applying it again is the same step.
Push(m, n, S) ==
  /\ CommitApplied(n, ApplyEvents(n, log[m], {i \in DOMAIN log[m] : log[m][i] \in S}))
  /\ UNCHANGED <<cursor, inbound, token, behind>>
-----------------------------------------------------------------------------
(* Pulling *)

\* sync_page at m for puller n: where it starts, where it ends, what it holds.
After(n, m) ==
  IF token[<<n, m>>] # None THEN token[<<n, m>>].after
  ELSE IF cursor[<<m, n>>] = None THEN 0 ELSE cursor[<<m, n>>]

Upto(n, m) ==
  IF token[<<n, m>>] # None /\ token[<<n, m>>].after # token[<<n, m>>].upto
  THEN token[<<n, m>>].upto ELSE Len(log[m])

\* The first k of a set of positions.
First(k, S) == {i \in S : Cardinality({j \in S : j < i}) < k}

\* Mutant: a page hands a puller its own events back, as relayed by others.
PageRows_Echo(n, m) == {i \in DOMAIN log[m] : After(n, m) < i /\ i <= Upto(n, m)}

PageRows(n, m) ==
  {i \in DOMAIN log[m] : After(n, m) < i /\ i <= Upto(n, m) /\ log[m][i].origin # n}

PageItems(n, m) == First(PageSize, PageRows(n, m))

\* Mutant: a page moves the cursor to the end of the listing.
NextAfter_End(n, m) == Upto(n, m)

NextAfter(n, m) ==
  IF PageItems(n, m) # PageRows(n, m) THEN Max(PageItems(n, m)) ELSE Upto(n, m)

\* sync_apply_page refuses pages that step back from, or straddle, the
\* inbound cursor.
Regresses(n, m) == inbound[<<n, m>>] > NextAfter(n, m)
Overlaps(n, m) ==
  /\ \E i \in PageItems(n, m) : i <= inbound[<<n, m>>]
  /\ inbound[<<n, m>>] < NextAfter(n, m)
AlreadyConfirmed(n, m) == NextAfter(n, m) <= inbound[<<n, m>>]

\* The request reaches m, which remembers the position it was made from.
ServePage(n, m) ==
  cursor' = [cursor EXCEPT ![<<m, n>>] =
    IF @ = None THEN After(n, m) ELSE IF @ < After(n, m) THEN After(n, m) ELSE @]

KeepToken(n, m) ==
  token' = [token EXCEPT ![<<n, m>>] = [after |-> NextAfter(n, m), upto |-> Upto(n, m)]]

\* The answer is lost, or the page is refused: n keeps the cursor it had.
PullFails(n, m) ==
  /\ ServePage(n, m)
  /\ UNCHANGED <<ver, log, inbox, inbound, token, behind>>

\* The page repeats what was already confirmed: only the cursor moves on.
PullKnownPage(n, m) ==
  /\ AlreadyConfirmed(n, m) /\ ~Regresses(n, m)
  /\ ServePage(n, m) /\ KeepToken(n, m)
  /\ UNCHANGED <<ver, log, inbox, inbound, behind>>

PullPage(n, m) ==
  /\ ~Regresses(n, m) /\ ~Overlaps(n, m) /\ ~AlreadyConfirmed(n, m)
  /\ CommitApplied(n, ApplyEvents(n, log[m], PageItems(n, m)))
  /\ inbound' = [inbound EXCEPT ![<<n, m>>] = NextAfter(n, m)]
  /\ ServePage(n, m) /\ KeepToken(n, m) /\ UNCHANGED behind

\* n's puller restarts (every `memplex sync pull` is a new process): signed
\* cursors live in memory only.
Restart(n) ==
  /\ \E m \in Nodes \ {n} : token[<<n, m>>] # None
  /\ token' = [p \in Pairs |-> IF p[1] = n THEN None ELSE token[p]]
  /\ UNCHANGED <<ver, log, inbox, cursor, inbound, behind>>

Next ==
  \/ \E n \in Nodes, x \in Entities, t \in 1 .. MaxTime : Upsert(n, x, t) \/ Delete(n, x, t)
  \/ \E p \in PushLinks : \E S \in SUBSET Own(p[1]) :
       Cardinality(S) \in 1 .. BatchSize /\ Push(p[1], p[2], S)
  \/ \E p \in PullLinks :
       PullFails(p[1], p[2]) \/ PullKnownPage(p[1], p[2]) \/ PullPage(p[1], p[2])
  \/ \E n \in Nodes : Restart(n)

Spec == Init /\ [][Next]_vars
-----------------------------------------------------------------------------
(* Properties *)

\* Versions, streams, inboxes and cursors keep their types, and what a node takes in
\* from others was not written by itself.
TypeOK ==
  /\ ver \in [Nodes -> [Entities -> Event \cup {None}]]
  /\ \A n \in Nodes : log[n] \in Seq(Event)
  /\ inbox \in [Nodes -> SUBSET Event] /\ \A n \in Nodes : \A e \in inbox[n] : e.origin # n
  /\ cursor \in [Pairs -> Nat \cup {None}]
  /\ inbound \in [Pairs -> Nat]
  /\ token \in [Pairs -> [after : Nat, upto : Nat] \cup {None}]
  /\ behind \subseteq Entities

Handled(n, e) == e.origin = n \/ e \in inbox[n]

\* The events of an entity that a node has written or received.
Known(n, x) == {e \in Own(n) \cup inbox[n] : e.ent = x}

\* Nodes that know the same events of an entity hold the same version of it:
\* last-writer-wins and the inbox make the order, the grouping, the repetition and
\* the way of deliveries irrelevant.  Not of an entity that a node has written with
\* a clock behind the version it had: peers keep that version.
Converged ==
  \A n, m \in Nodes, x \in Entities \ behind :
    Known(n, x) = Known(m, x) => ver[n][x] = ver[m][x]

\* No edge outlives its source function, whatever order events arrive in.
NoDanglingEdges ==
  \A n \in Nodes, x \in Edges : Exists(ver[n], x) => Exists(ver[n], Source[x])

\* An event enters a stream once, however often it is delivered, pushed and
\* pulled: relays never echo.
AppliedOnce ==
  \A n \in Nodes : \A i, j \in DOMAIN log[n] : log[n][i] = log[n][j] => i = j

\* The inbound cursor never passes an event that was not handled: no gap.
NoGap ==
  \A p \in Pairs : \A i \in 1 .. inbound[p] :
     i \in DOMAIN log[p[2]] /\ Handled(p[1], log[p[2]][i])
=============================================================================
