--------------------------- MODULE SyncPeers_proofs ---------------------------
(***************************************************************************)
(* Theorems about SyncPeers, for any nodes, links, entities and bounds.    *)
(*                                                                         *)
(* The argument for convergence: what a node holds of an entity that       *)
(* nobody wrote behind its version is the newest of the events the node    *)
(* has written or handled, whatever order they came in; versions are       *)
(* totally ordered, because no two events of a node have one id; so nodes  *)
(* that know the same events of the entity hold the same version.  For the *)
(* cursors: every position from which a puller may resume is at or behind  *)
(* its inbound cursor, and streams only grow at their end.                 *)
(***************************************************************************)
EXTENDS SyncPeers, FiniteSetTheorems, WellFoundedInduction, TLAPS

\* What a node has written itself or handled, and what anybody has written.
Knows(n) == Own(n) \cup inbox[n]
Written == UNION {Own(n) : n \in Nodes}

\* No two events of a node have one id.
Identified ==
  \A n \in Nodes :
    \A e, f \in Own(n) : e.id = f.id => e = f

\* Streams hold what their node has written or handled; what was handled was
\* written, by another node.
StreamsOK ==
  /\ log \in [Nodes -> Seq(Event)]
  /\ \A n \in Nodes :
       /\ ToSet(log[n]) \subseteq Knows(n)
       /\ \A e \in inbox[n] : e \in Written /\ e.origin # n

\* A memory that holds the newest of some events, of each entity that nobody has
\* written behind its version.
Newest(v, K) ==
  \A x \in Entities \ behind :
    \/ v[x] = None /\ \A e \in K : e.ent # x
    \/ /\ v[x] \in K /\ v[x].ent = x
       /\ \A e \in K : e.ent = x /\ e # v[x] => Newer(v[x], e)

VersionsOK == \A n \in Nodes : Newest(ver[n], Knows(n))

\* A puller resumes at or behind its inbound cursor.
CursorsOK ==
  \A p \in Pairs :
    /\ cursor[<<p[2], p[1]>>] # None => cursor[<<p[2], p[1]>>] <= inbound[p]
    /\ token[p] # None => token[p].after <= inbound[p] /\ token[p].upto <= Len(log[p[2]])

IInv ==
  /\ TypeOK /\ Identified /\ StreamsOK /\ VersionsOK /\ CursorsOK
  /\ NoGap /\ AppliedOnce /\ NoDanglingEdges

-----------------------------------------------------------------------------
(* Events and versions *)

\* The fields of an event, and the numbers versions are compared by.
LEMMA EventFields ==
  \A e \in Event : /\ e.ent \in Entities /\ e.deleted \in BOOLEAN /\ e.time \in Nat
                   /\ e.origin \in Nodes /\ e.origin \in Nat /\ e.id \in Nat
<1>1. Nodes \subseteq Nat /\ MaxTime \in Nat
  BY PeersAssumptions DEF PeersAssumptions
<1>2. \A e \in Event : /\ e.ent \in Entities /\ e.deleted \in BOOLEAN /\ e.time \in 1 .. MaxTime
                       /\ e.origin \in Nodes /\ e.id \in Nat
  BY DEF Event
<1>3. \A i \in 1 .. MaxTime : i \in Nat
  BY <1>1
<1> QED
  BY <1>1, <1>2, <1>3

\* SyncVersion is a strict total order, up to the identity of events.
LEMMA NewerIsOrder ==
  ASSUME NEW e \in Event, NEW f \in Event, NEW g \in Event
  PROVE  /\ ~(Newer(e, f) /\ Newer(f, e))
         /\ Newer(e, f) /\ Newer(f, g) => Newer(e, g)
         /\ Newer(e, f) \/ Newer(f, e) \/ (e.origin = f.origin /\ e.id = f.id)
BY EventFields DEF Newer

\* What is known has the type of an event, and an author.
LEMMA KnownTypes ==
  ASSUME TypeOK, StreamsOK
  PROVE  /\ \A n \in Nodes : Own(n) \subseteq Event /\ Own(n) \subseteq Written
         /\ \A n \in Nodes : Knows(n) \subseteq Written
         /\ Written \subseteq Event
         /\ \A e \in Written : e.origin \in Nodes /\ e \in Own(e.origin)
<1>1. \A n \in Nodes : Own(n) \subseteq Event /\ Own(n) \subseteq Written
                       /\ \A e \in Own(n) : e.origin = n
  <2>1. ASSUME NEW n \in Nodes, NEW e \in Own(n) PROVE e \in Event /\ e.origin = n
    <3>1. log[n] \in Seq(Event)
      BY DEF TypeOK
    <3>2. PICK i \in DOMAIN log[n] : e = log[n][i]
      BY DEF Own, ToSet
    <3> QED
      BY <3>1, <3>2 DEF Own
  <2> QED
    BY <2>1 DEF Written
<1>2. Written \subseteq Event /\ \A e \in Written : e.origin \in Nodes /\ e \in Own(e.origin)
  BY <1>1 DEF Written
<1>3. \A n \in Nodes : Knows(n) \subseteq Written
  BY <1>1 DEF Knows, StreamsOK
<1> QED
  BY <1>1, <1>2, <1>3

\* Two events of one origin and number are one event.
LEMMA OneNumber ==
  ASSUME TypeOK, StreamsOK, Identified
  PROVE  \A e, f \in Written : e.origin = f.origin /\ e.id = f.id => e = f
<1>1. \A e \in Written : e.origin \in Nodes /\ e \in Own(e.origin)
  BY KnownTypes
<1> QED
  BY <1>1 DEF Identified

-----------------------------------------------------------------------------
(* Applying events *)

\* What a node may make of its memory, stream and inbox by applying events.
Accepts(n, st) ==
  /\ st \in [ok : BOOLEAN, ver : [Entities -> Event \cup {None}], log : Seq(Event),
             inbox : SUBSET Event]
  /\ Len(log[n]) <= Len(st.log) /\ \A i \in DOMAIN log[n] : st.log[i] = log[n][i]
  /\ {e \in ToSet(st.log) : e.origin = n} = Own(n)
  /\ ToSet(st.log) \subseteq Own(n) \cup st.inbox
  /\ \A i, j \in DOMAIN st.log : st.log[i] = st.log[j] => i = j
  /\ inbox[n] \subseteq st.inbox /\ \A e \in st.inbox : e \in Written /\ e.origin # n
  /\ Newest(st.ver, Own(n) \cup st.inbox)
  /\ \A x \in Edges : Exists(st.ver, x) => Exists(st.ver, Source[x])

\* The state a mutation starts from.
Resident(n) == [ok |-> TRUE, ver |-> ver[n], log |-> log[n], inbox |-> inbox[n]]

\* Nothing applied yet.
LEMMA AcceptsNothing ==
  ASSUME IInv, NEW n \in Nodes
  PROVE  Accepts(n, Resident(n))
<1>1. PICK st : st = Resident(n)
  OBVIOUS
<1>2. st.ok = TRUE /\ st.ver = ver[n] /\ st.log = log[n] /\ st.inbox = inbox[n]
  BY <1>1 DEF Resident
<1>3. st \in [ok : BOOLEAN, ver : [Entities -> Event \cup {None}], log : Seq(Event),
              inbox : SUBSET Event]
  BY <1>1 DEF Resident, IInv, TypeOK
<1>4. Len(log[n]) \in Nat
  BY DEF IInv, TypeOK
<1>5. Newest(st.ver, Own(n) \cup st.inbox)
  BY <1>2 DEF IInv, VersionsOK, Knows
<1>6. {e \in ToSet(st.log) : e.origin = n} = Own(n) /\ ToSet(st.log) \subseteq Own(n) \cup st.inbox
  BY <1>2 DEF Own, IInv, StreamsOK, Knows
<1>7. \A i, j \in DOMAIN st.log : st.log[i] = st.log[j] => i = j
  BY <1>2 DEF IInv, AppliedOnce
<1>8. \A e \in st.inbox : e \in Written /\ e.origin # n
  BY <1>2 DEF IInv, StreamsOK
<1>9. \A x \in Edges : Exists(st.ver, x) => Exists(st.ver, Source[x])
  BY <1>2 DEF IInv, NoDanglingEdges
<1> QED
  BY <1>1, <1>2, <1>3, <1>4, <1>5, <1>6, <1>7, <1>8, <1>9 DEF Accepts

\* An event of another node that a memory has not seen yet.
LEMMA NewcomerFacts ==
  ASSUME IInv, NEW n \in Nodes, NEW st, Accepts(n, st), NEW e \in Written, e.origin # n,
         e \notin st.inbox
  PROVE  /\ e \in Event /\ e.ent \in Entities /\ e \notin Own(n) /\ e \notin ToSet(st.log)
         /\ Own(n) \cup st.inbox \subseteq Written /\ Written \subseteq Event
         /\ \A x \in Entities : st.ver[x] \in Event \cup {None}
         /\ None \notin Event
<1>1. e \in Event /\ Own(n) \subseteq Written /\ Written \subseteq Event
  BY KnownTypes DEF IInv
<1>2. \A f \in Own(n) : f.origin = n
  BY DEF Own
<1>3. e \notin Own(n) /\ e \notin ToSet(st.log)
  BY <1>2 DEF Accepts
<1> QED
  BY <1>1, <1>3, EventFields, NoneAssumption DEF Accepts, NoneAssumption

\* A conflict is entered in the inbox: what the node has is newer.
LEMMA RefusesEvent ==
  ASSUME IInv, NEW n \in Nodes, NEW st, Accepts(n, st), NEW e \in Written, e.origin # n,
         e \notin st.inbox, Stale(st.ver, e),
         NEW st2, st2 = [st EXCEPT !.inbox = @ \cup {e}]
  PROVE  Accepts(n, st2)
<1>1. /\ e \in Event /\ e.ent \in Entities /\ e \notin Own(n) /\ e \notin ToSet(st.log)
      /\ Own(n) \cup st.inbox \subseteq Written /\ Written \subseteq Event
      /\ \A x \in Entities : st.ver[x] \in Event \cup {None}
      /\ None \notin Event
  BY NewcomerFacts
<1>2. /\ st \in [ok : BOOLEAN, ver : [Entities -> Event \cup {None}], log : Seq(Event),
                 inbox : SUBSET Event]
  BY DEF Accepts
<1>3. st2.ok = st.ok /\ st2.ver = st.ver /\ st2.log = st.log /\ st2.inbox = st.inbox \cup {e}
  BY <1>2
<1>4. st2 \in [ok : BOOLEAN, ver : [Entities -> Event \cup {None}], log : Seq(Event),
               inbox : SUBSET Event]
  BY <1>1, <1>2
<1>5. Newest(st2.ver, Own(n) \cup st2.inbox)
  <2>1. Newest(st.ver, Own(n) \cup st.inbox)
    BY DEF Accepts
  <2>2. ASSUME NEW x \in Entities \ behind, x # e.ent
        PROVE  \/ st.ver[x] = None /\ \A f \in Own(n) \cup st2.inbox : f.ent # x
               \/ /\ st.ver[x] \in Own(n) \cup st2.inbox /\ st.ver[x].ent = x
                  /\ \A f \in Own(n) \cup st2.inbox : f.ent = x /\ f # st.ver[x] => Newer(st.ver[x], f)
    BY <1>3, <2>1, <2>2 DEF Newest
  <2> SUFFICES ASSUME e.ent \notin behind
               PROVE  \/ st.ver[e.ent] = None /\ \A f \in Own(n) \cup st2.inbox : f.ent # e.ent
                      \/ /\ st.ver[e.ent] \in Own(n) \cup st2.inbox /\ st.ver[e.ent].ent = e.ent
                         /\ \A f \in Own(n) \cup st2.inbox :
                              f.ent = e.ent /\ f # st.ver[e.ent] => Newer(st.ver[e.ent], f)
    BY <1>3, <2>2 DEF Newest
  <2>3. PICK v : v = st.ver[e.ent]
    OBVIOUS
  <2>4. v \in Own(n) \cup st.inbox /\ v.ent = e.ent /\ ~Newer(e, v)
        /\ \A f \in Own(n) \cup st.inbox : f.ent = e.ent /\ f # v => Newer(v, f)
    BY <1>1, <2>1, <2>3 DEF Newest, Stale
  <2>5. Newer(v, e)
    <3>1. v \in Event /\ v \in Written /\ v # e
      BY <1>1, <2>4
    <3>2. ~(e.origin = v.origin /\ e.id = v.id)
      BY <3>1, OneNumber DEF IInv
    <3> QED
      BY <1>1, <2>4, <3>1, <3>2, NewerIsOrder
  <2>6. v \in Own(n) \cup st2.inbox /\ v.ent = e.ent
        /\ \A f \in Own(n) \cup st2.inbox : f.ent = e.ent /\ f # v => Newer(v, f)
    BY <1>3, <2>4, <2>5
  <2> QED
    BY <2>3, <2>6
<1>6. \A f \in st2.inbox : f \in Written /\ f.origin # n
  BY <1>3 DEF Accepts
<1> QED
  BY <1>3, <1>4, <1>5, <1>6 DEF Accepts

\* An applied event becomes the version of its entity.
LEMMA TakesVersion ==
  ASSUME IInv, NEW n \in Nodes, NEW st, Accepts(n, st), NEW e \in Written, e.origin # n,
         e \notin st.inbox, ~Stale(st.ver, e), Applies(st.ver, e),
         NEW v2, v2 = [st.ver EXCEPT ![e.ent] = e]
  PROVE  /\ v2 \in [Entities -> Event \cup {None}]
         /\ Newest(v2, Own(n) \cup (st.inbox \cup {e}))
         /\ \A x \in Edges : Exists(v2, x) => Exists(v2, Source[x])
<1>1. /\ e \in Event /\ e.ent \in Entities /\ e \notin Own(n) /\ e \notin ToSet(st.log)
      /\ Own(n) \cup st.inbox \subseteq Written /\ Written \subseteq Event
      /\ \A x \in Entities : st.ver[x] \in Event \cup {None}
      /\ None \notin Event
  BY NewcomerFacts
<1>2. st.ver \in [Entities -> Event \cup {None}]
  BY DEF Accepts
<1>3. v2 \in [Entities -> Event \cup {None}] /\ v2[e.ent] = e
      /\ \A x \in Entities : x # e.ent => v2[x] = st.ver[x]
  BY <1>1, <1>2
<1>4. st.ver[e.ent] # None => Newer(e, st.ver[e.ent])
  BY DEF Stale
<1>5. Newest(v2, Own(n) \cup (st.inbox \cup {e}))
  <2>1. Newest(st.ver, Own(n) \cup st.inbox)
    BY DEF Accepts
  <2>2. ASSUME NEW x \in Entities \ behind, x # e.ent
        PROVE  \/ v2[x] = None /\ \A f \in Own(n) \cup (st.inbox \cup {e}) : f.ent # x
               \/ /\ v2[x] \in Own(n) \cup (st.inbox \cup {e}) /\ v2[x].ent = x
                  /\ \A f \in Own(n) \cup (st.inbox \cup {e}) :
                       f.ent = x /\ f # v2[x] => Newer(v2[x], f)
    BY <1>3, <2>1, <2>2 DEF Newest
  <2>3. ASSUME NEW f \in Own(n) \cup (st.inbox \cup {e}), f.ent = e.ent, f # e,
               e.ent \notin behind
        PROVE  Newer(e, f)
    <3>1. f \in Own(n) \cup st.inbox /\ f \in Event
      BY <1>1, <2>3
    <3>2. PICK w : w = st.ver[e.ent]
      OBVIOUS
    <3>3. w # None /\ w \in Own(n) \cup st.inbox /\ (f # w => Newer(w, f))
      BY <1>1, <2>1, <2>3, <3>1, <3>2 DEF Newest
    <3>4. w \in Event /\ Newer(e, w)
      BY <1>1, <1>4, <3>2, <3>3
    <3> QED
      BY <1>1, <3>1, <3>3, <3>4, NewerIsOrder
  <2> QED
    BY <1>3, <2>2, <2>3 DEF Newest
<1>6. ASSUME NEW x \in Edges, Exists(v2, x) PROVE Exists(v2, Source[x])
  <2>1. x \in Entities /\ Source[x] \in FunctionIds /\ Source[x] \in Entities
        /\ FunctionIds \cap Edges = {}
    BY PeersAssumptions DEF PeersAssumptions, Entities
  <2>2. \A y \in Edges : Exists(st.ver, y) => Exists(st.ver, Source[y])
    BY DEF Accepts
  <2>3. CASE x = e.ent
    <3>1. e.ent \in Edges /\ ~e.deleted
      BY <1>3, <1>6, <2>3 DEF Exists
    <3>2. Exists(st.ver, Source[x])
      BY <2>3, <3>1 DEF Applies
    <3> QED
      BY <1>3, <2>1, <2>3, <3>2 DEF Exists
  <2>4. CASE x # e.ent
    <3>1. Exists(st.ver, x) /\ Exists(st.ver, Source[x])
      BY <1>3, <1>6, <2>1, <2>2, <2>4 DEF Exists
    <3>2. CASE Source[x] # e.ent
      BY <1>3, <2>1, <3>1, <3>2 DEF Exists
    <3>3. CASE Source[x] = e.ent
      <4>1. x \in EdgesFrom(st.ver, e.ent)
        BY <3>1, <3>3 DEF EdgesFrom
      <4>2. e.ent \notin Edges /\ ~e.deleted
        BY <2>1, <3>3, <4>1, <1>1 DEF Applies, Event
      <4> QED
        BY <1>1, <1>3, <3>3, <4>2 DEF Exists
    <3> QED
      BY <3>2, <3>3
  <2> QED
    BY <2>3, <2>4
<1> QED
  BY <1>3, <1>5, <1>6

\* An applied event enters stream and inbox, and becomes a version.
LEMMA TakesEvent ==
  ASSUME IInv, NEW n \in Nodes, NEW st, Accepts(n, st), NEW e \in Written, e.origin # n,
         e \notin st.inbox, ~Stale(st.ver, e), Applies(st.ver, e),
         NEW st2, st2 = [st EXCEPT !.ver[e.ent] = e, !.log = Append(@, e), !.inbox = @ \cup {e}]
  PROVE  Accepts(n, st2)
<1>1. /\ e \in Event /\ e.ent \in Entities /\ e \notin Own(n) /\ e \notin ToSet(st.log)
  BY NewcomerFacts
<1>2. PICK v2 : v2 = [st.ver EXCEPT ![e.ent] = e]
  OBVIOUS
<1>3. /\ v2 \in [Entities -> Event \cup {None}]
      /\ Newest(v2, Own(n) \cup (st.inbox \cup {e}))
      /\ \A x \in Edges : Exists(v2, x) => Exists(v2, Source[x])
  BY <1>2, TakesVersion
<1>4. /\ st \in [ok : BOOLEAN, ver : [Entities -> Event \cup {None}], log : Seq(Event),
                 inbox : SUBSET Event]
  BY DEF Accepts
<1>5. PICK l : l = Append(st.log, e)
  OBVIOUS
<1>6. st2.ok = st.ok /\ st2.ver = v2 /\ st2.log = l /\ st2.inbox = st.inbox \cup {e}
  BY <1>2, <1>4, <1>5
<1>7. /\ l \in Seq(Event) /\ Len(l) = Len(st.log) + 1 /\ Len(st.log) \in Nat /\ l[Len(l)] = e
      /\ \A i \in DOMAIN st.log : i \in DOMAIN l /\ l[i] = st.log[i]
      /\ \A i \in DOMAIN l : i \in DOMAIN st.log \/ i = Len(l)
  BY <1>1, <1>4, <1>5
<1>8. st2 \in [ok : BOOLEAN, ver : [Entities -> Event \cup {None}], log : Seq(Event),
               inbox : SUBSET Event]
  <2>1. st2 = [ok |-> st.ok, ver |-> v2, log |-> l, inbox |-> st.inbox \cup {e}]
    BY <1>2, <1>4, <1>5
  <2> QED
    BY <2>1, <1>1, <1>3, <1>4, <1>7
<1>9. ToSet(l) = ToSet(st.log) \cup {e}
  <2>1. Len(l) \in DOMAIN l
    BY <1>7
  <2> QED
    BY <1>7, <2>1 DEF ToSet
<1>10. {f \in ToSet(st2.log) : f.origin = n} = Own(n)
       /\ ToSet(st2.log) \subseteq Own(n) \cup st2.inbox
  <2>1. {f \in ToSet(st.log) : f.origin = n} = Own(n) /\ ToSet(st.log) \subseteq Own(n) \cup st.inbox
    BY DEF Accepts
  <2> QED
    BY <2>1, <1>6, <1>9
<1>11. \A i, j \in DOMAIN st2.log : st2.log[i] = st2.log[j] => i = j
  <2>1. \A i, j \in DOMAIN st.log : st.log[i] = st.log[j] => i = j
    BY DEF Accepts
  <2>2. \A i \in DOMAIN st.log : l[i] # e
    BY <1>1, <1>7 DEF ToSet
  <2>3. \A i, j \in DOMAIN l : l[i] = l[j] => i = j
    BY <1>7, <2>1, <2>2
  <2> QED
    BY <1>6, <2>3
<1>12. Len(log[n]) <= Len(st2.log) /\ \A i \in DOMAIN log[n] : st2.log[i] = log[n][i]
  <2>1. Len(log[n]) <= Len(st.log) /\ (\A i \in DOMAIN log[n] : st.log[i] = log[n][i])
        /\ Len(log[n]) \in Nat /\ DOMAIN log[n] = 1 .. Len(log[n])
    BY DEF Accepts, IInv, TypeOK
  <2>2. \A i \in DOMAIN log[n] : i \in DOMAIN st.log
    BY <1>4, <1>7, <2>1
  <2> QED
    BY <1>6, <1>7, <2>1, <2>2
<1>13. inbox[n] \subseteq st2.inbox /\ \A f \in st2.inbox : f \in Written /\ f.origin # n
  BY <1>6 DEF Accepts
<1> QED
  BY <1>3, <1>6, <1>8, <1>10, <1>11, <1>12, <1>13 DEF Accepts

\* Whatever becomes of an event of another node, the memory stays well formed;
\* and unless the mutation fails the inbox has it.
LEMMA AppliesEvent ==
  ASSUME IInv, NEW n \in Nodes, NEW st, Accepts(n, st), NEW e \in Written, e.origin # n
  PROVE  /\ Accepts(n, ApplyEvent(st, e)) /\ st.inbox \subseteq ApplyEvent(st, e).inbox
         /\ ApplyEvent(st, e).ok => st.ok /\ e \in ApplyEvent(st, e).inbox
<1>1. st \in [ok : BOOLEAN, ver : [Entities -> Event \cup {None}], log : Seq(Event),
              inbox : SUBSET Event]
  BY DEF Accepts
<1>2. CASE ~st.ok \/ e \in st.inbox
  BY <1>2 DEF ApplyEvent
<1>3. CASE st.ok /\ e \notin st.inbox /\ Stale(st.ver, e)
  <2>1. PICK st2 : st2 = [st EXCEPT !.inbox = @ \cup {e}]
    OBVIOUS
  <2>2. ApplyEvent(st, e) = st2
    BY <1>3, <2>1 DEF ApplyEvent
  <2>3. Accepts(n, st2)
    BY <1>3, <2>1, RefusesEvent
  <2>4. st2.inbox = st.inbox \cup {e} /\ st2.ok = st.ok
    BY <1>1, <2>1
  <2> QED
    BY <1>3, <2>2, <2>3, <2>4
<1>4. CASE st.ok /\ e \notin st.inbox /\ ~Stale(st.ver, e) /\ ~Applies(st.ver, e)
  <2>1. PICK st2 : st2 = [st EXCEPT !.ok = FALSE]
    OBVIOUS
  <2>2. ApplyEvent(st, e) = st2
    BY <1>4, <2>1 DEF ApplyEvent
  <2>3. st2.ver = st.ver /\ st2.log = st.log /\ st2.inbox = st.inbox /\ st2.ok = FALSE
        /\ st2 \in [ok : BOOLEAN, ver : [Entities -> Event \cup {None}], log : Seq(Event),
                    inbox : SUBSET Event]
    BY <1>1, <2>1
  <2>4. Accepts(n, st2)
    BY <2>3 DEF Accepts
  <2> QED
    BY <2>2, <2>3, <2>4
<1>5. CASE st.ok /\ e \notin st.inbox /\ ~Stale(st.ver, e) /\ Applies(st.ver, e)
  <2>1. PICK st2 : st2 = [st EXCEPT !.ver[e.ent] = e, !.log = Append(@, e), !.inbox = @ \cup {e}]
    OBVIOUS
  <2>2. ApplyEvent(st, e) = st2
    BY <1>5, <2>1 DEF ApplyEvent
  <2>3. Accepts(n, st2)
    BY <1>5, <2>1, TakesEvent
  <2>4. st2.inbox = st.inbox \cup {e} /\ st2.ok = st.ok
    BY <1>1, <2>1
  <2> QED
    BY <1>5, <2>2, <2>3, <2>4
<1> QED
  BY <1>2, <1>3, <1>4, <1>5

\* A set of naturals that has zero and every successor has them all.
LEMMA SetInduction ==
  ASSUME NEW T, 0 \in T, \A i \in Nat : i \in T => i + 1 \in T
  PROVE  Nat \subseteq T
<1> DEFINE R == OpToRel(<, Nat)
           B == Nat \ T
<1>1. SUFFICES ASSUME B # {} PROVE FALSE
  OBVIOUS
<1>2. IsWellFoundedOn(R, Nat)
  BY NatLessThanWellFounded
<1>3. PICK i \in B : \A j \in B : <<j, i>> \notin R
  <2> HIDE DEF R
  <2> QED
    BY <1>1, <1>2, WFMin
<1>4. i \in Nat /\ i # 0 /\ i - 1 \in Nat /\ (i - 1) + 1 = i
  <2>1. i \in Nat /\ i \notin T
    OBVIOUS
  <2>2. i # 0
    BY <2>1
  <2> QED
    BY <2>1, <2>2
<1>5. i - 1 \in B
  BY <1>3, <1>4
<1>6. <<i - 1, i>> \in R
  BY <1>4 DEF OpToRel
<1> QED
  BY <1>3, <1>5, <1>6

\* The states a mutation goes through, one per position of the stream.
IsRun(n, stream, S, st) ==
  /\ st[0] = Resident(n)
  /\ \A i \in 1 .. Len(stream) :
       st[i] = IF i \in S THEN ApplyEvent(st[i - 1], stream[i]) ELSE st[i - 1]
  /\ ApplyEvents(n, stream, S) = st[Len(stream)]

\* ApplyEvents has such a run.
LEMMA ApplyEventsRuns ==
  ASSUME NEW n, NEW stream, Len(stream) \in Nat, NEW S
  PROVE  \E st : IsRun(n, stream, S, st)
<1> DEFINE Step(g, i) == IF i = 0 THEN Resident(n)
                         ELSE IF i \in S THEN ApplyEvent(g[i - 1], stream[i]) ELSE g[i - 1]
           T == {k \in Nat : \E g : g = [i \in 0 .. k |-> Step(g, i)]}
           N == Len(stream)
<1>1. 0 \in T
  <2>1. PICK g : g = [i \in 0 .. 0 |-> Resident(n)]
    OBVIOUS
  <2>2. g = [i \in 0 .. 0 |-> Step(g, i)]
    BY <2>1
  <2> QED
    BY <2>2
<1>2. ASSUME NEW k \in Nat, k \in T PROVE k + 1 \in T
  <2>1. PICK g : g = [i \in 0 .. k |-> Step(g, i)]
    BY <1>2
  <2>2. PICK h : h = [i \in 0 .. k + 1 |-> IF i <= k THEN g[i] ELSE Step(g, i)]
    OBVIOUS
  <2>3. \A i \in 0 .. k + 1 : h[i] = Step(h, i)
    <3>1. ASSUME NEW i \in 0 .. k + 1, i # 0 PROVE h[i - 1] = g[i - 1]
      BY <2>2, <3>1
    <3>2. \A i \in 0 .. k : g[i] = Step(g, i)
      BY <2>1
    <3>3. \A i \in 0 .. k + 1 : h[i] = Step(g, i)
      <4> HIDE DEF Step
      <4> QED
        BY <2>2, <3>2
    <3> QED
      BY <3>1, <3>3
  <2>4. h = [i \in 0 .. k + 1 |-> Step(h, i)]
    <3> HIDE DEF Step
    <3> QED
      BY <2>2, <2>3
  <2> QED
    BY <2>4
<1>3. N \in T
  <2> HIDE DEF T
  <2> QED
    BY <1>1, <1>2, SetInduction
<1>4. PICK st : st = CHOOSE g : g = [i \in 0 .. N |-> Step(g, i)]
  OBVIOUS
<1>5. st = [i \in 0 .. N |-> Step(st, i)]
  <2> HIDE DEF Step
  <2> QED
    BY <1>3, <1>4
<1>6. ApplyEvents(n, stream, S) = st[N]
  BY <1>4 DEF ApplyEvents, Resident
<1>7. \A i \in 0 .. N : st[i] = Step(st, i)
  <2> HIDE DEF Step
  <2> QED
    BY <1>5
<1>8. st[0] = Resident(n)
  BY <1>7
<1>9. \A i \in 1 .. N : st[i] = IF i \in S THEN ApplyEvent(st[i - 1], stream[i]) ELSE st[i - 1]
  BY <1>7
<1> QED
  BY <1>6, <1>8, <1>9 DEF IsRun

\* A mutation that applies events of other nodes leaves the memory well formed,
\* and when it does not fail the inbox has them all.
LEMMA AppliesEvents ==
  ASSUME IInv, NEW n \in Nodes, NEW stream \in Seq(Event), NEW S,
         \A i \in S : i \in DOMAIN stream => stream[i] \in Written /\ stream[i].origin # n
  PROVE  /\ Accepts(n, ApplyEvents(n, stream, S))
         /\ ApplyEvents(n, stream, S).ok =>
              \A i \in S : i \in DOMAIN stream => stream[i] \in ApplyEvents(n, stream, S).inbox
<1>1. Len(stream) \in Nat /\ DOMAIN stream = 1 .. Len(stream)
  OBVIOUS
<1>2. PICK st : IsRun(n, stream, S, st)
  BY <1>1, ApplyEventsRuns
<1>3. st[0] = Resident(n) /\ ApplyEvents(n, stream, S) = st[Len(stream)]
  BY <1>2 DEF IsRun
<1> DEFINE Done(i) == /\ Accepts(n, st[i])
                      /\ st[i].ok => \A j \in S : j \in 1 .. i => stream[j] \in st[i].inbox
           T == {i \in Nat : i <= Len(stream) => Done(i)}
<1>4. Done(0)
  BY <1>3, AcceptsNothing
<1>5. ASSUME NEW i \in Nat, i <= Len(stream) => Done(i), i + 1 <= Len(stream)
      PROVE  Done(i + 1)
  <2>1. Accepts(n, st[i]) /\ (st[i].ok => \A j \in S : j \in 1 .. i => stream[j] \in st[i].inbox)
    BY <1>1, <1>5
  <2>2. PICK k : k = i + 1
    OBVIOUS
  <2>3. k \in 1 .. Len(stream) /\ k \in DOMAIN stream /\ k - 1 = i /\ \A j \in 1 .. k : j \in 1 .. i \/ j = k
    BY <1>1, <1>5, <2>2
  <2>4. st[k] = IF k \in S THEN ApplyEvent(st[i], stream[k]) ELSE st[i]
    BY <1>2, <2>3 DEF IsRun
  <2>5. CASE k \in S
    <3>1. PICK e, s : e = stream[k] /\ s = st[i]
      OBVIOUS
    <3>2. e \in Written /\ e.origin # n /\ st[k] = ApplyEvent(s, e) /\ Accepts(n, s)
      BY <2>1, <2>3, <2>4, <2>5, <3>1
    <3>3. /\ Accepts(n, st[k]) /\ s.inbox \subseteq st[k].inbox
          /\ st[k].ok => s.ok /\ e \in st[k].inbox
      BY <3>2, AppliesEvent
    <3> QED
      BY <2>1, <2>2, <2>3, <3>1, <3>3
  <2>6. CASE k \notin S
    BY <2>1, <2>2, <2>3, <2>4, <2>6
  <2> QED
    BY <2>5, <2>6
<1>6. Done(Len(stream))
  <2> HIDE DEF Done
  <2>1. 0 \in T /\ \A i \in Nat : i \in T => i + 1 \in T
    BY <1>1, <1>4, <1>5
  <2> HIDE DEF T
  <2>2. Len(stream) \in T
    BY <1>1, <2>1, SetInduction
  <2> QED
    BY <1>1, <2>2 DEF T
<1> QED
  BY <1>1, <1>3, <1>6

\* What was written, and by whom, after a node has applied events.
LEMMA CommitKeepsWritten ==
  ASSUME IInv, NEW n \in Nodes, NEW st, Accepts(n, st), CommitApplied(n, st)
  PROVE  /\ ver' \in [Nodes -> [Entities -> Event \cup {None}]] /\ ver'[n] = st.ver
         /\ log' \in [Nodes -> Seq(Event)] /\ log'[n] = st.log
         /\ inbox' \in [Nodes -> SUBSET Event] /\ inbox'[n] = st.inbox
         /\ \A m \in Nodes : m # n => ver'[m] = ver[m] /\ log'[m] = log[m] /\ inbox'[m] = inbox[m]
         /\ \A m \in Nodes : Own(m)' = Own(m)
         /\ Written' = Written
<1>1. /\ ver \in [Nodes -> [Entities -> Event \cup {None}]] /\ log \in [Nodes -> Seq(Event)]
      /\ inbox \in [Nodes -> SUBSET Event]
  BY DEF IInv, TypeOK, StreamsOK
<1>2. /\ st.ver \in [Entities -> Event \cup {None}] /\ st.log \in Seq(Event)
      /\ st.inbox \in SUBSET Event
  BY DEF Accepts
<1>3. /\ ver' = [ver EXCEPT ![n] = st.ver] /\ log' = [log EXCEPT ![n] = st.log]
      /\ inbox' = [inbox EXCEPT ![n] = st.inbox]
  BY DEF CommitApplied
<1>4. /\ ver' \in [Nodes -> [Entities -> Event \cup {None}]] /\ ver'[n] = st.ver
      /\ \A m \in Nodes : m # n => ver'[m] = ver[m]
  BY <1>1, <1>2, <1>3
<1>5. /\ log' \in [Nodes -> Seq(Event)] /\ log'[n] = st.log
      /\ \A m \in Nodes : m # n => log'[m] = log[m]
  BY <1>1, <1>2, <1>3
<1>6. /\ inbox' \in [Nodes -> SUBSET Event] /\ inbox'[n] = st.inbox
      /\ \A m \in Nodes : m # n => inbox'[m] = inbox[m]
  BY <1>1, <1>2, <1>3
<1>7. ASSUME NEW m \in Nodes PROVE Own(m)' = Own(m)
  <2>1. CASE m = n
    <3>1. Own(m)' = {e \in ToSet(st.log) : e.origin = n}
      BY <1>5, <2>1 DEF Own
    <3> QED
      BY <2>1, <3>1 DEF Accepts
  <2>2. CASE m # n
    BY <1>5, <2>2 DEF Own
  <2> QED
    BY <2>1, <2>2
<1>8. Written' = Written
  BY <1>7 DEF Written
<1> QED
  BY <1>4, <1>5, <1>6, <1>7, <1>8

\* The part of the invariant that is about memories and streams.
MemoryOK ==
  /\ ver \in [Nodes -> [Entities -> Event \cup {None}]] /\ inbox \in [Nodes -> SUBSET Event]
  /\ behind \subseteq Entities
  /\ Identified /\ StreamsOK /\ VersionsOK /\ AppliedOnce /\ NoDanglingEdges

\* Streams grow at their end, and what was handled stays handled.
Grows ==
  \A m \in Nodes :
    /\ Len(log[m]) <= Len(log'[m]) /\ \A i \in DOMAIN log[m] : log'[m][i] = log[m][i]
    /\ inbox[m] \subseteq inbox'[m]

\* Applying events keeps all of it.
LEMMA CommitKeepsMemory ==
  ASSUME IInv, NEW n \in Nodes, NEW st, Accepts(n, st), CommitApplied(n, st),
         UNCHANGED behind
  PROVE  MemoryOK' /\ Grows
<1>1. /\ ver' \in [Nodes -> [Entities -> Event \cup {None}]] /\ ver'[n] = st.ver
      /\ log' \in [Nodes -> Seq(Event)] /\ log'[n] = st.log
      /\ inbox' \in [Nodes -> SUBSET Event] /\ inbox'[n] = st.inbox
      /\ \A m \in Nodes : m # n => ver'[m] = ver[m] /\ log'[m] = log[m] /\ inbox'[m] = inbox[m]
      /\ \A m \in Nodes : Own(m)' = Own(m)
      /\ Written' = Written
  BY CommitKeepsWritten
<1>2. /\ log \in [Nodes -> Seq(Event)]
      /\ \A m \in Nodes : /\ ToSet(log[m]) \subseteq Knows(m)
                          /\ \A e \in inbox[m] : e \in Written /\ e.origin # m
  BY DEF IInv, StreamsOK
<1>3. \A m \in Nodes : m # n => Knows(m)' = Knows(m)
  BY <1>1 DEF Knows
<1>4. Knows(n)' = Own(n) \cup st.inbox
  BY <1>1 DEF Knows
<1>5. Identified'
  <2>1. \A m \in Nodes : \A e, f \in Own(m)' : e.id = f.id => e = f
    BY <1>1 DEF IInv, Identified
  <2> QED
    BY <2>1 DEF Identified
<1>6. StreamsOK'
  <2>1. ASSUME NEW m \in Nodes
        PROVE  /\ ToSet(log'[m]) \subseteq Knows(m)'
               /\ \A e \in inbox'[m] : e \in Written' /\ e.origin # m
    <3>1. CASE m = n
      BY <1>1, <1>4, <3>1 DEF Accepts
    <3>2. CASE m # n
      BY <1>1, <1>2, <1>3, <3>2
    <3> QED
      BY <3>1, <3>2
  <2> QED
    BY <1>1, <2>1 DEF StreamsOK
<1>7. VersionsOK'
  <2>1. ASSUME NEW m \in Nodes PROVE Newest(ver'[m], Knows(m)')
    <3>1. CASE m = n
      BY <1>1, <1>4, <2>1, <3>1 DEF Accepts
    <3>2. CASE m # n
      BY <1>1, <1>3, <2>1, <3>2 DEF IInv, VersionsOK
    <3> QED
      BY <3>1, <3>2
  <2>2. \A m \in Nodes : Newest(ver[m], Knows(m))' <=> Newest(ver'[m], Knows(m)')
    BY DEF Newest
  <2> QED
    BY <2>1, <2>2 DEF VersionsOK
<1>8. AppliedOnce'
  <2>1. ASSUME NEW m \in Nodes PROVE \A i, j \in DOMAIN log'[m] : log'[m][i] = log'[m][j] => i = j
    <3>1. CASE m = n
      BY <1>1, <3>1 DEF Accepts
    <3>2. CASE m # n
      BY <1>1, <3>2 DEF IInv, AppliedOnce
    <3> QED
      BY <3>1, <3>2
  <2> QED
    BY <2>1 DEF AppliedOnce
<1>9. NoDanglingEdges'
  <2>1. ASSUME NEW m \in Nodes, NEW x \in Edges, Exists(ver'[m], x) PROVE Exists(ver'[m], Source[x])
    <3>1. CASE m = n
      BY <1>1, <2>1, <3>1 DEF Accepts
    <3>2. CASE m # n
      BY <1>1, <2>1, <3>2 DEF IInv, NoDanglingEdges
    <3> QED
      BY <3>1, <3>2
  <2>2. \A m \in Nodes, x \in Edges :
          (Exists(ver[m], x)' <=> Exists(ver'[m], x)) /\ (Exists(ver[m], Source[x])' <=> Exists(ver'[m], Source[x]))
    BY DEF Exists
  <2> QED
    BY <2>1, <2>2 DEF NoDanglingEdges
<1>10. Grows
  <2>1. ASSUME NEW m \in Nodes
        PROVE  /\ Len(log[m]) <= Len(log'[m]) /\ \A i \in DOMAIN log[m] : log'[m][i] = log[m][i]
               /\ inbox[m] \subseteq inbox'[m]
    <3>1. CASE m = n
      BY <1>1, <3>1 DEF Accepts
    <3>2. CASE m # n
      <4>1. Len(log[m]) \in Nat
        BY <1>2
      <4> QED
        BY <1>1, <3>2, <4>1
    <3> QED
      BY <3>1, <3>2
  <2> QED
    BY <2>1 DEF Grows
<1>11. behind' \subseteq Entities
  BY DEF IInv, TypeOK
<1> QED
  BY <1>1, <1>5, <1>6, <1>7, <1>8, <1>9, <1>10, <1>11 DEF MemoryOK

-----------------------------------------------------------------------------
(* Local writes *)

\* A local mutation: distinct entities, captured at one time.
IsCapture(n, xs, deleted, t, events) ==
  /\ n \in Nodes /\ xs \in Seq(Entities) /\ deleted \in BOOLEAN /\ t \in 1 .. MaxTime
  /\ \A i, j \in DOMAIN xs : xs[i] = xs[j] => i = j
  /\ \E ids \in Injection(DOMAIN xs, FreshIds(n)) : events = Captured(n, xs, ids, deleted, t)

\* The captured events have ids that no event of their node has.
LEMMA CapturedEvents ==
  ASSUME IInv, NEW n \in Nodes, NEW xs, NEW deleted, NEW t, NEW events,
         IsCapture(n, xs, deleted, t, events)
  PROVE  /\ events \in Seq(Event) /\ Len(events) = Len(xs) /\ Len(xs) \in Nat
         /\ DOMAIN events = DOMAIN xs /\ DOMAIN xs = 1 .. Len(xs)
         /\ \A i \in DOMAIN xs :
              /\ events[i].ent = xs[i] /\ events[i].deleted = deleted /\ events[i].time = t
              /\ events[i].origin = n /\ events[i] \in Event /\ events[i] \notin Written
              /\ \A e \in Own(n) : e.id # events[i].id
         /\ \A i, j \in DOMAIN xs : events[i] = events[j] => i = j
         /\ \A i, j \in DOMAIN xs : events[i].id = events[j].id => i = j
<1> USE DEF IsCapture
<1>1. PICK ids \in Injection(DOMAIN xs, FreshIds(n)) : events = Captured(n, xs, ids, deleted, t)
  OBVIOUS
<1>2. /\ ids \in [DOMAIN xs -> FreshIds(n)]
      /\ \A i, j \in DOMAIN xs : ids[i] = ids[j] => i = j
  BY <1>1 DEF Injection, IsInjective
<1>3. Len(xs) \in Nat /\ DOMAIN xs = 1 .. Len(xs) /\ \A i \in DOMAIN xs : xs[i] \in Entities
  OBVIOUS
<1>4. MaxEvents[n] \in Nat
  BY PeersAssumptions DEF PeersAssumptions
<1>5. \A i \in DOMAIN xs : ids[i] \in Nat \ {0} /\ \A e \in Own(n) : e.id # ids[i]
  BY <1>2, <1>4 DEF FreshIds
<1>6. events = [i \in DOMAIN xs |-> [ent |-> xs[i], deleted |-> deleted, time |-> t,
                                     origin |-> n, id |-> ids[i]]]
  BY <1>1 DEF Captured
<1>7. \A i \in DOMAIN xs :
        /\ events[i] = [ent |-> xs[i], deleted |-> deleted, time |-> t, origin |-> n, id |-> ids[i]]
        /\ events[i].ent = xs[i] /\ events[i].deleted = deleted /\ events[i].time = t
        /\ events[i].origin = n /\ events[i].id = ids[i]
  BY <1>6
<1>8. DOMAIN events = 1 .. Len(xs) /\ Len(events) = Len(xs)
  BY <1>3, <1>6
<1>9. ASSUME NEW i \in DOMAIN xs PROVE events[i] \in Event
  <2>1. PICK k : k = ids[i]
    OBVIOUS
  <2>2. events[i] = [ent |-> xs[i], deleted |-> deleted, time |-> t, origin |-> n, id |-> k]
        /\ k \in Nat \ {0} /\ xs[i] \in Entities
    BY <1>3, <1>5, <1>7, <2>1
  <2> QED
    BY <2>2 DEF Event
<1>10. events \in Seq(Event)
  BY <1>3, <1>6, <1>9
<1>11. ASSUME NEW i \in DOMAIN xs, events[i] \in Written PROVE FALSE
  <2>1. events[i] \in Own(n)
    BY <1>7, <1>11, KnownTypes DEF IInv
  <2> QED
    BY <1>5, <1>7, <2>1
<1>12. \A i, j \in DOMAIN xs : events[i].id = events[j].id => i = j
  BY <1>2, <1>7
<1>13. \A i, j \in DOMAIN xs : events[i] = events[j] => i = j
  BY <1>12
<1> QED
  BY <1>3, <1>5, <1>7, <1>8, <1>9, <1>10, <1>11, <1>12, <1>13

\* What a stream is once events were appended.
LEMMA Concatenates ==
  ASSUME NEW a \in Seq(Event), NEW b \in Seq(Event)
  PROVE  /\ a \o b \in Seq(Event) /\ Len(a) \in Nat /\ Len(b) \in Nat
         /\ Len(a \o b) = Len(a) + Len(b) /\ DOMAIN (a \o b) = 1 .. Len(a) + Len(b)
         /\ \A i \in DOMAIN a : (a \o b)[i] = a[i]
         /\ \A i \in 1 .. Len(a) + Len(b) : i \notin DOMAIN a =>
              i - Len(a) \in DOMAIN b /\ (a \o b)[i] = b[i - Len(a)]
         /\ ToSet(a \o b) = ToSet(a) \cup ToSet(b)
<1>1. PICK l, k, j : l = a \o b /\ k = Len(a) /\ j = Len(b)
  OBVIOUS
<1>2. l \in Seq(Event) /\ k \in Nat /\ j \in Nat /\ Len(l) = k + j
  BY <1>1
<1>3. DOMAIN a = 1 .. k /\ DOMAIN b = 1 .. j /\ DOMAIN l = 1 .. k + j
  BY <1>1, <1>2
<1>4. \A i \in 1 .. k : l[i] = a[i]
  BY <1>1, <1>2, <1>3
<1>5. \A i \in 1 .. j : l[i + k] = b[i]
  BY <1>1, <1>2, <1>3
<1>6. \A i \in 1 .. k + j : i \in 1 .. k \/ (i - k \in 1 .. j /\ (i - k) + k = i)
  BY <1>2
<1>7. \A i \in 1 .. k + j : i \notin 1 .. k => i - k \in 1 .. j /\ l[i] = b[i - k]
  <2>1. ASSUME NEW i \in 1 .. k + j, i \notin 1 .. k PROVE i - k \in 1 .. j /\ l[i] = b[i - k]
    <3>1. PICK h : h = i - k
      OBVIOUS
    <3>2. h \in 1 .. j /\ h + k = i
      BY <1>6, <2>1, <3>1
    <3> QED
      BY <1>5, <3>1, <3>2
  <2> QED
    BY <2>1
<1>8. \A i \in 1 .. k : i \in 1 .. k + j
  BY <1>2
<1>9. \A i \in 1 .. j : i + k \in 1 .. k + j
  BY <1>2
<1>10. ToSet(l) \subseteq ToSet(a) \cup ToSet(b)
  BY <1>3, <1>4, <1>7 DEF ToSet
<1>11. ToSet(a) \subseteq ToSet(l)
  BY <1>3, <1>4, <1>8 DEF ToSet
<1>12. ToSet(b) \subseteq ToSet(l)
  BY <1>3, <1>5, <1>9 DEF ToSet
<1> QED
  BY <1>1, <1>2, <1>3, <1>4, <1>7, <1>10, <1>11, <1>12

\* No two events of a node have one id after a local write either.
LEMMA CaptureIdentifies ==
  ASSUME IInv, NEW n \in Nodes, NEW xs, NEW deleted, NEW t, NEW events,
         IsCapture(n, xs, deleted, t, events)
  PROVE  \A e, f \in Own(n) \cup ToSet(events) : e.id = f.id => e = f
<1>1. \A e, f \in Own(n) : e.id = f.id => e = f
  BY DEF IInv, Identified
<1>2. /\ DOMAIN events = DOMAIN xs
      /\ \A i \in DOMAIN xs : \A e \in Own(n) : e.id # events[i].id
      /\ \A i, j \in DOMAIN xs : events[i].id = events[j].id => i = j
  BY CapturedEvents
<1>3. \A e \in ToSet(events) : \E i \in DOMAIN xs : e = events[i]
  BY <1>2 DEF ToSet
<1> QED
  BY <1>1, <1>2, <1>3

\* What a local write does to stream and memory of its node.
LEMMA CaptureFacts ==
  ASSUME IInv, NEW n \in Nodes, NEW xs, NEW deleted, NEW t, NEW events,
         IsCapture(n, xs, deleted, t, events), AppendEvents(n, events)
  PROVE  /\ log' \in [Nodes -> Seq(Event)] /\ log'[n] = log[n] \o events
         /\ ver' \in [Nodes -> [Entities -> Event \cup {None}]]
         /\ \A m \in Nodes : m # n => ver'[m] = ver[m] /\ log'[m] = log[m]
         /\ Own(n)' = Own(n) \cup ToSet(events) /\ ToSet(log'[n]) = ToSet(log[n]) \cup ToSet(events)
         /\ \A m \in Nodes : m # n => Own(m)' = Own(m)
         /\ Written' = Written \cup ToSet(events)
         /\ \A i \in DOMAIN xs : ver'[n][xs[i]] = events[i]
         /\ \A x \in Entities : x \notin ToSet(xs) => ver'[n][x] = ver[n][x]
<1>1. /\ events \in Seq(Event) /\ Len(events) = Len(xs) /\ Len(xs) \in Nat
      /\ DOMAIN events = DOMAIN xs /\ DOMAIN xs = 1 .. Len(xs)
      /\ \A i \in DOMAIN xs : /\ events[i].ent = xs[i] /\ events[i].origin = n /\ events[i] \in Event
                              /\ xs[i] \in Entities
  <2>1. xs \in Seq(Entities)
    BY DEF IsCapture
  <2> QED
    BY <2>1, CapturedEvents
<1>2. /\ ver \in [Nodes -> [Entities -> Event \cup {None}]] /\ log \in [Nodes -> Seq(Event)]
  BY DEF IInv, TypeOK, StreamsOK
<1>3. PICK v2 : v2 = [x \in Entities |->
         IF \E i \in DOMAIN events : events[i].ent = x
         THEN events[CHOOSE i \in DOMAIN events : events[i].ent = x]
         ELSE ver[n][x]]
  OBVIOUS
<1>4. log' = [log EXCEPT ![n] = log[n] \o events] /\ ver' = [ver EXCEPT ![n] = v2]
  BY <1>2, <1>3 DEF AppendEvents
<1>5. ASSUME NEW i \in DOMAIN xs PROVE v2[xs[i]] = events[i]
  <2>1. \A j \in DOMAIN events : events[j].ent = xs[i] <=> j = i
    BY <1>1 DEF IsCapture
  <2>2. (CHOOSE j \in DOMAIN events : events[j].ent = xs[i]) = i
    BY <1>1, <2>1
  <2> QED
    BY <1>1, <1>3, <2>1, <2>2
<1>6. ASSUME NEW x \in Entities, x \notin ToSet(xs) PROVE v2[x] = ver[n][x]
  <2>1. ~\E i \in DOMAIN events : events[i].ent = x
    BY <1>1, <1>6 DEF ToSet
  <2> QED
    BY <1>3, <2>1
<1>7. v2 \in [Entities -> Event \cup {None}]
  <2>1. ASSUME NEW x \in Entities PROVE v2[x] \in Event \cup {None}
    <3>1. CASE x \in ToSet(xs)
      BY <1>1, <1>5, <3>1 DEF ToSet
    <3>2. CASE x \notin ToSet(xs)
      BY <1>2, <1>6, <3>2
    <3> QED
      BY <3>1, <3>2
  <2> QED
    BY <1>3, <2>1
<1>8. /\ ver' \in [Nodes -> [Entities -> Event \cup {None}]] /\ ver'[n] = v2
      /\ \A m \in Nodes : m # n => ver'[m] = ver[m]
  BY <1>2, <1>4, <1>7
<1>9. /\ log' \in [Nodes -> Seq(Event)] /\ log'[n] = log[n] \o events
      /\ \A m \in Nodes : m # n => log'[m] = log[m]
  <2>1. log[n] \o events \in Seq(Event)
    BY <1>1, <1>2
  <2> QED
    BY <1>2, <1>4, <2>1
<1>10. ToSet(log'[n]) = ToSet(log[n]) \cup ToSet(events)
  <2>1. log[n] \in Seq(Event)
    BY <1>2
  <2> QED
    BY <1>1, <1>9, <2>1, Concatenates
<1>11. Own(n)' = Own(n) \cup ToSet(events)
  <2>1. \A e \in ToSet(events) : e.origin = n
    BY <1>1 DEF ToSet
  <2>2. Own(n)' = {e \in ToSet(log'[n]) : e.origin = n}
    BY DEF Own
  <2> QED
    BY <1>10, <2>1, <2>2 DEF Own
<1>12. \A m \in Nodes : m # n => Own(m)' = Own(m)
  BY <1>9 DEF Own
<1>13. Written' = Written \cup ToSet(events)
  <2>1. \A m \in Nodes : Own(m)' = IF m = n THEN Own(m) \cup ToSet(events) ELSE Own(m)
    BY <1>11, <1>12
  <2> QED
    BY <2>1 DEF Written
<1> QED
  BY <1>5, <1>6, <1>8, <1>9, <1>10, <1>11, <1>12, <1>13

\* A local write keeps the newest versions, of what it did not write behind them.
LEMMA CaptureIsNewest ==
  ASSUME IInv, NEW n \in Nodes, NEW xs, NEW deleted, NEW t, NEW events,
         IsCapture(n, xs, deleted, t, events), AppendEvents(n, events)
  PROVE  \A x \in Entities \ behind' :
           \/ ver'[n][x] = None /\ \A e \in Knows(n) \cup ToSet(events) : e.ent # x
           \/ /\ ver'[n][x] \in Knows(n) \cup ToSet(events) /\ ver'[n][x].ent = x
              /\ \A e \in Knows(n) \cup ToSet(events) :
                   e.ent = x /\ e # ver'[n][x] => Newer(ver'[n][x], e)
<1>1. /\ DOMAIN events = DOMAIN xs
      /\ \A i \in DOMAIN xs : events[i].ent = xs[i] /\ events[i] \in Event /\ xs[i] \in Entities
  BY CapturedEvents DEF IsCapture
<1>2. /\ \A i \in DOMAIN xs : ver'[n][xs[i]] = events[i]
      /\ \A x \in Entities : x \notin ToSet(xs) => ver'[n][x] = ver[n][x]
  BY CaptureFacts
<1>3. /\ Newest(ver[n], Knows(n)) /\ Knows(n) \subseteq Event /\ None \notin Event
      /\ \A x \in Entities : ver[n][x] \in Event \cup {None}
  BY KnownTypes, NoneAssumption DEF IInv, VersionsOK, NoneAssumption, TypeOK
<1>4. ASSUME NEW i \in DOMAIN xs, ver[n][xs[i]] # None, xs[i] \notin behind'
      PROVE  Newer(events[i], ver[n][xs[i]])
  <2>1. behind' = behind \cup {e.ent : e \in Backwards(ver[n], events)}
    BY DEF AppendEvents
  <2>2. events[i] \in ToSet(events) /\ events[i] \notin Backwards(ver[n], events)
    BY <1>1, <1>4, <2>1 DEF ToSet
  <2> QED
    BY <1>1, <1>4, <2>2 DEF Backwards
<1> behind \subseteq behind'
  BY DEF AppendEvents
<1>5. ASSUME NEW x \in Entities \ behind', x \notin ToSet(xs)
      PROVE  \/ ver'[n][x] = None /\ \A e \in Knows(n) \cup ToSet(events) : e.ent # x
             \/ /\ ver'[n][x] \in Knows(n) \cup ToSet(events) /\ ver'[n][x].ent = x
                /\ \A e \in Knows(n) \cup ToSet(events) :
                     e.ent = x /\ e # ver'[n][x] => Newer(ver'[n][x], e)
  <2>1. \A e \in ToSet(events) : e.ent # x
    BY <1>1, <1>5 DEF ToSet
  <2>2. ver'[n][x] = ver[n][x]
    BY <1>2, <1>5
  <2> QED
    BY <1>3, <2>1, <2>2 DEF Newest
<1>6. ASSUME NEW x \in Entities \ behind', x \in ToSet(xs)
      PROVE  /\ ver'[n][x] \in Knows(n) \cup ToSet(events) /\ ver'[n][x].ent = x
             /\ \A e \in Knows(n) \cup ToSet(events) :
                  e.ent = x /\ e # ver'[n][x] => Newer(ver'[n][x], e)
  <2>1. PICK i \in DOMAIN xs : x = xs[i]
    BY <1>6 DEF ToSet
  <2>2. ver'[n][x] = events[i] /\ events[i] \in ToSet(events)
    BY <1>1, <1>2, <2>1 DEF ToSet
  <2>3. ASSUME NEW e \in ToSet(events), e.ent = x PROVE e = events[i]
    <3>1. PICK j \in DOMAIN xs : e = events[j]
      BY <1>1 DEF ToSet
    <3> QED
      BY <1>1, <2>1, <2>3, <3>1 DEF IsCapture
  <2>4. ASSUME NEW e \in Knows(n), e.ent = x PROVE Newer(events[i], e)
    <3>1. PICK v : v = ver[n][x]
      OBVIOUS
    <3>2. v # None /\ v \in Event /\ e \in Event /\ (e = v \/ Newer(v, e))
      BY <1>3, <2>4, <3>1 DEF Newest
    <3>3. Newer(events[i], v) /\ events[i] \in Event
      BY <1>1, <1>4, <2>1, <3>1, <3>2
    <3> QED
      BY <3>2, <3>3, NewerIsOrder
  <2> QED
    BY <1>1, <2>1, <2>2, <2>3, <2>4
<1> QED
  BY <1>5, <1>6

\* A local write keeps memories and streams well formed.
LEMMA CaptureKeepsMemory ==
  ASSUME IInv, NEW n \in Nodes, NEW xs, NEW deleted, NEW t, NEW events,
         IsCapture(n, xs, deleted, t, events), AppendEvents(n, events),
         \A x \in Edges : Exists(ver'[n], x) => Exists(ver'[n], Source[x])
  PROVE  MemoryOK' /\ Grows
<1>2. /\ log' \in [Nodes -> Seq(Event)] /\ log'[n] = log[n] \o events
      /\ ver' \in [Nodes -> [Entities -> Event \cup {None}]]
      /\ \A m \in Nodes : m # n => ver'[m] = ver[m] /\ log'[m] = log[m]
      /\ Own(n)' = Own(n) \cup ToSet(events) /\ ToSet(log'[n]) = ToSet(log[n]) \cup ToSet(events)
      /\ \A m \in Nodes : m # n => Own(m)' = Own(m)
      /\ Written' = Written \cup ToSet(events)
  BY CaptureFacts
<1>3. inbox' = inbox
  BY DEF AppendEvents
<1>4. Knows(n)' = Knows(n) \cup ToSet(events) /\ \A m \in Nodes : m # n => Knows(m)' = Knows(m)
  BY <1>2, <1>3 DEF Knows
<1>5. /\ log \in [Nodes -> Seq(Event)]
      /\ \A m \in Nodes : /\ ToSet(log[m]) \subseteq Knows(m)
                          /\ \A e \in inbox[m] : e \in Written /\ e.origin # m
  BY DEF IInv, StreamsOK
<1>6. /\ events \in Seq(Event) /\ DOMAIN events = DOMAIN xs
      /\ \A i \in DOMAIN events : events[i] \notin Written
      /\ \A i, j \in DOMAIN events : events[i] = events[j] => i = j
  BY CapturedEvents
<1>7. Identified'
  <2>1. ASSUME NEW m \in Nodes PROVE \A e, f \in Own(m)' : e.id = f.id => e = f
    <3>1. CASE m # n
      BY <1>2, <3>1 DEF IInv, Identified
    <3>2. CASE m = n
      BY <1>2, <3>2, CaptureIdentifies
    <3> QED
      BY <3>1, <3>2
  <2> QED
    BY <2>1 DEF Identified
<1>8. StreamsOK'
  <2>1. ASSUME NEW m \in Nodes
        PROVE  /\ ToSet(log'[m]) \subseteq Knows(m)'
               /\ \A e \in inbox'[m] : e \in Written' /\ e.origin # m
    BY <1>2, <1>3, <1>4, <1>5
  <2> QED
    BY <1>2, <2>1 DEF StreamsOK
<1>9. VersionsOK'
  <2>1. behind \subseteq behind'
    BY DEF AppendEvents
  <2>2. ASSUME NEW m \in Nodes, NEW x \in Entities \ behind'
        PROVE  \/ ver'[m][x] = None /\ \A e \in Knows(m)' : e.ent # x
               \/ /\ ver'[m][x] \in Knows(m)' /\ ver'[m][x].ent = x
                  /\ \A e \in Knows(m)' : e.ent = x /\ e # ver'[m][x] => Newer(ver'[m][x], e)
    <3>1. CASE m = n
      BY <1>4, <3>1, CaptureIsNewest
    <3>2. CASE m # n
      <4>1. Newest(ver[m], Knows(m)) /\ ver'[m] = ver[m] /\ Knows(m)' = Knows(m)
        BY <1>2, <1>4, <3>2 DEF IInv, VersionsOK
      <4> QED
        BY <2>1, <4>1 DEF Newest
    <3> QED
      BY <3>1, <3>2
  <2> QED
    BY <2>2 DEF VersionsOK, Newest
<1>10. AppliedOnce'
  <2>1. ASSUME NEW m \in Nodes PROVE \A i, j \in DOMAIN log'[m] : log'[m][i] = log'[m][j] => i = j
    <3>1. CASE m = n
      <4>1. PICK a, l : a = log[n] /\ l = log[n] \o events
        OBVIOUS
      <4>2. /\ a \in Seq(Event) /\ Len(a) \in Nat /\ Len(events) \in Nat /\ DOMAIN a = 1 .. Len(a)
            /\ DOMAIN l = 1 .. Len(a) + Len(events)
            /\ \A i \in DOMAIN a : l[i] = a[i]
            /\ \A i \in 1 .. Len(a) + Len(events) : i \notin DOMAIN a =>
                 i - Len(a) \in DOMAIN events /\ l[i] = events[i - Len(a)]
        BY <1>5, <1>6, <4>1, Concatenates
      <4>3. \A i, j \in DOMAIN a : a[i] = a[j] => i = j
        BY <4>1 DEF IInv, AppliedOnce
      <4>4. \A i \in DOMAIN a, j \in DOMAIN events : a[i] # events[j]
        <5>1. ToSet(a) \subseteq Written
          BY <1>5, <4>1, KnownTypes DEF IInv
        <5>2. \A i \in DOMAIN a : a[i] \in Written
          BY <5>1 DEF ToSet
        <5> QED
          BY <1>6, <5>2
      <4>5. ASSUME NEW i \in DOMAIN l, NEW j \in DOMAIN l, l[i] = l[j] PROVE i = j
        <5>1. CASE i \in DOMAIN a /\ j \in DOMAIN a
          BY <4>2, <4>3, <4>5, <5>1
        <5>2. CASE i \in DOMAIN a /\ j \notin DOMAIN a
          BY <4>2, <4>4, <4>5, <5>2
        <5>3. CASE i \notin DOMAIN a /\ j \in DOMAIN a
          BY <4>2, <4>4, <4>5, <5>3
        <5>4. CASE i \notin DOMAIN a /\ j \notin DOMAIN a
          <6>1. i - Len(a) = j - Len(a)
            BY <1>6, <4>2, <4>5, <5>4
          <6>2. i \in Int /\ j \in Int /\ Len(a) \in Int
            BY <4>2
          <6> QED
            BY <6>1, <6>2
        <5> QED
          BY <5>1, <5>2, <5>3, <5>4
      <4> QED
        BY <1>2, <3>1, <4>1, <4>5
    <3>2. CASE m # n
      BY <1>2, <3>2 DEF IInv, AppliedOnce
    <3> QED
      BY <3>1, <3>2
  <2> QED
    BY <2>1 DEF AppliedOnce
<1>11. NoDanglingEdges'
  <2>1. ASSUME NEW m \in Nodes, NEW x \in Edges, Exists(ver'[m], x) PROVE Exists(ver'[m], Source[x])
    <3>1. CASE m = n
      BY <2>1, <3>1
    <3>2. CASE m # n
      BY <1>2, <2>1, <3>2 DEF IInv, NoDanglingEdges
    <3> QED
      BY <3>1, <3>2
  <2>2. \A m \in Nodes, x \in Edges :
          (Exists(ver[m], x)' <=> Exists(ver'[m], x)) /\ (Exists(ver[m], Source[x])' <=> Exists(ver'[m], Source[x]))
    BY DEF Exists
  <2> QED
    BY <2>1, <2>2 DEF NoDanglingEdges
<1>12. Grows
  <2>1. ASSUME NEW m \in Nodes
        PROVE  /\ Len(log[m]) <= Len(log'[m]) /\ \A i \in DOMAIN log[m] : log'[m][i] = log[m][i]
               /\ inbox[m] \subseteq inbox'[m]
    <3>1. log[m] \in Seq(Event) /\ Len(log[m]) \in Nat
      BY <1>5
    <3>2. CASE m = n
      <4>1. log'[m] = log[m] \o events /\ inbox'[m] = inbox[m]
        BY <1>2, <1>3, <3>2
      <4>2. Len(log[m] \o events) = Len(log[m]) + Len(events) /\ Len(events) \in Nat
            /\ \A i \in DOMAIN log[m] : (log[m] \o events)[i] = log[m][i]
        BY <1>6, <3>1, Concatenates
      <4> QED
        BY <3>1, <4>1, <4>2
    <3>3. CASE m # n
      BY <1>2, <1>3, <3>1, <3>3
    <3> QED
      BY <3>2, <3>3
  <2> QED
    BY <2>1 DEF Grows
<1>13. behind' \subseteq Entities
  <2>1. \A e \in ToSet(events) : e.ent \in Entities
    BY <1>6, EventFields DEF ToSet
  <2> QED
    BY <2>1 DEF AppendEvents, Backwards, IInv, TypeOK
<1>14. inbox' \in [Nodes -> SUBSET Event]
  BY <1>3 DEF IInv, TypeOK
<1> QED
  BY <1>2, <1>7, <1>8, <1>9, <1>10, <1>11, <1>12, <1>13, <1>14 DEF MemoryOK

\* SetToSeq lists a finite set, each element once.
LEMMA SetToSeqLists ==
  ASSUME NEW S, IsFiniteSet(S)
  PROVE  /\ SetToSeq(S) \in Seq(S) /\ ToSet(SetToSeq(S)) = S
         /\ \A i, j \in DOMAIN SetToSeq(S) : SetToSeq(S)[i] = SetToSeq(S)[j] => i = j
<1>1. PICK c : c = Cardinality(S)
  OBVIOUS
<1>2. c \in Nat /\ ExistsBijection(1 .. c, S)
  BY <1>1, FS_CardinalityType
<1>3. PICK s : s = SetToSeq(S)
  OBVIOUS
<1>4. s \in [1 .. c -> S] /\ IsInjective(s)
  <2>1. \E f \in [1 .. c -> S] : IsInjective(f)
    BY <1>2 DEF ExistsBijection, Bijection, Injection
  <2> QED
    BY <1>1, <1>3, <2>1 DEF SetToSeq
<1>5. s \in Surjection(1 .. c, S)
  <2>1. s \in Injection(1 .. c, S)
    BY <1>4 DEF Injection
  <2>2. Cardinality(1 .. c) = c
    BY <1>2, FS_Interval
  <2> QED
    BY <1>1, <2>1, <2>2, FS_Injection
<1>6. s \in Seq(S) /\ DOMAIN s = 1 .. c
  BY <1>2, <1>4
<1>7. ToSet(s) = S
  <2>1. \A x \in S : \E i \in 1 .. c : s[i] = x
    BY <1>5 DEF Surjection
  <2> QED
    BY <1>4, <1>6, <2>1 DEF ToSet
<1> QED
  BY <1>3, <1>4, <1>6, <1>7 DEF IsInjective

\* What a local write makes of edges and their sources.
LEMMA CaptureExists ==
  ASSUME IInv, NEW n \in Nodes, NEW xs, NEW deleted, NEW t, NEW events,
         IsCapture(n, xs, deleted, t, events), AppendEvents(n, events)
  PROVE  /\ \A x \in ToSet(xs) : Exists(ver'[n], x) <=> ~deleted
         /\ \A x \in Entities : x \notin ToSet(xs) => (Exists(ver'[n], x) <=> Exists(ver[n], x))
<1>1. /\ \A i \in DOMAIN xs : ver'[n][xs[i]] = events[i]
      /\ \A x \in Entities : x \notin ToSet(xs) => ver'[n][x] = ver[n][x]
  BY CaptureFacts
<1>2. \A i \in DOMAIN xs : events[i].deleted = deleted /\ events[i] \in Event
  BY CapturedEvents
<1>3. \A x \in ToSet(xs) : \E i \in DOMAIN xs : x = xs[i]
  BY DEF ToSet
<1>4. \A x \in ToSet(xs) : Exists(ver'[n], x) <=> ~deleted
  BY <1>1, <1>2, <1>3, NoneAssumption DEF Exists, NoneAssumption
<1>5. \A x \in Entities : x \notin ToSet(xs) => (Exists(ver'[n], x) <=> Exists(ver[n], x))
  BY <1>1 DEF Exists
<1> QED
  BY <1>4, <1>5

\* Adding and updating, and deleting with all incident edges, keep memories well formed.
LEMMA WriteKeepsMemory ==
  ASSUME IInv, NEW n \in Nodes, NEW x \in Entities, NEW t \in 1 .. MaxTime,
         Upsert(n, x, t) \/ Delete(n, x, t)
  PROVE  MemoryOK' /\ Grows
<1>1. /\ FunctionIds \cap Edges = {} /\ IsFiniteSet(Edges) /\ Entities = FunctionIds \cup Edges
      /\ \A y \in Edges : Source[y] \in FunctionIds
  BY PeersAssumptions DEF PeersAssumptions, Entities
<1>2. \A y \in Edges : Exists(ver[n], y) => Exists(ver[n], Source[y])
  BY DEF IInv, NoDanglingEdges
<1>3. CASE Upsert(n, x, t)
  <2>1. PICK xs : xs = <<x>>
    OBVIOUS
  <2>2. xs \in Seq(Entities) /\ ToSet(xs) = {x} /\ \A i, j \in DOMAIN xs : xs[i] = xs[j] => i = j
    BY <2>1 DEF ToSet
  <2>3. Capture(n, xs, FALSE, t) /\ (x \in Edges => Exists(ver[n], Source[x]))
    BY <1>3, <2>1 DEF Upsert
  <2>4. PICK ids \in Injection(DOMAIN xs, FreshIds(n)) :
               AppendEvents(n, Captured(n, xs, ids, FALSE, t))
    BY <2>3 DEF Capture
  <2>5. PICK events : events = Captured(n, xs, ids, FALSE, t)
    OBVIOUS
  <2>5a. AppendEvents(n, events) /\ IsCapture(n, xs, FALSE, t, events)
    BY <2>2, <2>4, <2>5 DEF IsCapture
  <2>6. /\ Exists(ver'[n], x)
        /\ \A y \in Entities : y # x => (Exists(ver'[n], y) <=> Exists(ver[n], y))
    BY <2>2, <2>5a, CaptureExists
  <2>7. \A y \in Edges : Exists(ver'[n], y) => Exists(ver'[n], Source[y])
    BY <1>1, <1>2, <2>3, <2>6
  <2> QED
    BY <2>5a, <2>7, CaptureKeepsMemory
<1>4. CASE Delete(n, x, t)
  <2>1. PICK S : S = IF x \in Edges THEN {} ELSE EdgesFrom(ver[n], x)
    OBVIOUS
  <2>2. S \subseteq Edges /\ x \notin S /\ IsFiniteSet(S)
    <3>1. S \subseteq Edges /\ x \notin S
      BY <2>1 DEF EdgesFrom
    <3> QED
      BY <1>1, <3>1, FS_Subset
  <2>3. PICK es : es = IF x \in Edges THEN <<>> ELSE SetToSeq(EdgesFrom(ver[n], x))
    OBVIOUS
  <2>4. es \in Seq(S) /\ ToSet(es) = S /\ \A i, j \in DOMAIN es : es[i] = es[j] => i = j
    <3>1. CASE x \in Edges
      BY <2>1, <2>3, <3>1 DEF ToSet
    <3>2. CASE x \notin Edges
      BY <2>1, <2>2, <2>3, <3>2, SetToSeqLists
    <3> QED
      BY <3>1, <3>2
  <2>5. PICK xs : xs = es \o <<x>>
    OBVIOUS
  <2>6. xs \in Seq(Entities) /\ ToSet(xs) = S \cup {x} /\ \A i, j \in DOMAIN xs : xs[i] = xs[j] => i = j
    <3>1. /\ Len(es) \in Nat /\ DOMAIN es = 1 .. Len(es) /\ es \in Seq(Entities)
          /\ \A i \in DOMAIN es : es[i] \in S
      BY <1>1, <2>2, <2>4
    <3>2. /\ xs \in Seq(Entities) /\ DOMAIN xs = 1 .. Len(es) + 1 /\ xs[Len(es) + 1] = x
          /\ \A i \in DOMAIN es : xs[i] = es[i]
      BY <2>5, <3>1
    <3>3. \A i \in DOMAIN xs : i \in DOMAIN es \/ i = Len(es) + 1
      BY <3>1, <3>2
    <3>4. \A i \in DOMAIN es : i \in DOMAIN xs /\ i # Len(es) + 1
      BY <3>1, <3>2
    <3>5. Len(es) + 1 \in DOMAIN xs
      BY <3>1, <3>2
    <3>6. ToSet(xs) = S \cup {x}
      BY <2>4, <3>2, <3>3, <3>4, <3>5 DEF ToSet
    <3>7. \A i, j \in DOMAIN xs : xs[i] = xs[j] => i = j
      BY <2>2, <2>4, <3>1, <3>2, <3>3
    <3> QED
      BY <3>2, <3>6, <3>7
  <2>7. Capture(n, xs, TRUE, t)
    BY <1>4, <2>3, <2>5 DEF Delete
  <2>8. PICK ids \in Injection(DOMAIN xs, FreshIds(n)) :
               AppendEvents(n, Captured(n, xs, ids, TRUE, t))
    BY <2>7 DEF Capture
  <2>9. PICK events : events = Captured(n, xs, ids, TRUE, t)
    OBVIOUS
  <2>9a. AppendEvents(n, events) /\ IsCapture(n, xs, TRUE, t, events)
    BY <2>6, <2>8, <2>9 DEF IsCapture
  <2>10. /\ \A y \in S \cup {x} : ~Exists(ver'[n], y)
         /\ \A y \in Entities : y \notin S \cup {x} => (Exists(ver'[n], y) <=> Exists(ver[n], y))
    BY <2>6, <2>9a, CaptureExists
  <2>11. ASSUME NEW y \in Edges, Exists(ver'[n], y) PROVE Exists(ver'[n], Source[y])
    <3>1. y \in Entities /\ y \notin S \cup {x}
      BY <1>1, <2>10, <2>11
    <3>2. Exists(ver[n], y) /\ Exists(ver[n], Source[y]) /\ Source[y] \in Entities
          /\ Source[y] \notin Edges
      BY <1>1, <1>2, <2>10, <2>11, <3>1
    <3>3. Source[y] # x
      BY <2>1, <3>1, <3>2 DEF EdgesFrom
    <3> QED
      BY <2>2, <2>10, <3>2, <3>3
  <2> QED
    BY <2>9a, <2>11, CaptureKeepsMemory
<1> QED
  BY <1>3, <1>4

-----------------------------------------------------------------------------
(* Pages *)

\* A finite set of numbers that is not empty has a least and a greatest element.
LEMMA Extremes ==
  ASSUME NEW S, S \subseteq Nat, IsFiniteSet(S), S # {}
  PROVE  (\E x \in S : \A y \in S : x <= y) /\ (\E x \in S : \A y \in S : y <= x)
<1> DEFINE part(x, up) == {y \in S : IF up THEN x < y ELSE y < x}
           R == StrictSubsetOrdering(S)
           F == FiniteSubsetsOf(S)
<1>1. IsWellFoundedOn(R, F)
  BY FS_StrictSubsetOrderingWellFounded
<1>2. \A T \in SUBSET S : T \in F
  BY FS_Subset DEF FiniteSubsetsOf
<1>3. ASSUME NEW up \in BOOLEAN PROVE \E x \in S : \A y \in S : IF up THEN y <= x ELSE x <= y
  <2> DEFINE T == {part(x, up) : x \in S}
  <2>1. T \subseteq F /\ T # {}
    BY <1>2
  <2> HIDE DEF F, R, T
  <2>2. PICK m \in T : \A n \in T : <<n, m>> \notin R
    BY <1>1, <2>1, WFMin
  <2>3. PICK x \in S : m = part(x, up)
    BY DEF T
  <2>4. ASSUME NEW y \in S, ~(IF up THEN y <= x ELSE x <= y) PROVE FALSE
    <3>1. x \in Nat /\ y \in Nat /\ (IF up THEN x < y ELSE y < x) /\ \A u \in S : u \in Nat
      BY <2>4
    <3>2. \A u \in S : (IF up THEN y < u ELSE u < y) => (IF up THEN x < u ELSE u < x)
      BY <3>1
    <3>3. part(y, up) \subseteq part(x, up) /\ y \in part(x, up)
      BY <3>1, <3>2, Zenon
    <3>4. y \notin part(y, up)
      BY <3>1
    <3>5. part(y, up) \in T
      BY DEF T
    <3>6. <<part(y, up), part(x, up)>> \in R
      BY <3>3, <3>4 DEF R, StrictSubsetOrdering
    <3> QED
      BY <2>2, <2>3, <3>5, <3>6
  <2> QED
    BY <2>4
<1>4. \E x \in S : \A y \in S : x <= y
  <2>1. \E x \in S : \A y \in S : IF FALSE THEN y <= x ELSE x <= y
    BY <1>3
  <2> QED
    BY <2>1
<1>5. \E x \in S : \A y \in S : y <= x
  <2>1. \E x \in S : \A y \in S : IF TRUE THEN y <= x ELSE x <= y
    BY <1>3
  <2> QED
    BY <2>1
<1> QED
  BY <1>4, <1>5

\* The first positions of a listing reach as far as their greatest one.
LEMMA FirstOfListing ==
  ASSUME NEW S, S \subseteq Nat, IsFiniteSet(S), NEW k \in Nat \ {0}
  PROVE  /\ First(k, S) \subseteq S
         /\ First(k, S) # S =>
              /\ Max(First(k, S)) \in First(k, S)
              /\ \A i \in S : i <= Max(First(k, S)) => i \in First(k, S)
<1> DEFINE below(s) == {u \in S : u < s}
<1>1. First(k, S) \subseteq S
  BY DEF First
<1>2. ASSUME NEW m \in First(k, S), NEW i \in S, i <= m PROVE i \in First(k, S)
  <2>1. Cardinality(below(m)) < k /\ m \in S
    BY DEF First
  <2>2. below(i) \subseteq below(m)
    <3>1. \A u \in S : u \in Nat /\ m \in Nat /\ i \in Nat
      BY <2>1
    <3>2. \A u \in S : u < i => u < m
      BY <1>2, <3>1
    <3> QED
      BY <3>2, Zenon
  <2>3. IsFiniteSet(below(m)) /\ IsFiniteSet(below(i))
    BY FS_Subset
  <2>4. Cardinality(below(i)) <= Cardinality(below(m))
        /\ Cardinality(below(i)) \in Nat /\ Cardinality(below(m)) \in Nat
    BY <2>2, <2>3, FS_Subset, FS_CardinalityType
  <2> QED
    BY <2>1, <2>4 DEF First
<1>3. ASSUME First(k, S) # S
      PROVE  /\ Max(First(k, S)) \in First(k, S)
             /\ \A i \in S : i <= Max(First(k, S)) => i \in First(k, S)
  <2>1. S # {}
    BY <1>1, <1>3
  <2>2. PICK x \in S : \A y \in S : x <= y
    BY <2>1, Extremes
  <2>3. below(x) = {}
    <3>1. \A u \in S : u \in Nat /\ x \in Nat /\ x <= u
      BY <2>2
    <3>2. \A u \in S : ~(u < x)
      BY <3>1
    <3> QED
      BY <3>2, Zenon
  <2>4. x \in First(k, S)
    <3>1. Cardinality(below(x)) < k
      BY <2>3, FS_EmptySet
    <3> QED
      BY <3>1 DEF First
  <2>5. PICK T : T = First(k, S)
    OBVIOUS
  <2>6. T \subseteq Nat /\ IsFiniteSet(T) /\ T # {}
    BY <1>1, <2>4, <2>5, FS_Subset
  <2>7. \E y \in T : \A z \in T : y >= z
    BY <2>6, Extremes
  <2>8. Max(T) \in T
    BY <2>7 DEF Max
  <2> QED
    BY <1>2, <2>5, <2>8
<1> QED
  BY <1>1, <1>3

\* Pairs of nodes are ordered pairs.
LEMMA PairOf ==
  ASSUME NEW p \in Pairs
  PROVE  p[1] \in Nodes /\ p[2] \in Nodes /\ p[1] # p[2] /\ p = <<p[1], p[2]>>
         /\ <<p[2], p[1]>> \in Pairs
BY DEF Pairs

\* A page starts at or behind the inbound cursor, ends inside the stream, and
\* holds every foreign event from the inbound cursor to its end.
LEMMA PageFacts ==
  ASSUME IInv, NEW n \in Nodes, NEW m \in Nodes, n # m
  PROVE  /\ After(n, m) \in Nat /\ After(n, m) <= inbound[<<n, m>>] /\ inbound[<<n, m>>] \in Nat
         /\ Upto(n, m) \in Nat /\ Upto(n, m) <= Len(log[m])
         /\ NextAfter(n, m) \in Nat /\ NextAfter(n, m) <= Len(log[m])
         /\ PageItems(n, m) \subseteq {i \in DOMAIN log[m] : log[m][i].origin # n}
         /\ \A i \in 1 .. NextAfter(n, m) :
              inbound[<<n, m>>] < i /\ log[m][i].origin # n => i \in PageItems(n, m)
<1>1. PICK p, a, u, l, b : p = <<n, m>> /\ a = After(n, m) /\ u = Upto(n, m) /\ l = Len(log[m])
                           /\ b = inbound[<<n, m>>]
  OBVIOUS
<1>2. p \in Pairs /\ p[1] = n /\ p[2] = m /\ <<m, n>> \in Pairs
  BY <1>1 DEF Pairs
<1>3. /\ b \in Nat /\ l \in Nat /\ DOMAIN log[m] = 1 .. l
      /\ cursor[<<m, n>>] \in Nat \cup {None} /\ token[p] \in [after : Nat, upto : Nat] \cup {None}
      /\ (cursor[<<m, n>>] # None => cursor[<<m, n>>] <= b)
      /\ (token[p] # None => token[p].after <= b /\ token[p].upto <= l)
  <2>1. /\ inbound \in [Pairs -> Nat] /\ log[m] \in Seq(Event) /\ cursor \in [Pairs -> Nat \cup {None}]
        /\ token \in [Pairs -> [after : Nat, upto : Nat] \cup {None}]
    BY DEF IInv, TypeOK
  <2>2. /\ cursor[<<m, n>>] # None => cursor[<<m, n>>] <= inbound[p]
        /\ token[p] # None => token[p].after <= inbound[p] /\ token[p].upto <= Len(log[m])
    BY <1>2 DEF IInv, CursorsOK
  <2> QED
    BY <1>1, <1>2, <2>1, <2>2
<1>4. a \in Nat /\ a <= b
  BY <1>1, <1>3 DEF After
<1>5. u \in Nat /\ u <= l
  BY <1>1, <1>3 DEF Upto
<1>6. PICK S : S = PageRows(n, m)
  OBVIOUS
<1>7. S = {i \in 1 .. l : a < i /\ i <= u /\ log[m][i].origin # n}
  BY <1>1, <1>3, <1>6 DEF PageRows
<1>8. S \subseteq Nat /\ IsFiniteSet(S)
  <2>1. S \subseteq 1 .. l /\ IsFiniteSet(1 .. l)
    <3>1. S \subseteq 1 .. l
      BY <1>7
    <3>2. 1 \in Int /\ l \in Int
      BY <1>3
    <3> QED
      BY <3>1, <3>2, FS_Interval, Zenon
  <2>2. \A i \in 1 .. l : i \in Nat
    BY <1>3
  <2> QED
    BY <2>1, <2>2, FS_Subset
<1>9. PICK I : I = PageItems(n, m)
  OBVIOUS
<1>10. PICK k : k = NextAfter(n, m)
  OBVIOUS
<1>11. I = First(PageSize, S)
  BY <1>6, <1>9 DEF PageItems
<1>12. PageSize \in Nat \ {0}
  BY PeersAssumptions DEF PeersAssumptions
<1>13. I \subseteq S /\ (I # S => Max(I) \in I /\ \A i \in S : i <= Max(I) => i \in I)
  BY <1>8, <1>11, <1>12, FirstOfListing
<1>14. k = IF I # S THEN Max(I) ELSE u
  BY <1>1, <1>6, <1>9, <1>10 DEF NextAfter
<1>15. k \in Nat /\ k <= u /\ \A i \in S : i <= k => i \in I
  <2>1. CASE I # S
    <3>1. k \in S /\ \A i \in S : i <= k => i \in I
      BY <1>13, <1>14, <2>1
    <3> QED
      BY <1>7, <1>8, <3>1
  <2>2. CASE I = S
    BY <1>5, <1>14, <2>2
  <2> QED
    BY <2>1, <2>2
<1>16. k <= l
  BY <1>3, <1>5, <1>15
<1>17. ASSUME NEW i \in 1 .. k, b < i, log[m][i].origin # n PROVE i \in I
  <2>1. i \in 1 .. l /\ a < i /\ i <= u /\ i <= k
    BY <1>3, <1>4, <1>5, <1>15, <1>16, <1>17
  <2>2. i \in S
    BY <1>7, <1>17, <2>1
  <2> QED
    BY <1>15, <2>1, <2>2
<1>18. I \subseteq {i \in DOMAIN log[m] : log[m][i].origin # n}
  BY <1>3, <1>7, <1>13
<1> QED
  BY <1>1, <1>3, <1>4, <1>5, <1>9, <1>10, <1>15, <1>16, <1>17, <1>18

\* Where streams have only grown, handled positions stay handled, and ends of
\* listings stay inside the stream.
LEMMA PlacesStay ==
  ASSUME IInv, MemoryOK', Grows
  PROVE  /\ \A p \in Pairs : \A i \in 1 .. inbound[p] :
              i \in DOMAIN log'[p[2]] /\ Handled(p[1], log[p[2]][i])'
         /\ \A m \in Nodes : Len(log[m]) \in Nat /\ Len(log'[m]) \in Nat /\ Len(log[m]) <= Len(log'[m])
         /\ \A m \in Nodes : \A i \in DOMAIN log[m] :
              i \in DOMAIN log'[m] /\ log'[m][i] = log[m][i]
<1>1. \A m \in Nodes : log[m] \in Seq(Event) /\ log'[m] \in Seq(Event)
  BY DEF IInv, TypeOK, MemoryOK, StreamsOK
<1>2. \A m \in Nodes :
        /\ Len(log[m]) \in Nat /\ Len(log'[m]) \in Nat /\ Len(log[m]) <= Len(log'[m])
        /\ DOMAIN log[m] = 1 .. Len(log[m]) /\ DOMAIN log'[m] = 1 .. Len(log'[m])
  BY <1>1 DEF Grows
<1>3. ASSUME NEW m \in Nodes, NEW i \in DOMAIN log[m]
      PROVE  i \in DOMAIN log'[m] /\ log'[m][i] = log[m][i]
  <2>1. log'[m][i] = log[m][i]
    BY DEF Grows
  <2> QED
    BY <1>2, <2>1
<1>4. ASSUME NEW p \in Pairs, NEW i \in 1 .. inbound[p]
      PROVE  i \in DOMAIN log'[p[2]] /\ Handled(p[1], log[p[2]][i])'
  <2>1. p[1] \in Nodes /\ p[2] \in Nodes
    BY PairOf
  <2>2. i \in DOMAIN log[p[2]] /\ Handled(p[1], log[p[2]][i])
    BY DEF IInv, NoGap
  <2>3. i \in DOMAIN log'[p[2]] /\ log'[p[2]][i] = log[p[2]][i]
    BY <1>3, <2>1, <2>2
  <2>4. inbox[p[1]] \subseteq inbox'[p[1]]
    BY <2>1 DEF Grows
  <2> QED
    BY <2>2, <2>3, <2>4 DEF Handled
<1> QED
  BY <1>2, <1>3, <1>4

\* A step that moves no cursor keeps the invariant when it keeps the memories.
LEMMA CursorsStay ==
  ASSUME IInv, MemoryOK', Grows, UNCHANGED <<cursor, inbound, token>>
  PROVE  IInv'
<1>1. /\ \A p \in Pairs : \A i \in 1 .. inbound[p] :
              i \in DOMAIN log'[p[2]] /\ Handled(p[1], log[p[2]][i])'
      /\ \A m \in Nodes : Len(log[m]) \in Nat /\ Len(log'[m]) \in Nat /\ Len(log[m]) <= Len(log'[m])
  BY PlacesStay
<1>2. inbound' = inbound /\ cursor' = cursor /\ token' = token
  OBVIOUS
<1>3. TypeOK'
  BY <1>2 DEF IInv, TypeOK, MemoryOK, StreamsOK
<1>4. NoGap'
  BY <1>1, <1>2 DEF NoGap
<1>5. CursorsOK'
  <2>1. ASSUME NEW p \in Pairs
        PROVE  /\ cursor[<<p[2], p[1]>>] # None => cursor[<<p[2], p[1]>>] <= inbound[p]
               /\ token[p] # None => token[p].after <= inbound[p] /\ token[p].upto <= Len(log'[p[2]])
    <3>1. /\ cursor[<<p[2], p[1]>>] # None => cursor[<<p[2], p[1]>>] <= inbound[p]
          /\ token[p] # None => token[p].after <= inbound[p] /\ token[p].upto <= Len(log[p[2]])
      BY DEF IInv, CursorsOK
    <3>2. p[2] \in Nodes
      BY PairOf
    <3>3. token[p] # None => token[p].upto \in Nat
      BY DEF IInv, TypeOK
    <3> QED
      BY <1>1, <3>1, <3>2, <3>3
  <2> QED
    BY <1>2, <2>1 DEF CursorsOK
<1> QED
  BY <1>3, <1>4, <1>5 DEF IInv, MemoryOK

\* A memory that no step touches.
LEMMA MemoryStays ==
  ASSUME IInv, UNCHANGED <<ver, log, inbox, behind>>
  PROVE  MemoryOK' /\ Grows
<1>1. ver' = ver /\ log' = log /\ inbox' = inbox /\ behind' = behind
  OBVIOUS
<1>2. \A m \in Nodes : Len(log[m]) \in Nat
  BY DEF IInv, TypeOK
<1>3. Grows
  BY <1>1, <1>2 DEF Grows
<1>4. Identified' /\ StreamsOK'
  <2>1. \A n \in Nodes : Own(n)' = Own(n)
    BY <1>1 DEF Own
  <2>2. Written' = Written /\ \A n \in Nodes : Knows(n)' = Knows(n)
    BY <1>1, <2>1 DEF Written, Knows
  <2>3. Identified'
    BY <2>1 DEF IInv, Identified
  <2>4. StreamsOK'
    BY <1>1, <2>2 DEF IInv, StreamsOK
  <2> QED
    BY <2>3, <2>4
<1>5. VersionsOK'
  BY <1>1 DEF IInv, VersionsOK, Newest, Knows, Own
<1>6. AppliedOnce' /\ NoDanglingEdges'
  BY <1>1 DEF IInv, AppliedOnce, NoDanglingEdges, Exists
<1>7. /\ ver' \in [Nodes -> [Entities -> Event \cup {None}]] /\ inbox' \in [Nodes -> SUBSET Event]
      /\ behind' \subseteq Entities
  BY <1>1 DEF IInv, TypeOK
<1> QED
  BY <1>3, <1>4, <1>5, <1>6, <1>7 DEF MemoryOK

\* A batch of a node's own events, or a page of its stream, can be applied.
LEMMA ForeignEvents ==
  ASSUME IInv, NEW n \in Nodes, NEW m \in Nodes, NEW S,
         \A i \in S : i \in DOMAIN log[m] => log[m][i].origin # n,
         CommitApplied(n, ApplyEvents(n, log[m], S)), UNCHANGED behind
  PROVE  /\ MemoryOK' /\ Grows
         /\ \A i \in S : i \in DOMAIN log[m] => log[m][i] \in inbox'[n]
<1>1. log[m] \in Seq(Event)
  BY DEF IInv, TypeOK
<1>2. \A i \in DOMAIN log[m] : log[m][i] \in Written
  <2>1. ToSet(log[m]) \subseteq Knows(m) /\ Knows(m) \subseteq Written
    BY KnownTypes DEF IInv, StreamsOK
  <2> QED
    BY <2>1 DEF ToSet
<1>3. PICK st : st = ApplyEvents(n, log[m], S)
  OBVIOUS
<1>4. /\ Accepts(n, ApplyEvents(n, log[m], S))
      /\ ApplyEvents(n, log[m], S).ok =>
           \A i \in S : i \in DOMAIN log[m] => log[m][i] \in ApplyEvents(n, log[m], S).inbox
  BY <1>1, <1>2, AppliesEvents
<1>5. Accepts(n, st) /\ CommitApplied(n, st)
  BY <1>3, <1>4
<1>6. MemoryOK' /\ Grows
  BY <1>5, CommitKeepsMemory
<1>7. inbox'[n] = st.inbox
  BY <1>5, CommitKeepsWritten
<1>8. st.ok
  BY <1>5 DEF CommitApplied
<1> QED
  BY <1>3, <1>4, <1>6, <1>7, <1>8

\* The position the owner of a stream remembers stays at or behind the
\* inbound cursor of the puller.
LEMMA ServedPlace ==
  ASSUME IInv, NEW n \in Nodes, NEW m \in Nodes, n # m, ServePage(n, m)
  PROVE  /\ cursor' \in [Pairs -> Nat \cup {None}]
         /\ \A p \in Pairs : cursor'[<<p[2], p[1]>>] # None => cursor'[<<p[2], p[1]>>] <= inbound[p]
<1>1. PICK q, c, a : q = <<m, n>> /\ c = cursor[<<m, n>>] /\ a = After(n, m)
  OBVIOUS
<1>2. q \in Pairs /\ q[1] = m /\ q[2] = n /\ <<n, m>> \in Pairs
  BY <1>1 DEF Pairs
<1>3. cursor \in [Pairs -> Nat \cup {None}] /\ c \in Nat \cup {None}
  BY <1>1, <1>2 DEF IInv, TypeOK
<1>4. a \in Nat /\ a <= inbound[<<n, m>>]
  BY <1>1, PageFacts
<1>5. PICK d : d = IF c = None THEN a ELSE IF c < a THEN a ELSE c
  OBVIOUS
<1>6. cursor' = [cursor EXCEPT ![q] = d]
  BY <1>1, <1>5 DEF ServePage
<1>7. d \in Nat \cup {None}
  BY <1>3, <1>4, <1>5
<1>8. cursor' \in [Pairs -> Nat \cup {None}]
  BY <1>3, <1>6, <1>7
<1>9. \A p \in Pairs : cursor[<<p[2], p[1]>>] # None => cursor[<<p[2], p[1]>>] <= inbound[p]
  BY DEF IInv, CursorsOK
<1>10. c # None => c <= inbound[<<n, m>>]
  <2>1. PICK r : r = <<n, m>>
    OBVIOUS
  <2>2. r \in Pairs /\ r[1] = n /\ r[2] = m
    BY <1>2, <2>1
  <2> QED
    BY <1>1, <1>9, <2>1, <2>2
<1>11. d # None => d <= inbound[<<n, m>>]
  BY <1>4, <1>5, <1>10
<1>12. ASSUME NEW p \in Pairs, cursor'[<<p[2], p[1]>>] # None
       PROVE  cursor'[<<p[2], p[1]>>] <= inbound[p]
  <2>1. /\ p[1] \in Nodes /\ p[2] \in Nodes /\ p = <<p[1], p[2]>> /\ <<p[2], p[1]>> \in Pairs
    BY PairOf
  <2>2. CASE p[1] = n /\ p[2] = m
    <3>1. cursor'[<<p[2], p[1]>>] = d
      BY <1>1, <1>2, <1>3, <1>6, <2>2
    <3>2. inbound[p] = inbound[<<n, m>>]
      BY <2>1, <2>2
    <3> QED
      BY <1>11, <1>12, <3>1, <3>2
  <2>3. CASE ~(p[1] = n /\ p[2] = m)
    <3>1. <<p[2], p[1]>> # q
      BY <1>1, <2>3
    <3>2. cursor'[<<p[2], p[1]>>] = cursor[<<p[2], p[1]>>]
      BY <1>3, <1>6, <2>1, <3>1
    <3> QED
      BY <1>9, <1>12, <3>2
  <2> QED
    BY <2>2, <2>3
<1> QED
  BY <1>8, <1>12

-----------------------------------------------------------------------------
(* The invariant *)

\* A page that is applied moves the inbound cursor to its end, past events
\* that are all handled then.
LEMMA PullKeepsInv ==
  ASSUME IInv, NEW n \in Nodes, NEW m \in Nodes, n # m, PullPage(n, m)
  PROVE  IInv'
<1>1. PICK p, k, b : p = <<n, m>> /\ k = NextAfter(n, m) /\ b = inbound[<<n, m>>]
  OBVIOUS
<1>2. p \in Pairs /\ p[1] = n /\ p[2] = m
  BY <1>1 DEF Pairs
<1>3. /\ b \in Nat /\ k \in Nat /\ k <= Len(log[m])
      /\ Upto(n, m) \in Nat /\ Upto(n, m) <= Len(log[m])
      /\ PageItems(n, m) \subseteq {i \in DOMAIN log[m] : log[m][i].origin # n}
      /\ \A i \in 1 .. k : b < i /\ log[m][i].origin # n => i \in PageItems(n, m)
  BY <1>1, PageFacts
<1>4. b < k
  BY <1>1, <1>3 DEF PullPage, AlreadyConfirmed
<1>5. /\ MemoryOK' /\ Grows
      /\ \A i \in PageItems(n, m) : i \in DOMAIN log[m] => log[m][i] \in inbox'[n]
  <2>1. CommitApplied(n, ApplyEvents(n, log[m], PageItems(n, m)))
    BY DEF PullPage
  <2>2. \A i \in PageItems(n, m) : i \in DOMAIN log[m] => log[m][i].origin # n
    BY <1>3
  <2>3. UNCHANGED behind
    BY DEF PullPage
  <2> QED
    BY <2>1, <2>2, <2>3, ForeignEvents
<1>6. /\ \A q \in Pairs : \A i \in 1 .. inbound[q] :
              i \in DOMAIN log'[q[2]] /\ Handled(q[1], log[q[2]][i])'
      /\ \A q \in Nodes : Len(log[q]) \in Nat /\ Len(log'[q]) \in Nat /\ Len(log[q]) <= Len(log'[q])
      /\ \A q \in Nodes : \A i \in DOMAIN log[q] :
              i \in DOMAIN log'[q] /\ log'[q][i] = log[q][i]
  BY <1>5, PlacesStay
<1>7. /\ inbound \in [Pairs -> Nat] /\ token \in [Pairs -> [after : Nat, upto : Nat] \cup {None}]
      /\ DOMAIN log[m] = 1 .. Len(log[m])
  BY DEF IInv, TypeOK
<1>8. /\ inbound' = [inbound EXCEPT ![p] = k]
      /\ token' = [token EXCEPT ![p] = [after |-> k, upto |-> Upto(n, m)]]
      /\ ServePage(n, m)
  BY <1>1 DEF PullPage, KeepToken
<1>9. inbound' \in [Pairs -> Nat] /\ inbound'[p] = k /\ \A q \in Pairs : q # p => inbound'[q] = inbound[q]
  BY <1>2, <1>3, <1>7, <1>8
<1>10. \A q \in Pairs : inbound[q] \in Nat /\ inbound[q] <= inbound'[q]
  <2>1. ASSUME NEW q \in Pairs PROVE inbound[q] \in Nat /\ inbound[q] <= inbound'[q]
    <3>1. inbound[q] \in Nat
      BY <1>7
    <3>2. CASE q = p
      <4>1. inbound[q] = b /\ inbound'[q] = k
        BY <1>1, <1>9, <3>2
      <4> QED
        BY <1>3, <1>4, <3>1, <4>1
    <3>3. CASE q # p
      BY <1>9, <3>1, <3>3
    <3> QED
      BY <3>1, <3>2, <3>3
  <2> QED
    BY <2>1
<1>11. /\ cursor' \in [Pairs -> Nat \cup {None}]
       /\ \A q \in Pairs : cursor'[<<q[2], q[1]>>] # None => cursor'[<<q[2], q[1]>>] <= inbound[q]
  BY <1>8, ServedPlace
<1>12. [after |-> k, upto |-> Upto(n, m)] \in [after : Nat, upto : Nat]
  BY <1>3
<1>13. /\ token' \in [Pairs -> [after : Nat, upto : Nat] \cup {None}]
       /\ token'[p] = [after |-> k, upto |-> Upto(n, m)]
       /\ \A q \in Pairs : q # p => token'[q] = token[q]
  BY <1>2, <1>7, <1>8, <1>12
<1>14. TypeOK'
  BY <1>5, <1>9, <1>11, <1>13 DEF TypeOK, MemoryOK, StreamsOK
<1>15. NoGap'
  <2>1. ASSUME NEW q \in Pairs, NEW i \in 1 .. inbound'[q]
        PROVE  i \in DOMAIN log'[q[2]] /\ Handled(q[1], log[q[2]][i])'
    <3>1. CASE i \in 1 .. inbound[q]
      BY <1>6, <3>1
    <3>2. CASE i \notin 1 .. inbound[q]
      <4>1. q = p /\ i \in 1 .. k /\ b < i
        BY <1>1, <1>2, <1>3, <1>9, <1>10, <2>1, <3>2
      <4>2. i \in DOMAIN log[m]
        BY <1>3, <1>6, <1>7, <4>1
      <4>3. i \in DOMAIN log'[m] /\ log'[m][i] = log[m][i]
        BY <1>6, <4>2
      <4>4. log[m][i].origin = n \/ log[m][i] \in inbox'[n]
        BY <1>3, <1>5, <4>1, <4>2
      <4> QED
        BY <1>2, <4>1, <4>3, <4>4 DEF Handled
    <3> QED
      BY <3>1, <3>2
  <2> QED
    BY <2>1 DEF NoGap
<1>16. CursorsOK'
  <2>1. ASSUME NEW q \in Pairs, cursor'[<<q[2], q[1]>>] # None
        PROVE  cursor'[<<q[2], q[1]>>] <= inbound'[q]
    <3>1. cursor'[<<q[2], q[1]>>] \in Nat
      BY <1>11, <2>1, PairOf
    <3>2. cursor'[<<q[2], q[1]>>] <= inbound[q]
      BY <1>11, <2>1
    <3> QED
      BY <1>9, <1>10, <3>1, <3>2
  <2>2. ASSUME NEW q \in Pairs, token'[q] # None
        PROVE  token'[q].after <= inbound'[q] /\ token'[q].upto <= Len(log'[q[2]])
    <3>1. CASE q = p
      BY <1>2, <1>3, <1>6, <1>9, <1>13, <3>1
    <3>2. CASE q # p
      <4>1. token[q].after <= inbound[q] /\ token[q].upto <= Len(log[q[2]])
            /\ token[q].upto \in Nat /\ q[2] \in Nodes
        BY <1>7, <1>13, <2>2, <3>2, PairOf DEF IInv, CursorsOK
      <4> QED
        BY <1>6, <1>9, <1>13, <3>2, <4>1
    <3> QED
      BY <3>1, <3>2
  <2> QED
    BY <2>1, <2>2 DEF CursorsOK
<1> QED
  BY <1>5, <1>14, <1>15, <1>16 DEF IInv, MemoryOK

\* A page that repeats what was confirmed, a lost answer, and a restart only
\* move cursors, to places at or behind the inbound cursor.
LEMMA OnlyCursorsMove ==
  ASSUME IInv, UNCHANGED <<ver, log, inbox, inbound, behind>>,
         cursor' \in [Pairs -> Nat \cup {None}],
         \A p \in Pairs : cursor'[<<p[2], p[1]>>] # None => cursor'[<<p[2], p[1]>>] <= inbound[p],
         token' \in [Pairs -> [after : Nat, upto : Nat] \cup {None}],
         \A p \in Pairs : token'[p] # None =>
           token'[p].after <= inbound[p] /\ token'[p].upto <= Len(log[p[2]])
  PROVE  IInv'
<1>1. MemoryOK' /\ Grows
  BY MemoryStays
<1>2. ver' = ver /\ log' = log /\ inbox' = inbox /\ inbound' = inbound /\ behind' = behind
  OBVIOUS
<1>3. TypeOK'
  BY <1>2 DEF IInv, TypeOK
<1>4. NoGap'
  BY <1>2 DEF IInv, NoGap, Handled
<1>5. CursorsOK'
  BY <1>2 DEF CursorsOK
<1> QED
  BY <1>1, <1>3, <1>4, <1>5 DEF IInv, MemoryOK

\* Nothing has been written, handled or pulled at the beginning.
LEMMA InitInv ==
  ASSUME Init
  PROVE  IInv
<1>1. /\ ver = [n \in Nodes |-> [x \in Entities |-> None]] /\ log = [n \in Nodes |-> <<>>]
      /\ inbox = [n \in Nodes |-> {}] /\ cursor = [p \in Pairs |-> None]
      /\ inbound = [p \in Pairs |-> 0] /\ token = [p \in Pairs |-> None]
      /\ behind = {}
  BY DEF Init
<1>2. \A n \in Nodes : Own(n) = {} /\ ToSet(log[n]) = {} /\ Knows(n) = {}
  BY <1>1 DEF Own, ToSet, Knows
<1>3. TypeOK
  <2>1. \A n \in Nodes : log[n] \in Seq(Event)
    BY <1>1
  <2> QED
    BY <1>1, <2>1 DEF TypeOK
<1>4. Identified
  BY <1>2 DEF Identified
<1>5. StreamsOK
  <2>1. log \in [Nodes -> Seq(Event)]
    BY <1>1
  <2> QED
    BY <1>1, <1>2, <2>1 DEF StreamsOK
<1>6. VersionsOK
  <2>1. \A n \in Nodes : Newest(ver[n], Knows(n))
    BY <1>1, <1>2 DEF Newest
  <2> QED
    BY <2>1 DEF VersionsOK
<1>7. CursorsOK
  <2>1. \A p \in Pairs : cursor[<<p[2], p[1]>>] = None /\ token[p] = None
    BY <1>1, PairOf
  <2> QED
    BY <2>1 DEF CursorsOK
<1>8. NoGap
  BY <1>1 DEF NoGap
<1>9. AppliedOnce
  BY <1>1 DEF AppliedOnce
<1>10. NoDanglingEdges
  <2>1. \A x \in Edges : x \in Entities
    BY DEF Entities
  <2> QED
    BY <1>1, <2>1 DEF NoDanglingEdges, Exists
<1> QED
  BY <1>3, <1>4, <1>5, <1>6, <1>7, <1>8, <1>9, <1>10 DEF IInv

\* A step: the invariant stays.
LEMMA StepInv ==
  ASSUME IInv, Next
  PROVE  IInv'
<1>1. \A p \in PushLinks \cup PullLinks : p[1] \in Nodes /\ p[2] \in Nodes /\ p[1] # p[2]
  BY PeersAssumptions DEF PeersAssumptions
<1>3. ASSUME NEW n \in Nodes, NEW x \in Entities, NEW t \in 1 .. MaxTime,
             Upsert(n, x, t) \/ Delete(n, x, t)
      PROVE  IInv'
  <2>1. MemoryOK' /\ Grows
    BY <1>3, WriteKeepsMemory
  <2>2. UNCHANGED <<cursor, inbound, token>>
    BY <1>3 DEF Upsert, Delete, Capture, AppendEvents
  <2> QED
    BY <2>1, <2>2, CursorsStay
<1>4. ASSUME NEW p \in PushLinks, NEW S \in SUBSET Own(p[1]), Push(p[1], p[2], S)
      PROVE  IInv'
  <2>1. PICK n, m, T : n = p[2] /\ m = p[1] /\ T = {i \in DOMAIN log[m] : log[m][i] \in S}
    OBVIOUS
  <2>2. n \in Nodes /\ m \in Nodes /\ n # m
    BY <1>1, <2>1
  <2>3. \A i \in T : log[m][i].origin # n
    BY <2>1, <2>2 DEF Own
  <2>4. CommitApplied(n, ApplyEvents(n, log[m], T)) /\ UNCHANGED <<cursor, inbound, token, behind>>
    BY <1>4, <2>1 DEF Push
  <2>5. MemoryOK' /\ Grows
    BY <2>2, <2>3, <2>4, ForeignEvents
  <2> QED
    BY <2>4, <2>5, CursorsStay
<1>5. ASSUME NEW p \in PullLinks, PullFails(p[1], p[2]) \/ PullKnownPage(p[1], p[2])
      PROVE  IInv'
  <2>1. PICK n, m, r : n = p[1] /\ m = p[2] /\ r = <<n, m>>
    OBVIOUS
  <2>2. n \in Nodes /\ m \in Nodes /\ n # m /\ r \in Pairs /\ r[1] = n /\ r[2] = m
    BY <1>1, <2>1 DEF Pairs
  <2>3. ServePage(n, m) /\ UNCHANGED <<ver, log, inbox, inbound, behind>>
    BY <1>5, <2>1 DEF PullFails, PullKnownPage
  <2>4. /\ cursor' \in [Pairs -> Nat \cup {None}]
        /\ \A q \in Pairs : cursor'[<<q[2], q[1]>>] # None => cursor'[<<q[2], q[1]>>] <= inbound[q]
    BY <2>2, <2>3, ServedPlace
  <2>5. /\ token \in [Pairs -> [after : Nat, upto : Nat] \cup {None}]
        /\ \A q \in Pairs : token[q] # None =>
             token[q].after <= inbound[q] /\ token[q].upto <= Len(log[q[2]])
    BY DEF IInv, TypeOK, CursorsOK
  <2>6. /\ token' \in [Pairs -> [after : Nat, upto : Nat] \cup {None}]
        /\ \A q \in Pairs : token'[q] # None =>
             token'[q].after <= inbound[q] /\ token'[q].upto <= Len(log[q[2]])
    <3>1. CASE PullFails(n, m)
      <4>1. token' = token
        BY <3>1 DEF PullFails
      <4> QED
        BY <2>5, <4>1
    <3>2. CASE PullKnownPage(n, m)
      <4>1. PICK k, u : k = NextAfter(n, m) /\ u = Upto(n, m)
        OBVIOUS
      <4>2. k \in Nat /\ u \in Nat /\ u <= Len(log[m])
        BY <2>2, <4>1, PageFacts
      <4>3. k <= inbound[r]
        BY <2>1, <3>2, <4>1 DEF PullKnownPage, AlreadyConfirmed
      <4>4. token' = [token EXCEPT ![r] = [after |-> k, upto |-> u]]
        BY <2>1, <3>2, <4>1 DEF PullKnownPage, KeepToken
      <4>5. PICK w : w = [after |-> k, upto |-> u]
        OBVIOUS
      <4>6. w \in [after : Nat, upto : Nat] /\ w.after = k /\ w.upto = u
        BY <4>2, <4>5
      <4>7. /\ token' \in [Pairs -> [after : Nat, upto : Nat] \cup {None}] /\ token'[r] = w
            /\ \A q \in Pairs : q # r => token'[q] = token[q]
        BY <2>2, <2>5, <4>4, <4>5, <4>6
      <4> QED
        BY <2>2, <2>5, <4>2, <4>3, <4>6, <4>7
    <3> QED
      BY <1>5, <2>1, <3>1, <3>2
  <2>7. IInv'
    BY <2>3, <2>4, <2>6, OnlyCursorsMove
  <2> QED
    BY <2>7
<1>6. ASSUME NEW p \in PullLinks, PullPage(p[1], p[2])
      PROVE  IInv'
  BY <1>1, <1>6, PullKeepsInv
<1>7. ASSUME NEW n \in Nodes, Restart(n)
      PROVE  IInv'
  <2>1. UNCHANGED <<ver, log, inbox, inbound, behind>> /\ cursor' = cursor
        /\ token' = [p \in Pairs |-> IF p[1] = n THEN None ELSE token[p]]
    BY <1>7 DEF Restart
  <2>2. /\ token \in [Pairs -> [after : Nat, upto : Nat] \cup {None}]
        /\ cursor \in [Pairs -> Nat \cup {None}]
        /\ \A q \in Pairs :
             /\ cursor[<<q[2], q[1]>>] # None => cursor[<<q[2], q[1]>>] <= inbound[q]
             /\ token[q] # None =>
                  token[q].after <= inbound[q] /\ token[q].upto <= Len(log[q[2]])
    BY DEF IInv, TypeOK, CursorsOK
  <2>3. \A q \in Pairs : token'[q] = None \/ token'[q] = token[q]
    BY <2>1
  <2>4. token' \in [Pairs -> [after : Nat, upto : Nat] \cup {None}]
    BY <2>1, <2>2
  <2>5. \A q \in Pairs : token'[q] # None =>
             token'[q].after <= inbound[q] /\ token'[q].upto <= Len(log[q[2]])
    BY <2>2, <2>3
  <2>6. IInv'
    BY <2>1, <2>2, <2>4, <2>5, OnlyCursorsMove
  <2> QED
    BY <2>6
<1> QED
  BY <1>3, <1>4, <1>5, <1>6, <1>7 DEF Next

\* A step that changes nothing.
LEMMA StutterInv ==
  ASSUME IInv, UNCHANGED vars
  PROVE  IInv'
<1>1. /\ UNCHANGED <<ver, log, inbox, inbound, behind>> /\ UNCHANGED <<cursor, inbound, token>>
  BY DEF vars
<1> QED
  BY <1>1, MemoryStays, CursorsStay

-----------------------------------------------------------------------------
(* Theorems *)

\* The inductive invariant of the exchange.
THEOREM PeersInvariant == Spec => []IInv
<1>1. Init => IInv
  BY InitInv
<1>2. IInv /\ [Next]_vars => IInv'
  BY StepInv, StutterInv
<1> QED
  BY <1>1, <1>2, PTL DEF Spec

\* Versions, streams, inboxes, cursors and tokens keep their types.
THEOREM TypeCorrect == Spec => []TypeOK
<1>1. IInv => TypeOK
  BY DEF IInv
<1> QED
  BY <1>1, PeersInvariant, PTL

\* sync_apply_page: whatever pages are lost, repeated or requested anew from an
\* older cursor, the inbound cursor never passes an event the node has not
\* handled.
THEOREM NoEventSkipped == Spec => []NoGap
<1>1. IInv => NoGap
  BY DEF IInv
<1> QED
  BY <1>1, PeersInvariant, PTL

\* _apply_business_event and delete: no edge outlives its source, whatever the
\* order in which a node's own writes and its peers' events arrive.
THEOREM NoEdgeDangles == Spec => []NoDanglingEdges
<1>1. IInv => NoDanglingEdges
  BY DEF IInv
<1> QED
  BY <1>1, PeersInvariant, PTL

\* The inbox: an event enters a stream at most once, in any topology of links.
THEOREM NoEcho == Spec => []AppliedOnce
<1>1. IInv => AppliedOnce
  BY DEF IInv
<1> QED
  BY <1>1, PeersInvariant, PTL

\* Last-writer-wins: whatever the clocks read, two nodes that know the same events
\* of an entity hold the same version of it, in whatever order, grouping and
\* repetition the events reached them, unless a node has written the entity behind
\* the version it had.
THEOREM NodesConverge == Spec => []Converged
<1>1. IInv => Converged
  <2> SUFFICES ASSUME IInv, NEW n \in Nodes, NEW m \in Nodes, NEW x \in Entities \ behind,
                      Known(n, x) = Known(m, x)
               PROVE  ver[n][x] = ver[m][x]
    BY DEF Converged
  <2>1. Knows(n) \subseteq Event /\ Knows(m) \subseteq Event /\ None \notin Event
    BY KnownTypes, NoneAssumption DEF IInv, NoneAssumption
  <2>2. \A e : e \in Knows(n) /\ e.ent = x <=> e \in Knows(m) /\ e.ent = x
    <3>1. \A q \in Nodes : Known(q, x) = {e \in Knows(q) : e.ent = x}
      BY DEF Known, Knows
    <3> QED
      BY <3>1
  <2>3. \/ ver[n][x] = None /\ \A e \in Knows(n) : e.ent # x
        \/ /\ ver[n][x] \in Knows(n) /\ ver[n][x].ent = x
           /\ \A e \in Knows(n) : e.ent = x /\ e # ver[n][x] => Newer(ver[n][x], e)
    BY DEF IInv, VersionsOK, Newest
  <2>4. \/ ver[m][x] = None /\ \A e \in Knows(m) : e.ent # x
        \/ /\ ver[m][x] \in Knows(m) /\ ver[m][x].ent = x
           /\ \A e \in Knows(m) : e.ent = x /\ e # ver[m][x] => Newer(ver[m][x], e)
    BY DEF IInv, VersionsOK, Newest
  <2>5. PICK v, w : v = ver[n][x] /\ w = ver[m][x]
    OBVIOUS
  <2>6. ASSUME v # w PROVE FALSE
    <3>1. v \in Event /\ w \in Event /\ Newer(v, w) /\ Newer(w, v)
      BY <2>1, <2>2, <2>3, <2>4, <2>5, <2>6
    <3> QED
      BY <3>1, NewerIsOrder
  <2> QED
    BY <2>5, <2>6
<1> QED
  BY <1>1, PeersInvariant, PTL
================================================================================
