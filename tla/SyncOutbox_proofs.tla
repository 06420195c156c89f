--------------------------- MODULE SyncOutbox_proofs ---------------------------
(***************************************************************************)
(* Theorems about SyncOutbox, for any finite set of remotes, any sessions  *)
(* and leases, and any bounds and limits.                                  *)
(*                                                                         *)
(* The argument: whoever claims that a remote has an event holds evidence  *)
(* that it received it.  A batch that was received, a cursor row and a     *)
(* session's cursor are such evidence, and rows, cursors and snapshots     *)
(* stay within the part of the stream that compaction left.  What one step *)
(* may do to a row is stated once, as RowMay, and shown of every action.   *)
(***************************************************************************)
EXTENDS SyncOutbox, FiniteSetTheorems, WellFoundedInduction, TLAPS

\* The outbox is the stream from the retention floor to the last event.
StreamOK ==
  /\ next \in 1 .. MaxSeq + 1 /\ floor \in 0 .. next - 1
  /\ outbox = floor + 1 .. next - 1
  /\ origin \in [Seqs -> Origins \cup {Local, None}]

TargetsOK ==
  /\ target \in [Remotes -> {"absent", "enabled", "disabled"}]
  /\ bootstrap \in [Remotes -> 0 .. MaxSeq]
  /\ \A t \in Remotes : target[t] # "absent" => bootstrap[t] < next

\* A row is leased when it names a lease, and only then may the lease be live.
GoodRow(row) ==
  /\ row \in Row
  /\ row.state = "leased" <=> row.lease # None
  /\ row.live => row.state = "leased"

RowsOK ==
  /\ delivery \in [Rows -> Row]
  /\ \A d \in Rows :
       /\ GoodRow(delivery[d])
       /\ delivery[d].state # "none" =>
            d[2] \in outbox /\ target[d[1]] # "absent" /\ d[2] > bootstrap[d[1]]

QuotaOK == Cardinality(Active) <= MaxPending

\* A batch that was received is in what its target has got.
HeldOK ==
  /\ held \subseteq Batch /\ got \in [Remotes -> SUBSET Seqs]
  /\ \A b \in held : b.seqs # {} /\ (b.phase = "received" => b.seqs \subseteq got[b.target])

\* A remote has received everything up to a position in the stream.
ReceivedTo(r, n) == \A s \in 1 .. n : Has(r, s)

CursorsOK ==
  /\ cursor \in [Remotes -> (0 .. MaxSeq) \cup {None}]
  /\ \A r \in Remotes :
       cursor[r] # None => cursor[r] \in floor .. next - 1 /\ ReceivedTo(r, cursor[r])

TokensOK ==
  /\ token \in [Remotes \X Sessions -> Token]
  /\ \A r \in Remotes, k \in Sessions :
       token[<<r, k>>].kind = "stream" =>
         /\ token[<<r, k>>].after <= token[<<r, k>>].upto /\ token[<<r, k>>].upto < next
         /\ ReceivedTo(r, token[<<r, k>>].after)

SnapshotsOK ==
  /\ snapshot \in [Remotes \X Sessions -> [resume : 0 .. MaxSeq, pages : 0 .. MaxSnapshotPages]]
  /\ \A p \in Taken : snapshot[p].resume \in floor .. next - 1

IInv ==
  /\ StreamOK /\ TargetsOK /\ RowsOK /\ QuotaOK /\ HeldOK
  /\ CursorsOK /\ TokensOK /\ SnapshotsOK /\ DeliveredIsReceived

-----------------------------------------------------------------------------
(* Operators *)

\* The bounds are positive.
LEMMA Bounds ==
  /\ \A n \in {MaxSeq, MaxAttempts, MaxPending, ClaimSize, PageSize} : n \in Nat \ {0}
  /\ MaxSnapshotPages \in Nat /\ MaxSnapshotsPerRemote \in Nat
BY OutboxAssumptions DEF OutboxAssumptions

\* Sequence numbers, and rows, are finitely many.
LEMMA Finite ==
  /\ IsFiniteSet(Seqs) /\ IsFiniteSet(Rows)
  /\ Seqs \subseteq Nat
<1>1. MaxSeq \in Nat
  BY Bounds
<1>2. IsFiniteSet(Seqs) /\ Seqs \subseteq Nat
  BY <1>1, FS_Interval DEF Seqs
<1> QED
  BY <1>2, OutboxAssumptions, FS_Product DEF Rows

\* A finite set of numbers that is not empty has a least and a greatest element.
LEMMA Extremes ==
  ASSUME NEW S, S \subseteq Nat, IsFiniteSet(S), S # {}
  PROVE  (\E x \in S : \A y \in S : x <= y) /\ (\E x \in S : \A y \in S : y <= x)
<1> DEFINE below(x) == {y \in S : y < x}
           above(x) == {y \in S : x < y}
           R == StrictSubsetOrdering(S)
           F == FiniteSubsetsOf(S)
<1>1. IsWellFoundedOn(R, F)
  BY FS_StrictSubsetOrderingWellFounded
<1>2. \A T \in SUBSET S : T \in F
  BY FS_Subset DEF FiniteSubsetsOf
<1>3. \E x \in S : \A y \in S : x <= y
  <2> DEFINE T == {below(x) : x \in S}
  <2>1. T \subseteq F /\ T # {}
    BY <1>2
  <2> HIDE DEF F, R, T
  <2>2. PICK m \in T : \A n \in T : <<n, m>> \notin R
    BY <1>1, <2>1, WFMin
  <2>3. PICK x \in S : m = below(x)
    BY DEF T
  <2>4. ASSUME NEW y \in S, ~(x <= y) PROVE FALSE
    <3>3. x \in Nat /\ y \in Nat /\ y < x /\ \A u \in S : u \in Nat
      BY <2>4
    <3>4. \A u \in S : u < y => u < x
      BY <3>3
    <3>5. below(y) \subseteq below(x) /\ y \in below(x)
      BY <3>3, <3>4, Zenon
    <3>6. y \notin below(y)
      BY <3>3
    <3>7. below(y) \in T
      BY DEF T
    <3>1. below(y) \in T /\ below(y) \subseteq below(x) /\ y \in below(x) /\ y \notin below(y)
      BY <3>5, <3>6, <3>7
    <3>2. <<below(y), below(x)>> \in R
      BY <3>1 DEF R, StrictSubsetOrdering
    <3> QED
      BY <2>2, <2>3, <3>1, <3>2
  <2> QED
    BY <2>4
<1>4. \E x \in S : \A y \in S : y <= x
  <2> DEFINE T == {above(x) : x \in S}
  <2>1. T \subseteq F /\ T # {}
    BY <1>2
  <2> HIDE DEF F, R, T
  <2>2. PICK m \in T : \A n \in T : <<n, m>> \notin R
    BY <1>1, <2>1, WFMin
  <2>3. PICK x \in S : m = above(x)
    BY DEF T
  <2>4. ASSUME NEW y \in S, ~(y <= x) PROVE FALSE
    <3>3. x \in Nat /\ y \in Nat /\ x < y /\ \A u \in S : u \in Nat
      BY <2>4
    <3>4. \A u \in S : y < u => x < u
      BY <3>3
    <3>5. above(y) \subseteq above(x) /\ y \in above(x)
      BY <3>3, <3>4, Zenon
    <3>6. y \notin above(y)
      BY <3>3
    <3>7. above(y) \in T
      BY DEF T
    <3>1. above(y) \in T /\ above(y) \subseteq above(x) /\ y \in above(x) /\ y \notin above(y)
      BY <3>5, <3>6, <3>7
    <3>2. <<above(y), above(x)>> \in R
      BY <3>1 DEF R, StrictSubsetOrdering
    <3> QED
      BY <2>2, <2>3, <3>1, <3>2
  <2> QED
    BY <2>4
<1> QED
  BY <1>3, <1>4

\* Max of sequence numbers is one of them, and none is greater.
LEMMA MaxOfSeqs ==
  ASSUME NEW S, S \subseteq Seqs, S # {}
  PROVE  Max(S) \in S /\ \A x \in S : x <= Max(S)
<1>1. S \subseteq Nat /\ IsFiniteSet(S)
  BY Finite, FS_Subset
<1>2. \E x \in S : \A y \in S : x >= y
  BY <1>1, Extremes
<1> QED
  BY <1>2 DEF Max

\* First(n, S) is a beginning of S, and not empty unless S is.
LEMMA FirstOfSeqs ==
  ASSUME NEW S, S \subseteq Seqs, NEW n \in Nat \ {0}
  PROVE  /\ First(n, S) \subseteq S
         /\ S # {} => First(n, S) # {}
         /\ \A m \in First(n, S), s \in S : s <= m => s \in First(n, S)
<1> DEFINE below(s) == {u \in S : u < s}
<1>1. S \subseteq Nat /\ IsFiniteSet(S)
  BY Finite, FS_Subset
<1>2. First(n, S) \subseteq S
  BY DEF First
<1>3. ASSUME S # {} PROVE First(n, S) # {}
  <2>1. PICK x \in S : \A y \in S : x <= y
    BY <1>1, <1>3, Extremes
  <2>2. below(x) = {}
    <3>1. \A u \in S : u \in Nat /\ x \in Nat /\ x <= u
      BY <1>1, <2>1
    <3>2. \A u \in S : ~(u < x)
      BY <3>1
    <3> QED
      BY <3>2, Zenon
  <2>3. Cardinality(below(x)) < n
    BY <2>2, FS_EmptySet
  <2> QED
    BY <2>3 DEF First
<1>4. ASSUME NEW m \in First(n, S), NEW s \in S, s <= m PROVE s \in First(n, S)
  <2>1. Cardinality(below(m)) < n /\ m \in S
    BY DEF First
  <2>2. below(s) \subseteq below(m)
    <3>1. \A u \in S : u \in Nat /\ m \in Nat /\ s \in Nat
      BY <1>1, <2>1
    <3>2. \A u \in S : u < s => u < m
      BY <1>4, <3>1
    <3> QED
      BY <3>2, Zenon
  <2>3. IsFiniteSet(below(m))
    BY <1>1, FS_Subset
  <2>4. Cardinality(below(s)) <= Cardinality(below(m)) /\ Cardinality(below(s)) \in Nat
        /\ Cardinality(below(m)) \in Nat
    <3>1. below(s) \in SUBSET below(m)
      BY <2>2
    <3>2. IsFiniteSet(below(s))
      BY <2>3, <3>1, FS_Subset
    <3> QED
      BY <2>3, <3>1, <3>2, FS_Subset, FS_CardinalityType
  <2>5. Cardinality(below(s)) < n
    BY <2>1, <2>4
  <2> QED
    BY <2>5 DEF First
<1> QED
  BY <1>2, <1>3, <1>4

\* A row keeps its shape when it is new, settled, reset, failed or leased.
LEMMA RowShapes ==
  /\ GoodRow(NoRow) /\ GoodRow(NewRow)
  /\ \A row \in Row, st \in {"pending", "delivered", "dead_letter"}, rdy \in BOOLEAN :
       GoodRow(Settle(row, st, rdy)) /\ Settle(row, st, rdy).state = st
       /\ Settle(row, st, rdy).attempts = row.attempts
<1>1. NoRow \in Row /\ NewRow \in Row
  BY Bounds DEF NoRow, NewRow, Row
<1>2. GoodRow(NoRow) /\ GoodRow(NewRow)
  BY <1>1 DEF GoodRow, NoRow, NewRow
<1>3. ASSUME NEW row \in Row, NEW st \in {"pending", "delivered", "dead_letter"}, NEW rdy \in BOOLEAN
      PROVE  GoodRow(Settle(row, st, rdy)) /\ Settle(row, st, rdy).state = st
             /\ Settle(row, st, rdy).attempts = row.attempts
  <2>1. Settle(row, st, rdy) \in Row
    BY DEF Settle, Row
  <2>2. /\ Settle(row, st, rdy).state = st /\ Settle(row, st, rdy).lease = None
        /\ Settle(row, st, rdy).live = FALSE /\ Settle(row, st, rdy).attempts = row.attempts
    BY DEF Settle, Row
  <2> QED
    BY <2>1, <2>2 DEF GoodRow
<1> QED
  BY <1>2, <1>3

-----------------------------------------------------------------------------
(* What a step may do to a row *)

Owed == {"pending", "leased", "dead_letter"}

\* Row d may become row2: it neither appears nor becomes owed again; it becomes
\* delivered only when its peer has the event, and stays so.
RowMay(d, row2) ==
  /\ GoodRow(row2)
  /\ row2.state # "none" => delivery[d].state # "none"
  /\ row2.state \in Owed => delivery[d].state \in Owed
  /\ row2.state = "delivered" => delivery[d].state = "delivered" \/ Has(d[1], d[2])
  /\ delivery[d].state = "delivered" => row2.state \in {"delivered", "none"}

\* A row may stay, or be removed.
LEMMA RowStays ==
  ASSUME RowsOK, NEW d \in Rows
  PROVE  RowMay(d, delivery[d]) /\ RowMay(d, NoRow)
<1>1. GoodRow(NoRow) /\ NoRow.state = "none"
  BY RowShapes DEF NoRow
<1> QED
  BY <1>1 DEF RowMay, RowsOK, Owed

\* A row that is owed may be settled, as delivered only when its peer has the event.
LEMMA RowSettles ==
  ASSUME RowsOK, NEW d \in Rows, delivery[d].state \in Owed,
         NEW st \in {"pending", "delivered", "dead_letter"}, NEW rdy \in BOOLEAN,
         st = "delivered" => Has(d[1], d[2])
  PROVE  RowMay(d, Settle(delivery[d], st, rdy))
<1>1. GoodRow(Settle(delivery[d], st, rdy)) /\ Settle(delivery[d], st, rdy).state = st
  BY RowShapes DEF RowsOK
<1> QED
  BY <1>1 DEF RowMay, Owed

\* The reset of an expired lease.
LEMMA RowResets ==
  ASSUME RowsOK, NEW d \in Rows
  PROVE  /\ RowMay(d, LeaseReset(delivery[d]))
         /\ LeaseReset(delivery[d]).state = "pending" => ~delivery[d].live /\ delivery[d].state \in Owed
<1> DEFINE row == delivery[d]
<1>1. row \in Row /\ GoodRow(row) /\ row.ready \in BOOLEAN
  BY DEF RowsOK, Row
<1>2. CASE row.state = "leased" /\ ~row.live
  <2>1. PICK st \in {"pending", "dead_letter"} : LeaseReset(row) = Settle(row, st, row.ready)
    BY <1>2 DEF LeaseReset
  <2>2. RowMay(d, Settle(row, st, row.ready))
    BY <1>1, <1>2, RowSettles DEF Owed
  <2> QED
    BY <1>2, <2>1, <2>2 DEF Owed
<1>3. CASE ~(row.state = "leased" /\ ~row.live)
  <2>1. LeaseReset(row) = row
    BY <1>3 DEF LeaseReset
  <2> QED
    BY <1>1, <1>3, <2>1, RowStays DEF GoodRow, Owed
<1> QED
  BY <1>2, <1>3

\* A row that may be claimed is leased anew.
LEMMA RowLeased ==
  ASSUME RowsOK, NEW d \in Rows, NEW lease \in Leases, NEW row, row = LeaseReset(delivery[d]),
         Claimable(row, d[2])
  PROVE  RowMay(d, [row EXCEPT !.state = "leased", !.attempts = row.attempts + 1,
                               !.lease = lease, !.live = TRUE])
<1> DEFINE new == [row EXCEPT !.state = "leased", !.attempts = row.attempts + 1,
                              !.lease = lease, !.live = TRUE]
<1>1. row \in Row /\ row.state = "pending" /\ row.attempts < MaxAttempts
  BY RowResets DEF RowMay, GoodRow, Claimable
<1>2. row.attempts + 1 \in 0 .. MaxAttempts
  BY <1>1, Bounds DEF Row
<1>3. new \in Row
  BY <1>1, <1>2 DEF Row
<1>4. new.state = "leased" /\ new.lease = lease
  BY <1>1 DEF Row
<1>5. lease # None
  BY OutboxAssumptions
<1>6. GoodRow(new)
  BY <1>3, <1>4, <1>5 DEF GoodRow
<1>7. ~delivery[d].live /\ delivery[d].state \in Owed
  BY <1>1, RowResets
<1> HIDE DEF new
<1> QED
  BY <1>4, <1>6, <1>7 DEF RowMay, Owed, new

\* Every step that changes rows, but for the two that add some, does to each of
\* them what a step may do.
RowsMay ==
  delivery' \in [Rows -> Row] /\ \A d \in Rows : RowMay(d, delivery'[d])

\* sync_claim: expired leases are reset, and the rows of the batch leased.
LEMMA ClaimRows ==
  ASSUME RowsOK, NEW t \in Remotes, NEW lease \in Leases, Claim(t, lease)
  PROVE  RowsMay
<1> DEFINE reset == [s \in Seqs |-> LeaseReset(delivery[<<t, s>>])]
           claimed == First(ClaimSize, {s \in Seqs : Claimable(reset[s], s)})
           Leased(row) == [row EXCEPT !.state = "leased", !.attempts = row.attempts + 1,
                                      !.lease = lease, !.live = TRUE]
<1>1. delivery' = [d \in Rows |->
                     IF d[1] # t THEN delivery[d]
                     ELSE IF d[2] \in claimed THEN Leased(reset[d[2]]) ELSE reset[d[2]]]
  BY DEF Claim
<1>2. claimed \subseteq {s \in Seqs : Claimable(reset[s], s)}
  BY DEF First
<1> HIDE DEF claimed
<1>3. ASSUME NEW d \in Rows PROVE RowMay(d, delivery'[d])
  <2>1. CASE d[1] # t
    BY <1>1, <2>1, RowStays
  <2>2. CASE d[1] = t
    <3>1. d = <<t, d[2]>> /\ d[2] \in Seqs
      BY <2>2 DEF Rows
    <3>2. reset[d[2]] = LeaseReset(delivery[d])
      BY <3>1
    <3>3. CASE d[2] \in claimed
      <4>1. Claimable(reset[d[2]], d[2])
        BY <1>2, <3>3
      <4>2. RowMay(d, Leased(reset[d[2]]))
        BY <3>2, <4>1, RowLeased
      <4> QED
        BY <1>1, <2>2, <3>3, <4>2
    <3>4. CASE d[2] \notin claimed
      BY <1>1, <2>2, <3>2, <3>4, RowResets
    <3> QED
      BY <3>3, <3>4
  <2> QED
    BY <2>1, <2>2
<1>4. \A d \in Rows : delivery'[d] \in Row
  BY <1>3 DEF RowMay, GoodRow
<1> QED
  BY <1>1, <1>3, <1>4 DEF RowsMay

\* sync_ack_batch: the rows of a batch that was received become delivered.
LEMMA AckRows ==
  ASSUME RowsOK, HeldOK, NEW b \in held, AckBatch(b)
  PROVE  RowsMay
<1>1. b.target \in Remotes /\ b.seqs \subseteq got[b.target]
  BY DEF AckBatch, HeldOK, Batch
<1>2. CASE delivery' = delivery
  BY <1>2, RowStays DEF RowsMay, RowsOK
<1>3. CASE delivery' = [d \in Rows |->
                          IF d[1] = b.target /\ d[2] \in b.seqs /\ ~NothingToAck(b, d[2])
                          THEN Settle(delivery[d], "delivered", FALSE)
                          ELSE delivery[d]]
  <2>1. ASSUME NEW d \in Rows, d[1] = b.target, d[2] \in b.seqs, ~NothingToAck(b, d[2])
        PROVE  RowMay(d, Settle(delivery[d], "delivered", FALSE))
    <3>1. d = <<b.target, d[2]>>
      BY <2>1 DEF Rows
    <3>2. delivery[d].state \in Owed
      BY <2>1, <3>1 DEF NothingToAck, RowsOK, GoodRow, Row, Owed
    <3>3. Has(d[1], d[2])
      BY <1>1, <2>1 DEF Has
    <3> QED
      BY <3>2, <3>3, RowSettles
  <2>2. ASSUME NEW d \in Rows PROVE RowMay(d, delivery'[d])
    BY <1>3, <2>1, RowStays
  <2> QED
    BY <1>3, <2>2 DEF RowsMay, RowMay, GoodRow
<1> QED
  BY <1>2, <1>3 DEF AckBatch

\* The row a failing batch settles next is one of its own.
LEMMA FailFirst ==
  ASSUME HeldOK, NEW b \in held
  PROVE  (CHOOSE x \in b.seqs : \A y \in b.seqs : x <= y) \in b.seqs
         /\ <<b.target, CHOOSE x \in b.seqs : \A y \in b.seqs : x <= y>> \in Rows
<1> DEFINE s == CHOOSE x \in b.seqs : \A y \in b.seqs : x <= y
<1>1. b.seqs \subseteq Seqs /\ b.seqs # {} /\ b.target \in Remotes
  BY DEF HeldOK, Batch
<1>2. b.seqs \subseteq Nat /\ IsFiniteSet(b.seqs)
  BY <1>1, Finite, FS_Subset
<1>3. \E x \in b.seqs : \A y \in b.seqs : x <= y
  BY <1>1, <1>2, Extremes
<1>4. s \in b.seqs
  BY <1>3
<1> HIDE DEF s
<1>5. <<b.target, s>> \in Rows
  BY <1>1, <1>4 DEF Rows
<1> QED
  BY <1>4, <1>5 DEF s

\* sync_fail and sync_dead_letter: one row of a batch is settled if its lease holds.
LEMMA FailRows ==
  ASSUME RowsOK, HeldOK, NEW b \in held, NEW how \in {"fail", "dead_letter"}, FailNext(b, how)
  PROVE  RowsMay
<1> DEFINE s == CHOOSE x \in b.seqs : \A y \in b.seqs : x <= y
           d == <<b.target, s>>
<1>1. d \in Rows
  BY FailFirst
<1>2. CASE delivery' = delivery
  BY <1>2, RowStays DEF RowsMay, RowsOK
<1>3. CASE HoldsLease(b, s) /\ delivery' = [delivery EXCEPT ![d] = FailedRow(delivery[d], how)]
  <2>1. delivery[d].state \in Owed
    BY <1>3 DEF HoldsLease, Owed
  <2>4. PICK st \in {"pending", "dead_letter"} : FailedRow(delivery[d], how) = Settle(delivery[d], st, FALSE)
    BY DEF FailedRow
  <2>5. RowMay(d, Settle(delivery[d], st, FALSE))
    BY <1>1, <2>1, RowSettles
  <2>2. RowMay(d, FailedRow(delivery[d], how))
    BY <2>4, <2>5
  <2>3. \A e \in Rows : RowMay(e, delivery'[e])
    BY <1>1, <1>3, <2>2, RowStays DEF RowsOK
  <2> QED
    BY <1>3, <2>3 DEF RowsMay, RowsOK, RowMay, GoodRow
<1> QED
  BY <1>2, <1>3, Zenon DEF FailNext

\* The passing of time and the replay of a dead letter.
LEMMA TimeRows ==
  ASSUME RowsOK,
         \/ \E lease \in Leases : LeaseExpires(lease)
         \/ \E d \in Rows : ReplayDeadLetter(d) \/ BackoffElapses(d)
  PROVE  RowsMay
<1>1. ASSUME NEW lease \in Leases, LeaseExpires(lease) PROVE RowsMay
  <2>1. ASSUME NEW d \in Rows PROVE RowMay(d, [delivery[d] EXCEPT !.live = FALSE])
    <3> DEFINE new == [delivery[d] EXCEPT !.live = FALSE]
    <3>1. delivery[d] \in Row /\ GoodRow(delivery[d])
      BY DEF RowsOK
    <3>2. new \in Row /\ new.state = delivery[d].state /\ new.lease = delivery[d].lease
      BY <3>1 DEF Row
    <3>3. ~new.live
      BY <3>1 DEF Row
    <3>4. GoodRow(new)
      BY <3>1, <3>2, <3>3 DEF GoodRow
    <3> HIDE DEF new
    <3>5. RowMay(d, new)
      BY <3>1, <3>2, <3>4 DEF RowMay
    <3> QED
      BY <3>5 DEF new
  <2>2. \A d \in Rows : RowMay(d, delivery'[d])
    BY <1>1, <2>1, RowStays DEF LeaseExpires
  <2> QED
    BY <1>1, <2>2 DEF LeaseExpires, RowsMay, RowMay, GoodRow
<1>2. ASSUME NEW d \in Rows, NEW row \in Row, delivery' = [delivery EXCEPT ![d] = row], RowMay(d, row)
      PROVE  RowsMay
  BY <1>2, RowStays DEF RowsMay, RowsOK
<1>3. ASSUME NEW d \in Rows, BackoffElapses(d) PROVE RowsMay
  <2> DEFINE new == [delivery[d] EXCEPT !.ready = TRUE]
  <2>1. delivery[d] \in Row /\ GoodRow(delivery[d])
    BY DEF RowsOK
  <2>2. new \in Row
    BY <2>1 DEF Row
  <2>3. new.state = delivery[d].state /\ new.lease = delivery[d].lease /\ new.live = delivery[d].live
    BY <2>1 DEF Row
  <2>4. delivery' = [delivery EXCEPT ![d] = new]
    BY <1>3, <2>1 DEF BackoffElapses, RowsOK, Row
  <2> HIDE DEF new
  <2>5. RowMay(d, new)
    BY <2>1, <2>2, <2>3 DEF RowMay, GoodRow
  <2> QED
    BY <1>2, <2>2, <2>4, <2>5
<1>4. ASSUME NEW d \in Rows, ReplayDeadLetter(d) PROVE RowsMay
  <2> DEFINE old == Settle(delivery[d], "pending", TRUE)
             new == [old EXCEPT !.attempts = 0]
  <2>1. RowMay(d, old)
    BY <1>4, RowSettles DEF ReplayDeadLetter, Owed
  <2>2. old \in Row /\ old.state = "pending"
    BY <2>1, RowShapes DEF RowMay, GoodRow, RowsOK
  <2>3. delivery' = [delivery EXCEPT ![d] = new]
    BY <1>4 DEF ReplayDeadLetter
  <2> HIDE DEF old
  <2>4. new \in Row
    BY <2>2, Bounds DEF Row
  <2>5. new.state = old.state /\ new.lease = old.lease /\ new.live = old.live
    BY <2>2 DEF Row
  <2> HIDE DEF new
  <2>6. RowMay(d, new)
    BY <2>1, <2>4, <2>5 DEF RowMay, GoodRow
  <2> QED
    BY <1>2, <2>3, <2>4, <2>6
<1> QED
  BY <1>1, <1>3, <1>4

\* A listing serves what lies after the position it resumes at: with its items
\* the consumer has everything up to the position it goes on from.
LEMMA PageServes ==
  ASSUME StreamOK, CursorsOK, TokensOK, NEW r \in Remotes, NEW k \in Sessions,
         NEW tok, tok = token[<<r, k>>], tok.kind \in {"none", "stream"}, After(r, tok) >= floor
  PROVE  /\ After(r, tok) \in floor .. next - 1 /\ ReceivedTo(r, After(r, tok))
         /\ Upto(r, tok) \in 0 .. next - 1 /\ NextAfter(r, tok) \in 0 .. Upto(r, tok)
         /\ PageItems(r, tok) \subseteq outbox
         /\ \A s \in 1 .. NextAfter(r, tok) : Has(r, s) \/ s \in PageItems(r, tok)
<1> DEFINE after == After(r, tok)
           upto  == Upto(r, tok)
           rows  == PageRows(r, tok)
           items == PageItems(r, tok)
<1>1. tok \in Token /\ next \in 1 .. MaxSeq + 1 /\ floor \in 0 .. next - 1 /\ MaxSeq \in Nat
  BY Bounds DEF TokensOK, StreamOK
<1>2. after \in floor .. next - 1 /\ ReceivedTo(r, after)
  <2>1. CASE tok.kind = "stream"
    BY <1>1, <2>1 DEF After, TokensOK, Token
  <2>2. CASE tok.kind # "stream"
    <3>1. CASE cursor[r] = None
      BY <1>1, <2>2, <3>1 DEF After, ReceivedTo
    <3>2. CASE cursor[r] # None
      BY <2>2, <3>2 DEF After, CursorsOK
    <3> QED
      BY <3>1, <3>2
  <2> QED
    BY <2>1, <2>2
<1>3. upto \in 0 .. next - 1
  <2>1. CASE tok.kind = "stream" /\ tok.after # tok.upto
    BY <1>1, <2>1 DEF Upto, TokensOK, Token
  <2>2. CASE ~(tok.kind = "stream" /\ tok.after # tok.upto) /\ outbox = {}
    BY <1>1, <1>2, <2>2 DEF Upto
  <2>3. CASE ~(tok.kind = "stream" /\ tok.after # tok.upto) /\ outbox # {}
    <3>1. outbox \subseteq Seqs
      BY <1>1 DEF StreamOK, Seqs
    <3>2. Max(outbox) \in outbox
      BY <2>3, <3>1, MaxOfSeqs
    <3> QED
      BY <1>1, <2>3, <3>2 DEF Upto, StreamOK
  <2> QED
    BY <2>1, <2>2, <2>3
<1>4. /\ rows \subseteq outbox /\ rows \subseteq Seqs /\ items \subseteq rows
      /\ rows # {} => items # {}
      /\ \A m \in items, s \in rows : s <= m => s \in items
  <2>1. rows \subseteq outbox /\ rows \subseteq Seqs
    BY <1>1 DEF PageRows, StreamOK, Seqs
  <2>2. PageSize \in Nat \ {0}
    BY Bounds
  <2> QED
    BY <2>1, <2>2, FirstOfSeqs DEF PageItems
<1>5. \A s \in rows : s <= upto
  BY DEF PageRows
<1>6. ASSUME NEW s \in Nat, after < s, s <= upto PROVE Has(r, s) \/ s \in rows
  BY <1>1, <1>2, <1>3, <1>6 DEF PageRows, StreamOK, Has
<1>7. ASSUME NEW s \in Nat, 0 < s, s <= after PROVE Has(r, s)
  BY <1>1, <1>2, <1>7 DEF ReceivedTo
<1>8. CASE items = rows
  <2>1. NextAfter(r, tok) = upto
    BY <1>8 DEF NextAfter
  <2>2. \A s \in 1 .. upto : Has(r, s) \/ s \in rows
    <3>1. SUFFICES ASSUME NEW s \in 1 .. upto PROVE Has(r, s) \/ s \in rows
      OBVIOUS
    <3>2. s \in Nat /\ 0 < s /\ s <= upto /\ after \in Nat
      BY <1>1, <1>2, <1>3
    <3>3. s <= after \/ after < s
      BY <3>2
    <3> QED
      BY <1>6, <1>7, <3>2, <3>3
  <2> QED
    BY <1>2, <1>3, <1>4, <1>8, <2>1, <2>2
<1>9. CASE items # rows
  <2>1. NextAfter(r, tok) = Max(items)
    BY <1>9 DEF NextAfter
  <2>2. Max(items) \in items
    BY <1>4, <1>9, MaxOfSeqs
  <2>3. Max(items) \in Nat /\ Max(items) <= upto
    BY <1>4, <1>5, <2>2, Finite
  <2>4. \A s \in 1 .. Max(items) : Has(r, s) \/ s \in items
    <3>1. SUFFICES ASSUME NEW s \in 1 .. Max(items) PROVE Has(r, s) \/ s \in items
      OBVIOUS
    <3>2. s \in Nat /\ 0 < s /\ s <= upto /\ s <= Max(items) /\ after \in Nat
      BY <1>1, <1>2, <1>3, <2>3
    <3>3. s <= after \/ after < s
      BY <3>2
    <3>4. s \in rows => s \in items
      BY <1>4, <2>2, <3>2
    <3> QED
      BY <1>6, <1>7, <3>2, <3>3, <3>4
  <2>5. Max(items) \in 0 .. upto
    BY <1>3, <2>3
  <2> QED
    BY <1>2, <1>3, <1>4, <2>1, <2>4, <2>5
<1> QED
  BY <1>8, <1>9

\* sync_page: the rows that the presented cursor confirms become delivered.
LEMMA PageDelivers ==
  ASSUME StreamOK, RowsOK, TokensOK, NEW r \in Remotes, NEW k \in Sessions, NEW arrives,
         Page(r, k, arrives)
  PROVE  RowsMay
<1> DEFINE tok == token[<<r, k>>]
<1>1. ASSUME NEW d \in Rows, ConfirmedByCursor(r, tok, d)
      PROVE  RowMay(d, Settle(delivery[d], "delivered", FALSE))
  <2>1. delivery[d].state \in Owed /\ d[1] = r /\ tok.kind = "stream" /\ d[2] <= tok.after
    BY <1>1 DEF ConfirmedByCursor, Owed
  <2>2. d[2] \in Seqs /\ tok.after \in Nat
    BY DEF Rows, TokensOK, Token
  <2>3. d[2] \in 1 .. tok.after
    BY <2>1, <2>2, Bounds DEF Seqs
  <2>4. Has(d[1], d[2])
    BY <2>1, <2>3 DEF TokensOK, ReceivedTo
  <2> QED
    BY <2>1, <2>4, RowSettles
<1>2. delivery' = [d \in Rows |-> IF ConfirmedByCursor(r, tok, d)
                                  THEN Settle(delivery[d], "delivered", FALSE) ELSE delivery[d]]
  BY DEF Page
<1>3. \A d \in Rows : RowMay(d, delivery'[d])
  BY <1>1, <1>2, RowStays
<1> QED
  BY <1>2, <1>3 DEF RowsMay, RowMay, GoodRow

\* sync_compact removes rows.
LEMMA CompactRows ==
  ASSUME RowsOK, NEW fresh, NEW keep, NEW through, Compact(fresh, keep, through)
  PROVE  RowsMay
<1>1. \A d \in Rows : RowMay(d, delivery'[d])
  BY RowStays DEF Compact
<1> QED
  BY <1>1 DEF Compact, RowsMay, RowMay, GoodRow

\* Every step but an append and a registration does to each row what a step may do.
LEMMA NextRows ==
  ASSUME IInv, Next
  PROVE  \/ RowsMay
         \/ \E o \in Origins \cup {Local} : Append(o)
         \/ \E t \in Remotes, mode \in {"future", "retained"} : RegisterTarget(t, mode)
<1>1. ASSUME delivery' = delivery PROVE RowsMay
  BY <1>1, RowStays DEF RowsMay, IInv, RowsOK
<1>2. ASSUME NEW t \in Remotes, NEW enabled \in BOOLEAN, SetTargetEnabled(t, enabled) PROVE RowsMay
  BY <1>1, <1>2 DEF SetTargetEnabled
<1>3. CASE PushNext
  <2>1. ASSUME NEW t \in Remotes, NEW lease \in Leases, Claim(t, lease) PROVE RowsMay
    BY <2>1, ClaimRows DEF IInv
  <2>2. ASSUME NEW b \in held, PeerReceives(b) \/ AbandonBatch(b) PROVE RowsMay
    BY <1>1, <2>2 DEF PeerReceives, AbandonBatch
  <2>3. ASSUME NEW b \in held, AckBatch(b) PROVE RowsMay
    BY <2>3, AckRows DEF IInv
  <2>4. ASSUME NEW b \in held, NEW how \in {"fail", "dead_letter"}, FailNext(b, how) PROVE RowsMay
    BY <2>4, FailRows DEF IInv
  <2> QED
    BY <1>3, <2>1, <2>2, <2>3, <2>4, TimeRows DEF PushNext, IInv
<1>4. CASE PullNext
  <2>1. PICK r \in Pullers, k \in Sessions :
          \/ DropToken(r, k)
          \/ \E arrives \in BOOLEAN :
               \/ Page(r, k, arrives)
               \/ \E keep \in SUBSET Taken :
                    \/ \E pages \in 1 .. MaxSnapshotPages : CreateSnapshot(r, k, keep, pages, arrives)
                    \/ SnapshotPage(r, k, keep, arrives)
    BY <1>4 DEF PullNext
  <2>2. r \in Remotes
    BY OutboxAssumptions
  <2>3. CASE \E arrives \in BOOLEAN : Page(r, k, arrives)
    BY <2>2, <2>3, PageDelivers DEF IInv
  <2>4. CASE ~ \E arrives \in BOOLEAN : Page(r, k, arrives)
    BY <1>1, <2>1, <2>4 DEF DropToken, CreateSnapshot, SnapshotPage
  <2> QED
    BY <2>3, <2>4
<1>5. CASE CompactNext
  BY <1>5, CompactRows DEF CompactNext, IInv
<1> QED
  BY <1>2, <1>3, <1>4, <1>5 DEF Next, AppendNext, TargetNext

-----------------------------------------------------------------------------
(* What each group of actions leaves alone *)

\* Pushes leave the stream, the targets and the pull side alone; only the
\* reception of a batch changes what a remote has.
LEMMA PushFrame ==
  ASSUME PushNext
  PROVE  /\ UNCHANGED <<streamVars, targetVars, pullVars>>
         /\ got' = got \/ \E b \in held : PeerReceives(b)
<1>1. ASSUME NEW t \in Remotes, NEW lease \in Leases, Claim(t, lease)
      PROVE  UNCHANGED <<streamVars, targetVars, pullVars, got>>
  BY <1>1, Zenon DEF Claim
<1>2. ASSUME NEW b \in held, PeerReceives(b)
      PROVE  UNCHANGED <<streamVars, targetVars, pullVars>>
  BY <1>2 DEF PeerReceives
<1>3. ASSUME NEW b \in held, AckBatch(b) \/ AbandonBatch(b)
      PROVE  UNCHANGED <<streamVars, targetVars, pullVars, got>>
  BY <1>3 DEF AckBatch, AbandonBatch
<1>4. ASSUME NEW b \in held, NEW how \in {"fail", "dead_letter"}, FailNext(b, how)
      PROVE  UNCHANGED <<streamVars, targetVars, pullVars, got>>
  BY <1>4, Zenon DEF FailNext
<1>5. ASSUME NEW lease \in Leases, LeaseExpires(lease)
      PROVE  UNCHANGED <<streamVars, targetVars, pullVars, got>>
  BY <1>5 DEF LeaseExpires
<1>6. ASSUME NEW d \in Rows, ReplayDeadLetter(d) \/ BackoffElapses(d)
      PROVE  UNCHANGED <<streamVars, targetVars, pullVars, got>>
  BY <1>6 DEF ReplayDeadLetter, BackoffElapses
<1> QED
  BY <1>1, <1>2, <1>3, <1>4, <1>5, <1>6 DEF PushNext

\* A step of a pulling session is one of four.
PullStep(r, k) ==
  \/ DropToken(r, k)
  \/ \E arrives \in BOOLEAN : Page(r, k, arrives)
  \/ \E arrives \in BOOLEAN, keep \in SUBSET Taken, pages \in 1 .. MaxSnapshotPages :
        CreateSnapshot(r, k, keep, pages, arrives)
  \/ \E arrives \in BOOLEAN, keep \in SUBSET Taken : SnapshotPage(r, k, keep, arrives)

\* Pulls leave the stream, the targets and the batches alone, and what other
\* remotes have got and hold.
LEMMA PullFrame ==
  ASSUME PullNext
  PROVE  /\ UNCHANGED <<streamVars, targetVars, held>>
         /\ \E r \in Remotes, k \in Sessions : PullStep(r, k)
<1>1. \E r \in Pullers, k \in Sessions : PullStep(r, k)
  BY DEF PullNext, PullStep
<1>2. PICK r \in Remotes, k \in Sessions : PullStep(r, k)
  BY <1>1, OutboxAssumptions DEF OutboxAssumptions
<1>3. UNCHANGED <<streamVars, targetVars, held>>
  <2>1. ASSUME NEW arrives, Page(r, k, arrives) PROVE UNCHANGED <<streamVars, targetVars, held>>
    BY <2>1, Zenon DEF Page
  <2>2. ASSUME NEW arrives, NEW keep, NEW pages, CreateSnapshot(r, k, keep, pages, arrives)
        PROVE  UNCHANGED <<streamVars, targetVars, held>>
    BY <2>2, Zenon DEF CreateSnapshot
  <2>3. ASSUME NEW arrives, NEW keep, SnapshotPage(r, k, keep, arrives)
        PROVE  UNCHANGED <<streamVars, targetVars, held>>
    BY <2>3, Zenon DEF SnapshotPage
  <2>4. DropToken(r, k) => UNCHANGED <<streamVars, targetVars, held>>
    BY DEF DropToken
  <2> QED
    BY <1>2, <2>1, <2>2, <2>3, <2>4 DEF PullStep
<1> QED
  BY <1>2, <1>3

\* The events of the outbox have sequence numbers.
LEMMA OutboxSeqs ==
  ASSUME StreamOK
  PROVE  outbox \subseteq Seqs /\ outbox \subseteq 1 .. next - 1 /\ next - 1 \in 0 .. MaxSeq
BY Bounds DEF StreamOK, Seqs

\* What pulls and receptions do to what remotes have got: it grows, by sequence numbers.
Got(q, S) == q \in Remotes /\ S \subseteq Seqs /\ got' = [got EXCEPT ![q] = @ \cup S]

\* The reading of a page of a snapshot.
LEMMA ReadGets ==
  ASSUME SnapshotsOK, StreamOK, NEW r \in Remotes, NEW k \in Sessions, NEW n,
         NEW s, s.resume \in 0 .. next - 1, ReadSnapshotPage(r, k, s, n)
  PROVE  got' = got \/ Got(r, 1 .. s.resume)
<1>1. 1 .. s.resume \subseteq Seqs
  BY Bounds DEF StreamOK, Seqs
<1>2. CASE n = s.pages
  BY <1>1, <1>2 DEF ReadSnapshotPage, Got
<1>3. CASE n # s.pages
  BY <1>3 DEF ReadSnapshotPage
<1> QED
  BY <1>2, <1>3

\* What a remote has got grows.
LEMMA GotGrows ==
  ASSUME IInv, Next
  PROVE  got' = got \/ \E q \in Remotes, S \in SUBSET Seqs : Got(q, S)
<1>1. CASE AppendNext \/ TargetNext \/ CompactNext
  BY <1>1 DEF AppendNext, TargetNext, CompactNext, Append, RegisterTarget, SetTargetEnabled, Compact
<1>2. CASE PushNext
  <2>1. ASSUME NEW b \in held, PeerReceives(b) PROVE Got(b.target, b.seqs)
    BY <2>1 DEF PeerReceives, IInv, HeldOK, Batch, Got
  <2>2. \A b \in held : b.target \in Remotes /\ b.seqs \in SUBSET Seqs
    BY DEF IInv, HeldOK, Batch
  <2> QED
    BY <1>2, <2>1, <2>2, PushFrame
<1>3. CASE PullNext
  <2>1. PICK r \in Remotes, k \in Sessions : PullStep(r, k)
    BY <1>3, PullFrame
  <2>2. ASSUME NEW arrives \in BOOLEAN, Page(r, k, arrives)
        PROVE  got' = got \/ \E S \in SUBSET Seqs : Got(r, S)
    <3> DEFINE tok == token[<<r, k>>]
    <3>1. tok.kind \in {"none", "stream"} /\ After(r, tok) >= floor
      BY <2>2 DEF Page
    <3>2. PageItems(r, tok) \subseteq Seqs
      BY <3>1, PageServes, OutboxSeqs DEF IInv
    <3>3. got' = got \/ got' = [got EXCEPT ![r] = @ \cup PageItems(r, tok)]
      BY <2>2 DEF Page
    <3> QED
      BY <3>2, <3>3 DEF Got
  <2>3. ASSUME NEW s, NEW n, s.resume \in 0 .. next - 1, ReadSnapshotPage(r, k, s, n)
        PROVE  got' = got \/ \E S \in SUBSET Seqs : Got(r, S)
    BY <2>3, ReadGets DEF Got, IInv
  <2>4. ASSUME NEW arrives \in BOOLEAN, NEW keep \in SUBSET Taken, NEW pages \in 1 .. MaxSnapshotPages,
               CreateSnapshot(r, k, keep, pages, arrives)
        PROVE  got' = got \/ \E S \in SUBSET Seqs : Got(r, S)
    <3> DEFINE snap == IF <<r, k>> \in keep THEN snapshot[<<r, k>>] ELSE [resume |-> next - 1, pages |-> pages]
    <3>1. ReadSnapshotPage(r, k, snap, 1) \/ got' = got
      BY <2>4 DEF CreateSnapshot
    <3>2. snap.resume \in 0 .. next - 1
      BY DEF IInv, SnapshotsOK, StreamOK
    <3> HIDE DEF snap
    <3> QED
      BY <2>3, <3>1, <3>2
  <2>5. ASSUME NEW arrives \in BOOLEAN, NEW keep \in SUBSET Taken, SnapshotPage(r, k, keep, arrives)
        PROVE  got' = got \/ \E S \in SUBSET Seqs : Got(r, S)
    <3>1. (<<r, k>> \in keep /\ ReadSnapshotPage(r, k, snapshot[<<r, k>>], token[<<r, k>>].after + 1))
             \/ got' = got
      BY <2>5 DEF SnapshotPage
    <3>2. <<r, k>> \in keep => snapshot[<<r, k>>].resume \in 0 .. next - 1
      BY DEF IInv, SnapshotsOK, StreamOK
    <3> QED
      BY <2>3, <3>1, <3>2
  <2>6. DropToken(r, k) => got' = got
    BY DEF DropToken
  <2> QED
    BY <2>1, <2>2, <2>4, <2>5, <2>6 DEF PullStep
<1> QED
  BY <1>1, <1>2, <1>3 DEF Next

-----------------------------------------------------------------------------
(* The invariant *)

\* What a remote has of the stream it keeps.
LEMMA HasStays ==
  ASSUME IInv, Next, NEW r \in Remotes, NEW s \in 1 .. next - 1, Has(r, s)
  PROVE  Has(r, s)'
<1>1. got[r] \subseteq got'[r]
  <2>1. got \in [Remotes -> SUBSET Seqs]
    BY DEF IInv, HeldOK
  <2>2. ASSUME NEW q, NEW S, Got(q, S) PROVE got[r] \subseteq got'[r]
    BY <2>1, <2>2 DEF Got
  <2> QED
    BY <2>2, GotGrows
<1>2. origin'[s] = origin[s]
  <2>1. CASE AppendNext
    BY <2>1, Bounds DEF AppendNext, Append, IInv, StreamOK, Seqs
  <2>2. CASE CompactNext
    BY <2>2 DEF CompactNext, Compact
  <2>3. CASE TargetNext
    BY <2>3 DEF TargetNext, RegisterTarget, SetTargetEnabled, streamVars
  <2>4. CASE PushNext \/ PullNext
    BY <2>4, PushFrame, PullFrame DEF streamVars
  <2> QED
    BY <2>1, <2>2, <2>3, <2>4 DEF Next
<1> QED
  BY <1>1, <1>2 DEF Has

\* What a remote has received of the stream it keeps.
LEMMA ReceivedStays ==
  ASSUME IInv, Next, NEW r \in Remotes, NEW n \in 0 .. next - 1, ReceivedTo(r, n)
  PROVE  ReceivedTo(r, n)'
<1>1. ASSUME NEW s \in 1 .. n PROVE Has(r, s)'
  <2>1. s \in 1 .. next - 1
    BY DEF IInv, StreamOK
  <2> QED
    BY <2>1, HasStays DEF ReceivedTo
<1> QED
  BY <1>1 DEF ReceivedTo

\* Every step keeps the stream: only an append extends it, only compaction cuts it.
LEMMA NextKeepsStream ==
  ASSUME IInv, Next
  PROVE  StreamOK' /\ next <= next' /\ floor <= floor' /\ (outbox' # outbox => AppendNext \/ CompactNext)
<1>1. next \in 1 .. MaxSeq + 1 /\ floor \in 0 .. next - 1 /\ MaxSeq \in Nat
  BY Bounds DEF IInv, StreamOK
<1>2. ASSUME UNCHANGED streamVars
      PROVE  StreamOK' /\ next <= next' /\ floor <= floor' /\ outbox' = outbox
  BY <1>1, <1>2 DEF streamVars, IInv, StreamOK
<1>3. ASSUME NEW o \in Origins \cup {Local}, Append(o)
      PROVE  StreamOK' /\ next <= next' /\ floor <= floor'
  <2>1. next \in Seqs /\ next + 1 \in 1 .. MaxSeq + 1
    BY <1>1, <1>3 DEF Append, Seqs
  <2>2. outbox' = floor' + 1 .. next' - 1
    BY <1>1, <1>3 DEF Append, IInv, StreamOK
  <2>3. origin' \in [Seqs -> Origins \cup {Local, None}]
    BY <1>3, <2>1 DEF Append, IInv, StreamOK
  <2>4. next' = next + 1 /\ floor' = floor
    BY <1>3 DEF Append
  <2> QED
    BY <1>1, <2>1, <2>2, <2>3, <2>4 DEF StreamOK
<1>4. ASSUME NEW fresh, NEW keep, NEW through \in {floor} \cup outbox, Compact(fresh, keep, through)
      PROVE  StreamOK' /\ next <= next' /\ floor <= floor'
  <2>1. through \in floor .. next - 1
    BY <1>1 DEF IInv, StreamOK
  <2>2. outbox' = through + 1 .. next - 1
    BY <1>1, <1>4, <2>1 DEF Compact, IInv, StreamOK
  <2> QED
    BY <1>1, <1>4, <2>1, <2>2 DEF Compact, IInv, StreamOK
<1>5. CASE TargetNext \/ PushNext \/ PullNext
  <2>1. TargetNext => UNCHANGED streamVars
    BY DEF TargetNext, RegisterTarget, SetTargetEnabled
  <2> QED
    BY <1>2, <1>5, <2>1, PushFrame, PullFrame
<1> QED
  BY <1>3, <1>4, <1>5 DEF Next, AppendNext, CompactNext

\* A target that is registered stays so, from the event on where it started.
TargetsStay ==
  \A t \in Remotes :
    target[t] # "absent" => target'[t] # "absent" /\ bootstrap'[t] = bootstrap[t]

\* Every step keeps the targets; none of them goes away.
LEMMA NextKeepsTargets ==
  ASSUME IInv, Next
  PROVE  TargetsOK' /\ TargetsStay
<1>1. next \in Nat /\ next' \in Nat /\ next <= next'
  BY NextKeepsStream DEF IInv, StreamOK
<1>2. ASSUME UNCHANGED targetVars
      PROVE  TargetsOK' /\ TargetsStay
  BY <1>1, <1>2, Bounds DEF targetVars, IInv, TargetsOK, TargetsStay
<1>3. ASSUME NEW t \in Remotes, NEW mode \in {"future", "retained"}, RegisterTarget(t, mode)
      PROVE  TargetsOK' /\ TargetsStay
  <2>1. next - 1 \in 0 .. MaxSeq /\ floor \in 0 .. MaxSeq /\ next - 1 < next /\ floor < next
    BY Bounds DEF IInv, StreamOK
  <2>2. next' = next
    BY <1>3 DEF RegisterTarget, streamVars
  <2>3. PICK n \in {next - 1, floor} : bootstrap' = [bootstrap EXCEPT ![t] = n]
    BY <1>3 DEF RegisterTarget
  <2>4. target' = [target EXCEPT ![t] = "enabled"]
    BY <1>3 DEF RegisterTarget
  <2>5. target[t] = "absent"
    BY <1>3 DEF RegisterTarget
  <2> QED
    BY <2>1, <2>2, <2>3, <2>4, <2>5 DEF IInv, TargetsOK, TargetsStay
<1>4. ASSUME NEW t \in Remotes, NEW enabled \in BOOLEAN, SetTargetEnabled(t, enabled)
      PROVE  TargetsOK' /\ TargetsStay
  <2>1. PICK v \in {"enabled", "disabled"} : target' = [target EXCEPT ![t] = v]
    BY <1>4 DEF SetTargetEnabled
  <2>2. target[t] # "absent" /\ UNCHANGED <<bootstrap, next>>
    BY <1>4 DEF SetTargetEnabled, streamVars
  <2> QED
    BY <2>1, <2>2 DEF IInv, TargetsOK, TargetsStay
<1>5. CASE AppendNext \/ PushNext \/ PullNext \/ CompactNext
  <2>1. AppendNext \/ CompactNext => UNCHANGED targetVars
    BY DEF AppendNext, Append, CompactNext, Compact
  <2> QED
    BY <1>2, <1>5, <2>1, PushFrame, PullFrame
<1> QED
  BY <1>3, <1>4, <1>5 DEF Next, TargetNext

\* The rows that an append or a registration adds were not there.
RowsAdd(S) ==
  /\ S \subseteq Rows /\ QuotaAllows(Cardinality(S))
  /\ delivery' = [d \in Rows |-> IF d \in S THEN NewRow ELSE delivery[d]]
  /\ \A d \in S : /\ delivery[d].state = "none"
                 /\ d[2] \in outbox' /\ target'[d[1]] # "absent" /\ d[2] > bootstrap'[d[1]]
  /\ outbox \subseteq outbox'

\* _append_event adds a row for every enabled target but the origin.
LEMMA AppendAdds ==
  ASSUME IInv, NEW o \in Origins \cup {Local}, Append(o)
  PROVE  RowsAdd(EnabledFor(o) \X {next})
<1>1. next \in Seqs /\ next \notin outbox /\ EnabledFor(o) \subseteq Remotes
  BY Bounds DEF Append, IInv, StreamOK, Seqs, EnabledFor
<1>2. \A d \in Rows : d \in EnabledFor(o) \X {next} <=> d[1] \in EnabledFor(o) /\ d[2] = next
  BY DEF Rows
<1>3. Cardinality(EnabledFor(o) \X {next}) = Cardinality(EnabledFor(o))
  <2>1. IsFiniteSet(EnabledFor(o)) /\ Cardinality(EnabledFor(o)) \in Nat
    BY <1>1, OutboxAssumptions, FS_Subset, FS_CardinalityType
  <2>2. IsFiniteSet({next}) /\ Cardinality({next}) = 1
    BY FS_Singleton
  <2>3. Cardinality(EnabledFor(o) \X {next}) = Cardinality(EnabledFor(o)) * Cardinality({next})
    BY <2>1, <2>2, FS_Product, Zenon
  <2> QED
    BY <2>1, <2>2, <2>3
<1>4. \A d \in EnabledFor(o) \X {next} :
        d \in Rows /\ delivery[d].state = "none" /\ d[2] \in outbox' /\ target'[d[1]] # "absent"
        /\ d[2] > bootstrap'[d[1]]
  BY <1>1 DEF Rows, Append, targetVars, EnabledFor, IInv, RowsOK, TargetsOK, StreamOK
<1> QED
  BY <1>1, <1>2, <1>3, <1>4 DEF RowsAdd, Append

\* sync_register_target adds a row for every event it retains.
LEMMA RegisterAdds ==
  ASSUME IInv, NEW t \in Remotes, NEW mode \in {"future", "retained"}, RegisterTarget(t, mode)
  PROVE  RowsAdd({t} \X Retained(t, mode))
<1>1. Retained(t, mode) \subseteq outbox /\ outbox \subseteq Seqs
  BY OutboxSeqs DEF Retained, IInv
<1>2. \A d \in Rows : d \in {t} \X Retained(t, mode) <=> d[1] = t /\ d[2] \in Retained(t, mode)
  BY DEF Rows
<1>3. Cardinality({t} \X Retained(t, mode)) = Cardinality(Retained(t, mode))
  <2>1. IsFiniteSet(Retained(t, mode)) /\ Cardinality(Retained(t, mode)) \in Nat
    BY <1>1, Finite, FS_Subset, FS_CardinalityType
  <2>2. IsFiniteSet({t}) /\ Cardinality({t}) = 1
    BY FS_Singleton
  <2>3. Cardinality({t} \X Retained(t, mode)) = Cardinality({t}) * Cardinality(Retained(t, mode))
    BY <2>1, <2>2, FS_Product, Zenon
  <2> QED
    BY <2>1, <2>2, <2>3
<1>4. outbox' = outbox /\ target'[t] # "absent"
  BY DEF RegisterTarget, streamVars, IInv, TargetsOK
<1>5. \A s \in Retained(t, mode) : s > bootstrap'[t]
  BY DEF Retained, RegisterTarget, IInv, TargetsOK, StreamOK
<1>6. \A d \in {t} \X Retained(t, mode) :
        d \in Rows /\ delivery[d].state = "none" /\ d[2] \in outbox' /\ target'[d[1]] # "absent"
        /\ d[2] > bootstrap'[d[1]]
  BY <1>1, <1>4, <1>5 DEF Rows, RegisterTarget, IInv, RowsOK
<1> QED
  BY <1>1, <1>2, <1>3, <1>4, <1>6 DEF RowsAdd, RegisterTarget

\* Every step does to each row what a step may do, or adds rows.
LEMMA RowsChange ==
  ASSUME IInv, Next
  PROVE  RowsMay \/ \E S \in SUBSET Rows : RowsAdd(S)
<1>1. \A S : RowsAdd(S) => S \in SUBSET Rows
  BY DEF RowsAdd
<1>2. ASSUME NEW o \in Origins \cup {Local}, Append(o) PROVE \E S \in SUBSET Rows : RowsAdd(S)
  BY <1>1, <1>2, AppendAdds
<1>3. ASSUME NEW t \in Remotes, NEW mode \in {"future", "retained"}, RegisterTarget(t, mode)
      PROVE  \E S \in SUBSET Rows : RowsAdd(S)
  BY <1>1, <1>3, RegisterAdds
<1> QED
  BY <1>2, <1>3, NextRows

\* A compaction cuts a prefix of the outbox that no live cursor or snapshot needs.
LEMMA CompactCuts ==
  ASSUME IInv, NEW fresh \in SUBSET {r \in Remotes : cursor[r] # None}, NEW keep \in SUBSET Taken,
         NEW through \in {floor} \cup outbox, Compact(fresh, keep, through)
  PROVE  /\ floor' = through /\ next' = next /\ floor' \in floor .. next - 1
         /\ \A r \in fresh : cursor[r] \in floor' .. next - 1
         /\ \A p \in keep : snapshot[p].resume \in floor' .. next - 1
<1>1. floor' = through /\ next' = next
  BY DEF Compact
<1>2. through \in floor .. next - 1
  BY DEF IInv, StreamOK
<1>3. /\ \A r \in fresh : cursor[r] \in floor .. next - 1
      /\ \A p \in keep : snapshot[p].resume \in floor .. next - 1
  BY DEF IInv, CursorsOK, SnapshotsOK
<1>4. CASE through = floor
  BY <1>1, <1>2, <1>3, <1>4
<1>5. CASE through \in outbox
  <2>1. Compactable(through, fresh, keep)
    BY <1>5, OutboxSeqs, Bounds DEF Compact, IInv, StreamOK
  <2>2. /\ \A r \in fresh : through <= cursor[r]
        /\ \A p \in keep : through <= snapshot[p].resume
    BY <2>1 DEF Compactable, Pins
  <2>3. through \in Int /\ floor \in Int /\ next \in Int
    BY <1>2 DEF IInv, StreamOK
  <2> QED
    BY <1>1, <1>2, <1>3, <2>2, <2>3
<1> QED
  BY <1>4, <1>5

\* Rows stay within the outbox and the registered targets.
LEMMA NextKeepsRows ==
  ASSUME IInv, Next
  PROVE  RowsOK'
<1>1. TargetsStay
  BY NextKeepsTargets
<1>2. \A d \in Rows : /\ GoodRow(delivery[d]) /\ d[1] \in Remotes
                      /\ delivery[d].state # "none" =>
                           d[2] \in outbox /\ target[d[1]] # "absent" /\ d[2] > bootstrap[d[1]]
  BY DEF IInv, RowsOK, Rows
<1>3. CASE RowsMay
  <2>1. \A d \in Rows : delivery'[d].state # "none" /\ d[2] \in outbox => d[2] \in outbox'
    <3>1. CASE outbox \subseteq outbox'
      BY <3>1
    <3>2. CASE CompactNext
      <4>1. PICK fresh \in SUBSET {r \in Remotes : cursor[r] # None}, keep \in SUBSET Taken,
                 through \in {floor} \cup outbox : Compact(fresh, keep, through)
        BY <3>2 DEF CompactNext
      <4>2. \A s \in outbox : s <= through \/ s > through
        BY OutboxSeqs, Finite DEF IInv, StreamOK
      <4>3. \A d \in Rows : d[2] \in outbox /\ d[2] <= through => delivery'[d] = NoRow
        BY <4>1 DEF Compact
      <4> QED
        BY <4>1, <4>2, <4>3 DEF Compact, NoRow
    <3>3. CASE AppendNext
      BY <3>3 DEF AppendNext, Append
    <3> QED
      BY <3>1, <3>2, <3>3, NextKeepsStream
  <2> QED
    BY <1>1, <1>2, <1>3, <2>1 DEF RowsMay, RowMay, RowsOK, TargetsStay
<1>4. ASSUME NEW S \in SUBSET Rows, RowsAdd(S) PROVE RowsOK'
  <2>1. \A d \in Rows : GoodRow(delivery'[d])
    BY <1>2, <1>4, RowShapes DEF RowsAdd
  <2>2. delivery' \in [Rows -> Row]
    BY <1>4, <2>1 DEF RowsAdd, GoodRow
  <2>3. \A d \in Rows : delivery'[d].state # "none" =>
          d[2] \in outbox' /\ target'[d[1]] # "absent" /\ d[2] > bootstrap'[d[1]]
    BY <1>1, <1>2, <1>4 DEF RowsAdd, TargetsStay
  <2> QED
    BY <2>1, <2>2, <2>3 DEF RowsOK
<1> QED
  BY <1>3, <1>4, RowsChange

\* The rows that are owed stay within the quota: they are the ones there were,
\* and those of an addition that the quota allowed.
LEMMA NextKeepsQuota ==
  ASSUME IInv, Next
  PROVE  QuotaOK'
<1>1. IsFiniteSet(Active) /\ Cardinality(Active) \in Nat /\ Active \subseteq Rows
  <2>1. Active \subseteq Rows
    BY DEF Active
  <2> QED
    BY <2>1, Finite, FS_Subset, FS_CardinalityType
<1>2. MaxPending \in Nat
  BY Bounds
<1>3. Active' = {d \in Rows : delivery'[d].state \in Owed}
  BY DEF Active, Owed
<1>4. CASE RowsMay
  <2>1. Active' \subseteq Active
    BY <1>3, <1>4 DEF Active, Owed, RowsMay, RowMay
  <2>2. Cardinality(Active') \in Nat /\ Cardinality(Active') <= Cardinality(Active)
    BY <1>1, <2>1, FS_Subset, FS_CardinalityType
  <2> QED
    BY <1>1, <1>2, <2>2 DEF IInv, QuotaOK
<1>5. ASSUME NEW S \in SUBSET Rows, RowsAdd(S) PROVE QuotaOK'
  <2>1. Active' \subseteq Active \cup S
    BY <1>3, <1>5 DEF Active, Owed, RowsAdd
  <2>2. IsFiniteSet(S) /\ Cardinality(S) \in Nat
    BY Finite, FS_Subset, FS_CardinalityType
  <2>3. IsFiniteSet(Active \cup S) /\ Cardinality(Active \cup S) \in Nat
        /\ Cardinality(Active \cup S) <= Cardinality(Active) + Cardinality(S)
    <3>1. IsFiniteSet(Active \cup S)
          /\ Cardinality(Active \cup S) =
               Cardinality(Active) + Cardinality(S) - Cardinality(Active \cap S)
      BY <1>1, <2>2, FS_Union, Zenon
    <3>2. Cardinality(Active \cap S) \in Nat
      BY <2>2, FS_Intersection, FS_CardinalityType
    <3>3. Cardinality(Active \cup S) \in Nat
      BY <3>1, FS_CardinalityType
    <3> QED
      BY <1>1, <2>2, <3>1, <3>2, <3>3
  <2>4. Cardinality(Active') \in Nat /\ Cardinality(Active') <= Cardinality(Active \cup S)
    BY <2>1, <2>3, FS_Subset, FS_CardinalityType
  <2>5. Cardinality(Active) + Cardinality(S) <= MaxPending
    BY <1>5 DEF RowsAdd, QuotaAllows
  <2> QED
    BY <1>1, <1>2, <2>2, <2>3, <2>4, <2>5 DEF QuotaOK
<1> QED
  BY <1>4, <1>5, RowsChange

\* What a row says was delivered, its peer has.
LEMMA NextKeepsDelivered ==
  ASSUME IInv, Next
  PROVE  DeliveredIsReceived'
<1>1. ASSUME NEW d \in Rows, delivery[d].state # "none", Has(d[1], d[2])
      PROVE  Has(d[1], d[2])'
  <2>1. d[1] \in Remotes /\ d[2] \in 1 .. next - 1
    BY <1>1, OutboxSeqs DEF IInv, RowsOK, Rows
  <2> QED
    BY <1>1, <2>1, HasStays
<1>2. ASSUME NEW d \in Rows, delivery'[d].state = "delivered"
      PROVE  delivery[d].state # "none" /\ Has(d[1], d[2])
  <2>1. CASE RowsMay
    BY <1>2, <2>1 DEF RowsMay, RowMay, IInv, DeliveredIsReceived
  <2>2. ASSUME NEW S \in SUBSET Rows, RowsAdd(S) PROVE delivery[d].state # "none" /\ Has(d[1], d[2])
    BY <1>2, <2>2 DEF RowsAdd, NewRow, IInv, DeliveredIsReceived
  <2> QED
    BY <2>1, <2>2, RowsChange
<1> QED
  BY <1>1, <1>2 DEF DeliveredIsReceived

\* What remotes have got stays a set of events, and grows.
LEMMA GotStays ==
  ASSUME IInv, Next
  PROVE  got' \in [Remotes -> SUBSET Seqs] /\ \A r \in Remotes : got[r] \subseteq got'[r]
<1>1. got \in [Remotes -> SUBSET Seqs]
  BY DEF IInv, HeldOK
<1>2. ASSUME NEW q, NEW S, Got(q, S)
      PROVE  got' \in [Remotes -> SUBSET Seqs] /\ \A r \in Remotes : got[r] \subseteq got'[r]
  BY <1>1, <1>2 DEF Got
<1> QED
  BY <1>1, <1>2, GotGrows

\* A batch that a dispatcher holds.
GoodBatch(b) ==
  /\ b \in Batch /\ b.seqs # {}
  /\ b.phase = "received" => b.seqs \subseteq got[b.target]

\* Batches are claimed whole, shrink by the rows that were settled, and are
\* received by their target.
LEMMA NextKeepsHeld ==
  ASSUME IInv, Next
  PROVE  HeldOK'
<1>1. \A b \in held : GoodBatch(b)
  BY DEF IInv, HeldOK, GoodBatch
<1>2. ASSUME NEW b, GoodBatch(b) PROVE GoodBatch(b)'
  BY <1>2, GotStays DEF GoodBatch, Batch
<1>3. SUFFICES \A b \in held' : GoodBatch(b)'
  BY GotStays DEF HeldOK, GoodBatch
<1>4. ASSUME held' \subseteq held PROVE \A b \in held' : GoodBatch(b)'
  BY <1>1, <1>2, <1>4
<1>5. ASSUME NEW c, GoodBatch(c)', held' \subseteq held \cup {c}
      PROVE  \A b \in held' : GoodBatch(b)'
  BY <1>1, <1>2, <1>5
<1>6. CASE AppendNext \/ TargetNext \/ CompactNext
  BY <1>4, <1>6 DEF AppendNext, TargetNext, CompactNext, Append, RegisterTarget, SetTargetEnabled,
                    Compact
<1>7. CASE PullNext
  BY <1>4, <1>7, PullFrame
<1>8. CASE PushNext
  <2>1. ASSUME NEW t \in Remotes, NEW lease \in Leases, Claim(t, lease)
        PROVE  \A b \in held' : GoodBatch(b)'
    <3>1. \E S \in SUBSET Seqs :
            held' = IF S = {} THEN held
                    ELSE held \cup {[target |-> t, lease |-> lease, seqs |-> S, phase |-> "claimed"]}
      <4> DEFINE S == First(ClaimSize, {s \in Seqs : Claimable(LeaseReset(delivery[<<t, s>>]), s)})
      <4>1. held' = IF S = {} THEN held
                    ELSE held \cup {[target |-> t, lease |-> lease, seqs |-> S, phase |-> "claimed"]}
        BY <2>1 DEF Claim
      <4>2. S \subseteq Seqs
        BY DEF First
      <4> HIDE DEF S
      <4> QED
        BY <4>1, <4>2
    <3>2. PICK S \in SUBSET Seqs :
            held' = IF S = {} THEN held
                    ELSE held \cup {[target |-> t, lease |-> lease, seqs |-> S, phase |-> "claimed"]}
      BY <3>1
    <3> DEFINE c == [target |-> t, lease |-> lease, seqs |-> S, phase |-> "claimed"]
    <3>3. S # {} => GoodBatch(c)'
      BY DEF GoodBatch, Batch
    <3> QED
      BY <1>4, <1>5, <3>2, <3>3
  <2>2. ASSUME NEW b \in held, PeerReceives(b) PROVE \A x \in held' : GoodBatch(x)'
    <3> DEFINE c == [b EXCEPT !.phase = "received"]
    <3>1. b \in Batch /\ b.seqs # {}
      BY <1>1 DEF GoodBatch
    <3>2. c \in Batch /\ c.seqs = b.seqs /\ c.target = b.target
      BY <3>1 DEF Batch
    <3>3. c.seqs \subseteq got'[c.target]
      BY <2>2, <3>1, <3>2 DEF PeerReceives, Batch, IInv, HeldOK
    <3>4. held' = (held \ {b}) \cup {c}
      BY <2>2 DEF PeerReceives
    <3>5. GoodBatch(c)'
      BY <3>1, <3>2, <3>3 DEF GoodBatch
    <3> QED
      BY <1>5, <3>4, <3>5
  <2>3. ASSUME NEW b \in held, AckBatch(b) \/ AbandonBatch(b) PROVE \A x \in held' : GoodBatch(x)'
    BY <1>4, <2>3 DEF AckBatch, AbandonBatch
  <2>4. ASSUME NEW b \in held, NEW how \in {"fail", "dead_letter"}, FailNext(b, how)
        PROVE  \A x \in held' : GoodBatch(x)'
    <3> DEFINE s == CHOOSE x \in b.seqs : \A y \in b.seqs : x <= y
               rest == b.seqs \ {s}
               c == [b EXCEPT !.seqs = rest, !.phase = how]
    <3>1. held' \subseteq held \/ (rest # {} /\ held' \subseteq held \cup {c})
      BY <2>4 DEF FailNext
    <3> HIDE DEF s
    <3>2. b \in Batch
      BY <1>1 DEF GoodBatch
    <3>3. c \in Batch /\ c.seqs = rest /\ c.phase = how
      BY <3>2 DEF Batch
    <3>4. rest # {} => GoodBatch(c)'
      BY <3>3 DEF GoodBatch
    <3> QED
      BY <1>4, <1>5, <3>1, <3>4
  <2>5. (\E lease \in Leases : LeaseExpires(lease)) \/ (\E d \in Rows : ReplayDeadLetter(d) \/ BackoffElapses(d))
          => held' = held
    BY DEF LeaseExpires, ReplayDeadLetter, BackoffElapses
  <2> QED
    BY <1>4, <1>8, <2>1, <2>2, <2>3, <2>4, <2>5 DEF PushNext
<1> QED
  BY <1>6, <1>7, <1>8 DEF Next

\* Cursor rows move to positions that their remotes have reached, and compaction
\* does not overtake one that it keeps.
LEMMA NextKeepsCursors ==
  ASSUME IInv, Next
  PROVE  CursorsOK'
<1>1. /\ next \in 1 .. MaxSeq + 1 /\ floor \in 0 .. next - 1 /\ MaxSeq \in Nat
      /\ next' \in Nat /\ floor' \in Nat /\ next <= next'
      /\ cursor \in [Remotes -> (0 .. MaxSeq) \cup {None}] /\ None \notin Nat
  BY Bounds, NextKeepsStream, OutboxAssumptions DEF IInv, StreamOK, CursorsOK, OutboxAssumptions
<1>2. ASSUME NEW r \in Remotes, NEW n \in floor' .. next - 1, ReceivedTo(r, n)
      PROVE  n \in 0 .. MaxSeq /\ n \in floor' .. next' - 1 /\ ReceivedTo(r, n)'
  <2>1. n \in 0 .. next - 1
    BY <1>1, <1>2
  <2>2. ReceivedTo(r, n)'
    BY <1>2, <2>1, ReceivedStays
  <2>3. n \in 0 .. MaxSeq
    BY <1>1, <2>1
  <2>4. n \in Int /\ floor' <= n /\ n <= next - 1
    BY <1>1
  <2>5. next \in Int /\ next' \in Int /\ floor' \in Int /\ next <= next'
    BY <1>1
  <2>6. \A i, j, l, m \in Int : l <= i /\ i <= j - 1 /\ j <= m => i \in l .. m - 1
    OBVIOUS
  <2>7. n \in floor' .. next' - 1
    BY <2>4, <2>5, <2>6, Zenon
  <2> QED
    BY <2>2, <2>3, <2>7
<1>3. \A r \in Remotes : \A n : cursor[r] = n /\ n # None =>
        n \in floor .. next - 1 /\ ReceivedTo(r, n)
  BY DEF IInv, CursorsOK
<1>4. ASSUME cursor' = cursor, floor' = floor PROVE CursorsOK'
  BY <1>1, <1>2, <1>3, <1>4 DEF CursorsOK
<1>5. CASE AppendNext
  BY <1>4, <1>5 DEF AppendNext, Append, pullVars
<1>6. CASE TargetNext
  BY <1>4, <1>6 DEF TargetNext, RegisterTarget, SetTargetEnabled, pullVars, streamVars
<1>7. CASE PushNext
  BY <1>4, <1>7, PushFrame DEF pullVars, streamVars
<1>8. CASE CompactNext
  <2>1. PICK fresh \in SUBSET {r \in Remotes : cursor[r] # None}, keep \in SUBSET Taken,
             through \in {floor} \cup outbox : Compact(fresh, keep, through)
    BY <1>8 DEF CompactNext
  <2>2. cursor' = [r \in Remotes |-> IF r \in fresh THEN cursor[r] ELSE None]
    BY <2>1 DEF Compact
  <2>3. \A r \in fresh : cursor[r] \in floor' .. next - 1
    BY <2>1, CompactCuts
  <2> QED
    BY <1>1, <1>2, <1>3, <2>2, <2>3 DEF CursorsOK
<1>9. CASE PullNext
  <2>1. PICK r \in Remotes, k \in Sessions : PullStep(r, k)
    BY <1>9, PullFrame
  <2>2. floor' = floor
    BY <1>9, PullFrame DEF streamVars
  <2>3. ASSUME NEW arrives \in BOOLEAN, Page(r, k, arrives) PROVE CursorsOK'
    <3> DEFINE tok == token[<<r, k>>]
    <3>1. tok.kind \in {"none", "stream"} /\ After(r, tok) >= floor
      BY <2>3 DEF Page
    <3>2. PICK after : after = After(r, tok)
      OBVIOUS
    <3>3. after \in floor .. next - 1 /\ ReceivedTo(r, after)
      BY <3>1, <3>2, PageServes DEF IInv
    <3>4. PICK n : n = CursorAfterPage(r, tok)
      OBVIOUS
    <3>5. n = after \/ (cursor[r] # None /\ n = cursor[r])
      BY <3>2, <3>4 DEF CursorAfterPage, Maximum
    <3>6. n \in floor .. next - 1 /\ ReceivedTo(r, n)
      BY <1>3, <3>3, <3>5
    <3>7. n \in 0 .. MaxSeq /\ n \in floor' .. next' - 1 /\ ReceivedTo(r, n)'
      BY <1>2, <2>2, <3>6
    <3>8. cursor' = [cursor EXCEPT ![r] = n]
      BY <2>3, <3>4 DEF Page
    <3>9. cursor' \in [Remotes -> (0 .. MaxSeq) \cup {None}]
      BY <1>1, <3>7, <3>8
    <3>10. ASSUME NEW q \in Remotes, NEW m, cursor'[q] = m, m # None
           PROVE  m \in floor' .. next' - 1 /\ ReceivedTo(q, m)'
      <4>1. CASE q = r
        BY <1>1, <3>7, <3>8, <3>10, <4>1
      <4>2. CASE q # r
        BY <1>1, <1>2, <1>3, <2>2, <3>8, <3>10, <4>2
      <4> QED
        BY <4>1, <4>2
    <3> QED
      BY <3>9, <3>10 DEF CursorsOK
  <2>4. ASSUME ~ \E arrives \in BOOLEAN : Page(r, k, arrives) PROVE cursor' = cursor
    BY <2>1, <2>4 DEF PullStep, DropToken, CreateSnapshot, SnapshotPage
  <2> QED
    BY <1>4, <2>2, <2>3, <2>4
<1> QED
  BY <1>5, <1>6, <1>7, <1>8, <1>9 DEF Next

\* The snapshots that a cleanup keeps are some of those there were.
LEMMA CleanupKeeps ==
  ASSUME SnapshotsOK, NEW keep \in SUBSET Taken
  PROVE  /\ Kept(keep) \in [Remotes \X Sessions -> [resume : 0 .. MaxSeq, pages : 0 .. MaxSnapshotPages]]
         /\ \A p \in Remotes \X Sessions : Kept(keep)[p] = (IF p \in keep THEN snapshot[p] ELSE NoSnapshot)
BY Bounds DEF Kept, SnapshotsOK, NoSnapshot

\* A snapshot resumes at the last event there was, and compaction does not
\* overtake one that it keeps.
LEMMA NextKeepsSnapshots ==
  ASSUME IInv, Next
  PROVE  SnapshotsOK'
<1>1. /\ next \in 1 .. MaxSeq + 1 /\ floor \in 0 .. next - 1 /\ MaxSeq \in Nat
      /\ next' \in Int /\ floor' \in Int /\ next <= next'
  BY Bounds, NextKeepsStream DEF IInv, StreamOK
<1>2. \A i, j, l, m \in Int : l <= i /\ i <= j - 1 /\ j <= m => i \in l .. m - 1
  OBVIOUS
<1>3. SnapshotsOK
  BY DEF IInv
<1>4. ASSUME NEW keep \in SUBSET Taken, snapshot' = Kept(keep),
             \A p \in keep : snapshot[p].resume \in floor' .. next - 1
      PROVE  SnapshotsOK'
  <2>1. \A p \in Remotes \X Sessions : snapshot'[p] # NoSnapshot => p \in keep /\ snapshot'[p] = snapshot[p]
    BY <1>3, <1>4, CleanupKeeps
  <2>2. \A p \in keep : snapshot[p].resume \in floor' .. next' - 1
    BY <1>1, <1>2, <1>4
  <2>3. snapshot' \in [Remotes \X Sessions -> [resume : 0 .. MaxSeq, pages : 0 .. MaxSnapshotPages]]
    BY <1>3, <1>4, CleanupKeeps
  <2> QED
    BY <2>1, <2>2, <2>3 DEF SnapshotsOK, Taken
<1>5. \A p \in Taken : snapshot[p].resume \in floor .. next - 1
  BY <1>3 DEF SnapshotsOK
<1>6. ASSUME snapshot' = snapshot, floor' = floor PROVE SnapshotsOK'
  <2>1. \A p \in Taken : snapshot[p].resume \in floor' .. next' - 1
    BY <1>1, <1>2, <1>5, <1>6
  <2> QED
    BY <1>3, <1>6, <2>1 DEF SnapshotsOK, Taken
<1>7. CASE AppendNext
  BY <1>6, <1>7 DEF AppendNext, Append, pullVars
<1>8. CASE TargetNext
  BY <1>6, <1>8 DEF TargetNext, RegisterTarget, SetTargetEnabled, pullVars, streamVars
<1>9. CASE PushNext
  BY <1>6, <1>9, PushFrame DEF pullVars, streamVars
<1>10. CASE CompactNext
  <2>1. PICK fresh \in SUBSET {r \in Remotes : cursor[r] # None}, keep \in SUBSET Taken,
             through \in {floor} \cup outbox : Compact(fresh, keep, through)
    BY <1>10 DEF CompactNext
  <2>2. snapshot' = Kept(keep)
    BY <2>1 DEF Compact
  <2> QED
    BY <1>4, <2>1, <2>2, CompactCuts
<1>11. CASE PullNext
  <2>1. PICK r \in Remotes, k \in Sessions : PullStep(r, k)
    BY <1>11, PullFrame
  <2>2. floor' = floor /\ next' = next
    BY <1>11, PullFrame DEF streamVars
  <2>3. ASSUME NEW arrives \in BOOLEAN, NEW keep \in SUBSET Taken, NEW pages \in 1 .. MaxSnapshotPages,
               CreateSnapshot(r, k, keep, pages, arrives)
        PROVE  SnapshotsOK'
    <3> DEFINE p == <<r, k>>
    <3>1. PICK snap : /\ snap = IF p \in keep THEN snapshot[p] ELSE [resume |-> next - 1, pages |-> pages]
                      /\ snapshot' = [Kept(keep) EXCEPT ![p] = snap]
      BY <2>3 DEF CreateSnapshot
    <3>2. p \in Remotes \X Sessions
      OBVIOUS
    <3>3. snap \in [resume : 0 .. MaxSeq, pages : 0 .. MaxSnapshotPages] /\ snap.resume \in floor .. next - 1
      <4>1. CASE p \in keep
        BY <1>3, <1>5, <3>1, <4>1 DEF SnapshotsOK
      <4>2. CASE p \notin keep
        <5>1. next - 1 \in 0 .. MaxSeq /\ next - 1 \in floor .. next - 1 /\ pages \in 0 .. MaxSnapshotPages
          BY <1>1, Bounds
        <5> QED
          BY <3>1, <4>2, <5>1
      <4> QED
        BY <4>1, <4>2
    <3>4. snapshot' \in [Remotes \X Sessions -> [resume : 0 .. MaxSeq, pages : 0 .. MaxSnapshotPages]]
      BY <1>3, <3>1, <3>2, <3>3, CleanupKeeps
    <3>5. \A q \in Remotes \X Sessions :
            snapshot'[q] # NoSnapshot => snapshot'[q].resume \in floor' .. next' - 1
      BY <1>3, <1>5, <2>2, <3>1, <3>2, <3>3, CleanupKeeps
    <3> QED
      BY <3>4, <3>5 DEF SnapshotsOK, Taken
  <2>4. ASSUME NEW arrives \in BOOLEAN, NEW keep \in SUBSET Taken, SnapshotPage(r, k, keep, arrives)
        PROVE  SnapshotsOK'
    <3>1. snapshot' = Kept(keep)
      BY <2>4 DEF SnapshotPage
    <3> QED
      BY <1>4, <1>5, <2>2, <3>1
  <2>5. DropToken(r, k) \/ (\E arrives \in BOOLEAN : Page(r, k, arrives)) => snapshot' = snapshot
    BY DEF DropToken, Page
  <2> QED
    BY <1>6, <2>1, <2>2, <2>3, <2>4, <2>5 DEF PullStep
<1> QED
  BY <1>7, <1>8, <1>9, <1>10, <1>11 DEF Next

\* A session's cursor that is good: of a stream, at a position its remote has reached.
GoodToken(r, tok) ==
  /\ tok \in Token
  /\ tok.kind = "stream" =>
       tok.after <= tok.upto /\ tok.upto < next /\ ReceivedTo(r, tok.after)

\* A session that has read the last page of a snapshot has everything up to
\* where the snapshot resumes.
LEMMA ReadGoes ==
  ASSUME IInv, NEW r \in Remotes, NEW k \in Sessions, NEW s, NEW n \in Nat,
         s.resume \in 0 .. next - 1, next' = next, ReadSnapshotPage(r, k, s, n)
  PROVE  \E tok : token' = [token EXCEPT ![<<r, k>>] = tok] /\ GoodToken(r, tok)'
<1>1. s.resume \in 0 .. MaxSeq /\ s.resume \in Nat
  BY Bounds DEF IInv, StreamOK
<1>2. CASE n = s.pages
  <2> DEFINE tok == [kind |-> "stream", after |-> s.resume, upto |-> s.resume]
  <2>1. token' = [token EXCEPT ![<<r, k>>] = tok] /\ got' = [got EXCEPT ![r] = @ \cup 1 .. s.resume]
    BY <1>2 DEF ReadSnapshotPage
  <2>2. \A x \in 1 .. s.resume : x \in got'[r]
    BY <2>1 DEF IInv, HeldOK
  <2>3. \A x \in 1 .. s.resume : Has(r, x)'
    BY <2>2 DEF Has
  <2>4. s.resume <= s.resume /\ s.resume < next'
    BY <1>1 DEF IInv, StreamOK
  <2>5. PICK m : m = s.resume
    OBVIOUS
  <2>6. ReceivedTo(r, m)'
    BY <2>3, <2>5 DEF ReceivedTo
  <2>7. PICK t : t = [kind |-> "stream", after |-> m, upto |-> m]
    OBVIOUS
  <2>8. t \in Token /\ t.after = m /\ t.upto = m
    BY <1>1, <2>5, <2>7 DEF Token
  <2>9. GoodToken(r, t)'
    BY <2>4, <2>5, <2>6, <2>8 DEF GoodToken
  <2> QED
    BY <2>1, <2>5, <2>7, <2>9
<1>3. CASE n # s.pages
  <2>1. PICK t : t = [kind |-> "snapshot", after |-> n, upto |-> s.resume]
    OBVIOUS
  <2>2. t \in Token /\ t.kind # "stream"
    BY <1>1, <2>1 DEF Token
  <2>3. token' = [token EXCEPT ![<<r, k>>] = t]
    BY <1>3, <2>1 DEF ReadSnapshotPage
  <2> QED
    BY <2>2, <2>3 DEF GoodToken
<1> QED
  BY <1>2, <1>3

\* Sessions move to positions that their remotes have reached.
LEMMA NextKeepsTokens ==
  ASSUME IInv, Next
  PROVE  TokensOK'
<1>1. /\ next \in Int /\ next' \in Int /\ next <= next' /\ MaxSeq \in Nat
      /\ token \in [Remotes \X Sessions -> Token]
  BY Bounds, NextKeepsStream DEF IInv, StreamOK, TokensOK
<1>2. ASSUME NEW r \in Remotes, NEW k \in Sessions, NEW tok, tok = token[<<r, k>>]
      PROVE  GoodToken(r, tok)'
  <2>1. tok \in Token
    BY <1>1, <1>2
  <2>2. tok.kind = "stream" =>
          tok.after \in Nat /\ tok.after <= tok.upto /\ tok.upto < next /\ ReceivedTo(r, tok.after)
    BY <1>2, <2>1 DEF IInv, TokensOK, Token
  <2>3. CASE tok.kind # "stream"
    BY <2>1, <2>3 DEF GoodToken
  <2>4. CASE tok.kind = "stream"
    <3>1. tok.upto \in Int /\ tok.upto < next'
      BY <1>1, <2>1, <2>2, <2>4 DEF Token
    <3>2. PICK n : n = tok.after
      OBVIOUS
    <3>3. n \in 0 .. next - 1
      BY <1>1, <2>2, <2>4, <3>1, <3>2
    <3>4. ReceivedTo(r, n)'
      BY <2>2, <2>4, <3>2, <3>3, ReceivedStays
    <3> QED
      BY <2>1, <2>2, <2>4, <3>1, <3>2, <3>4 DEF GoodToken
  <2> QED
    BY <2>3, <2>4
<1>3. ASSUME token' = token PROVE TokensOK'
  BY <1>1, <1>2, <1>3 DEF TokensOK, GoodToken
<1>4. ASSUME NEW r \in Remotes, NEW k \in Sessions, NEW tok, GoodToken(r, tok)',
             token' = [token EXCEPT ![<<r, k>>] = tok]
      PROVE  TokensOK'
  <2>1. tok \in Token
    BY <1>4 DEF GoodToken
  <2>2. token' \in [Remotes \X Sessions -> Token]
    BY <1>1, <1>4, <2>1
  <2>3. ASSUME NEW q \in Remotes, NEW l \in Sessions, NEW t, t = token'[<<q, l>>]
        PROVE  GoodToken(q, t)'
    <3>1. CASE <<q, l>> = <<r, k>>
      BY <1>1, <1>4, <2>3, <3>1
    <3>2. CASE <<q, l>> # <<r, k>>
      BY <1>1, <1>2, <1>4, <2>3, <3>2
    <3> QED
      BY <3>1, <3>2
  <2> QED
    BY <2>2, <2>3 DEF TokensOK, GoodToken
<1>5. CASE AppendNext \/ TargetNext \/ CompactNext
  BY <1>3, <1>5 DEF AppendNext, TargetNext, CompactNext, Append, RegisterTarget, SetTargetEnabled,
                    Compact, pullVars
<1>6. CASE PushNext
  BY <1>3, <1>6, PushFrame DEF pullVars
<1>7. CASE PullNext
  <2>1. PICK r \in Remotes, k \in Sessions : PullStep(r, k)
    BY <1>7, PullFrame
  <2>2. next' = next
    BY <1>7, PullFrame DEF streamVars
  <2>3. GoodToken(r, NoToken)'
    BY Bounds DEF GoodToken, Token, NoToken
  <2>4. CASE DropToken(r, k)
    BY <1>4, <2>3, <2>4 DEF DropToken
  <2>5. ASSUME NEW arrives \in BOOLEAN, Page(r, k, arrives) PROVE TokensOK'
    <3> DEFINE old == token[<<r, k>>]
    <3>1. PICK n : n = NextAfter(r, old)
      OBVIOUS
    <3>2. PICK upto : upto = Upto(r, old)
      OBVIOUS
    <3>3. PICK items : items = PageItems(r, old)
      OBVIOUS
    <3>4. old.kind \in {"none", "stream"} /\ After(r, old) >= floor
      BY <2>5 DEF Page
    <3>5. upto \in 0 .. next - 1 /\ n \in 0 .. upto /\ \A s \in 1 .. n : Has(r, s) \/ s \in items
      BY <3>1, <3>2, <3>3, <3>4, PageServes DEF IInv
    <3>6. CASE arrives
      <4>1. got' = [got EXCEPT ![r] = @ \cup items]
            /\ token' = [token EXCEPT ![<<r, k>>] = [kind |-> "stream", after |-> n, upto |-> upto]]
        BY <2>5, <3>1, <3>2, <3>3, <3>6 DEF Page
      <4>2. ASSUME NEW s \in 1 .. n PROVE Has(r, s)'
        <5>1. s \in 1 .. next - 1
          BY <1>1, <3>5
        <5>2. CASE Has(r, s)
          BY <5>1, <5>2, HasStays
        <5>3. CASE s \in items
          BY <4>1, <5>3 DEF Has, IInv, HeldOK
        <5> QED
          BY <3>5, <5>2, <5>3
      <4>3. ReceivedTo(r, n)'
        BY <4>2 DEF ReceivedTo
      <4>4. PICK t : t = [kind |-> "stream", after |-> n, upto |-> upto]
        OBVIOUS
      <4>5. n \in Nat /\ upto \in 0 .. MaxSeq /\ n <= upto /\ upto < next'
        BY <1>1, <2>2, <3>5, Bounds DEF IInv, StreamOK
      <4>6. t \in Token /\ t.after = n /\ t.upto = upto
        BY <4>4, <4>5 DEF Token
      <4>7. GoodToken(r, t)'
        BY <4>3, <4>5, <4>6 DEF GoodToken
      <4> QED
        BY <1>4, <4>1, <4>4, <4>7
    <3>7. CASE ~arrives
      BY <1>3, <2>5, <3>7 DEF Page
    <3> QED
      BY <3>6, <3>7
  <2>6. ASSUME NEW s, NEW n \in Nat, s.resume \in 0 .. next - 1, ReadSnapshotPage(r, k, s, n)
        PROVE  TokensOK'
    BY <1>4, <2>2, <2>6, ReadGoes
  <2>7. ASSUME NEW arrives \in BOOLEAN, NEW keep \in SUBSET Taken, NEW pages \in 1 .. MaxSnapshotPages,
               CreateSnapshot(r, k, keep, pages, arrives)
        PROVE  TokensOK'
    <3> DEFINE snap == IF <<r, k>> \in keep THEN snapshot[<<r, k>>] ELSE [resume |-> next - 1, pages |-> pages]
    <3>1. ReadSnapshotPage(r, k, snap, 1) \/ token' = token
      BY <2>7 DEF CreateSnapshot
    <3>2. snap.resume \in 0 .. next - 1
      BY DEF IInv, SnapshotsOK, StreamOK
    <3> HIDE DEF snap
    <3> QED
      BY <1>3, <2>6, <3>1, <3>2
  <2>8. ASSUME NEW arrives \in BOOLEAN, NEW keep \in SUBSET Taken, SnapshotPage(r, k, keep, arrives)
        PROVE  TokensOK'
    <3>1. \/ <<r, k>> \in keep /\ ReadSnapshotPage(r, k, snapshot[<<r, k>>], token[<<r, k>>].after + 1)
          \/ token' = [token EXCEPT ![<<r, k>>] = NoToken]
          \/ token' = token
      BY <2>8 DEF SnapshotPage
    <3>2. <<r, k>> \in keep => snapshot[<<r, k>>].resume \in 0 .. next - 1
      BY DEF IInv, SnapshotsOK, StreamOK
    <3>3. token[<<r, k>>].after + 1 \in Nat
      BY <1>1 DEF Token
    <3> QED
      BY <1>3, <1>4, <2>3, <2>6, <3>1, <3>2, <3>3
  <2> QED
    BY <2>1, <2>4, <2>5, <2>7, <2>8 DEF PullStep
<1> QED
  BY <1>5, <1>6, <1>7 DEF Next

\* A store without events satisfies the invariant.
LEMMA InitInv == Init => IInv
<1> SUFFICES ASSUME Init PROVE IInv
  OBVIOUS
<1>1. StreamOK /\ TargetsOK /\ CursorsOK
  BY Bounds DEF Init, StreamOK, TargetsOK, CursorsOK
<1>2. RowsOK /\ DeliveredIsReceived
  BY RowShapes DEF Init, RowsOK, DeliveredIsReceived, GoodRow, NoRow
<1>3. QuotaOK
  <2>1. Active = {}
    BY DEF Init, Active, NoRow
  <2>2. Cardinality({}) = 0
    BY FS_EmptySet
  <2> QED
    BY <2>1, <2>2, Bounds DEF QuotaOK
<1>4. HeldOK
  BY DEF Init, HeldOK
<1>5. TokensOK
  BY Bounds DEF Init, TokensOK, NoToken, Token
<1>6. SnapshotsOK
  BY Bounds DEF Init, SnapshotsOK, NoSnapshot, Taken
<1> QED
  BY <1>1, <1>2, <1>3, <1>4, <1>5, <1>6 DEF IInv

\* Every step keeps the invariant.
LEMMA NextInv == IInv /\ [Next]_vars => IInv'
<1>1. IInv /\ Next => IInv'
  BY NextKeepsStream, NextKeepsTargets, NextKeepsRows, NextKeepsQuota, NextKeepsDelivered,
     NextKeepsHeld, NextKeepsCursors, NextKeepsSnapshots, NextKeepsTokens DEF IInv
<1>2. IInv /\ UNCHANGED vars => IInv'
  BY DEF vars, IInv, StreamOK, TargetsOK, RowsOK, QuotaOK, Active, HeldOK, CursorsOK, TokensOK,
         SnapshotsOK, Taken, DeliveredIsReceived, ReceivedTo, Has
<1> QED
  BY <1>1, <1>2

\* The rows, batches, cursors and snapshots of every reachable state agree with
\* the stream and with what the remotes have received.
THEOREM OutboxInvariant == Spec => []IInv
<1>1. Init => IInv
  BY InitInv
<1>2. IInv /\ [Next]_vars => IInv'
  BY NextInv
<1> QED
  BY <1>1, <1>2, PTL DEF Spec

-----------------------------------------------------------------------------
(* What follows for the runs' properties *)

\* The persisted sync state, and what dispatchers and sessions hold of it, keep
\* their types.
THEOREM TypeCorrect == Spec => []TypeOK
<1>1. IInv => TypeOK
  <2> SUFFICES ASSUME IInv PROVE TypeOK
    OBVIOUS
  <2>1. next \in 1 .. MaxSeq + 1 /\ floor \in 0 .. MaxSeq /\ outbox \subseteq Seqs
    BY Bounds, OutboxSeqs DEF IInv, StreamOK
  <2> QED
    BY <2>1 DEF IInv, TypeOK, StreamOK, TargetsOK, RowsOK, HeldOK, CursorsOK, TokensOK, SnapshotsOK
<1> QED
  BY <1>1, OutboxInvariant, PTL

\* Every state that a mutation commits passes _validate_sync_state, and the
\* undelivered rows stay within sync_max_pending_events.
THEOREM StateIsValid == Spec => []StateValidates
<1>1. IInv => StateValidates
  BY DEF IInv, StateValidates, StreamOK, TargetsOK, RowsOK, QuotaOK, CursorsOK, SnapshotsOK, GoodRow
<1> QED
  BY <1>1, OutboxInvariant, PTL

\* No acknowledgement, late or confirmed by a cursor, marks an event delivered
\* that its peer does not have.
THEOREM NoFalseDelivery == Spec => []DeliveredIsReceived
<1>1. IInv => DeliveredIsReceived
  BY DEF IInv
<1> QED
  BY <1>1, OutboxInvariant, PTL

\* A consumer has everything up to its cursor row and up to the cursors its
\* sessions hold, so no listing that resumes there skips an event.
THEOREM NoListingSkips == Spec => []CursorIsReceived
<1>1. IInv => CursorIsReceived
  BY DEF IInv, CursorIsReceived, CursorsOK, TokensOK, ReceivedTo
<1> QED
  BY <1>1, OutboxInvariant, PTL

\* sync_compact drops an event only when every enabled target that was registered
\* before it has it.
THEOREM CompactionIsSafe == Spec => CompactionLosesNothing
<1>1. ASSUME IInv, Next, NEW s \in outbox \ outbox', NEW t \in Remotes,
             target[t] = "enabled", s > bootstrap[t]
      PROVE  Has(t, s)
  <2>1. CompactNext
    BY <1>1, NextKeepsStream DEF AppendNext, Append
  <2>2. PICK fresh \in SUBSET {r \in Remotes : cursor[r] # None}, keep \in SUBSET Taken,
             through \in {floor} \cup outbox : Compact(fresh, keep, through)
    BY <2>1 DEF CompactNext
  <2>3. s <= through
    BY <1>1, <2>2, OutboxSeqs, Finite DEF Compact, IInv, StreamOK
  <2>4. delivery[<<t, s>>].state = "delivered"
    BY <1>1, <2>2, <2>3 DEF Compact, Compactable, TargetsDone
  <2>5. <<t, s>> \in Rows
    BY <1>1, OutboxSeqs DEF Rows, IInv
  <2> QED
    BY <1>1, <2>4, <2>5 DEF IInv, DeliveredIsReceived
<1>2. IInv /\ [Next]_vars =>
        [\A s \in outbox \ outbox' : \A t \in Remotes :
           target[t] = "enabled" /\ s > bootstrap[t] => Has(t, s)]_vars
  BY <1>1
<1> QED
  BY <1>2, OutboxInvariant, PTL DEF Spec, CompactionLosesNothing

\* Late failures, expiries, claims and replays leave a delivered row alone.
THEOREM DeliveryIsFinal == Spec => DeliveredIsFinal
<1>1. ASSUME IInv, Next, NEW d \in Rows, delivery[d].state = "delivered"
      PROVE  delivery'[d].state \in {"delivered", "none"}
  <2>1. CASE RowsMay
    BY <1>1, <2>1 DEF RowsMay, RowMay
  <2>2. ASSUME NEW S \in SUBSET Rows, RowsAdd(S) PROVE delivery'[d].state \in {"delivered", "none"}
    BY <1>1, <2>2 DEF RowsAdd
  <2> QED
    BY <1>1, <2>1, <2>2, RowsChange
<1>2. IInv /\ [Next]_vars =>
        [\A d \in Rows : delivery[d].state = "delivered"
           => delivery'[d].state \in {"delivered", "none"}]_vars
  BY <1>1
<1> QED
  BY <1>2, OutboxInvariant, PTL DEF Spec, DeliveredIsFinal

\* What may happen to a row whose lease is live.
Respected(d) ==
  delivery[d].live /\ delivery'[d] # delivery[d]
    => \/ delivery'[d] = [delivery[d] EXCEPT !.live = FALSE]
       \/ HolderSettles(d) \/ PeerConfirms(d)
       \/ delivery'[d] = NoRow /\ target[d[1]] = "disabled"

\* A claim of any dispatcher leaves a live lease alone.
LEMMA ClaimRespects ==
  ASSUME RowsOK, NEW d \in Rows, NEW t \in Remotes, NEW lease \in Leases, Claim(t, lease)
  PROVE  Respected(d)
<1> DEFINE reset == [s \in Seqs |-> LeaseReset(delivery[<<t, s>>])]
           claimed == First(ClaimSize, {s \in Seqs : Claimable(reset[s], s)})
           Leased(row) == [row EXCEPT !.state = "leased", !.attempts = row.attempts + 1,
                                      !.lease = lease, !.live = TRUE]
<1>1. SUFFICES ASSUME delivery[d].live, d[1] = t PROVE delivery'[d] = delivery[d]
  BY DEF Respected, Claim
<1>2. d = <<t, d[2]>> /\ d[2] \in Seqs /\ delivery[d].state = "leased"
  BY <1>1 DEF Rows, RowsOK, GoodRow
<1>3. reset[d[2]] = delivery[d]
  BY <1>1, <1>2 DEF LeaseReset
<1>4. d[2] \notin claimed
  BY <1>2, <1>3 DEF First, Claimable
<1>5. delivery' = [e \in Rows |->
                     IF e[1] # t THEN delivery[e]
                     ELSE IF e[2] \in claimed THEN Leased(reset[e[2]]) ELSE reset[e[2]]]
  BY DEF Claim
<1> HIDE DEF claimed, reset
<1> QED
  BY <1>1, <1>3, <1>4, <1>5

\* An acknowledgement or a failure settles a row for the holder of its lease only.
LEMMA SettlingRespects ==
  ASSUME RowsOK, HeldOK, NEW d \in Rows, NEW b \in held,
         AckBatch(b) \/ \E how \in {"fail", "dead_letter"} : FailNext(b, how)
  PROVE  Respected(d)
<1>1. CASE AckBatch(b)
  <2>1. SUFFICES ASSUME delivery'[d] # delivery[d] PROVE HolderSettles(d)
    BY DEF Respected
  <2>2. /\ \A s \in b.seqs : NothingToAck(b, s) \/ HoldsLease(b, s)
        /\ d[1] = b.target /\ d[2] \in b.seqs /\ ~NothingToAck(b, d[2])
    BY <1>1, <2>1 DEF AckBatch
  <2>3. d = <<b.target, d[2]>>
    BY <2>2 DEF Rows
  <2>4. b.lease = delivery[d].lease
    BY <2>2, <2>3 DEF HoldsLease
  <2>5. b \in held \ held'
    BY <1>1 DEF AckBatch
  <2> QED
    BY <2>2, <2>4, <2>5 DEF HolderSettles
<1>2. ASSUME NEW how \in {"fail", "dead_letter"}, FailNext(b, how) PROVE Respected(d)
  <2> DEFINE s == CHOOSE x \in b.seqs : \A y \in b.seqs : x <= y
             rest == b.seqs \ {s}
             left == [b EXCEPT !.seqs = rest, !.phase = how]
  <2>1. SUFFICES ASSUME delivery'[d] # delivery[d] PROVE HolderSettles(d)
    BY DEF Respected
  <2>2. s \in b.seqs /\ <<b.target, s>> \in Rows
    BY FailFirst
  <2>3. \/ delivery' = delivery
        \/ HoldsLease(b, s)
           /\ delivery' = [delivery EXCEPT ![<<b.target, s>>] =
                             FailedRow(delivery[<<b.target, s>>], how)]
    BY <1>2, Zenon DEF FailNext
  <2>4. held' = held \ {b} \/ held' = (held \ {b}) \cup {left}
    BY <1>2, Zenon DEF FailNext
  <2> HIDE DEF s
  <2>5. HoldsLease(b, s) /\ d = <<b.target, s>>
    BY <2>1, <2>2, <2>3 DEF RowsOK
  <2>6. left # b
    <3>1. b \in Batch /\ b.seqs # rest
      BY <2>2 DEF HeldOK
    <3> HIDE DEF rest
    <3>2. left.seqs = rest
      BY <3>1 DEF Batch
    <3> QED
      BY <3>1, <3>2
  <2> HIDE DEF left
  <2>7. b \in held \ held'
    BY <2>4, <2>6
  <2> QED
    BY <2>2, <2>5, <2>7 DEF HolderSettles, HoldsLease
<1> QED
  BY <1>1, <1>2

\* Compaction takes a row with a live lease only from a disabled target.
LEMMA CompactRespects ==
  ASSUME IInv, NEW d \in Rows, NEW fresh, NEW keep, NEW through, Compact(fresh, keep, through)
  PROVE  Respected(d)
<1>1. SUFFICES ASSUME delivery[d].live, delivery'[d] # delivery[d]
               PROVE  delivery'[d] = NoRow /\ target[d[1]] = "disabled"
  BY DEF Respected
<1>2. d[2] \in outbox /\ d[2] <= through /\ delivery'[d] = NoRow
  BY <1>1 DEF Compact
<1>3. delivery[d].state = "leased" /\ d[2] > bootstrap[d[1]] /\ target[d[1]] # "absent"
  BY <1>1 DEF IInv, RowsOK, GoodRow
<1>4. TargetsDone(d[2])
  BY <1>2 DEF Compact, Compactable
<1>5. d = <<d[1], d[2]>> /\ d[1] \in Remotes
  BY DEF Rows
<1>6. target[d[1]] # "enabled"
  BY <1>3, <1>4, <1>5 DEF TargetsDone
<1> QED
  BY <1>2, <1>3, <1>5, <1>6 DEF IInv, TargetsOK

\* Until a lease runs out its row is left to the process that holds it, but for the
\* peer's own confirmation and the compaction of a disabled target.
THEOREM LeasesAreRespected == Spec => LeaseIsRespected
<1>1. ASSUME IInv, Next, NEW d \in Rows PROVE Respected(d)
  <2>1. ASSUME delivery' = delivery PROVE Respected(d)
    BY <2>1 DEF Respected
  <2>2. ASSUME NEW S \in SUBSET Rows, RowsAdd(S) PROVE Respected(d)
    BY <1>1, <2>2 DEF RowsAdd, Respected, IInv, RowsOK, GoodRow
  <2>3. CASE AppendNext \/ TargetNext
    <3>1. ASSUME NEW o \in Origins \cup {Local}, Append(o) PROVE Respected(d)
      BY <1>1, <2>2, <3>1, AppendAdds DEF RowsAdd
    <3>2. ASSUME NEW t \in Remotes, NEW mode \in {"future", "retained"}, RegisterTarget(t, mode)
          PROVE  Respected(d)
      BY <1>1, <2>2, <3>2, RegisterAdds DEF RowsAdd
    <3>3. ASSUME NEW t \in Remotes, NEW enabled \in BOOLEAN, SetTargetEnabled(t, enabled)
          PROVE  Respected(d)
      BY <2>1, <3>3 DEF SetTargetEnabled
    <3> QED
      BY <2>3, <3>1, <3>2, <3>3 DEF AppendNext, TargetNext
  <2>4. CASE PushNext
    <3>1. ASSUME NEW t \in Remotes, NEW lease \in Leases, Claim(t, lease) PROVE Respected(d)
      BY <1>1, <3>1, ClaimRespects DEF IInv
    <3>2. ASSUME NEW b \in held, PeerReceives(b) \/ AbandonBatch(b) PROVE Respected(d)
      BY <2>1, <3>2 DEF PeerReceives, AbandonBatch
    <3>3. ASSUME NEW b \in held,
                 AckBatch(b) \/ \E how \in {"fail", "dead_letter"} : FailNext(b, how)
          PROVE  Respected(d)
      BY <1>1, <3>3, SettlingRespects DEF IInv
    <3>4. ASSUME NEW lease \in Leases, LeaseExpires(lease) PROVE Respected(d)
      BY <3>4 DEF LeaseExpires, Respected
    <3>5. ASSUME NEW e \in Rows, ReplayDeadLetter(e) \/ BackoffElapses(e) PROVE Respected(d)
      <4>1. ~delivery[e].live /\ (d # e => delivery'[d] = delivery[d])
        BY <1>1, <3>5 DEF ReplayDeadLetter, BackoffElapses, IInv, RowsOK, GoodRow
      <4> QED
        BY <4>1 DEF Respected
    <3> QED
      BY <2>4, <3>1, <3>2, <3>3, <3>4, <3>5 DEF PushNext
  <2>5. CASE PullNext
    <3>1. PICK r \in Remotes, k \in Sessions : PullStep(r, k)
      BY <2>5, PullFrame
    <3>2. ASSUME NEW arrives \in BOOLEAN, Page(r, k, arrives) PROVE Respected(d)
      <4>1. SUFFICES ASSUME delivery'[d] # delivery[d] PROVE PeerConfirms(d)
        BY DEF Respected
      <4>2. ConfirmedByCursor(r, token[<<r, k>>], d)
            /\ delivery'[d] = Settle(delivery[d], "delivered", FALSE)
        BY <3>2, <4>1 DEF Page
      <4>3. delivery'[d].state = "delivered"
        <5>1. delivery[d] \in Row
          BY <1>1 DEF IInv, RowsOK
        <5> QED
          BY <4>2, <5>1, RowShapes
      <4> QED
        BY <4>2, <4>3 DEF PeerConfirms, ConfirmedByCursor
    <3> QED
      BY <2>1, <3>1, <3>2 DEF PullStep, DropToken, CreateSnapshot, SnapshotPage
  <2>6. CASE CompactNext
    BY <1>1, <2>6, CompactRespects DEF CompactNext
  <2> QED
    BY <1>1, <2>3, <2>4, <2>5, <2>6 DEF Next
<1>2. IInv /\ [Next]_vars =>
        [\A d \in Rows : delivery[d].live /\ delivery'[d] # delivery[d]
           => \/ delivery'[d] = [delivery[d] EXCEPT !.live = FALSE]
              \/ HolderSettles(d) \/ PeerConfirms(d)
              \/ delivery'[d] = NoRow /\ target[d[1]] = "disabled"]_vars
  BY <1>1 DEF Respected
<1> QED
  BY <1>2, OutboxInvariant, PTL DEF Spec, LeaseIsRespected
=============================================================================
