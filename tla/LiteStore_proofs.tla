---------------------------- MODULE LiteStore_proofs ----------------------------
(***************************************************************************)
(* Theorems about LiteStore, for any set of processes and ids and any      *)
(* number of calls, batches and faults.                                    *)
(*                                                                         *)
(* The argument: a process that may skip the reload (its base is the       *)
(* current generation) holds exactly the committed pair, unless it is in a *)
(* batch; and in a batch it still holds every row that must survive, since *)
(* whatever anybody commits meanwhile makes its base an older generation.  *)
(***************************************************************************)
EXTENDS LiteStore, TLAPS

\* Outside a batch, what is resident and fresh is what is committed.
CleanIsDisk == \A p \in Procs : depth[p] = 0 /\ Fresh(p) => res[p] = disk

\* What is fresh has every row that must survive.
FreshKeeps == \A p \in Procs : Fresh(p) => kept \subseteq Present(res[p].rows)

\* Nobody has seen a generation that is not there yet.
BasesAreOld == \A p \in Procs : base[p] # None => base[p] <= gen

\* So does a snapshot, and one taken outside a batch is of the committed rows.
SnapIsOld ==
  /\ snap.gen # None => snap.gen <= gen
  /\ snap.clean /\ snap.gen = gen => snap.rows = disk.rows

IInv == TypeOK /\ CleanIsDisk /\ FreshKeeps /\ BasesAreOld /\ SnapIsOld /\ CreationsSurvive
SnapType == [by : Procs \cup {None}, gen : Nat \cup {None}, rows : [Ids -> 0 .. MaxWrites],
             clean : BOOLEAN]
-----------------------------------------------------------------------------
(* What is resident *)

\* No snapshot, and the empty pair, are of their types.
LEMMA NoSnapTyped == NoSnap \in SnapType /\ Empty \in Pairs
<1>1. Empty \in [rows : [Ids -> 0 .. MaxWrites], events : SUBSET (1 .. MaxWrites)]
  BY LiteStoreAssumptions DEF Empty, Absent
<1>2. Empty.rows \in [Ids -> 0 .. MaxWrites]
  BY <1>1
<1> QED
  BY <1>1, <1>2 DEF NoSnap, SnapType, Pairs

\* What a call works on after its reload is a pair, has every row that must
\* survive, and is the committed pair outside a batch.
LEMMA CurrentFacts ==
  ASSUME IInv, NEW p \in Procs
  PROVE  /\ Current(p) \in Pairs
         /\ kept \subseteq Present(Current(p).rows)
         /\ depth[p] = 0 => Current(p) = disk
BY DEF IInv, TypeOK, Current, CleanIsDisk, FreshKeeps, CreationsSurvive

\* A process whose own position does not change stays as fresh as it was, or
\* becomes stale when another one commits.
LEMMA OthersFreshness ==
  ASSUME IInv, NEW q \in Procs, base'[q] = base[q], gen' \in {gen, gen + 1}, Fresh(q)'
  PROVE  gen' = gen /\ Fresh(q)
<1>1. base[q] \in Nat \cup {None} /\ gen \in Nat /\ None \notin Nat
  BY LiteStoreAssumptions DEF IInv, TypeOK
<1>2. base[q] = gen' /\ gen' \in Nat
  BY <1>1 DEF Fresh
<1>3. base[q] # None => base[q] <= gen
  BY DEF IInv, BasesAreOld
<1> QED
  BY <1>1, <1>2, <1>3 DEF Fresh

-----------------------------------------------------------------------------
(* A step publishes something in one process, and may commit it *)

\* A step of p that commits nothing: p holds pair, as of the current generation
\* or with no base at all.
LEMMA StayInv ==
  ASSUME IInv, NEW p \in Procs, NEW pair \in Pairs, NEW g \in {gen, None},
         NEW deleted \in SUBSET Ids,
         Stays(deleted), Publishes(p, pair, g),
         depth' = [depth EXCEPT ![p] = depth'[p]],
         g = gen => /\ kept \ deleted \subseteq Present(pair.rows)
                    /\ depth'[p] = 0 => pair = disk,
         snap' \in {snap, NoSnap}
  PROVE  /\ CleanIsDisk' /\ FreshKeeps' /\ BasesAreOld' /\ SnapIsOld' /\ CreationsSurvive'
         /\ res' \in [Procs -> Pairs] /\ base' \in [Procs -> Nat \cup {None}]
         /\ disk' \in Pairs /\ gen' \in Nat /\ kept' \subseteq Ids
<1> USE LiteStoreAssumptions
<1>1. /\ res' = [res EXCEPT ![p] = pair] /\ base' = [base EXCEPT ![p] = g]
      /\ kept' = kept \ deleted /\ disk' = disk /\ gen' = gen
  BY DEF Stays, Publishes
<1>2. /\ res \in [Procs -> Pairs] /\ base \in [Procs -> Nat \cup {None}]
      /\ disk \in Pairs /\ gen \in Nat /\ kept \subseteq Ids /\ depth \in [Procs -> 0 .. MaxDepth]
  BY DEF IInv, TypeOK
<1>3. /\ res' \in [Procs -> Pairs] /\ base' \in [Procs -> Nat \cup {None}]
      /\ disk' \in Pairs /\ gen' \in Nat /\ kept' \subseteq Ids
  BY <1>1, <1>2
<1>4. CleanIsDisk'
  BY <1>1, <1>2 DEF IInv, CleanIsDisk, Fresh
<1>5. FreshKeeps'
  BY <1>1, <1>2 DEF IInv, FreshKeeps, Fresh, Present
<1>6. BasesAreOld'
  BY <1>1, <1>2 DEF IInv, BasesAreOld
<1>7. SnapIsOld'
  BY <1>1, <1>2 DEF IInv, SnapIsOld, NoSnap
<1>8. CreationsSurvive'
  BY <1>1 DEF IInv, CreationsSurvive, Present
<1> QED
  BY <1>3, <1>4, <1>5, <1>6, <1>7, <1>8

\* A step of p that commits pair: p holds it, or lost the proof that it does.
LEMMA DecideInv ==
  ASSUME IInv, NEW p \in Procs, NEW pair \in Pairs, NEW g \in {gen + 1, None},
         NEW deleted \in SUBSET Ids,
         Decides(pair, deleted), Publishes(p, pair, g),
         depth' = [depth EXCEPT ![p] = depth'[p]],
         kept \ deleted \subseteq Present(pair.rows),
         snap' \in {snap, NoSnap}
  PROVE  /\ CleanIsDisk' /\ FreshKeeps' /\ BasesAreOld' /\ SnapIsOld' /\ CreationsSurvive'
         /\ res' \in [Procs -> Pairs] /\ base' \in [Procs -> Nat \cup {None}]
         /\ disk' \in Pairs /\ gen' \in Nat /\ kept' \subseteq Ids
<1> USE LiteStoreAssumptions
<1>1. /\ res' = [res EXCEPT ![p] = pair] /\ base' = [base EXCEPT ![p] = g]
      /\ kept' = (kept \cup Present(pair.rows)) \ deleted /\ disk' = pair /\ gen' = gen + 1
  BY DEF Decides, Publishes
<1>2. /\ res \in [Procs -> Pairs] /\ base \in [Procs -> Nat \cup {None}]
      /\ disk \in Pairs /\ gen \in Nat /\ kept \subseteq Ids /\ depth \in [Procs -> 0 .. MaxDepth]
  BY DEF IInv, TypeOK
<1>3. /\ res' \in [Procs -> Pairs] /\ base' \in [Procs -> Nat \cup {None}]
      /\ disk' \in Pairs /\ gen' \in Nat /\ kept' \subseteq Ids
  BY <1>1, <1>2 DEF Present
<1>4. \A q \in Procs : Fresh(q)' => q = p
  BY <1>1, <1>2, OthersFreshness
<1>5. CleanIsDisk'
  BY <1>1, <1>2, <1>4 DEF CleanIsDisk
<1>6. CreationsSurvive'
  BY <1>1 DEF CreationsSurvive
<1>7. FreshKeeps'
  BY <1>1, <1>2, <1>4, <1>6 DEF FreshKeeps, CreationsSurvive
<1>8. BasesAreOld'
  BY <1>1, <1>2 DEF IInv, BasesAreOld
<1>9. SnapIsOld'
  <2>1. snap.gen \in Nat \cup {None} /\ (snap.gen # None => snap.gen <= gen)
    BY DEF IInv, TypeOK, SnapIsOld
  <2> QED
    BY <1>1, <1>2, <2>1 DEF SnapIsOld, NoSnap
<1> QED
  BY <1>3, <1>5, <1>6, <1>7, <1>8, <1>9
-----------------------------------------------------------------------------
(* Mutators *)

\* A commit, taken effect or failed, keeps the invariant if the pair has every
\* row that must survive.
LEMMA CommitsInv ==
  ASSUME IInv, NEW p \in Procs, NEW pair \in Pairs, NEW deleted \in SUBSET Ids,
         Commits(p, pair, deleted),
         depth' = [depth EXCEPT ![p] = depth'[p]],
         kept \ deleted \subseteq Present(pair.rows),
         snap' \in {snap, NoSnap}
  PROVE  /\ CleanIsDisk' /\ FreshKeeps' /\ BasesAreOld' /\ SnapIsOld' /\ CreationsSurvive'
         /\ res' \in [Procs -> Pairs] /\ base' \in [Procs -> Nat \cup {None}]
         /\ disk' \in Pairs /\ gen' \in Nat /\ kept' \subseteq Ids
         /\ faults' \in 0 .. MaxFaults
<1>1. faults' \in 0 .. MaxFaults
  BY LiteStoreAssumptions DEF IInv, TypeOK, Commits, Fault
<1>3. CASE Decides(pair, deleted) /\ Publishes(p, pair, gen + 1)
  BY <1>1, <1>3, DecideInv
<1>4. CASE Decides(pair, deleted) /\ Invalidates(p, pair)
  BY <1>1, <1>4, DecideInv DEF Invalidates
<1>5. CASE Stays({}) /\ \E left \in {disk, pair} : Invalidates(p, left)
  <2>1. PICK left \in {disk, pair} : Publishes(p, left, None)
    BY <1>5 DEF Invalidates
  <2>2. left \in Pairs /\ gen # None
    BY LiteStoreAssumptions DEF IInv, TypeOK
  <2> QED
    BY <1>1, <1>5, <2>1, <2>2, StayInv
<1> QED
  BY <1>3, <1>4, <1>5 DEF Commits

\* A mutator that makes new of the current rows keeps what the invariant says.
LEMMA MutatesInv ==
  ASSUME IInv, NEW p \in Procs, NEW new \in [Ids -> 0 .. MaxWrites], Mutates(p, new),
         depth' = depth, batches' = batches, snap' \in {snap, NoSnap}
  PROVE  IInv'
<1> DEFINE token == writes + 1
           gone == Present(Current(p).rows) \ Present(new)
           pair == [rows |-> new, events |-> Current(p).events \cup {token}]
           half == [pair EXCEPT !.events = Current(p).events]
<1>1. /\ writes' = token /\ writes' \in 1 .. MaxWrites
      /\ Current(p) \in Pairs /\ kept \subseteq Present(Current(p).rows)
  BY CurrentFacts, LiteStoreAssumptions DEF IInv, TypeOK, Mutates
<1>2. pair \in Pairs /\ half \in Pairs /\ disk \in Pairs
  BY <1>1, LiteStoreAssumptions DEF Pairs, IInv, TypeOK
<1>3. gone \in SUBSET Ids /\ {} \in SUBSET Ids /\ kept \ gone \subseteq Present(new)
  BY <1>1 DEF Present
<1>4. /\ depth' = [depth EXCEPT ![p] = depth'[p]] /\ gen \in Nat /\ gen # None
      /\ pair.rows = new /\ half.rows = new
  BY LiteStoreAssumptions DEF IInv, TypeOK
<1>5. \/ Commits(p, pair, gone)
      \/ Fault /\ Stays({}) /\ \E left \in {disk, half} : Invalidates(p, left)
      \/ depth[p] > 0 /\ Publishes(p, pair, gen) /\ Stays(gone) /\ UNCHANGED faults
      \/ depth[p] > 0 /\ Fault /\ Publishes(p, half, gen) /\ Stays(gone)
  BY Zenon DEF Mutates
<1> HIDE DEF pair, half, gone
<1>6. /\ CleanIsDisk' /\ FreshKeeps' /\ BasesAreOld' /\ SnapIsOld' /\ CreationsSurvive'
      /\ res' \in [Procs -> Pairs] /\ base' \in [Procs -> Nat \cup {None}]
      /\ disk' \in Pairs /\ gen' \in Nat /\ kept' \subseteq Ids
      /\ faults' \in 0 .. MaxFaults
  <2>1. CASE Commits(p, pair, gone)
    BY <2>1, <1>2, <1>3, <1>4, CommitsInv
  <2>2. CASE Fault /\ Stays({}) /\ \E left \in {disk, half} : Invalidates(p, left)
    <3>1. PICK left \in {disk, half} : Publishes(p, left, None)
      BY <2>2 DEF Invalidates
    <3>2. faults' \in 0 .. MaxFaults
      BY <2>2, LiteStoreAssumptions DEF Fault, IInv, TypeOK
    <3> QED
      BY <2>2, <3>1, <3>2, <1>2, <1>3, <1>4, StayInv
  <2>3. CASE depth[p] > 0 /\ Publishes(p, pair, gen) /\ Stays(gone) /\ UNCHANGED faults
    <3>1. faults' \in 0 .. MaxFaults /\ ~(depth'[p] = 0)
      BY <2>3 DEF IInv, TypeOK
    <3> QED
      BY <2>3, <3>1, <1>2, <1>3, <1>4, StayInv
  <2>4. CASE depth[p] > 0 /\ Fault /\ Publishes(p, half, gen) /\ Stays(gone)
    <3>1. faults' \in 0 .. MaxFaults /\ ~(depth'[p] = 0)
      BY <2>4, LiteStoreAssumptions DEF Fault, IInv, TypeOK
    <3> QED
      BY <2>4, <3>1, <1>2, <1>3, <1>4, StayInv
  <2> QED
    BY <1>5, <2>1, <2>2, <2>3, <2>4
<1>7. snap' \in SnapType
  BY NoSnapTyped DEF IInv, TypeOK, SnapType
<1> QED
  BY <1>1, <1>6, <1>7 DEF IInv, TypeOK, SnapType

\* A call that finds nothing to change keeps the invariant.
LEMMA ReturnsInv ==
  ASSUME IInv, NEW p \in Procs, Returns(p), UNCHANGED <<depth, snap, batches>>
  PROVE  IInv'
<1>1. /\ Publishes(p, Current(p), gen) /\ Stays({}) /\ UNCHANGED <<writes, faults>>
      /\ depth' = [depth EXCEPT ![p] = depth'[p]]
  BY DEF Returns, IInv, TypeOK
<1>2. /\ CleanIsDisk' /\ FreshKeeps' /\ BasesAreOld' /\ SnapIsOld' /\ CreationsSurvive'
      /\ res' \in [Procs -> Pairs] /\ base' \in [Procs -> Nat \cup {None}]
      /\ disk' \in Pairs /\ gen' \in Nat /\ kept' \subseteq Ids
  BY <1>1, CurrentFacts, StayInv
<1> QED
  BY <1>1, <1>2 DEF IInv, TypeOK

\* What calls make of the rows are rows.
LEMMA RewrittenTyped ==
  ASSUME IInv, NEW p \in Procs, NEW S, NEW D, writes < MaxWrites
  PROVE  /\ Rewritten(p, S, D) \in [Ids -> 0 .. MaxWrites]
         /\ \A i \in Ids : Rewritten(p, S, D)[i] \in {Current(p).rows[i], writes + 1, Absent}
<1>1. writes + 1 \in 0 .. MaxWrites /\ Absent \in 0 .. MaxWrites
  BY LiteStoreAssumptions DEF IInv, TypeOK, Absent
<1> QED
  BY <1>1, CurrentFacts DEF Rewritten, Pairs

\* Upsert, Amend and Delete keep the invariant.
LEMMA CallInv ==
  ASSUME IInv, NEW p \in Procs, NEW S \in SUBSET Ids,
         Upsert(p, S) \/ Amend(p, S) \/ Delete(p, S)
  PROVE  IInv'
<1>1. CASE Upsert(p, S)
  <2>1. PICK evicted \in SUBSET (Ids \ S) : Mutates(p, Rewritten(p, S, evicted))
    BY <1>1 DEF Upsert
  <2> QED
    BY <2>1, <1>1, RewrittenTyped, MutatesInv DEF Upsert, Mutates
<1>2. CASE Amend(p, S)
  <2> DEFINE found == S \cap Present(Current(p).rows)
  <2>1. CASE found = {}
    BY <2>1, <1>2, ReturnsInv DEF Amend
  <2>2. CASE found # {}
    <3>1. Mutates(p, Rewritten(p, found, {}))
      BY <1>2, <2>2 DEF Amend
    <3> QED
      BY <3>1, <1>2, RewrittenTyped, MutatesInv DEF Amend, Mutates
  <2> QED
    BY <2>1, <2>2
<1>3. CASE Delete(p, S)
  <2>1. CASE S \cap Present(Current(p).rows) = {}
    BY <2>1, <1>3, ReturnsInv DEF Delete
  <2>2. CASE S \cap Present(Current(p).rows) # {}
    <3>1. Mutates(p, Rewritten(p, {}, S))
      BY <1>3, <2>2 DEF Delete
    <3> QED
      BY <3>1, <1>3, RewrittenTyped, MutatesInv DEF Delete, Mutates
  <2> QED
    BY <2>1, <2>2
<1> QED
  BY <1>1, <1>2, <1>3

-----------------------------------------------------------------------------
(* Compaction, batches, reads, restarts *)

\* A snapshot is of the current generation.
LEMMA SnapshotInv == ASSUME IInv, NEW p \in Procs, Snapshot(p) PROVE IInv'
<1> USE LiteStoreAssumptions
<1>1. /\ Publishes(p, Current(p), gen) /\ UNCHANGED <<disk, gen, kept, depth, writes, batches, faults>>
      /\ snap' = [by |-> p, gen |-> gen, rows |-> Current(p).rows, clean |-> depth[p] = 0]
      /\ Current(p) \in Pairs /\ kept \subseteq Present(Current(p).rows)
      /\ depth[p] = 0 => Current(p) = disk
  BY CurrentFacts DEF Snapshot
<1>2. TypeOK'
  BY <1>1 DEF IInv, TypeOK, Publishes, Pairs
<1>3. CleanIsDisk' /\ BasesAreOld'
  BY <1>1 DEF IInv, TypeOK, CleanIsDisk, BasesAreOld, Publishes, Fresh
<1>5. SnapIsOld'
  <2>1. snap'.gen = gen /\ snap'.rows = Current(p).rows
    BY <1>1
  <2>2. snap'.clean => depth[p] = 0
    BY <1>1, Zenon
  <2> QED
    BY <1>1, <2>1, <2>2 DEF IInv, TypeOK, SnapIsOld
<1>4. FreshKeeps' /\ CreationsSurvive'
  BY <1>1 DEF IInv, TypeOK, FreshKeeps, CreationsSurvive, Publishes, Fresh, Present
<1> QED
  BY <1>2, <1>3, <1>4, <1>5 DEF IInv

\* A compaction mutates, or is refused and leaves what a reload found.
LEMMA CompactInv == ASSUME IInv, NEW p \in Procs, Compact(p) PROVE IInv'
<1> USE LiteStoreAssumptions
<1>1. snap' = NoSnap /\ UNCHANGED <<depth, batches>>
  BY DEF Compact
<1>2. CASE ~SnapshotHolds /\ Stays({}) /\ UNCHANGED <<writes, faults>>
           /\ Publishes(p, Current(p), IF depth[p] = 0 THEN None ELSE gen)
  <2>1. depth' = [depth EXCEPT ![p] = depth'[p]] /\ gen # None /\ {} \in SUBSET Ids
    BY <1>1 DEF IInv, TypeOK
  <2>2. /\ CleanIsDisk' /\ FreshKeeps' /\ BasesAreOld' /\ SnapIsOld' /\ CreationsSurvive'
        /\ res' \in [Procs -> Pairs] /\ base' \in [Procs -> Nat \cup {None}]
        /\ disk' \in Pairs /\ gen' \in Nat /\ kept' \subseteq Ids
    BY <1>1, <1>2, <2>1, CurrentFacts, StayInv
  <2> QED
    BY <1>1, <1>2, <2>2, NoSnapTyped DEF IInv, TypeOK, SnapType
<1>3. CASE \E found \in SUBSET Present(snap.rows) : \E drop \in SUBSET found :
             found # {} /\ Mutates(p, Rewritten(p, found, drop))
  <2>1. PICK found \in SUBSET Present(snap.rows) : \E drop \in SUBSET found :
               Mutates(p, Rewritten(p, found, drop))
    BY <1>3
  <2>2. PICK drop \in SUBSET found : Mutates(p, Rewritten(p, found, drop))
    BY <2>1
  <2> QED
    BY <1>1, <2>2, RewrittenTyped, MutatesInv DEF Mutates
<1> QED
  BY <1>2, <1>3 DEF Compact

\* A batch that begins or ends within another one changes only the depth.
LEMMA DepthInv ==
  ASSUME IInv, NEW p \in Procs, NEW d \in 1 .. MaxDepth, depth' = [depth EXCEPT ![p] = d],
         batches' \in 0 .. MaxBatches, UNCHANGED <<disk, gen, res, base, snap, kept, writes, faults>>
  PROVE  IInv'
<1>1. TypeOK' /\ BasesAreOld' /\ SnapIsOld' /\ CreationsSurvive'
  BY DEF IInv, TypeOK, BasesAreOld, SnapIsOld, CreationsSurvive, Present
<1>2. CleanIsDisk' /\ FreshKeeps'
  BY DEF IInv, TypeOK, CleanIsDisk, FreshKeeps, Fresh, Present
<1> QED
  BY <1>1, <1>2 DEF IInv

\* The pair the end of a batch commits has every row that must survive: its own
\* rows if it is fresh, and otherwise the base's are folded in.
LEMMA TargetFacts ==
  ASSUME IInv, NEW p \in Procs
  PROVE  Target(p) \in Pairs /\ kept \subseteq Present(Target(p).rows)
<1>1. CASE Fresh(p)
  BY <1>1 DEF IInv, TypeOK, Target, FreshKeeps
<1>2. CASE ~Fresh(p)
  <2> DEFINE rows == [i \in Ids |-> IF res[p].rows[i] # Absent THEN res[p].rows[i] ELSE disk.rows[i]]
  <2>1. res[p] \in Pairs /\ disk \in Pairs /\ rows \in [Ids -> 0 .. MaxWrites]
    BY DEF IInv, TypeOK, Pairs
  <2>2. Target(p) = [rows |-> rows, events |-> res[p].events]
    BY <1>2, <2>1 DEF Target, Folded, Pairs
  <2>3. kept \subseteq Present(rows)
    BY DEF IInv, CreationsSurvive, Present
  <2> QED
    BY <2>1, <2>2, <2>3 DEF Pairs
<1> QED
  BY <1>1, <1>2

\* Begin and End keep the invariant.
LEMMA BatchInv == ASSUME IInv, NEW p \in Procs, Begin(p) \/ End(p) PROVE IInv'
<1> USE LiteStoreAssumptions
<1>0. depth \in [Procs -> 0 .. MaxDepth] /\ batches \in 0 .. MaxBatches
  BY DEF IInv, TypeOK
<1>1. CASE Begin(p)
  <2>1. /\ depth[p] + 1 \in 1 .. MaxDepth /\ depth' = [depth EXCEPT ![p] = depth[p] + 1]
        /\ batches' \in 0 .. MaxBatches
    BY <1>0, <1>1 DEF Begin
  <2> QED
    BY <1>1, <2>1, DepthInv DEF Begin
<1>2. CASE End(p)
  <2>1. /\ depth[p] > 0 /\ depth' = [depth EXCEPT ![p] = depth[p] - 1]
        /\ UNCHANGED <<snap, writes, batches>>
    BY <1>2 DEF End
  <2>2. CASE depth[p] > 1 /\ UNCHANGED <<disk, gen, res, base, kept, faults>>
    <3>1. depth[p] - 1 \in 1 .. MaxDepth
      BY <1>0, <2>2
    <3> QED
      BY <1>0, <2>1, <2>2, <3>1, DepthInv
  <2>3. CASE depth[p] = 1 /\ Commits(p, Target(p), {})
    <3>1. /\ depth' = [depth EXCEPT ![p] = depth'[p]] /\ {} \in SUBSET Ids
          /\ depth' \in [Procs -> 0 .. MaxDepth]
      BY <1>0, <2>1, <2>3
    <3>2. /\ CleanIsDisk' /\ FreshKeeps' /\ BasesAreOld' /\ SnapIsOld' /\ CreationsSurvive'
          /\ res' \in [Procs -> Pairs] /\ base' \in [Procs -> Nat \cup {None}]
          /\ disk' \in Pairs /\ gen' \in Nat /\ kept' \subseteq Ids
          /\ faults' \in 0 .. MaxFaults
      BY <2>1, <2>3, <3>1, TargetFacts, CommitsInv
    <3> QED
      BY <2>1, <3>1, <3>2 DEF IInv, TypeOK
  <2> QED
    BY <1>2, <2>2, <2>3 DEF End
<1> QED
  BY <1>1, <1>2

\* A reload, for a read or of a process that was restarted.
LEMMA ReloadInv == ASSUME IInv, NEW p \in Procs, Read(p) \/ Crash(p) PROVE IInv'
<1> USE LiteStoreAssumptions
<1>1. /\ Publishes(p, disk, gen) /\ Stays({}) /\ UNCHANGED <<writes, batches>>
      /\ snap' \in {snap, NoSnap} /\ faults' \in 0 .. MaxFaults
      /\ depth' = [depth EXCEPT ![p] = depth'[p]] /\ depth' \in [Procs -> 0 .. MaxDepth]
  <2>1. CASE Read(p)
    BY <2>1 DEF Read, Stays, IInv, TypeOK
  <2>2. CASE Crash(p)
    BY <2>2 DEF Crash, Fault, Stays, IInv, TypeOK
  <2> QED
    BY <2>1, <2>2
<1>2. disk \in Pairs /\ {} \in SUBSET Ids /\ kept \subseteq Present(disk.rows)
  BY DEF IInv, TypeOK, CreationsSurvive
<1>3. /\ CleanIsDisk' /\ FreshKeeps' /\ BasesAreOld' /\ SnapIsOld' /\ CreationsSurvive'
      /\ res' \in [Procs -> Pairs] /\ base' \in [Procs -> Nat \cup {None}]
      /\ disk' \in Pairs /\ gen' \in Nat /\ kept' \subseteq Ids
  BY <1>1, <1>2, StayInv
<1>4. snap' \in SnapType
  BY <1>1, NoSnapTyped DEF IInv, TypeOK, SnapType
<1> QED
  BY <1>1, <1>3, <1>4 DEF IInv, TypeOK, SnapType
-----------------------------------------------------------------------------
(* The theorems *)

\* At first nothing is committed, and everybody holds that.
LEMMA InitInv == Init => IInv
<1> SUFFICES ASSUME Init PROVE IInv
  OBVIOUS
<1> USE LiteStoreAssumptions
<1>1. TypeOK
  BY NoSnapTyped DEF Init, TypeOK, SnapType
<1>2. CleanIsDisk /\ BasesAreOld /\ CreationsSurvive /\ FreshKeeps
  BY DEF Init, CleanIsDisk, BasesAreOld, CreationsSurvive, FreshKeeps
<1>3. SnapIsOld
  BY DEF Init, SnapIsOld, NoSnap
<1> QED
  BY <1>1, <1>2, <1>3 DEF IInv

\* Every step keeps the invariant.
LEMMA NextInv == IInv /\ [Next]_vars => IInv'
<1> SUFFICES ASSUME IInv, [Next]_vars PROVE IInv'
  OBVIOUS
<1>1. CASE UNCHANGED vars
  <2>1. TypeOK' /\ BasesAreOld' /\ SnapIsOld' /\ CreationsSurvive'
    BY <1>1 DEF vars, IInv, TypeOK, BasesAreOld, SnapIsOld, CreationsSurvive, Present
  <2>2. CleanIsDisk' /\ FreshKeeps'
    BY <1>1 DEF vars, IInv, CleanIsDisk, FreshKeeps, Fresh, Present
  <2> QED
    BY <2>1, <2>2 DEF IInv
<1>2. CASE Next
  <2>1. PICK p \in Procs :
          \/ \E S \in SUBSET Ids \ {{}} : Upsert(p, S) \/ Amend(p, S) \/ Delete(p, S)
          \/ Snapshot(p) \/ Compact(p) \/ Begin(p) \/ End(p) \/ Read(p) \/ Crash(p)
    BY <1>2 DEF Next
  <2> QED
    BY <2>1, CallInv, SnapshotInv, CompactInv, BatchInv, ReloadInv
<1> QED
  BY <1>1, <1>2

\* The inductive invariant holds of every behaviour.
THEOREM StoreInvariant == Spec => []IInv
<1> QED
  BY InitInv, NextInv, PTL DEF Spec

\* Pairs, generations, snapshots and counters keep their types.
THEOREM TypeCorrect == Spec => []TypeOK
<1>1. IInv => TypeOK
  BY DEF IInv
<1> QED
  BY StoreInvariant, <1>1, PTL

\* No commit of a stale batch, no failed call and no crash drops a row that was
\* once committed and that nobody deleted (deferred_commit, _fold_missing_from_base).
THEOREM RowsSurvive == Spec => []CreationsSurvive
<1>1. IInv => CreationsSurvive
  BY DEF IInv
<1> QED
  BY StoreInvariant, <1>1, PTL

\* read_context_nodes answers committed rows only.
THEOREM ContextIsCommitted == Spec => []ContextServesCommitted
<1>1. ASSUME IInv, NEW p \in Procs PROVE ContextAnswer(p) \subseteq {disk.rows[i] : i \in Ids}
  <2>1. CASE depth[p] > 0
    BY <2>1 DEF ContextAnswer
  <2>2. CASE depth[p] = 0
    BY <1>1, <2>2, CurrentFacts DEF ContextAnswer, Present
  <2> QED
    BY <1>1, <2>1, <2>2 DEF IInv, TypeOK
<1>2. IInv => ContextServesCommitted
  BY <1>1 DEF ContextServesCommitted
<1> QED
  BY StoreInvariant, <1>2, PTL

-----------------------------------------------------------------------------
(* What a call changes on disk *)

\* A mutator that changes the disk does so outside batches, with the committed
\* pair as its base, and removes from kept what it deletes.
LEMMA MutatesDisk ==
  ASSUME IInv, NEW p \in Procs, NEW new \in [Ids -> 0 .. MaxWrites], Mutates(p, new), disk' # disk
  PROVE  /\ Current(p) = disk
         /\ disk' = [rows |-> new, events |-> disk.events \cup {writes'}]
         /\ kept' = (kept \cup Present(new)) \ (Present(disk.rows) \ Present(new))
<1>1. depth[p] = 0 \/ depth[p] > 0
  BY DEF IInv, TypeOK
<1>2. depth[p] = 0
  BY <1>1 DEF Mutates, Stays
<1>3. Current(p) = disk
  BY <1>2, CurrentFacts
<1> DEFINE gone == Present(disk.rows) \ Present(new)
           pair == [rows |-> new, events |-> disk.events \cup {writes + 1}]
<1>4. Commits(p, pair, gone) /\ writes' = writes + 1
  BY <1>2, <1>3 DEF Mutates, Stays
<1>5. Decides(pair, gone)
  BY <1>4 DEF Commits, Stays
<1>6. disk' = pair /\ kept' = (kept \cup Present(pair.rows)) \ gone /\ pair.rows = new
  BY <1>5 DEF Decides
<1> QED
  BY <1>3, <1>4, <1>6

\* So what it makes of the rows of its arguments is all it changes on disk.
LEMMA MutatesAtomic ==
  ASSUME IInv, NEW p \in Procs, NEW new \in [Ids -> 0 .. MaxWrites], Mutates(p, new), disk' # disk,
         \A i \in Ids : new[i] \in {Current(p).rows[i], writes + 1, Absent}
  PROVE  /\ \A i \in Ids : \/ disk'.rows[i] \in {disk.rows[i], writes'}
                           \/ disk'.rows[i] = Absent /\ i \notin kept'
         /\ disk'.events = disk.events \cup {writes'}
<1>1. /\ Current(p) = disk /\ writes' = writes + 1
      /\ disk' = [rows |-> new, events |-> disk.events \cup {writes'}]
      /\ kept' = (kept \cup Present(new)) \ (Present(disk.rows) \ Present(new))
  BY MutatesDisk DEF Mutates
<1>2. kept \subseteq Present(disk.rows)
  BY DEF IInv, CreationsSurvive
<1>3. ASSUME NEW i \in Ids, new[i] = Absent PROVE i \notin kept'
  BY <1>1, <1>2, <1>3 DEF Present
<1> QED
  BY <1>1, <1>3

\* A call outside batches changes on disk the rows it is about, together with their
\* event, and a compaction replaces the rows it was computed from
\* (_with_writer_lock, apply_compaction).
THEOREM CallsAtomic == Spec => CallsAreAtomic
<1> DEFINE Atomic ==
      writes' # writes /\ disk' # disk =>
       /\ \A i \in Ids : \/ disk'.rows[i] \in {disk.rows[i], writes'}
                         \/ disk'.rows[i] = Absent /\ i \notin kept'
       /\ disk'.events = disk.events \cup {writes'}
       /\ snap.clean /\ snap' # snap =>
            \A i \in Present(snap.rows) : disk.rows[i] = snap.rows[i]
<1>1. ASSUME IInv, NEW p \in Procs, NEW S \in SUBSET Ids,
             Upsert(p, S) \/ Amend(p, S) \/ Delete(p, S)
      PROVE  Atomic
  <2> SUFFICES ASSUME writes' # writes, disk' # disk PROVE Atomic
    OBVIOUS
  <2>1. \E T \in SUBSET Ids, D \in SUBSET Ids : Mutates(p, Rewritten(p, T, D))
    <3>1. S \cap Present(Current(p).rows) \in SUBSET Ids /\ {} \in SUBSET Ids
      OBVIOUS
    <3>2. CASE Upsert(p, S)
      BY <3>2 DEF Upsert
    <3>3. CASE Amend(p, S)
      BY <3>1, <3>3 DEF Amend, Returns
    <3>4. CASE Delete(p, S)
      BY <3>1, <3>4 DEF Delete, Returns
    <3> QED
      BY <1>1, <3>2, <3>3, <3>4
  <2>2. PICK T \in SUBSET Ids, D \in SUBSET Ids : Mutates(p, Rewritten(p, T, D))
    BY <2>1
  <2>3. /\ Rewritten(p, T, D) \in [Ids -> 0 .. MaxWrites]
        /\ \A i \in Ids : Rewritten(p, T, D)[i] \in {Current(p).rows[i], writes + 1, Absent}
    BY <1>1, <2>2, RewrittenTyped DEF Mutates
  <2>4. snap' = snap
    BY <1>1 DEF Upsert, Amend, Delete
  <2> QED
    BY <1>1, <2>2, <2>3, <2>4, MutatesAtomic
<1>2. ASSUME IInv, NEW p \in Procs, Compact(p) PROVE Atomic
  <2> SUFFICES ASSUME writes' # writes, disk' # disk PROVE Atomic
    OBVIOUS
  <2>1. PICK found \in SUBSET Present(snap.rows) : \E drop \in SUBSET found :
               Mutates(p, Rewritten(p, found, drop))
    BY <1>2 DEF Compact
  <2>2. PICK drop \in SUBSET found : Mutates(p, Rewritten(p, found, drop))
    BY <2>1
  <2>5. /\ Rewritten(p, found, drop) \in [Ids -> 0 .. MaxWrites]
        /\ \A i \in Ids : Rewritten(p, found, drop)[i] \in {Current(p).rows[i], writes + 1, Absent}
    BY <1>2, <2>2, RewrittenTyped DEF Mutates
  <2>6. SnapshotHolds
    BY <1>2 DEF Compact
  <2>7. snap.clean => snap.rows = disk.rows
    BY <1>2, <2>6 DEF IInv, SnapIsOld, SnapshotHolds
  <2>8. /\ \A i \in Ids : \/ disk'.rows[i] \in {disk.rows[i], writes'}
                          \/ disk'.rows[i] = Absent /\ i \notin kept'
        /\ disk'.events = disk.events \cup {writes'}
    BY <1>2, <2>2, <2>5, MutatesAtomic
  <2> QED
    BY <2>7, <2>8
<1>3. ASSUME NEW p \in Procs, Snapshot(p) \/ Begin(p) \/ End(p) \/ Read(p) \/ Crash(p)
      PROVE  writes' = writes
  BY <1>3 DEF Snapshot, Begin, End, Read, Crash
<1>4. IInv /\ [Next]_vars => [Atomic]_vars
  <2> SUFFICES ASSUME IInv, Next PROVE Atomic
    BY DEF vars
  <2>1. PICK p \in Procs :
          \/ \E S \in SUBSET Ids \ {{}} : Upsert(p, S) \/ Amend(p, S) \/ Delete(p, S)
          \/ Snapshot(p) \/ Compact(p) \/ Begin(p) \/ End(p) \/ Read(p) \/ Crash(p)
    BY DEF Next
  <2>2. CASE \E S \in SUBSET Ids \ {{}} : Upsert(p, S) \/ Amend(p, S) \/ Delete(p, S)
    BY <2>2, <1>1
  <2>3. CASE Compact(p)
    BY <2>3, <1>2
  <2>4. CASE Snapshot(p) \/ Begin(p) \/ End(p) \/ Read(p) \/ Crash(p)
    BY <2>4, <1>3
  <2> QED
    BY <2>1, <2>2, <2>3, <2>4
<1> QED
  BY StoreInvariant, <1>4, PTL DEF Spec, CallsAreAtomic
=============================================================================
