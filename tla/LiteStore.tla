------------------------------- MODULE LiteStore -------------------------------
(***************************************************************************)
(* LiteMemoryStore (memplex/storage/lite/store.py) in several processes    *)
(* over one pair of files.  Each process keeps the pair resident, with a   *)
(* fingerprint that says which committed pair that is.  A mutator reloads  *)
(* if the files have changed, applies its rows, captures their sync        *)
(* events, and commits rows and events as one pair.  Inside a batch        *)
(* (deferred_commit) it leaves them resident, and the end of the outermost *)
(* batch commits what is resident then.                                    *)
(*                                                                         *)
(* A public call holds the process's lock and the flock from its reload to *)
(* its commit: it is one action here.  How a commit becomes durable is     *)
(* LiteDurability's subject: here it takes effect, or fails with or        *)
(* without having taken effect.  A row is the number of the call that      *)
(* wrote it, which is also the name of the event captured for it.          *)
(***************************************************************************)
EXTENDS Integers, FiniteSets

CONSTANTS
  Procs,      \* processes with the store open
  Ids,        \* ids of rows
  None,
  MaxWrites,  \* bound: calls that mutate
  MaxBatches, \* bound: batches that begin
  MaxFaults,  \* bound: calls and commits that fail, crashes
  MaxDepth    \* bound: batches open in a process

ASSUME LiteStoreAssumptions ==
  /\ Ids # {} /\ None \notin Nat
  /\ MaxWrites \in Nat /\ MaxBatches \in Nat /\ MaxFaults \in Nat /\ MaxDepth \in Nat \ {0}

VARIABLES
  disk,    \* the committed pair: the row of each id, and the captured events
  gen,     \* its generation
  res,     \* _functions, _facts, ... and _sync_state of each process
  base,    \* _pair_fingerprint and _committed_pair: the generation that is resident
  depth,   \* _commit_defer_depth
  snap,    \* the snapshot the compaction in progress works from (one at a time here)
  kept,    \* history: ids that were on disk and that no call has deleted since
  writes, batches, faults

vars == <<disk, gen, res, base, depth, snap, kept, writes, batches, faults>>

Absent == 0
Empty == [rows |-> [i \in Ids |-> Absent], events |-> {}]
Present(rows) == {i \in Ids : rows[i] # Absent}
NoSnap == [by |-> None, gen |-> None, rows |-> Empty.rows, clean |-> FALSE]

Init ==
  /\ disk = Empty /\ gen = 0
  /\ res = [p \in Procs |-> Empty] /\ base = [p \in Procs |-> 0]
  /\ depth = [p \in Procs |-> 0]
  /\ snap = NoSnap
  /\ kept = {} /\ writes = 0 /\ batches = 0 /\ faults = 0
-----------------------------------------------------------------------------
(* Reload, publication, commit *)

\* _pair_files_unchanged.
\* Mutant: any fingerprint will do.
Fresh_Anyhow(p) == base[p] # None

Fresh(p) == base[p] = gen

\* What is resident after _reload_for_mutation or _refresh_for_read: nothing is
\* read while the files are the ones published last.
Current(p) == IF Fresh(p) THEN res[p] ELSE disk

\* _publish_pair and _publish_committed_locally.
Publishes(p, pair, g) == res' = [res EXCEPT ![p] = pair] /\ base' = [base EXCEPT ![p] = g]

\* The cached proof of freshness is gone: the next call reloads.
Invalidates(p, pair) == Publishes(p, pair, None)

Decides(pair, deleted) ==
  /\ disk' = pair /\ gen' = gen + 1
  /\ kept' = (kept \cup Present(pair.rows)) \ deleted
Stays(deleted) == kept' = kept \ deleted /\ UNCHANGED <<disk, gen>>

Fault == faults < MaxFaults /\ faults' = faults + 1

\* _commit_current_state and how its callers handle its failure.
Commits(p, pair, deleted) ==
  \/ Decides(pair, deleted) /\ Publishes(p, pair, gen + 1) /\ UNCHANGED faults
  \/ Fault /\ Decides(pair, deleted) /\ Invalidates(p, pair)
  \/ Fault /\ Stays({}) /\ \E left \in {disk, pair} : Invalidates(p, left)
-----------------------------------------------------------------------------
(* Mutators: reload, apply, capture, commit *)

\* A call that finds nothing to change returns after its reload.
Returns(p) == Publishes(p, Current(p), gen) /\ Stays({}) /\ UNCHANGED <<writes, faults>>

\* A call makes new of the current rows and captures an event.  Outside a batch
\* it commits or fails as a whole.  Within one it stays resident; if it fails
\* after its rows and before its event, its rows stay all the same.
Mutates(p, new) ==
  LET token == writes + 1
      gone == Present(Current(p).rows) \ Present(new)
      pair == [rows |-> new, events |-> Current(p).events \cup {token}]
      half == [pair EXCEPT !.events = Current(p).events]
  IN  /\ writes < MaxWrites /\ writes' = token
      /\ \/ depth[p] = 0 /\ Commits(p, pair, gone)
         \/ depth[p] = 0 /\ Fault /\ Stays({}) /\ \E left \in {disk, half} : Invalidates(p, left)
         \/ depth[p] > 0 /\ Publishes(p, pair, gen) /\ Stays(gone) /\ UNCHANGED faults
         \/ depth[p] > 0 /\ Fault /\ Publishes(p, half, gen) /\ Stays(gone)

\* The current rows with some dropped and others written by this call.
Rewritten(p, written, dropped) ==
  [i \in Ids |-> IF i \in dropped THEN Absent
                 ELSE IF i \in written THEN writes + 1 ELSE Current(p).rows[i]]

\* add, add_observation, add_fact, add_preference, persist_paragraphs, merge.
\* The cap of persist_paragraphs evicts other rows in the same commit.
Upsert(p, S) ==
  /\ \E evicted \in SUBSET (Ids \ S) : Mutates(p, Rewritten(p, S, evicted))
  /\ UNCHANGED <<depth, snap, batches>>

\* update_function_role, replace_function, annotate, increment_access: rows that exist.
Amend(p, S) ==
  LET found == S \cap Present(Current(p).rows)
  IN  /\ IF found = {} THEN Returns(p) ELSE Mutates(p, Rewritten(p, found, {}))
      /\ UNCHANGED <<depth, snap, batches>>

\* delete with the incident edges, delete_fact, ..., delete_paragraph, clear.
Delete(p, S) ==
  /\ IF S \cap Present(Current(p).rows) = {}
     THEN Returns(p) ELSE Mutates(p, Rewritten(p, {}, S))
  /\ UNCHANGED <<depth, snap, batches>>
-----------------------------------------------------------------------------
(* Compaction *)

Snapshot(p) ==
  /\ Publishes(p, Current(p), gen)
  /\ snap' = [by |-> p, gen |-> gen, rows |-> Current(p).rows, clean |-> depth[p] = 0]
  /\ UNCHANGED <<disk, gen, kept, depth, writes, batches, faults>>

\* expected_generation.
SnapshotHolds == snap.gen = gen

\* apply_compaction: some rows are replaced, some deleted, or it is refused.
Compact(p) ==
  /\ snap.by = p
  /\ \/ /\ SnapshotHolds
        /\ \E found \in SUBSET Present(snap.rows) : \E drop \in SUBSET found :
             found # {} /\ Mutates(p, Rewritten(p, found, drop))
     \/ /\ ~SnapshotHolds
        /\ Stays({}) /\ Publishes(p, Current(p), IF depth[p] = 0 THEN None ELSE gen)
        /\ UNCHANGED <<writes, faults>>
  /\ snap' = NoSnap
  /\ UNCHANGED <<depth, batches>>
-----------------------------------------------------------------------------
(* Batches *)

Begin(p) ==
  /\ batches < MaxBatches /\ depth[p] < MaxDepth
  /\ batches' = batches + 1
  /\ depth' = [depth EXCEPT ![p] = @ + 1]
  /\ UNCHANGED <<disk, gen, res, base, snap, kept, writes, faults>>

\* _fold_missing_from_base: what the base has and the process has not; the sync
\* state is the process's own.
\* Mutant: the base of the commit is replaced by what is resident.
Folded_Not(pair) == pair

Folded(pair) ==
  [pair EXCEPT !.rows = [i \in Ids |-> IF @[i] # Absent THEN @[i] ELSE disk.rows[i]]]

Target(p) == IF Fresh(p) THEN res[p] ELSE Folded(res[p])

\* Mutant: a failed finalization leaves what is resident, and the proof that it
\* is fresh.
End_Trusts(p) ==
  /\ depth[p] > 0 /\ depth' = [depth EXCEPT ![p] = @ - 1]
  /\ \/ depth[p] > 1 /\ UNCHANGED <<disk, gen, res, base, kept, faults>>
     \/ depth[p] = 1 /\ Commits(p, Target(p), {})
     \/ depth[p] = 1 /\ Fault /\ UNCHANGED <<disk, gen, res, base, kept>>
  /\ UNCHANGED <<snap, writes, batches>>

\* The end of deferred_commit, normal or not; the outermost one commits.
End(p) ==
  /\ depth[p] > 0 /\ depth' = [depth EXCEPT ![p] = @ - 1]
  /\ \/ depth[p] > 1 /\ UNCHANGED <<disk, gen, res, base, kept, faults>>
     \/ depth[p] = 1 /\ Commits(p, Target(p), {})
  /\ UNCHANGED <<snap, writes, batches>>
-----------------------------------------------------------------------------
(* Reads, restarts *)

\* get, the lists, the searches, generation: a read may reload, also in a batch;
\* read_context_nodes does so outside batches.
Read(p) ==
  /\ ~Fresh(p) /\ Publishes(p, disk, gen)
  /\ UNCHANGED <<disk, gen, depth, snap, kept, writes, batches, faults>>

\* What read_context_nodes answers: nothing in a batch.
ContextAnswer(p) ==
  IF depth[p] > 0 THEN {} ELSE {Current(p).rows[i] : i \in Present(Current(p).rows)}

\* A process dies, and opens the store anew.
Crash(p) ==
  /\ Fault
  /\ Publishes(p, disk, gen) /\ depth' = [depth EXCEPT ![p] = 0]
  /\ snap' = IF snap.by = p THEN NoSnap ELSE snap
  /\ UNCHANGED <<disk, gen, kept, writes, batches>>

Next ==
  \E p \in Procs :
    \/ \E S \in SUBSET Ids \ {{}} : Upsert(p, S) \/ Amend(p, S) \/ Delete(p, S)
    \/ Snapshot(p) \/ Compact(p) \/ Begin(p) \/ End(p)
    \/ Read(p) \/ Crash(p)

Spec == Init /\ [][Next]_vars
-----------------------------------------------------------------------------
(* Properties *)

Pairs == [rows : [Ids -> 0 .. MaxWrites], events : SUBSET (1 .. MaxWrites)]

\* Pairs, generations and counters keep their types.
TypeOK ==
  /\ disk \in Pairs /\ gen \in Nat
  /\ res \in [Procs -> Pairs] /\ base \in [Procs -> Nat \cup {None}]
  /\ depth \in [Procs -> 0 .. MaxDepth]
  /\ kept \subseteq Ids
  /\ snap \in [by : Procs \cup {None}, gen : Nat \cup {None}, rows : [Ids -> 0 .. MaxWrites],
               clean : BOOLEAN]
  /\ writes \in 0 .. MaxWrites /\ batches \in 0 .. MaxBatches /\ faults \in 0 .. MaxFaults

\* A row that was once committed stays until a call deletes it:
\* no batch, stale as it may be, and no failed call drops a peer's row.
CreationsSurvive == kept \subseteq Present(disk.rows)

\* read_context_nodes answers committed rows only, whatever a batch, its end or
\* a failed call has left resident.
ContextServesCommitted ==
  \A p \in Procs : ContextAnswer(p) \subseteq {disk.rows[i] : i \in Ids}

\* A call outside batches changes on disk the rows it is about, together with
\* their event, on top of what every process has committed; a compaction
\* replaces the very rows it was computed from.
CallsAreAtomic ==
  [][writes' # writes /\ disk' # disk =>
       /\ \A i \in Ids : \/ disk'.rows[i] \in {disk.rows[i], writes'}
                         \/ disk'.rows[i] = Absent /\ i \notin kept'
       /\ disk'.events = disk.events \cup {writes'}
       /\ snap.clean /\ snap' # snap =>
            \A i \in Present(snap.rows) : disk.rows[i] = snap.rows[i]]_vars

\* "or this commit would silently drop the peer's writes": what a process has
\* committed and captured stays captured, also through the batch of another.
CapturedSurvives == [][disk.events \subseteq disk'.events]_vars
=============================================================================
