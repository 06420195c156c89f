--------------------------- MODULE LiteDurability ---------------------------
(***************************************************************************)
(* The two-file Lite pair (memory.json, changelog.json) and its journal:   *)
(* memplex/storage/lite/durability.py, driven by the commit, reload and    *)
(* freshness path of memplex/storage/lite/store.py.                        *)
(*                                                                         *)
(* Several processes share one directory.  A pair is abstracted to its     *)
(* HISTORY, the sequence of the transaction ids that built it: the length  *)
(* is the generation, the last element is transaction_id, equal histories  *)
(* are equal payloads and digests.  An absent file is the empty history    *)
(* (nothing ever writes generation 0).  A journal holds its base and its   *)
(* target pair.  Temporary files are written and fsynced before they are   *)
(* renamed, so a rename is atomic; what a power loss may undo is the       *)
(* directory entry, until the directory is fsynced.                        *)
(***************************************************************************)
EXTENDS Naturals, Sequences

CONSTANTS
    Proc,             \* store instances, one per process
    NoProc,           \* nobody holds the flock
    NoJournal,        \* there is no journal file
    NoPair,           \* no resident pair (committed pair / fingerprint is None)
    MaxTx,            \* bound: transactions begun in a behaviour
    OrderedMetadata   \* does a power loss keep a prefix of the directory updates?

ASSUME OrderedAssumption == OrderedMetadata \in BOOLEAN
ASSUME NoProcAssumption  == NoProc \notin Proc
ASSUME MaxTxAssumption   == MaxTx \in Nat

Tx   == 1..MaxTx
Pair == Seq(Tx)

ASSUME NoPairAssumption    == NoPair \notin Pair
ASSUME NoJournalAssumption == NoJournal \notin [base: Pair, target: Pair]

VARIABLES
    dir,        \* the directory as every process sees it
    media,      \* the directory states a power loss may leave behind
    lock,       \* holder of the flock, released by the kernel on death
    pc,         \* where each process is
    op,         \* what the holder of the lock is doing it for
    committing, \* is the pair being written by commit_locked (or by recovery)?
    pair,       \* resident pair of each process
    fresh,      \* does its fingerprint still match both pair files?
    target,     \* the pair it is writing
    poisoned,   \* LiteDurability._poisoned
    nextTx,     \* next transaction id
    acked,      \* history: transactions whose commit returned
    published,  \* history: transactions some process served from a pair
    rejected    \* history: transactions that failed before their journal

disk    == <<dir, media>>
memory  == <<pair, fresh>>
history == <<acked, published, rejected>>
vars    == <<disk, lock, pc, op, committing, memory, target, poisoned, nextTx,
             history>>

Journal  == [base: Pair, target: Pair]
DirState == [memory: Pair, changelog: Pair, journal: Journal \cup {NoJournal}]

\* The stages both commit_locked and _recover_locked go through, in order;
\* a "_dir" stage is an _fsync_dir.
WriteStage == {"memory", "memory_dir", "changelog", "changelog_dir",
               "unlink", "unlink_dir"}
Stage == {"load", "journal", "journal_dir"} \cup WriteStage

Items(s) == {s[i] : i \in DOMAIN s}

\* What a load of directory d returns once the journal has been completed ...
Authority(d) == IF d.journal = NoJournal THEN d.memory ELSE d.journal.target

\* ... and whether it returns at all: _decode_pair refuses two sides of
\* different generations, _recover_locked refuses a side that is neither the
\* journal's base nor its target.
Recoverable(d) ==
    IF d.journal = NoJournal
    THEN d.memory = d.changelog
    ELSE {d.memory, d.changelog} \subseteq {d.journal.base, d.journal.target}

-----------------------------------------------------------------------------

Init ==
    /\ dir = [memory |-> <<>>, changelog |-> <<>>, journal |-> NoJournal]
    /\ media = {dir}
    /\ lock = NoProc
    /\ pc = [p \in Proc |-> "idle"]
    /\ op = [p \in Proc |-> "none"]
    /\ committing = [p \in Proc |-> FALSE]
    /\ pair = [p \in Proc |-> NoPair]
    /\ fresh = [p \in Proc |-> FALSE]
    /\ target = [p \in Proc |-> <<>>]
    /\ poisoned = [p \in Proc |-> FALSE]
    /\ nextTx = 1
    /\ acked = {}
    /\ published = {}
    /\ rejected = {}

\* One directory update (a rename or an unlink): visible at once, on the medium
\* only after the next directory fsync.  With unordered metadata it may reach
\* the medium before the updates that precede it.
Update(file, value) ==
    /\ dir' = [dir EXCEPT ![file] = value]
    /\ media' = media \cup
                  IF OrderedMetadata THEN {dir'}
                                     ELSE {[d EXCEPT ![file] = value] : d \in media}

SyncDir ==
    /\ media' = {dir}
    /\ dir' = dir

Goto(p, stage) == pc' = [pc EXCEPT ![p] = stage]

\* The resident pair becomes s, and the fingerprint that of the files now.
Publish(p, s) ==
    /\ pair' = [pair EXCEPT ![p] = s]
    /\ fresh' = [fresh EXCEPT ![p] = TRUE]

\* _with_writer_lock on an exception: committed pair and fingerprint are None.
Invalidate(p) ==
    /\ pair' = [pair EXCEPT ![p] = NoPair]
    /\ fresh' = [fresh EXCEPT ![p] = FALSE]

Unlock(p) ==
    /\ lock' = NoProc
    /\ op' = [op EXCEPT ![p] = "none"]
    /\ Goto(p, "idle")

-----------------------------------------------------------------------------
(* Taking the lock, loading the pair.                                      *)

\* Mutant: any resident pair is taken as current.
Unchanged_NoStat(p) == pair[p] # NoPair

\* _pair_files_unchanged.
Unchanged(p) == pair[p] # NoPair /\ fresh[p]

Lock(p, why) ==
    /\ pc[p] = "idle"
    /\ ~poisoned[p]
    /\ lock = NoProc
    /\ lock' = p
    /\ op' = [op EXCEPT ![p] = why]

\* _refresh_for_read: only a stale resident pair takes the lock.
StartRead(p) ==
    /\ ~Unchanged(p)
    /\ Lock(p, "read")
    /\ Goto(p, "load")
    /\ UNCHANGED <<disk, committing, memory, target, poisoned, nextTx, history>>

\* _reload_for_mutation: a resident pair whose files are unchanged is the base.
StartWrite(p) ==
    /\ Lock(p, "write")
    /\ Goto(p, IF Unchanged(p) THEN "decide" ELSE "load")
    /\ UNCHANGED <<disk, committing, memory, target, poisoned, nextTx, history>>

\* Mutant: recovery rolls the journal back.
RecoveredPair_Base(journal) == journal.base

RecoveredPair(journal) == journal.target

\* _load_authoritative_locked finds a journal: _recover_locked completes it.
LoadJournal(p) ==
    /\ pc[p] = "load"
    /\ dir.journal # NoJournal
    /\ Recoverable(dir)
    /\ target' = [target EXCEPT ![p] = RecoveredPair(dir.journal)]
    /\ committing' = [committing EXCEPT ![p] = FALSE]
    /\ Goto(p, "memory")
    /\ UNCHANGED <<disk, lock, op, memory, poisoned, nextTx, history>>

\* Mutant: a load serves the journal's target without completing it first.
NothingToRecover_Skipped(d) == TRUE

NothingToRecover(d) == d.journal = NoJournal

\* _load_authoritative_locked reads an agreeing pair and _publish_pair serves
\* it; a reader and the handler of a failed commit are done, a writer goes on.
LoadPair(p) ==
    /\ pc[p] = "load"
    /\ NothingToRecover(dir)
    /\ Recoverable(dir)
    /\ published' = published \cup Items(Authority(dir))
    /\ \/ op[p] = "write" /\ Publish(p, Authority(dir)) /\ Goto(p, "decide") /\ UNCHANGED <<lock, op>>
       \/ op[p] = "read" /\ Publish(p, Authority(dir)) /\ Unlock(p)
       \/ op[p] = "raise" /\ Invalidate(p) /\ Unlock(p)
    /\ UNCHANGED <<disk, committing, target, poisoned, nextTx, acked, rejected>>

-----------------------------------------------------------------------------
(* commit_locked, with the resident pair as its verified base.             *)

\* Mutant: the journal is written in place, before the target is validated.
Decide_JournalInPlace(p) ==
    /\ pc[p] = "decide"
    /\ nextTx <= MaxTx
    /\ target' = [target EXCEPT ![p] = Append(pair[p], nextTx)]
    /\ Update("journal", [base |-> pair[p], target |-> Append(pair[p], nextTx)])
    /\ committing' = [committing EXCEPT ![p] = TRUE]
    /\ nextTx' = nextTx + 1
    /\ Goto(p, "journal")
    /\ UNCHANGED <<lock, op, memory, poisoned, history>>

Decide(p) ==
    /\ pc[p] = "decide"
    /\ nextTx <= MaxTx
    /\ target' = [target EXCEPT ![p] = Append(pair[p], nextTx)]
    /\ committing' = [committing EXCEPT ![p] = TRUE]
    /\ nextTx' = nextTx + 1
    /\ Goto(p, "journal")
    /\ UNCHANGED <<disk, lock, op, memory, poisoned, history>>

PublishJournal(p) ==
    /\ pc[p] = "journal"
    /\ Update("journal", [base |-> pair[p], target |-> target[p]])
    /\ Goto(p, "journal_dir")
    /\ UNCHANGED <<lock, op, committing, memory, target, poisoned, nextTx, history>>

SyncJournal(p) ==
    /\ pc[p] = "journal_dir"
    /\ SyncDir
    /\ Goto(p, "memory")
    /\ UNCHANGED <<lock, op, committing, memory, target, poisoned, nextTx, history>>

-----------------------------------------------------------------------------
(* The stages commit_locked and _recover_locked share.                     *)

\* Mutant: the replacement keeps the mtime (and size), fingerprints still match.
ReplaceFile_SameStat(p, file, stage, next) ==
    /\ pc[p] = stage
    /\ Update(file, target[p])
    /\ Goto(p, next)
    /\ UNCHANGED <<lock, op, committing, pair, fresh, target, poisoned, nextTx, history>>

\* Replacing a pair file changes its mtime: every fingerprint goes stale.
ReplaceFile(p, file, stage, next) ==
    /\ pc[p] = stage
    /\ Update(file, target[p])
    /\ fresh' = [q \in Proc |-> FALSE]
    /\ Goto(p, next)
    /\ UNCHANGED <<lock, op, committing, pair, target, poisoned, nextTx, history>>

ReplaceMemory(p)    == ReplaceFile(p, "memory", "memory", "memory_dir")
ReplaceChangelog(p) == ReplaceFile(p, "changelog", "changelog", "changelog_dir")

SyncFile(p, stage, next) ==
    /\ pc[p] = stage
    /\ SyncDir
    /\ Goto(p, next)
    /\ UNCHANGED <<lock, op, committing, memory, target, poisoned, nextTx, history>>

\* Mutant: the journal is unlinked before the changelog is replaced.
SyncMemory_UnlinkFirst(p) == SyncFile(p, "memory_dir", "unlink")

SyncMemory(p)    == SyncFile(p, "memory_dir", "changelog")
SyncChangelog(p) == SyncFile(p, "changelog_dir", "unlink")

UnlinkJournal(p) ==
    /\ pc[p] = "unlink"
    /\ Update("journal", NoJournal)
    /\ Goto(p, "unlink_dir")
    /\ UNCHANGED <<lock, op, committing, memory, target, poisoned, nextTx, history>>

\* The last directory fsync of a commit; _publish_committed_locally and return.
SyncCommit(p) ==
    /\ pc[p] = "unlink_dir"
    /\ committing[p]
    /\ SyncDir
    /\ Publish(p, target[p])
    /\ published' = published \cup Items(target[p])
    /\ acked' = acked \cup {target[p][Len(target[p])]}
    /\ Unlock(p)
    /\ UNCHANGED <<committing, target, poisoned, nextTx, rejected>>

\* The last directory fsync of a recovery; the load goes on to read the pair.
SyncRecovery(p) ==
    /\ pc[p] = "unlink_dir"
    /\ ~committing[p]
    /\ SyncDir
    /\ Goto(p, "load")
    /\ UNCHANGED <<lock, op, committing, memory, target, poisoned, nextTx, history>>

-----------------------------------------------------------------------------
(* Failures.                                                               *)

\* commit_locked raises (disk full, fsync error): an fsync error after the
\* journal was renamed poisons the instance; _commit_current_state reloads the
\* authoritative pair before the exception escapes.
CommitError(p) ==
    /\ pc[p] \in Stage \ {"load"}
    /\ committing[p]
    /\ poisoned' = [poisoned EXCEPT ![p] = @ \/ pc[p] = "journal_dir"]
    /\ rejected' = IF pc[p] = "journal"
                   THEN rejected \cup {target[p][Len(target[p])]} ELSE rejected
    /\ op' = [op EXCEPT ![p] = "raise"]
    /\ committing' = [committing EXCEPT ![p] = FALSE]
    /\ Goto(p, "load")
    /\ UNCHANGED <<disk, lock, memory, target, nextTx, acked, published>>

\* An I/O error of a load or a recovery, or a BaseException anywhere, escapes.
Escape(p) ==
    /\ pc[p] \in Stage \cup {"decide"}
    /\ Invalidate(p)
    /\ committing' = [committing EXCEPT ![p] = FALSE]
    /\ Unlock(p)
    /\ UNCHANGED <<disk, target, poisoned, nextTx, history>>

\* The process dies at any point; the directory is what the others see.
Crash(p) ==
    /\ pc[p] # "down"
    /\ Goto(p, "down")
    /\ lock' = IF lock = p THEN NoProc ELSE lock
    /\ op' = [op EXCEPT ![p] = "none"]
    /\ committing' = [committing EXCEPT ![p] = FALSE]
    /\ poisoned' = [poisoned EXCEPT ![p] = FALSE]
    /\ Invalidate(p)
    /\ UNCHANGED <<disk, target, nextTx, history>>

Restart(p) ==
    /\ pc[p] = "down"
    /\ Goto(p, "idle")
    /\ UNCHANGED <<disk, lock, op, committing, memory, target, poisoned, nextTx, history>>

\* The machine dies: the directory is any state the medium may hold.
PowerLoss ==
    /\ dir' \in media
    /\ media' = {dir'}
    /\ lock' = NoProc
    /\ pc' = [p \in Proc |-> "down"]
    /\ op' = [p \in Proc |-> "none"]
    /\ committing' = [p \in Proc |-> FALSE]
    /\ pair' = [p \in Proc |-> NoPair]
    /\ fresh' = [p \in Proc |-> FALSE]
    /\ poisoned' = [p \in Proc |-> FALSE]
    /\ UNCHANGED <<target, nextTx, history>>

-----------------------------------------------------------------------------

Step(p) ==
    \/ StartRead(p) \/ StartWrite(p) \/ LoadJournal(p) \/ LoadPair(p)
    \/ Decide(p) \/ PublishJournal(p) \/ SyncJournal(p)
    \/ ReplaceMemory(p) \/ SyncMemory(p)
    \/ ReplaceChangelog(p) \/ SyncChangelog(p)
    \/ UnlinkJournal(p) \/ SyncCommit(p) \/ SyncRecovery(p)
    \/ CommitError(p) \/ Escape(p) \/ Crash(p) \/ Restart(p)

Next == PowerLoss \/ \E p \in Proc : Step(p)

Spec == Init /\ [][Next]_vars

-----------------------------------------------------------------------------
(* Properties.                                                             *)

\* The variables hold values of their types; the directory is one of the
\* states the medium may hold.
TypeOK ==
    /\ dir \in media /\ media \subseteq DirState
    /\ lock \in Proc \cup {NoProc}
    /\ pc \in [Proc -> {"down", "idle", "decide"} \cup Stage]
    /\ op \in [Proc -> {"none", "read", "write", "raise"}]
    /\ committing \in [Proc -> BOOLEAN]
    /\ pair \in [Proc -> Pair \cup {NoPair}]
    /\ fresh \in [Proc -> BOOLEAN]
    /\ target \in [Proc -> Pair]
    /\ poisoned \in [Proc -> BOOLEAN]
    /\ nextTx \in 1..MaxTx + 1
    /\ acked \subseteq Tx /\ published \subseteq Tx /\ rejected \subseteq Tx

\* Whatever the medium keeps, at whatever stage a commit or a recovery was cut,
\* the next load returns a pair: no "generation mismatch without journal", no
\* "stale or foreign journal cannot overwrite pair".
CrashRecoverable == \A d \in media : Recoverable(d)

\* A commit that returned survives every crash and every later commit of any
\* process, including commits that trust a cached, fingerprint-verified base.
AckedSurvives == \A d \in media : acked \subseteq Items(Authority(d))

\* What a load published to a caller is never taken back, although the commit
\* that wrote it may have failed, been interrupted, or died.
PublishedSurvives == \A d \in media : published \subseteq Items(Authority(d))

\* A commit that failed before its journal was renamed has no effect, ever.
RejectedStaysOut == \A d \in media : rejected \cap Items(Authority(d)) = {}

\* "a fingerprint-verified resident base cannot be stale": the instance that
\* may skip the reload holds exactly what both files hold.
FreshIsCurrent ==
    \A p \in Proc : Unchanged(p) => pair[p] = dir.memory /\ pair[p] = dir.changelog

-----------------------------------------------------------------------------
(* The pair implements a durable register.                                 *)

Tip == Authority(dir)

\* The visible transaction can no longer be lost: every state of the medium
\* leads to it, and no instance still trusts the files as they were before it
\* (its fingerprint would let it overwrite the journal).
Settled ==
    /\ \A d \in media : Authority(d) = Tip
    /\ dir.journal = NoJournal \/ \A p \in Proc : ~Unchanged(p)

Front(s) == SubSeq(s, 1, Len(s) - 1)

Register == INSTANCE DurableRegister WITH
    settled <- IF Settled THEN Tip ELSE Front(Tip), tip <- Tip

\* Commits of all processes, recoveries, failures, crashes and power losses
\* together behave like one register that loses nothing it has answered for.
ImplementsRegister == Register!Spec
=============================================================================
