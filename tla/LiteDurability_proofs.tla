----------------------- MODULE LiteDurability_proofs -----------------------
(***************************************************************************)
(* Theorems about LiteDurability, for any set of processes and any number  *)
(* of transactions, on a medium that keeps a prefix of the directory       *)
(* updates.                                                                *)
(*                                                                         *)
(* The argument: the directory, and every state of the medium, is either   *)
(* an agreeing pair or a journal whose base and target cover both sides;   *)
(* all that was answered for (acknowledged or published) is in what each   *)
(* of these states recovers to, AND in the resident pair of every instance *)
(* that may skip the reload, because such an instance can overwrite a      *)
(* journal it never saw.  What was rejected stays out because the          *)
(* identities of transactions are fresh (IdsInv), and the pair is one      *)
(* register because a transaction that is visible and not yet answered for *)
(* is at most one ahead of every state of the medium (RegisterInv).        *)
(***************************************************************************)
EXTENDS LiteDurability, TLAPS

Busy == Stage \cup {"decide"}

\* Only the holder of the flock is at work.
LockInv == \A p \in Proc : pc[p] \in Busy => lock = p

\* A directory without a journal is what every state of the medium leads to.
NoJournalInv ==
    dir.journal = NoJournal => \A d \in media : Authority(d) = dir.memory

\* What is known of the directory at each stage of a commit or a recovery.
StageInv(p) ==
    /\ committing[p] => Len(target[p]) > 0
    /\ pc[p] = "decide" => Unchanged(p)
    /\ pc[p] \in {"journal", "journal_dir"} =>
          /\ committing[p] /\ Unchanged(p)
          /\ \E t \in Tx : target[p] = Append(pair[p], t)
    /\ pc[p] \in {"journal_dir", "memory", "memory_dir", "changelog",
                  "changelog_dir", "unlink"} =>
          dir.journal # NoJournal /\ dir.journal.target = target[p]
    /\ pc[p] \in {"memory_dir", "changelog", "changelog_dir", "unlink", "unlink_dir"} =>
          dir.memory = target[p] /\ \A q \in Proc : ~fresh[q]
    /\ pc[p] \in {"changelog_dir", "unlink", "unlink_dir"} => dir.changelog = target[p]
    /\ pc[p] = "unlink" => media = {dir}
    /\ pc[p] = "unlink_dir" => dir.journal = NoJournal

Answered == acked \cup published

\* What was answered for is in every resident pair that may serve as a base.
BaseKeeps == \A p \in Proc : Unchanged(p) => Answered \subseteq Items(pair[p])

IInv ==
    /\ TypeOK
    /\ CrashRecoverable
    /\ FreshIsCurrent
    /\ AckedSurvives
    /\ PublishedSurvives
    /\ LockInv
    /\ NoJournalInv
    /\ \A p \in Proc : StageInv(p)
    /\ BaseKeeps

-----------------------------------------------------------------------------

\* Appending a transaction adds it to the transactions of a pair.
LEMMA ItemsAppend ==
    ASSUME NEW s \in Pair, NEW t \in Tx
    PROVE  /\ Append(s, t) \in Pair
           /\ Len(Append(s, t)) > 0
           /\ Items(Append(s, t)) = Items(s) \cup {t}
<1>1. /\ Append(s, t) \in Pair
      /\ Len(s) \in Nat
      /\ DOMAIN s = 1..Len(s)
      /\ DOMAIN Append(s, t) = 1..Len(s) + 1
      /\ \A i \in 1..Len(s) : Append(s, t)[i] = s[i]
      /\ Append(s, t)[Len(s) + 1] = t
  BY DEF Pair
<1>2. Len(Append(s, t)) > 0
  BY <1>1 DEF Pair
<1>3. Items(Append(s, t)) \subseteq Items(s) \cup {t}
  BY <1>1 DEF Items
<1>4. Items(s) \subseteq Items(Append(s, t))
  BY <1>1 DEF Items
<1>5. t \in Items(Append(s, t))
  BY <1>1 DEF Items
<1> QED
  BY <1>1, <1>2, <1>3, <1>4, <1>5

\* The transactions of a pair are transactions.
LEMMA ItemsType ==
    ASSUME NEW s \in Pair
    PROVE  Items(s) \subseteq Tx
BY DEF Items, Pair

\* A directory state's authority is a pair.
LEMMA AuthorityType ==
    ASSUME NEW d \in DirState
    PROVE  Authority(d) \in Pair
BY DEF Authority, DirState, Journal

-----------------------------------------------------------------------------

\* Initially the directory is empty and nothing was answered for.
LEMMA InitIInv == Init => IInv
<1> SUFFICES ASSUME Init PROVE IInv
  OBVIOUS
<1>1. <<>> \in Pair /\ Items(<<>>) = {}
  BY DEF Pair, Items
<1>2. TypeOK
  BY <1>1, MaxTxAssumption, NoProcAssumption DEF Init, TypeOK, DirState
<1>3. CrashRecoverable
  BY DEF Init, CrashRecoverable, Recoverable
<1>4. AckedSurvives /\ PublishedSurvives
  BY DEF Init, AckedSurvives, PublishedSurvives
<1>5. FreshIsCurrent /\ BaseKeeps
  BY DEF Init, FreshIsCurrent, BaseKeeps, Unchanged
<1>6. LockInv /\ NoJournalInv /\ \A p \in Proc : StageInv(p)
  BY DEF Init, LockInv, NoJournalInv, StageInv, Busy, Stage, WriteStage, Authority
<1> QED
  BY <1>2, <1>3, <1>4, <1>5, <1>6 DEF IInv

-----------------------------------------------------------------------------
(* What the actions have in common.                                        *)

\* The conjuncts of the invariant that speak of the directory and of what was
\* answered for survive a step that leaves those alone, and after which fewer
\* instances may trust their resident pair.
LEMMA QuietStep ==
    ASSUME IInv, UNCHANGED <<dir, media, acked, published>>,
           \A q \in Proc : Unchanged(q)' => Unchanged(q) /\ pair'[q] = pair[q]
    PROVE  /\ CrashRecoverable' /\ NoJournalInv'
           /\ AckedSurvives' /\ PublishedSurvives'
           /\ FreshIsCurrent' /\ BaseKeeps'
<1>1. CrashRecoverable' /\ NoJournalInv'
  BY DEF IInv, CrashRecoverable, Recoverable, NoJournalInv, Authority
<1>2. AckedSurvives' /\ PublishedSurvives'
  BY DEF IInv, AckedSurvives, PublishedSurvives, Authority, Items
<1>3. FreshIsCurrent'
  BY DEF IInv, FreshIsCurrent
<1>4. BaseKeeps'
  BY DEF IInv, BaseKeeps, Answered, Items
<1> QED
  BY <1>1, <1>2, <1>3, <1>4

\* The stage invariant says little of a process that is not at work.
LEMMA StageIdle ==
    ASSUME NEW q \in Proc, pc'[q] \notin Busy, committing'[q] => Len(target'[q]) > 0
    PROVE  StageInv(q)'
BY DEF StageInv, Busy, Stage, WriteStage

\* While p is at work no other process is.
LEMMA OthersIdle ==
    ASSUME IInv, NEW p \in Proc, pc[p] \in Busy, NEW q \in Proc, q # p
    PROVE  pc[q] \notin Busy
BY DEF IInv, LockInv

\* The lock invariant and the stages of the other processes after a step of p
\* that holds the lock and keeps it.
LEMMA HolderStep ==
    ASSUME IInv, NEW p \in Proc, pc[p] \in Busy, lock' = lock,
           NEW stage, pc' = [pc EXCEPT ![p] = stage],
           NEW c \in BOOLEAN, committing' = [committing EXCEPT ![p] = c],
           NEW s \in Pair, target' = [target EXCEPT ![p] = s],
           StageInv(p)'
    PROVE  LockInv' /\ \A q \in Proc : StageInv(q)'
<1>1. LockInv'
  BY DEF IInv, LockInv, TypeOK
<1>2. ASSUME NEW q \in Proc, q # p PROVE StageInv(q)'
  <2>1. pc'[q] \notin Busy
    BY <1>2, OthersIdle DEF IInv, TypeOK
  <2>2. committing'[q] => Len(target'[q]) > 0
    BY <1>2 DEF IInv, TypeOK, StageInv
  <2> QED
    BY <2>1, <2>2, StageIdle
<1> QED
  BY <1>1, <1>2

\* The same for a step that stops the work of p.
LEMMA ReleaseStep ==
    ASSUME IInv, NEW p \in Proc, pc[p] \in Busy,
           NEW stage, stage \notin Busy, pc' = [pc EXCEPT ![p] = stage],
           NEW c \in BOOLEAN, committing' = [committing EXCEPT ![p] = c],
           c => committing[p],
           UNCHANGED target
    PROVE  LockInv' /\ \A q \in Proc : StageInv(q)'
<1>1. ASSUME NEW q \in Proc PROVE pc'[q] \notin Busy
  BY OthersIdle DEF IInv, TypeOK
<1>2. LockInv'
  BY <1>1 DEF LockInv
<1>3. ASSUME NEW q \in Proc PROVE StageInv(q)'
  <2>1. committing'[q] => Len(target'[q]) > 0
    BY DEF IInv, TypeOK, StageInv
  <2> QED
    BY <1>1, <2>1, StageIdle
<1> QED
  BY <1>2, <1>3

-----------------------------------------------------------------------------
(* One lemma per action.                                                   *)

\* Taking the lock changes no file and no resident pair.
LEMMA StartInv ==
    ASSUME IInv, NEW p \in Proc, StartRead(p) \/ StartWrite(p)
    PROVE  IInv'
<1>1. /\ UNCHANGED <<dir, media, committing, pair, fresh, target, poisoned, nextTx,
                     acked, published, rejected>>
      /\ pc[p] = "idle" /\ lock = NoProc /\ lock' = p
      /\ op' \in [Proc -> {"none", "read", "write", "raise"}]
  BY DEF StartRead, StartWrite, Lock, disk, memory, history, IInv, TypeOK
<1>2. \/ pc' = [pc EXCEPT ![p] = "load"]
      \/ pc' = [pc EXCEPT ![p] = "decide"] /\ Unchanged(p)
  BY DEF StartRead, StartWrite, Goto
<1>3. TypeOK'
  BY <1>1, <1>2 DEF IInv, TypeOK, Stage, WriteStage
<1>4. /\ CrashRecoverable' /\ NoJournalInv' /\ AckedSurvives' /\ PublishedSurvives'
      /\ FreshIsCurrent' /\ BaseKeeps'
  BY <1>1, QuietStep DEF Unchanged
<1>5. LockInv'
  BY <1>1, <1>2, NoProcAssumption DEF IInv, LockInv, TypeOK, Busy
<1>6. ASSUME NEW q \in Proc PROVE StageInv(q)'
  <2>1. StageInv(q)
    BY DEF IInv
  <2>2. CASE q = p
    BY <1>1, <1>2, <2>1, <2>2 DEF StageInv, Unchanged, IInv, TypeOK
  <2>3. CASE q # p
    BY <1>1, <1>2, <2>1, <2>3 DEF StageInv, Unchanged, IInv, TypeOK
  <2> QED
    BY <2>2, <2>3
<1> QED
  BY <1>3, <1>4, <1>5, <1>6 DEF IInv

\* A load that finds a journal takes its target; nothing is written yet.
LEMMA LoadJournalInv ==
    ASSUME IInv, NEW p \in Proc, LoadJournal(p)
    PROVE  IInv'
<1>1. /\ UNCHANGED <<dir, media, lock, op, pair, fresh, poisoned, nextTx,
                     acked, published, rejected>>
      /\ pc[p] = "load" /\ pc' = [pc EXCEPT ![p] = "memory"]
      /\ committing' = [committing EXCEPT ![p] = FALSE]
      /\ dir.journal # NoJournal
      /\ target' = [target EXCEPT ![p] = dir.journal.target]
  BY DEF LoadJournal, RecoveredPair, Goto, disk, memory, history
<1>2. dir.journal \in Journal /\ dir.journal.target \in Pair
  BY <1>1 DEF IInv, TypeOK, DirState, Journal
<1>3. TypeOK'
  BY <1>1, <1>2 DEF IInv, TypeOK, Stage, WriteStage
<1>4. /\ CrashRecoverable' /\ NoJournalInv' /\ AckedSurvives' /\ PublishedSurvives'
      /\ FreshIsCurrent' /\ BaseKeeps'
  BY <1>1, QuietStep DEF Unchanged
<1>5. StageInv(p)'
  BY <1>1, <1>2 DEF StageInv, IInv, TypeOK
<1>6. LockInv' /\ \A q \in Proc : StageInv(q)'
  BY <1>1, <1>2, <1>5, HolderStep DEF Busy, Stage
<1> QED
  BY <1>3, <1>4, <1>6 DEF IInv

\* A load without a journal publishes what every state of the medium leads to.
LEMMA LoadPairInv ==
    ASSUME IInv, NEW p \in Proc, LoadPair(p)
    PROVE  IInv'
<1>1. /\ UNCHANGED <<dir, media, committing, target, poisoned, nextTx, acked, rejected>>
      /\ pc[p] = "load" /\ dir.journal = NoJournal /\ Recoverable(dir)
      /\ Authority(dir) = dir.memory /\ dir.memory = dir.changelog
      /\ published' = published \cup Items(dir.memory)
  BY DEF LoadPair, NothingToRecover, Authority, Recoverable, disk
<1>2. dir.memory \in Pair /\ Items(dir.memory) \subseteq Tx
  BY ItemsType DEF IInv, TypeOK, DirState
<1>3. Answered \subseteq Items(dir.memory)
  BY <1>1 DEF IInv, TypeOK, AckedSurvives, PublishedSurvives, Answered
<1>4. CrashRecoverable' /\ NoJournalInv' /\ AckedSurvives'
  BY <1>1 DEF IInv, CrashRecoverable, Recoverable, NoJournalInv, AckedSurvives, Authority, Items
<1>5. PublishedSurvives'
  BY <1>1 DEF IInv, PublishedSurvives, NoJournalInv, Authority, Items
<1>6. Answered' \subseteq Items(dir.memory)
  BY <1>1, <1>3 DEF Answered
<1>7. CASE /\ Publish(p, dir.memory)
           /\ \/ lock' = lock /\ op' = op /\ pc' = [pc EXCEPT ![p] = "decide"]
              \/ Unlock(p)
  <2>1. /\ pair' = [pair EXCEPT ![p] = dir.memory]
        /\ fresh' = [fresh EXCEPT ![p] = TRUE]
    BY <1>7 DEF Publish
  <2>2. TypeOK'
    BY <1>1, <1>2, <1>7, <2>1 DEF IInv, TypeOK, Unlock, Goto, Stage, WriteStage
  <2>3. FreshIsCurrent'
    BY <1>1, <2>1 DEF IInv, TypeOK, FreshIsCurrent, Unchanged
  <2>4. \A q \in Proc : Unchanged(q)' => pair'[q] = dir.memory
    BY <1>1, <2>3 DEF FreshIsCurrent
  <2>5. BaseKeeps'
    BY <2>4, <1>6 DEF BaseKeeps, Items
  <2>6. CASE lock' = lock /\ op' = op /\ pc' = [pc EXCEPT ![p] = "decide"]
    <3>1. Unchanged(p)'
      BY <1>2, <2>1, NoPairAssumption DEF Unchanged, IInv, TypeOK
    <3>2. StageInv(p)'
      BY <1>1, <2>6, <3>1 DEF StageInv, IInv, TypeOK
    <3>3. committing' = [committing EXCEPT ![p] = committing[p]]
          /\ target' = [target EXCEPT ![p] = target[p]]
          /\ committing[p] \in BOOLEAN /\ target[p] \in Pair
      BY <1>1 DEF IInv, TypeOK
    <3>4. LockInv' /\ \A q \in Proc : StageInv(q)'
      BY <1>1, <2>6, <3>2, <3>3, HolderStep DEF Busy, Stage
    <3> QED
      BY <1>4, <1>5, <2>2, <2>3, <2>5, <3>4 DEF IInv
  <2>7. CASE Unlock(p)
    <3>1. LockInv' /\ \A q \in Proc : StageInv(q)'
      <4>1. committing' = [committing EXCEPT ![p] = committing[p]] /\ committing[p] \in BOOLEAN
        BY <1>1 DEF IInv, TypeOK
      <4> QED
        BY <1>1, <2>7, <4>1, ReleaseStep DEF Unlock, Goto, Busy, Stage, WriteStage
    <3> QED
      BY <1>4, <1>5, <2>2, <2>3, <2>5, <3>1 DEF IInv
  <2> QED
    BY <1>7, <2>6, <2>7
<1>8. CASE Invalidate(p) /\ Unlock(p)
  <2>1. /\ pair' = [pair EXCEPT ![p] = NoPair]
        /\ fresh' = [fresh EXCEPT ![p] = FALSE]
    BY <1>8 DEF Invalidate
  <2>2. TypeOK'
    BY <1>1, <1>2, <1>8, <2>1 DEF IInv, TypeOK, Unlock, Goto, Stage, WriteStage
  <2>3. FreshIsCurrent'
    BY <1>1, <2>1 DEF IInv, TypeOK, FreshIsCurrent, Unchanged
  <2>4. \A q \in Proc : Unchanged(q)' => pair'[q] = dir.memory
    BY <1>1, <2>3 DEF FreshIsCurrent
  <2>5. BaseKeeps'
    BY <2>4, <1>6 DEF BaseKeeps, Items
  <2>6. committing' = [committing EXCEPT ![p] = committing[p]] /\ committing[p] \in BOOLEAN
    BY <1>1 DEF IInv, TypeOK
  <2>7. LockInv' /\ \A q \in Proc : StageInv(q)'
    BY <1>1, <1>8, <2>6, ReleaseStep DEF Unlock, Goto, Busy, Stage, WriteStage
  <2> QED
    BY <1>4, <1>5, <2>2, <2>3, <2>5, <2>7 DEF IInv
<1> QED
  BY <1>1, <1>7, <1>8 DEF LoadPair, Goto

\* commit_locked computes its target from the base; nothing is written yet.
LEMMA DecideInv ==
    ASSUME IInv, NEW p \in Proc, Decide(p)
    PROVE  IInv'
<1>1. /\ UNCHANGED <<dir, media, lock, op, pair, fresh, poisoned,
                     acked, published, rejected>>
      /\ pc[p] = "decide" /\ pc' = [pc EXCEPT ![p] = "journal"]
      /\ committing' = [committing EXCEPT ![p] = TRUE]
      /\ target' = [target EXCEPT ![p] = Append(pair[p], nextTx)]
      /\ nextTx <= MaxTx /\ nextTx' = nextTx + 1
  BY DEF Decide, Goto, disk, memory, history
<1>2. Unchanged(p) /\ pair[p] \in Pair /\ nextTx \in Tx
  BY <1>1, MaxTxAssumption DEF IInv, StageInv, TypeOK, Unchanged, Tx
<1>3. Append(pair[p], nextTx) \in Pair /\ Len(Append(pair[p], nextTx)) > 0
  BY <1>2, ItemsAppend
<1>4. TypeOK'
  BY <1>1, <1>3, MaxTxAssumption DEF IInv, TypeOK, Stage, WriteStage
<1>5. /\ CrashRecoverable' /\ NoJournalInv' /\ AckedSurvives' /\ PublishedSurvives'
      /\ FreshIsCurrent' /\ BaseKeeps'
  BY <1>1, QuietStep DEF Unchanged
<1>6. StageInv(p)'
  BY <1>1, <1>2, <1>3 DEF StageInv, IInv, TypeOK, Unchanged
<1>7. LockInv' /\ \A q \in Proc : StageInv(q)'
  BY <1>1, <1>3, <1>6, HolderStep DEF Busy, Stage
<1> QED
  BY <1>4, <1>5, <1>7 DEF IInv

\* With ordered metadata an update adds one state to the medium.
LEMMA OrderedUpdate ==
    ASSUME OrderedMetadata, NEW file, NEW value, Update(file, value)
    PROVE  dir' = [dir EXCEPT ![file] = value] /\ media' = media \cup {dir'}
BY DEF Update

\* The journal extends the pair both files hold, and its base keeps all that
\* was answered for: a journal it replaces was never served to anyone.
LEMMA PublishJournalInv ==
    ASSUME OrderedMetadata, IInv, NEW p \in Proc, PublishJournal(p)
    PROVE  IInv'
<1>1. /\ UNCHANGED <<lock, op, committing, pair, fresh, target, poisoned, nextTx,
                     acked, published, rejected>>
      /\ pc[p] = "journal" /\ pc' = [pc EXCEPT ![p] = "journal_dir"]
      /\ Update("journal", [base |-> pair[p], target |-> target[p]])
  BY DEF PublishJournal, Goto, memory, history
<1>2. /\ dir' = [dir EXCEPT !["journal"] = [base |-> pair[p], target |-> target[p]]]
      /\ media' = media \cup {dir'}
  BY <1>1, OrderedUpdate
<1>3. PICK t \in Tx : target[p] = Append(pair[p], t)
  BY <1>1 DEF IInv, StageInv
<1>4. /\ Unchanged(p) /\ pair[p] \in Pair /\ target[p] \in Pair
      /\ pair[p] = dir.memory /\ pair[p] = dir.changelog
      /\ Answered \subseteq Items(pair[p])
  BY <1>1 DEF IInv, StageInv, TypeOK, Unchanged, FreshIsCurrent, BaseKeeps
<1>5. Items(pair[p]) \subseteq Items(target[p])
  BY <1>3, <1>4, ItemsAppend
<1>6. dir \in DirState /\ [base |-> pair[p], target |-> target[p]] \in Journal
  BY <1>4 DEF IInv, TypeOK, Journal
<1>7. [base |-> pair[p], target |-> target[p]] # NoJournal
  BY <1>6, NoJournalAssumption DEF Journal
<1>8. /\ dir' \in DirState /\ dir'.journal = [base |-> pair[p], target |-> target[p]]
      /\ dir'.memory = pair[p] /\ dir'.changelog = pair[p]
  BY <1>2, <1>4, <1>6 DEF DirState
<1>9. Recoverable(dir') /\ Authority(dir') = target[p]
  BY <1>7, <1>8 DEF Recoverable, Authority
<1>10. TypeOK'
  BY <1>1, <1>2, <1>8 DEF IInv, TypeOK, Stage, WriteStage
<1>11. CrashRecoverable'
  BY <1>2, <1>9 DEF IInv, CrashRecoverable, Recoverable
<1>12. NoJournalInv'
  BY <1>7, <1>8 DEF NoJournalInv
<1>13. AckedSurvives' /\ PublishedSurvives'
  <2>1. Answered \subseteq Items(Authority(dir'))
    BY <1>4, <1>5, <1>9
  <2> QED
    BY <1>1, <1>2, <2>1 DEF IInv, AckedSurvives, PublishedSurvives, Answered
<1>14. FreshIsCurrent' /\ BaseKeeps'
  <2>1. dir'.memory = dir.memory /\ dir'.changelog = dir.changelog
    BY <1>4, <1>8
  <2> QED
    BY <1>1, <2>1 DEF IInv, FreshIsCurrent, BaseKeeps, Unchanged, Answered, Items
<1>15. StageInv(p)'
  BY <1>1, <1>3, <1>4, <1>7, <1>8 DEF StageInv, IInv, TypeOK, Unchanged
<1>16. LockInv' /\ \A q \in Proc : StageInv(q)'
  <2>1. committing' = [committing EXCEPT ![p] = committing[p]] /\ committing[p] \in BOOLEAN
        /\ target' = [target EXCEPT ![p] = target[p]]
    BY <1>1 DEF IInv, TypeOK
  <2> QED
    BY <1>1, <1>4, <1>15, <2>1, HolderStep DEF Busy, Stage
<1> QED
  BY <1>10, <1>11, <1>12, <1>13, <1>14, <1>16 DEF IInv

\* A directory fsync leaves one state of the medium, the one all processes see.
LEMMA SyncStep ==
    ASSUME IInv, SyncDir, UNCHANGED <<pair, fresh, acked, published>>
    PROVE  /\ CrashRecoverable' /\ NoJournalInv'
           /\ AckedSurvives' /\ PublishedSurvives'
           /\ FreshIsCurrent' /\ BaseKeeps'
<1>1. dir \in media /\ media' = {dir} /\ dir' = dir
  BY DEF IInv, TypeOK, SyncDir
<1>2. CrashRecoverable'
  BY <1>1 DEF IInv, CrashRecoverable
<1>3. NoJournalInv'
  BY <1>1 DEF NoJournalInv, Authority
<1>4. AckedSurvives' /\ PublishedSurvives'
  BY <1>1 DEF IInv, AckedSurvives, PublishedSurvives
<1>5. FreshIsCurrent' /\ BaseKeeps'
  BY <1>1 DEF IInv, FreshIsCurrent, BaseKeeps, Unchanged, Answered
<1> QED
  BY <1>2, <1>3, <1>4, <1>5

\* The fsyncs between two stages of a commit or a recovery.
LEMMA SyncStageInv ==
    ASSUME IInv, NEW p \in Proc,
           SyncJournal(p) \/ SyncMemory(p) \/ SyncChangelog(p) \/ SyncRecovery(p)
    PROVE  IInv'
<1>1. /\ UNCHANGED <<lock, op, committing, pair, fresh, target, poisoned, nextTx,
                     acked, published, rejected>>
      /\ SyncDir
  BY DEF SyncJournal, SyncMemory, SyncChangelog, SyncRecovery, SyncFile, memory, history
<1>2. /\ CrashRecoverable' /\ NoJournalInv' /\ AckedSurvives' /\ PublishedSurvives'
      /\ FreshIsCurrent' /\ BaseKeeps'
  BY <1>1, SyncStep
<1>3. dir' = dir /\ media' = {dir} /\ dir \in DirState
  BY <1>1 DEF SyncDir, IInv, TypeOK
<1>4. /\ committing' = [committing EXCEPT ![p] = committing[p]] /\ committing[p] \in BOOLEAN
      /\ target' = [target EXCEPT ![p] = target[p]] /\ target[p] \in Pair
  BY <1>1 DEF IInv, TypeOK
<1>5. CASE SyncJournal(p)
  <2>1. pc[p] = "journal_dir" /\ pc' = [pc EXCEPT ![p] = "memory"]
    BY <1>5 DEF SyncJournal, Goto
  <2>2. TypeOK'
    BY <1>1, <1>3, <2>1 DEF IInv, TypeOK, Stage, WriteStage
  <2>3. StageInv(p)'
    BY <1>1, <1>3, <2>1 DEF StageInv, IInv, TypeOK
  <2> QED
    BY <1>1, <1>2, <1>4, <2>1, <2>2, <2>3, HolderStep DEF IInv, Busy, Stage, WriteStage
<1>6. CASE SyncMemory(p)
  <2>1. pc[p] = "memory_dir" /\ pc' = [pc EXCEPT ![p] = "changelog"]
    BY <1>6 DEF SyncMemory, SyncFile, Goto
  <2>2. TypeOK'
    BY <1>1, <1>3, <2>1 DEF IInv, TypeOK, Stage, WriteStage
  <2>3. StageInv(p)'
    BY <1>1, <1>3, <2>1 DEF StageInv, IInv, TypeOK
  <2> QED
    BY <1>1, <1>2, <1>4, <2>1, <2>2, <2>3, HolderStep DEF IInv, Busy, Stage, WriteStage
<1>7. CASE SyncChangelog(p)
  <2>1. pc[p] = "changelog_dir" /\ pc' = [pc EXCEPT ![p] = "unlink"]
    BY <1>7 DEF SyncChangelog, SyncFile, Goto
  <2>2. TypeOK'
    BY <1>1, <1>3, <2>1 DEF IInv, TypeOK, Stage, WriteStage
  <2>3. StageInv(p)'
    BY <1>1, <1>3, <2>1 DEF StageInv, IInv, TypeOK
  <2> QED
    BY <1>1, <1>2, <1>4, <2>1, <2>2, <2>3, HolderStep DEF IInv, Busy, Stage, WriteStage
<1>8. CASE SyncRecovery(p)
  <2>1. pc[p] = "unlink_dir" /\ pc' = [pc EXCEPT ![p] = "load"]
    BY <1>8 DEF SyncRecovery, Goto
  <2>2. TypeOK'
    BY <1>1, <1>3, <2>1 DEF IInv, TypeOK, Stage, WriteStage
  <2>3. StageInv(p)'
    BY <1>1, <1>3, <2>1 DEF StageInv, IInv, TypeOK
  <2> QED
    BY <1>1, <1>2, <1>4, <2>1, <2>2, <2>3, HolderStep DEF IInv, Busy, Stage, WriteStage
<1> QED
  BY <1>5, <1>6, <1>7, <1>8

\* Replacing a side by the journal's target keeps what a load would return,
\* and no instance trusts its resident pair any more.
LEMMA ReplaceFileInv ==
    ASSUME OrderedMetadata, IInv, NEW p \in Proc, ReplaceMemory(p) \/ ReplaceChangelog(p)
    PROVE  IInv'
<1>1. /\ UNCHANGED <<lock, op, committing, pair, target, poisoned, nextTx,
                     acked, published, rejected>>
      /\ fresh' = [q \in Proc |-> FALSE]
      /\ pc[p] \in {"memory", "changelog"}
  BY DEF ReplaceMemory, ReplaceChangelog, ReplaceFile, history
<1>2. /\ target[p] \in Pair /\ dir \in DirState /\ dir \in media
      /\ dir.journal # NoJournal /\ dir.journal.target = target[p] /\ Recoverable(dir)
  BY <1>1 DEF IInv, TypeOK, StageInv, CrashRecoverable
<1>3. /\ media' = media \cup {dir'} /\ dir' \in DirState /\ dir'.journal = dir.journal
      /\ \/ pc[p] = "memory" /\ pc' = [pc EXCEPT ![p] = "memory_dir"]
            /\ dir'.memory = target[p] /\ dir'.changelog = dir.changelog
         \/ pc[p] = "changelog" /\ pc' = [pc EXCEPT ![p] = "changelog_dir"]
            /\ dir'.changelog = target[p] /\ dir'.memory = dir.memory
  <2>1. CASE ReplaceMemory(p)
    <3>1. /\ dir' = [dir EXCEPT !["memory"] = target[p]] /\ media' = media \cup {dir'}
          /\ pc[p] = "memory" /\ pc' = [pc EXCEPT ![p] = "memory_dir"]
      BY <2>1, OrderedUpdate DEF ReplaceMemory, ReplaceFile, Goto
    <3> QED
      BY <1>2, <3>1 DEF DirState
  <2>2. CASE ReplaceChangelog(p)
    <3>1. /\ dir' = [dir EXCEPT !["changelog"] = target[p]] /\ media' = media \cup {dir'}
          /\ pc[p] = "changelog" /\ pc' = [pc EXCEPT ![p] = "changelog_dir"]
      BY <2>2, OrderedUpdate DEF ReplaceChangelog, ReplaceFile, Goto
    <3> QED
      BY <1>2, <3>1 DEF DirState
  <2> QED
    BY <2>1, <2>2
<1>4. Recoverable(dir') /\ Authority(dir') = Authority(dir)
  BY <1>2, <1>3 DEF Recoverable, Authority
<1>5. TypeOK'
  BY <1>1, <1>3 DEF IInv, TypeOK, Stage, WriteStage
<1>6. CrashRecoverable'
  BY <1>3, <1>4 DEF IInv, CrashRecoverable
<1>7. NoJournalInv'
  BY <1>2, <1>3 DEF NoJournalInv
<1>8. AckedSurvives' /\ PublishedSurvives'
  BY <1>1, <1>2, <1>3, <1>4 DEF IInv, AckedSurvives, PublishedSurvives
<1>9. FreshIsCurrent' /\ BaseKeeps'
  BY <1>1 DEF FreshIsCurrent, BaseKeeps, Unchanged
<1>10. StageInv(p)'
  BY <1>1, <1>2, <1>3 DEF StageInv, IInv, TypeOK
<1>11. /\ committing' = [committing EXCEPT ![p] = committing[p]] /\ committing[p] \in BOOLEAN
       /\ target' = [target EXCEPT ![p] = target[p]]
  BY <1>1 DEF IInv, TypeOK
<1>12. LockInv' /\ \A q \in Proc : StageInv(q)'
  BY <1>1, <1>2, <1>3, <1>10, <1>11, HolderStep DEF Busy, Stage, WriteStage
<1> QED
  BY <1>5, <1>6, <1>7, <1>8, <1>9, <1>12 DEF IInv

\* The journal is unlinked once both sides are its target, on the medium too.
LEMMA UnlinkJournalInv ==
    ASSUME OrderedMetadata, IInv, NEW p \in Proc, UnlinkJournal(p)
    PROVE  IInv'
<1>1. /\ UNCHANGED <<lock, op, committing, pair, fresh, target, poisoned, nextTx,
                     acked, published, rejected>>
      /\ pc[p] = "unlink" /\ pc' = [pc EXCEPT ![p] = "unlink_dir"]
      /\ dir' = [dir EXCEPT !["journal"] = NoJournal] /\ media' = media \cup {dir'}
  BY OrderedUpdate DEF UnlinkJournal, Goto, memory, history
<1>2. /\ media = {dir} /\ dir \in DirState /\ target[p] \in Pair
      /\ dir.journal # NoJournal /\ dir.journal.target = target[p]
      /\ dir.memory = target[p] /\ dir.changelog = target[p]
      /\ \A q \in Proc : ~fresh[q]
  BY <1>1 DEF IInv, TypeOK, StageInv
<1>3. /\ dir' \in DirState /\ dir'.journal = NoJournal
      /\ dir'.memory = target[p] /\ dir'.changelog = target[p]
  BY <1>1, <1>2 DEF DirState
<1>4. Recoverable(dir') /\ Authority(dir') = target[p] /\ Authority(dir) = target[p]
  BY <1>2, <1>3 DEF Recoverable, Authority
<1>5. TypeOK'
  BY <1>1, <1>3 DEF IInv, TypeOK, Stage, WriteStage
<1>6. CrashRecoverable'
  BY <1>1, <1>4 DEF IInv, CrashRecoverable
<1>7. NoJournalInv'
  BY <1>1, <1>2, <1>3, <1>4 DEF NoJournalInv
<1>8. AckedSurvives' /\ PublishedSurvives'
  BY <1>1, <1>2, <1>4 DEF IInv, AckedSurvives, PublishedSurvives
<1>9. FreshIsCurrent' /\ BaseKeeps'
  BY <1>1, <1>2 DEF FreshIsCurrent, BaseKeeps, Unchanged
<1>10. StageInv(p)'
  BY <1>1, <1>2, <1>3 DEF StageInv, IInv, TypeOK
<1>11. /\ committing' = [committing EXCEPT ![p] = committing[p]] /\ committing[p] \in BOOLEAN
       /\ target' = [target EXCEPT ![p] = target[p]]
  BY <1>1 DEF IInv, TypeOK
<1>12. LockInv' /\ \A q \in Proc : StageInv(q)'
  BY <1>1, <1>2, <1>10, <1>11, HolderStep DEF Busy, Stage, WriteStage
<1> QED
  BY <1>5, <1>6, <1>7, <1>8, <1>9, <1>12 DEF IInv

\* A commit returns: its transaction is in the one state of the medium and in
\* the one resident pair that may be used without a reload.
LEMMA SyncCommitInv ==
    ASSUME IInv, NEW p \in Proc, SyncCommit(p)
    PROVE  IInv'
<1>1. /\ UNCHANGED <<committing, target, poisoned, nextTx, rejected>>
      /\ pc[p] = "unlink_dir" /\ committing[p] /\ Unlock(p)
      /\ dir' = dir /\ media' = {dir}
      /\ pair' = [pair EXCEPT ![p] = target[p]] /\ fresh' = [fresh EXCEPT ![p] = TRUE]
      /\ published' = published \cup Items(target[p])
      /\ acked' = acked \cup {target[p][Len(target[p])]}
  BY DEF SyncCommit, SyncDir, Publish
<1>2. /\ dir \in media /\ dir \in DirState /\ target[p] \in Pair /\ Len(target[p]) > 0
      /\ dir.journal = NoJournal /\ dir.memory = target[p] /\ dir.changelog = target[p]
      /\ \A q \in Proc : ~fresh[q]
  BY <1>1 DEF IInv, TypeOK, StageInv
<1>3. Recoverable(dir) /\ Authority(dir) = target[p]
  BY <1>2 DEF Recoverable, Authority
<1>4. target[p][Len(target[p])] \in Items(target[p]) /\ Items(target[p]) \subseteq Tx
  BY <1>2, ItemsType DEF Items, Pair
<1>5. Answered' \subseteq Items(target[p])
  BY <1>1, <1>2, <1>3, <1>4 DEF IInv, AckedSurvives, PublishedSurvives, Answered
<1>6. TypeOK'
  BY <1>1, <1>2, <1>4 DEF IInv, TypeOK, Unlock, Goto, Stage, WriteStage
<1>7. CrashRecoverable' /\ NoJournalInv' /\ AckedSurvives' /\ PublishedSurvives'
  BY <1>1, <1>2, <1>3, <1>5
     DEF CrashRecoverable, NoJournalInv, AckedSurvives, PublishedSurvives, Answered
<1>8. \A q \in Proc : Unchanged(q)' => q = p /\ pair'[q] = target[p]
  BY <1>1, <1>2 DEF IInv, TypeOK, Unchanged
<1>9. FreshIsCurrent' /\ BaseKeeps'
  BY <1>1, <1>2, <1>5, <1>8 DEF FreshIsCurrent, BaseKeeps
<1>10. committing' = [committing EXCEPT ![p] = committing[p]] /\ committing[p] \in BOOLEAN
  BY <1>1 DEF IInv, TypeOK
<1>11. LockInv' /\ \A q \in Proc : StageInv(q)'
  BY <1>1, <1>10, ReleaseStep DEF Unlock, Goto, Busy, Stage, WriteStage
<1> QED
  BY <1>6, <1>7, <1>9, <1>11 DEF IInv

\* A failed commit keeps the lock and goes on to reload the pair.
LEMMA CommitErrorInv ==
    ASSUME IInv, NEW p \in Proc, CommitError(p)
    PROVE  IInv'
<1>1. /\ UNCHANGED <<dir, media, lock, pair, fresh, target, nextTx, acked, published>>
      /\ pc[p] \in Stage /\ pc' = [pc EXCEPT ![p] = "load"]
      /\ committing[p] /\ committing' = [committing EXCEPT ![p] = FALSE]
      /\ op' = [op EXCEPT ![p] = "raise"]
      /\ poisoned' = [poisoned EXCEPT ![p] = @ \/ pc[p] = "journal_dir"]
      /\ rejected' \subseteq rejected \cup {target[p][Len(target[p])]}
  BY DEF CommitError, Goto, disk, memory
<1>2. target[p] \in Pair /\ Len(target[p]) > 0
  BY <1>1 DEF IInv, TypeOK, StageInv
<1>3. target[p][Len(target[p])] \in Tx
  BY <1>2 DEF Pair
<1>4. TypeOK'
  BY <1>1, <1>3 DEF IInv, TypeOK, Stage, WriteStage
<1>5. /\ CrashRecoverable' /\ NoJournalInv' /\ AckedSurvives' /\ PublishedSurvives'
      /\ FreshIsCurrent' /\ BaseKeeps'
  BY <1>1, QuietStep DEF Unchanged
<1>6. StageInv(p)'
  BY <1>1 DEF StageInv, IInv, TypeOK
<1>7. target' = [target EXCEPT ![p] = target[p]]
  BY <1>1 DEF IInv, TypeOK
<1>8. LockInv' /\ \A q \in Proc : StageInv(q)'
  BY <1>1, <1>2, <1>6, <1>7, HolderStep DEF Busy
<1> QED
  BY <1>4, <1>5, <1>8 DEF IInv

\* An exception that escapes gives up the lock and the resident pair.
LEMMA EscapeInv ==
    ASSUME IInv, NEW p \in Proc, Escape(p)
    PROVE  IInv'
<1>1. /\ UNCHANGED <<dir, media, target, poisoned, nextTx, acked, published, rejected>>
      /\ pc[p] \in Busy /\ pc' = [pc EXCEPT ![p] = "idle"] /\ lock' = NoProc
      /\ committing' = [committing EXCEPT ![p] = FALSE]
      /\ op' = [op EXCEPT ![p] = "none"]
      /\ pair' = [pair EXCEPT ![p] = NoPair] /\ fresh' = [fresh EXCEPT ![p] = FALSE]
  BY DEF Escape, Invalidate, Unlock, Goto, disk, history, Busy
<1>2. TypeOK'
  BY <1>1 DEF IInv, TypeOK, Stage, WriteStage
<1>3. \A q \in Proc : Unchanged(q)' => Unchanged(q) /\ pair'[q] = pair[q]
  BY <1>1 DEF IInv, TypeOK, Unchanged
<1>4. /\ CrashRecoverable' /\ NoJournalInv' /\ AckedSurvives' /\ PublishedSurvives'
      /\ FreshIsCurrent' /\ BaseKeeps'
  BY <1>1, <1>3, QuietStep
<1>5. LockInv' /\ \A q \in Proc : StageInv(q)'
  BY <1>1, ReleaseStep DEF Busy, Stage, WriteStage
<1> QED
  BY <1>2, <1>4, <1>5 DEF IInv

\* The death of a process takes its lock and its memory, and no file.
LEMMA CrashInv ==
    ASSUME IInv, NEW p \in Proc, Crash(p) \/ Restart(p)
    PROVE  IInv'
<1>1. /\ UNCHANGED <<dir, media, target, nextTx, acked, published, rejected>>
      /\ pc' = [pc EXCEPT ![p] = "down"] \/ pc' = [pc EXCEPT ![p] = "idle"]
      /\ \/ lock' = lock
         \/ lock = p /\ lock' = NoProc
      /\ op' \in [Proc -> {"none", "read", "write", "raise"}]
      /\ \/ committing' = [committing EXCEPT ![p] = FALSE]
         \/ committing' = committing
      /\ poisoned' \in [Proc -> BOOLEAN]
      /\ \/ pair' = pair /\ fresh' = fresh
         \/ pair' = [pair EXCEPT ![p] = NoPair] /\ fresh' = [fresh EXCEPT ![p] = FALSE]
  BY DEF Crash, Restart, Invalidate, Goto, disk, memory, history, IInv, TypeOK
<1>2. TypeOK'
  BY <1>1 DEF IInv, TypeOK
<1>3. \A q \in Proc : Unchanged(q)' => Unchanged(q) /\ pair'[q] = pair[q]
  BY <1>1 DEF IInv, TypeOK, Unchanged
<1>4. /\ CrashRecoverable' /\ NoJournalInv' /\ AckedSurvives' /\ PublishedSurvives'
      /\ FreshIsCurrent' /\ BaseKeeps'
  BY <1>1, <1>3, QuietStep
<1>5. LockInv'
  BY <1>1 DEF IInv, LockInv, TypeOK, Busy, Stage, WriteStage
<1>6. ASSUME NEW q \in Proc PROVE StageInv(q)'
  <2>1. committing'[q] => Len(target'[q]) > 0
    BY <1>1 DEF IInv, TypeOK, StageInv
  <2>2. CASE q = p
    <3>1. pc'[q] \notin Busy
      BY <1>1, <2>2 DEF IInv, TypeOK, Busy, Stage, WriteStage
    <3> QED
      BY <2>1, <3>1, StageIdle
  <2>3. CASE q # p /\ pc[q] \notin Busy
    <3>1. pc'[q] \notin Busy
      BY <1>1, <2>3 DEF IInv, TypeOK
    <3> QED
      BY <2>1, <3>1, StageIdle
  <2>4. CASE q # p /\ pc[q] \in Busy
    <3>1. /\ pc'[q] = pc[q] /\ committing'[q] = committing[q] /\ target'[q] = target[q]
          /\ pair'[q] = pair[q] /\ fresh'[q] = fresh[q]
          /\ \A r \in Proc : fresh'[r] => fresh[r]
      BY <1>1, <2>4 DEF IInv, TypeOK
    <3>2. StageInv(q)
      BY DEF IInv
    <3> QED
      BY <1>1, <3>1, <3>2 DEF StageInv, Unchanged
  <2> QED
    BY <2>2, <2>3, <2>4
<1> QED
  BY <1>2, <1>4, <1>5, <1>6 DEF IInv

\* A power loss leaves some state of the medium, and no process.
LEMMA PowerLossInv ==
    ASSUME IInv, PowerLoss
    PROVE  IInv'
<1>1. /\ dir' \in media /\ media' = {dir'} /\ lock' = NoProc
      /\ UNCHANGED <<target, nextTx, acked, published, rejected>>
      /\ pc' = [q \in Proc |-> "down"] /\ op' = [q \in Proc |-> "none"]
      /\ committing' = [q \in Proc |-> FALSE] /\ pair' = [q \in Proc |-> NoPair]
      /\ fresh' = [q \in Proc |-> FALSE] /\ poisoned' = [q \in Proc |-> FALSE]
  BY DEF PowerLoss, history
<1>2. TypeOK'
  BY <1>1 DEF IInv, TypeOK
<1>3. CrashRecoverable' /\ AckedSurvives' /\ PublishedSurvives'
  BY <1>1 DEF IInv, CrashRecoverable, AckedSurvives, PublishedSurvives
<1>4. NoJournalInv'
  BY <1>1 DEF NoJournalInv, Authority
<1>5. FreshIsCurrent' /\ BaseKeeps' /\ LockInv' /\ \A q \in Proc : StageInv(q)'
  BY <1>1 DEF FreshIsCurrent, BaseKeeps, LockInv, StageInv, Unchanged, Busy, Stage, WriteStage
<1> QED
  BY <1>2, <1>3, <1>4, <1>5 DEF IInv

-----------------------------------------------------------------------------
(* The invariant is inductive.                                             *)

\* A step that changes nothing keeps the invariant.
LEMMA StutterInv == ASSUME IInv, UNCHANGED vars PROVE IInv'
<1>1. UNCHANGED <<dir, media, lock, pc, op, committing, pair, fresh, target, poisoned,
                  nextTx, acked, published, rejected>>
  BY DEF vars, disk, memory, history
<1> QED
  BY <1>1 DEF IInv, TypeOK, CrashRecoverable, FreshIsCurrent, AckedSurvives, PublishedSurvives,
              LockInv, NoJournalInv, StageInv, BaseKeeps, Answered, Unchanged

\* Every step of every process, and a power loss, keeps the invariant.
LEMMA NextInv == ASSUME OrderedMetadata, IInv, [Next]_vars PROVE IInv'
<1>1. ASSUME NEW p \in Proc, Step(p) PROVE IInv'
  <2>1. CASE StartRead(p) \/ StartWrite(p)           BY <2>1, StartInv
  <2>2. CASE LoadJournal(p)                          BY <2>2, LoadJournalInv
  <2>3. CASE LoadPair(p)                             BY <2>3, LoadPairInv
  <2>4. CASE Decide(p)                               BY <2>4, DecideInv
  <2>5. CASE PublishJournal(p)                       BY <2>5, PublishJournalInv
  <2>6. CASE \/ SyncJournal(p) \/ SyncMemory(p)
             \/ SyncChangelog(p) \/ SyncRecovery(p)  BY <2>6, SyncStageInv
  <2>7. CASE ReplaceMemory(p) \/ ReplaceChangelog(p) BY <2>7, ReplaceFileInv
  <2>8. CASE UnlinkJournal(p)                        BY <2>8, UnlinkJournalInv
  <2>9. CASE SyncCommit(p)                           BY <2>9, SyncCommitInv
  <2>10. CASE CommitError(p)                         BY <2>10, CommitErrorInv
  <2>11. CASE Escape(p)                              BY <2>11, EscapeInv
  <2>12. CASE Crash(p) \/ Restart(p)                 BY <2>12, CrashInv
  <2> QED
    BY <1>1, <2>1, <2>2, <2>3, <2>4, <2>5, <2>6, <2>7, <2>8, <2>9, <2>10, <2>11, <2>12 DEF Step
<1>2. CASE PowerLoss
  BY <1>2, PowerLossInv
<1>3. CASE UNCHANGED vars
  BY <1>3, StutterInv
<1> QED
  BY <1>1, <1>2, <1>3 DEF Next

\* In every reachable state the invariant holds.
THEOREM DurabilityInvariant == ASSUME OrderedMetadata PROVE Spec => []IInv
<1>1. Init => IInv
  BY InitIInv
<1>2. IInv /\ [Next]_vars => IInv'
  BY NextInv
<1> QED
  BY <1>1, <1>2, PTL DEF Spec

\* The variables keep their types.
THEOREM TypeCorrect == ASSUME OrderedMetadata PROVE Spec => []TypeOK
<1>1. IInv => TypeOK
  BY DEF IInv
<1> QED
  BY <1>1, DurabilityInvariant, PTL

\* A commit or a recovery cut anywhere, by an exception, the death of the
\* process or a power loss, leaves a directory that the next load accepts.
THEOREM AlwaysRecoverable == ASSUME OrderedMetadata PROVE Spec => []CrashRecoverable
<1>1. IInv => CrashRecoverable
  BY DEF IInv
<1> QED
  BY <1>1, DurabilityInvariant, PTL

\* A commit that returned is never lost.
THEOREM AckedNeverLost == ASSUME OrderedMetadata PROVE Spec => []AckedSurvives
<1>1. IInv => AckedSurvives
  BY DEF IInv
<1> QED
  BY <1>1, DurabilityInvariant, PTL

\* What a load published is never taken back.
THEOREM PublishedNeverLost == ASSUME OrderedMetadata PROVE Spec => []PublishedSurvives
<1>1. IInv => PublishedSurvives
  BY DEF IInv
<1> QED
  BY <1>1, DurabilityInvariant, PTL

\* A resident pair that may be used without a reload is the pair on disk.
THEOREM FreshNeverStale == ASSUME OrderedMetadata PROVE Spec => []FreshIsCurrent
<1>1. IInv => FreshIsCurrent
  BY DEF IInv
<1> QED
  BY <1>1, DurabilityInvariant, PTL

-----------------------------------------------------------------------------
(* Failed commits, and the register that the pair implements.              *)
(*                                                                         *)
(* All steps but two leave what a load returns as it is, and make nothing  *)
(* new of what the medium may hold (Inherits): the rename of a journal     *)
(* adds one transaction, a power loss picks one of the medium's states.    *)

\* The transactions that a state of the medium, or a resident pair that may
\* serve as a base, leads to.
Held == {t \in Tx : \/ \E d \in media : t \in Items(Authority(d))
                    \/ \E p \in Proc : Unchanged(p) /\ t \in Items(pair[p])}

\* Transaction ids are fresh: what was rejected is held by nobody, and the
\* transaction of a commit without a journal is known to nobody.
IdsInv ==
    /\ rejected \cap Held = {}
    /\ \A t \in Held \cup rejected : t < nextTx
    /\ \A p \in Proc : pc[p] = "journal" =>
          /\ target[p] = Append(pair[p], nextTx - 1)
          /\ \A t \in Held \cup rejected : t < nextTx - 1

OneAhead(s, base) == \E t \in Tx \ Items(base) : s = Append(base, t)

\* While the visible transaction is undecided, every state of the medium is its
\* base or one transaction ahead of it, and so is nobody's resident pair.
Undecided(base) ==
    /\ OneAhead(Tip, base)
    /\ \A d \in media : Authority(d) = base \/ OneAhead(Authority(d), base)
    /\ \A p \in Proc : Unchanged(p) => pair[p] = base

RegisterInv == ~Settled => Undecided(Front(Tip))

\* A step that leaves what a load returns as it is.
Inherits ==
    /\ Tip' = Tip
    /\ dir.journal = NoJournal => dir'.journal = NoJournal
    /\ \A d \in media' : \E e \in media : Authority(d) = Authority(e)
    /\ \A q \in Proc : Unchanged(q)' => \/ Unchanged(q) /\ pair'[q] = pair[q]
                                        \/ dir'.journal = NoJournal /\ pair'[q] = Tip

\* A step that begins and fails no commit.
KeepsIds ==
    /\ nextTx' = nextTx /\ rejected' = rejected
    /\ \A q \in Proc : pc'[q] = "journal" =>
          pc[q] = "journal" /\ target'[q] = target[q] /\ pair'[q] = pair[q]

\* Answers are given where there is no journal.
Answers ==
    /\ acked \subseteq acked' /\ published \subseteq published'
    /\ dir.journal = NoJournal \/ UNCHANGED <<acked, published>>

\* The pair before its last transaction.
LEMMA FrontAppend ==
    ASSUME NEW s \in Pair, NEW t \in Tx
    PROVE  Front(Append(s, t)) = s /\ s # Append(s, t)
<1>1. /\ Len(s) \in Nat /\ Append(s, t) \in Seq(Tx) /\ Len(Append(s, t)) = Len(s) + 1
      /\ \A i \in 1..Len(s) : Append(s, t)[i] = s[i]
  BY DEF Pair
<1>2. PICK u : u = Append(s, t)
  OBVIOUS
<1>3. SubSeq(u, 1, Len(u) - 1) = s
  <2>1. SubSeq(u, 1, Len(s)) \in Seq(Tx) /\ Len(SubSeq(u, 1, Len(s))) = Len(s)
        /\ \A i \in 1..Len(s) : SubSeq(u, 1, Len(s))[i] = u[i]
    BY <1>1, <1>2
  <2>2. SubSeq(u, 1, Len(s)) = s
    BY <1>1, <1>2, <2>1 DEF Pair
  <2> QED
    BY <1>1, <1>2, <2>2
<1>4. s # u
  BY <1>1, <1>2
<1> QED
  BY <1>2, <1>3, <1>4 DEF Front

\* What is held is a set of transactions, all of them.
LEMMA HeldType ==
    ASSUME IInv
    PROVE  /\ Held \subseteq Tx
           /\ \A d \in media : Items(Authority(d)) \subseteq Held
           /\ \A p \in Proc : Unchanged(p) => Items(pair[p]) \subseteq Held
<1>1. \A d \in media : Items(Authority(d)) \subseteq Tx
  BY AuthorityType, ItemsType DEF IInv, TypeOK
<1>2. ASSUME NEW p \in Proc, Unchanged(p) PROVE Items(pair[p]) \subseteq Tx
  BY <1>2, ItemsType DEF IInv, TypeOK, Unchanged
<1> QED
  BY <1>1, <1>2 DEF Held

\* A step that inherits holds nothing new.
LEMMA HeldInherits ==
    ASSUME IInv, Inherits
    PROVE  Held' \subseteq Held
<1>1. Items(Tip) \subseteq Held
  BY HeldType DEF IInv, TypeOK, Tip
<1>2. ASSUME NEW d \in media' PROVE Items(Authority(d)) \subseteq Held
  BY HeldType DEF Inherits
<1>3. ASSUME NEW q \in Proc, Unchanged(q)' PROVE Items(pair'[q]) \subseteq Held
  <2>1. CASE Unchanged(q) /\ pair'[q] = pair[q]
    BY <2>1, HeldType
  <2>2. CASE pair'[q] = Tip
    BY <1>1, <2>2
  <2> QED
    BY <1>3, <2>1, <2>2 DEF Inherits
<1>4. Held' = {t \in Tx : \/ \E d \in media' : t \in Items(Authority(d))
                         \/ \E p \in Proc : Unchanged(p)' /\ t \in Items(pair'[p])}
  BY DEF Held, Items, Authority
<1> QED
  BY <1>2, <1>3, <1>4

\* Ids stay fresh.
LEMMA IdsStay ==
    ASSUME IInv, IdsInv, Inherits, KeepsIds
    PROVE  IdsInv'
<1>1. Held' \subseteq Held
  BY HeldInherits
<1> QED
  BY <1>1 DEF IdsInv, KeepsIds

\* A settled transaction stays settled, an undecided one keeps its base.
LEMMA InheritsSettled ==
    ASSUME IInv, IInv', RegisterInv, Inherits
    PROVE  (Settled => Settled') /\ RegisterInv'
<1>1. \A d \in media' : \E e \in media : Authority(d) = Authority(e)
  BY DEF Inherits
<1>2. ASSUME dir'.journal = NoJournal PROVE Settled'
  <2>1. \A d \in media' : Authority(d) = dir'.memory
    BY <1>2 DEF IInv, NoJournalInv, Authority
  <2>2. Tip' = dir'.memory
    BY <1>2 DEF Tip, Authority
  <2> QED
    BY <1>2, <2>1, <2>2 DEF Settled, Tip, Authority
<1>3. ASSUME Settled PROVE Settled'
  <2>1. CASE dir'.journal = NoJournal
    BY <1>2, <2>1
  <2>2. CASE dir'.journal # NoJournal
    <3>1. \A p \in Proc : ~Unchanged(p)
      BY <1>3, <2>2 DEF Settled, Inherits
    <3>2. \A p \in Proc : ~Unchanged(p)'
      BY <2>2, <3>1 DEF Inherits
    <3>3. \A d \in media' : Authority(d) = Tip'
      BY <1>1, <1>3 DEF Settled, Inherits
    <3> QED
      BY <3>2, <3>3 DEF Settled, Tip, Authority
  <2> QED
    BY <2>1, <2>2
<1>4. ASSUME ~Settled' PROVE Undecided(Front(Tip))'
  <2>1. ~Settled /\ dir'.journal # NoJournal
    BY <1>2, <1>3, <1>4
  <2>2. PICK base : base = Front(Tip)
    OBVIOUS
  <2>3. Undecided(base)
    BY <2>1, <2>2 DEF RegisterInv
  <2>4. Front(Tip)' = base /\ Tip' = Tip
    BY <2>2 DEF Inherits, Front
  <2>5. OneAhead(Tip', base)
    BY <2>3, <2>4 DEF Undecided
  <2>6. \A d \in media' : Authority(d) = base \/ OneAhead(Authority(d), base)
    BY <1>1, <2>3 DEF Undecided
  <2>7. \A q \in Proc : Unchanged(q)' => pair'[q] = base
    BY <2>1, <2>3 DEF Undecided, Inherits
  <2> QED
    BY <2>4, <2>5, <2>6, <2>7 DEF Undecided, OneAhead, Items, Authority
<1> QED
  BY <1>3, <1>4 DEF RegisterInv

\* Nothing on disk changes, and fewer instances trust their resident pair.
LEMMA QuietInherits ==
    ASSUME UNCHANGED <<dir, media>>,
           \A q \in Proc : Unchanged(q)' => Unchanged(q) /\ pair'[q] = pair[q]
    PROVE  Inherits
BY DEF Inherits, Tip, Authority

\* A directory fsync.
LEMMA SyncInherits ==
    ASSUME IInv, SyncDir, UNCHANGED <<pair, fresh>>
    PROVE  Inherits
<1>1. dir \in media /\ media' = {dir} /\ dir' = dir
  BY DEF IInv, TypeOK, SyncDir
<1> QED
  BY <1>1 DEF Inherits, Tip, Authority, Unchanged

\* An update of the directory that leads to the same pair.
LEMMA UpdateInherits ==
    ASSUME IInv, media' = media \cup {dir'}, Authority(dir') = Tip,
           dir.journal = NoJournal => dir'.journal = NoJournal,
           \A q \in Proc : Unchanged(q)' => Unchanged(q) /\ pair'[q] = pair[q]
    PROVE  Inherits
<1>1. dir \in media /\ Tip' = Authority(dir')
  BY DEF IInv, TypeOK, Tip, Authority
<1> QED
  BY <1>1 DEF Inherits, Tip

\* No commit is at its journal after a step of the only process at work.
LEMMA NobodyAtJournal ==
    ASSUME IInv, NEW p \in Proc, pc[p] \in Busy, NEW stage, stage # "journal",
           pc' = [pc EXCEPT ![p] = stage]
    PROVE  \A q \in Proc : pc'[q] # "journal"
<1>1. \A q \in Proc : q # p => pc[q] # "journal"
  BY OthersIdle DEF Busy, Stage
<1> QED
  BY <1>1 DEF IInv, TypeOK

\* Steps that read, give up or die.
LEMMA PassiveStep ==
    ASSUME IInv, NEW p \in Proc,
           \/ StartRead(p) \/ StartWrite(p) \/ LoadJournal(p)
           \/ Escape(p) \/ Crash(p) \/ Restart(p)
    PROVE  Inherits /\ KeepsIds /\ Answers
<1>1. UNCHANGED <<dir, media, nextTx, acked, published, rejected>>
  BY DEF StartRead, StartWrite, LoadJournal, Escape, Crash, Restart, disk, history
<1>2. \/ pair' = pair /\ fresh' = fresh
      \/ pair' = [pair EXCEPT ![p] = NoPair] /\ fresh' = [fresh EXCEPT ![p] = FALSE]
  BY DEF StartRead, StartWrite, LoadJournal, Escape, Crash, Restart, Invalidate, memory
<1>3. \A q \in Proc : Unchanged(q)' => Unchanged(q) /\ pair'[q] = pair[q]
  BY <1>2 DEF IInv, TypeOK, Unchanged
<1>4. \E stage \in {"load", "decide", "memory", "idle", "down"} : pc' = [pc EXCEPT ![p] = stage]
  BY DEF StartRead, StartWrite, LoadJournal, Escape, Crash, Restart, Unlock, Goto
<1>5. \/ target' = target
      \/ \E s : target' = [target EXCEPT ![p] = s]
  <2>1. CASE LoadJournal(p)
    BY <2>1 DEF LoadJournal
  <2>2. CASE ~LoadJournal(p)
    BY <2>2 DEF StartRead, StartWrite, Escape, Crash, Restart
  <2> QED
    BY <2>1, <2>2
<1>6. ASSUME NEW q \in Proc, pc'[q] = "journal"
      PROVE  pc[q] = "journal" /\ target'[q] = target[q] /\ pair'[q] = pair[q]
  <2>1. q # p /\ pc[q] = "journal"
    BY <1>4, <1>6 DEF IInv, TypeOK
  <2> QED
    BY <1>2, <1>5, <2>1 DEF IInv, TypeOK
<1> QED
  BY <1>1, <1>3, <1>6, QuietInherits DEF KeepsIds, Answers

\* A load serves what it read, and a commit returns, where there is no journal.
LEMMA AnswerStep ==
    ASSUME IInv, NEW p \in Proc, LoadPair(p) \/ SyncCommit(p)
    PROVE  Inherits /\ KeepsIds /\ Answers
<1>1. /\ UNCHANGED <<dir, target, nextTx, rejected>> /\ dir.journal = NoJournal
      /\ pc[p] \in Busy /\ (media' = media \/ media' = {dir})
      /\ acked \subseteq acked' /\ published \subseteq published'
  BY DEF LoadPair, NothingToRecover, SyncCommit, SyncDir, disk, Busy, Stage, WriteStage,
         IInv, StageInv
<1>2. \E s \in {Tip, NoPair}, f \in BOOLEAN :
         pair' = [pair EXCEPT ![p] = s] /\ fresh' = [fresh EXCEPT ![p] = f]
  <2>1. CASE LoadPair(p)
    BY <2>1 DEF LoadPair, Publish, Invalidate, Tip
  <2>2. CASE SyncCommit(p)
    <3>1. dir.memory = target[p] /\ Tip = dir.memory
      BY <1>1, <2>2 DEF SyncCommit, IInv, StageInv, Tip, Authority
    <3> QED
      BY <2>2, <3>1 DEF SyncCommit, Publish
  <2> QED
    BY <2>1, <2>2
<1>3. Inherits
  <2>1. dir \in media /\ Tip' = Tip
    BY <1>1 DEF IInv, TypeOK, Tip, Authority
  <2>2. ASSUME NEW q \in Proc, Unchanged(q)'
        PROVE  (Unchanged(q) /\ pair'[q] = pair[q]) \/ pair'[q] = Tip
    BY <1>2, <2>2 DEF IInv, TypeOK, Unchanged
  <2>3. \A d \in media' : \E e \in media : Authority(d) = Authority(e)
    BY <1>1, <2>1
  <2> QED
    BY <1>1, <2>1, <2>2, <2>3 DEF Inherits
<1>4. \E stage \in {"idle", "decide"} : pc' = [pc EXCEPT ![p] = stage]
  BY DEF LoadPair, SyncCommit, Unlock, Goto
<1>5. \A q \in Proc : pc'[q] # "journal"
  BY <1>1, <1>4, NobodyAtJournal
<1> QED
  BY <1>1, <1>3, <1>5 DEF KeepsIds, Answers

\* Fsyncs, the two replacements and the unlink, of a commit or a recovery.
LEMMA WriteStep ==
    ASSUME OrderedMetadata, IInv, NEW p \in Proc,
           \/ SyncJournal(p) \/ SyncMemory(p) \/ SyncChangelog(p) \/ SyncRecovery(p)
           \/ ReplaceMemory(p) \/ ReplaceChangelog(p) \/ UnlinkJournal(p)
    PROVE  Inherits /\ KeepsIds /\ Answers
<1>1. /\ UNCHANGED <<pair, target, nextTx, acked, published, rejected>> /\ pc[p] \in Busy
      /\ \E stage \in {"load"} \cup WriteStage : pc' = [pc EXCEPT ![p] = stage]
  BY DEF SyncJournal, SyncMemory, SyncChangelog, SyncRecovery, SyncFile, ReplaceMemory,
         ReplaceChangelog, ReplaceFile, UnlinkJournal, Goto, memory, history, Busy, Stage, WriteStage
<1>2. \A q \in Proc : pc'[q] # "journal"
  BY <1>1, NobodyAtJournal DEF WriteStage
<1>3. KeepsIds /\ Answers
  BY <1>1, <1>2 DEF KeepsIds, Answers
<1>4. CASE SyncJournal(p) \/ SyncMemory(p) \/ SyncChangelog(p) \/ SyncRecovery(p)
  <2>1. SyncDir /\ UNCHANGED <<pair, fresh>>
    BY <1>4 DEF SyncJournal, SyncMemory, SyncChangelog, SyncRecovery, SyncFile, memory
  <2> QED
    BY <1>3, <2>1, SyncInherits
<1>5. CASE ReplaceMemory(p) \/ ReplaceChangelog(p)
  <2>1. PICK file \in {"memory", "changelog"} :
          Update(file, target[p]) /\ pc[p] = file /\ fresh' = [q \in Proc |-> FALSE]
    BY <1>5 DEF ReplaceMemory, ReplaceChangelog, ReplaceFile
  <2>2. dir' = [dir EXCEPT ![file] = target[p]] /\ media' = media \cup {dir'}
    BY <2>1, OrderedUpdate
  <2>3. dir.journal # NoJournal /\ dir \in DirState
    BY <2>1 DEF IInv, StageInv, TypeOK
  <2>4. dir'.journal = dir.journal
    BY <2>1, <2>2, <2>3 DEF DirState
  <2>5. Authority(dir') = Tip
    BY <2>3, <2>4 DEF Authority, Tip
  <2>6. \A q \in Proc : ~Unchanged(q)'
    BY <2>1 DEF Unchanged
  <2> QED
    BY <1>3, <2>2, <2>3, <2>5, <2>6, UpdateInherits
<1>6. CASE UnlinkJournal(p)
  <2>1. Update("journal", NoJournal) /\ pc[p] = "unlink" /\ UNCHANGED <<pair, fresh>>
    BY <1>6 DEF UnlinkJournal, memory
  <2>2. dir' = [dir EXCEPT !["journal"] = NoJournal] /\ media' = media \cup {dir'}
    BY <2>1, OrderedUpdate
  <2>3. /\ dir.journal # NoJournal /\ dir \in DirState
        /\ dir.journal.target = target[p] /\ dir.memory = target[p]
    BY <2>1 DEF IInv, StageInv, TypeOK
  <2>4. dir'.journal = NoJournal /\ dir'.memory = dir.memory
    BY <2>2, <2>3 DEF DirState
  <2>5. Authority(dir') = Tip
    BY <2>3, <2>4 DEF Authority, Tip
  <2> QED
    BY <1>3, <2>1, <2>2, <2>4, <2>5, UpdateInherits DEF Unchanged
<1> QED
  BY <1>4, <1>5, <1>6

\* A commit begins with a fresh id.
LEMMA DecideStep ==
    ASSUME IInv, IdsInv, NEW p \in Proc, Decide(p)
    PROVE  Inherits /\ IdsInv' /\ Answers
<1>1. /\ UNCHANGED <<dir, media, pair, fresh, acked, published, rejected>>
      /\ pc[p] = "decide" /\ pc' = [pc EXCEPT ![p] = "journal"]
      /\ target' = [target EXCEPT ![p] = Append(pair[p], nextTx)] /\ nextTx' = nextTx + 1
  BY DEF Decide, Goto, disk, memory, history
<1>2. Inherits
  BY <1>1, QuietInherits DEF Unchanged
<1>3. Held' \subseteq Held /\ Held \subseteq Tx /\ rejected \subseteq Tx
  BY <1>2, HeldInherits, HeldType DEF IInv, TypeOK
<1>4. nextTx \in Nat /\ nextTx' - 1 = nextTx /\ \A t \in Tx : t \in Nat
  BY <1>1, MaxTxAssumption DEF IInv, TypeOK, Tx
<1>5. \A t \in Held' \cup rejected' : t < nextTx' - 1 /\ t < nextTx'
  BY <1>1, <1>3, <1>4 DEF IdsInv
<1>6. \A q \in Proc : pc'[q] = "journal" => q = p
  <2>1. \A q \in Proc : q # p => pc[q] # "journal"
    BY <1>1, OthersIdle DEF Busy, Stage
  <2> QED
    BY <1>1, <2>1 DEF IInv, TypeOK
<1>7. target'[p] = Append(pair'[p], nextTx' - 1)
  BY <1>1, <1>4 DEF IInv, TypeOK
<1>8. rejected' \cap Held' = {}
  BY <1>1, <1>3 DEF IdsInv
<1>9. IdsInv'
  BY <1>5, <1>6, <1>7, <1>8 DEF IdsInv
<1> QED
  BY <1>1, <1>2, <1>9 DEF Answers

\* A commit that fails before its journal is renamed is rejected: nobody knows
\* its transaction.
LEMMA CommitErrorStep ==
    ASSUME IInv, IdsInv, NEW p \in Proc, CommitError(p)
    PROVE  Inherits /\ IdsInv' /\ Answers
<1>1. /\ UNCHANGED <<dir, media, pair, fresh, target, nextTx, acked, published>>
      /\ pc[p] \in Stage /\ pc' = [pc EXCEPT ![p] = "load"]
      /\ rejected' = IF pc[p] = "journal"
                     THEN rejected \cup {target[p][Len(target[p])]} ELSE rejected
  BY DEF CommitError, Goto, disk, memory
<1>2. Inherits
  BY <1>1, QuietInherits DEF Unchanged
<1>3. \A q \in Proc : pc'[q] # "journal"
  BY <1>1, NobodyAtJournal DEF Busy
<1>4. CASE pc[p] # "journal"
  <2>1. KeepsIds
    BY <1>1, <1>3, <1>4 DEF KeepsIds
  <2> QED
    BY <1>1, <1>2, <2>1, IdsStay DEF Answers
<1>5. CASE pc[p] = "journal"
  <2>1. Held' \subseteq Held /\ Held \subseteq Tx /\ rejected \subseteq Tx
    BY <1>2, HeldInherits, HeldType DEF IInv, TypeOK
  <2>2. nextTx \in Nat /\ \A t \in Tx : t \in Nat
    BY MaxTxAssumption DEF IInv, TypeOK, Tx
  <2>3. /\ target[p] = Append(pair[p], nextTx - 1) /\ pair[p] \in Pair
        /\ \A t \in Held \cup rejected : t < nextTx - 1
    BY <1>5 DEF IdsInv, IInv, StageInv, Unchanged, TypeOK
  <2>4. target[p][Len(target[p])] = nextTx - 1
    BY <2>3 DEF Pair
  <2>5. rejected' = rejected \cup {nextTx - 1}
    BY <1>1, <1>5, <2>4
  <2>6. nextTx - 1 \notin Held
    BY <2>1, <2>2, <2>3
  <2>7. rejected' \cap Held' = {}
    BY <2>1, <2>5, <2>6 DEF IdsInv
  <2>8. \A t \in Held' \cup rejected' : t < nextTx'
    BY <1>1, <2>1, <2>2, <2>3, <2>5
  <2>9. IdsInv'
    BY <1>3, <2>7, <2>8 DEF IdsInv
  <2> QED
    BY <1>1, <1>2, <2>9 DEF Answers
<1> QED
  BY <1>4, <1>5

\* The rename of a journal makes one more transaction visible; it is undecided,
\* for the process that renamed it trusts the files as they were before it.
LEMMA PublishStep ==
    ASSUME OrderedMetadata, IInv, IdsInv, RegisterInv, NEW p \in Proc, PublishJournal(p)
    PROVE  /\ IdsInv' /\ RegisterInv' /\ UNCHANGED <<acked, published>>
           /\ ~Settled' /\ OneAhead(Tip', pair[p]) /\ Front(Tip') = pair[p]
           /\ pair[p] = IF Settled THEN Tip ELSE Front(Tip)
<1>1. /\ UNCHANGED <<pair, fresh, target, nextTx, acked, published, rejected>>
      /\ pc[p] = "journal" /\ pc' = [pc EXCEPT ![p] = "journal_dir"]
      /\ Update("journal", [base |-> pair[p], target |-> target[p]])
  BY DEF PublishJournal, Goto, memory, history
<1>2. /\ dir' = [dir EXCEPT !["journal"] = [base |-> pair[p], target |-> target[p]]]
      /\ media' = media \cup {dir'}
  BY <1>1, OrderedUpdate
<1>3. PICK base, t : base = pair[p] /\ t = nextTx - 1
  OBVIOUS
<1>4. /\ Unchanged(p) /\ base \in Pair /\ target[p] = Append(base, t) /\ target[p] \in Pair
      /\ \A u \in Held \cup rejected : u < t
  BY <1>1, <1>3 DEF IInv, StageInv, Unchanged, TypeOK, IdsInv
<1>5. t \in Tx /\ Items(base) \subseteq Held
  <2>1. PICK u \in Tx : target[p] = Append(pair[p], u)
    BY <1>1 DEF IInv, StageInv
  <2>2. Append(base, u) = Append(base, t) /\ Len(base) \in Nat
    BY <1>3, <1>4, <2>1 DEF Pair
  <2>3. Append(base, u)[Len(base) + 1] = u /\ Append(base, t)[Len(base) + 1] = t
    BY <1>4, <2>2 DEF Pair
  <2>4. u = t
    BY <2>2, <2>3
  <2> QED
    BY <1>3, <1>4, <2>4, HeldType
<1>6. t \notin Held /\ t \notin rejected /\ t \notin Items(base)
  <2>1. t \in Nat
    BY <1>5, MaxTxAssumption DEF Tx
  <2> QED
    BY <1>4, <1>5, <2>1
<1>7. /\ dir'.journal # NoJournal /\ Authority(dir') = Append(base, t) /\ Tip' = Append(base, t)
  <2>1. dir \in DirState /\ [base |-> pair[p], target |-> target[p]] \in Journal
    BY <1>3, <1>4 DEF IInv, TypeOK, Journal
  <2>2. dir'.journal = [base |-> pair[p], target |-> target[p]] /\ dir'.journal # NoJournal
    BY <1>2, <2>1, NoJournalAssumption DEF DirState, Journal
  <2> QED
    BY <1>4, <2>2 DEF Authority, Tip
<1>8. \A q \in Proc : (Unchanged(q)' <=> Unchanged(q)) /\ pair'[q] = pair[q]
  BY <1>1 DEF Unchanged
<1>9. IdsInv'
  <2>1. Held' \subseteq Held \cup {t}
    <3>1. Held' = {u \in Tx : \/ \E d \in media' : u \in Items(Authority(d))
                              \/ \E q \in Proc : Unchanged(q)' /\ u \in Items(pair'[q])}
      BY DEF Held, Items, Authority
    <3>2. Items(Authority(dir')) \subseteq Held \cup {t}
      BY <1>4, <1>5, <1>7, ItemsAppend
    <3> QED
      BY <1>2, <1>8, <3>1, <3>2 DEF Held
  <2>2. rejected' \cap Held' = {}
    BY <1>1, <1>6, <2>1 DEF IdsInv
  <2>3. \A u \in Held' \cup rejected' : u < nextTx'
    <3>1. t < nextTx
      BY <1>3 DEF IInv, TypeOK
    <3> QED
      BY <1>1, <2>1, <3>1 DEF IdsInv
  <2>4. \A q \in Proc : pc'[q] # "journal"
    BY <1>1, NobodyAtJournal DEF Busy, Stage
  <2> QED
    BY <2>2, <2>3, <2>4 DEF IdsInv
<1>10. /\ base = IF Settled THEN Tip ELSE Front(Tip)
       /\ \A d \in media : Authority(d) = base \/ OneAhead(Authority(d), base)
       /\ \A q \in Proc : Unchanged(q) => pair[q] = base
  <2>1. CASE Settled
    <3>1. dir.journal = NoJournal /\ \A d \in media : Authority(d) = Tip
      BY <1>4, <2>1 DEF Settled
    <3>2. Tip = dir.memory
      BY <3>1 DEF Tip, Authority
    <3>3. \A q \in Proc : Unchanged(q) => pair[q] = dir.memory
      BY DEF IInv, FreshIsCurrent
    <3>4. base = dir.memory
      BY <1>3, <1>4, <3>3
    <3> QED
      BY <2>1, <3>1, <3>2, <3>3, <3>4
  <2>2. CASE ~Settled
    <3>1. Undecided(Front(Tip))
      BY <2>2 DEF RegisterInv
    <3>2. base = Front(Tip)
      BY <1>3, <1>4, <3>1 DEF Undecided
    <3> QED
      BY <2>2, <3>1, <3>2 DEF Undecided
  <2> QED
    BY <2>1, <2>2
<1>11. OneAhead(Tip', base) /\ Front(Tip') = base
  BY <1>4, <1>5, <1>6, <1>7, FrontAppend DEF OneAhead
<1>12. ~Settled'
  BY <1>4, <1>7, <1>8 DEF Settled
<1>13. Undecided(Front(Tip))'
  <2>1. \A d \in media' : Authority(d) = base \/ OneAhead(Authority(d), base)
    BY <1>2, <1>4, <1>5, <1>6, <1>7, <1>10 DEF OneAhead
  <2>2. Front(Tip)' = base
    BY <1>11 DEF Front
  <2>3. \A q \in Proc : Unchanged(q)' => pair'[q] = base
    BY <1>8, <1>10
  <2> QED
    BY <1>11, <2>1, <2>2, <2>3 DEF Undecided, OneAhead, Items, Authority
<1> QED
  BY <1>1, <1>3, <1>9, <1>10, <1>11, <1>12, <1>13 DEF RegisterInv

\* A power loss settles one of the states the medium may hold.
LEMMA PowerLossStep ==
    ASSUME IInv, IdsInv, PowerLoss
    PROVE  /\ IdsInv' /\ RegisterInv' /\ UNCHANGED <<acked, published>>
           /\ Settled' /\ \E d \in media : Tip' = Authority(d)
<1>1. /\ dir' \in media /\ media' = {dir'} /\ UNCHANGED <<nextTx, acked, published, rejected>>
      /\ pc' = [q \in Proc |-> "down"] /\ fresh' = [q \in Proc |-> FALSE]
  BY DEF PowerLoss, history
<1>2. \A q \in Proc : ~Unchanged(q)' /\ pc'[q] # "journal"
  BY <1>1 DEF Unchanged
<1>3. Tip' = Authority(dir')
  BY DEF Tip, Authority
<1>4. Settled'
  BY <1>1, <1>2 DEF Settled, Tip, Authority
<1>5. Held' \subseteq Held
  <2>1. Held' = {u \in Tx : \/ \E d \in media' : u \in Items(Authority(d))
                            \/ \E q \in Proc : Unchanged(q)' /\ u \in Items(pair'[q])}
    BY DEF Held, Items, Authority
  <2> QED
    BY <1>1, <1>2, <2>1 DEF Held
<1>6. IdsInv'
  BY <1>1, <1>2, <1>5 DEF IdsInv
<1> QED
  BY <1>1, <1>3, <1>4, <1>6 DEF RegisterInv

\* Every step keeps the ids fresh and the register's invariant, and is one that
\* inherits, renames a journal or loses power.
LEMMA RegisterStep ==
    ASSUME OrderedMetadata, IInv, IInv', IdsInv, RegisterInv, Next
    PROVE  /\ IdsInv' /\ RegisterInv'
           /\ \/ Inherits /\ Answers
              \/ PowerLoss
              \/ \E p \in Proc : PublishJournal(p)
<1>1. ASSUME NEW p \in Proc, Step(p), ~PublishJournal(p)
      PROVE  IdsInv' /\ Inherits /\ Answers
  <2>1. CASE \/ StartRead(p) \/ StartWrite(p) \/ LoadJournal(p)
             \/ Escape(p) \/ Crash(p) \/ Restart(p)
    BY <2>1, PassiveStep, IdsStay
  <2>2. CASE LoadPair(p) \/ SyncCommit(p)
    BY <2>2, AnswerStep, IdsStay
  <2>3. CASE \/ SyncJournal(p) \/ SyncMemory(p) \/ SyncChangelog(p) \/ SyncRecovery(p)
             \/ ReplaceMemory(p) \/ ReplaceChangelog(p) \/ UnlinkJournal(p)
    BY <2>3, WriteStep, IdsStay
  <2>4. CASE Decide(p)
    BY <2>4, DecideStep
  <2>5. CASE CommitError(p)
    BY <2>5, CommitErrorStep
  <2> QED
    BY <1>1, <2>1, <2>2, <2>3, <2>4, <2>5 DEF Step
<1>2. ASSUME Inherits PROVE RegisterInv'
  BY <1>2, InheritsSettled
<1>3. ASSUME NEW p \in Proc, PublishJournal(p) PROVE IdsInv' /\ RegisterInv'
  BY <1>3, PublishStep
<1>4. CASE PowerLoss
  BY <1>4, PowerLossStep
<1> QED
  BY <1>1, <1>2, <1>3, <1>4 DEF Next

\* Nothing has been held, rejected or left undecided at the beginning.
LEMMA InitRegister ==
    ASSUME Init
    PROVE  IdsInv /\ RegisterInv
<1>1. /\ dir = [memory |-> <<>>, changelog |-> <<>>, journal |-> NoJournal]
      /\ media = {dir} /\ pc = [p \in Proc |-> "idle"] /\ pair = [p \in Proc |-> NoPair]
      /\ rejected = {} /\ nextTx = 1
  BY DEF Init
<1>2. \A p \in Proc : ~Unchanged(p) /\ pc[p] # "journal"
  BY <1>1 DEF Unchanged
<1>3. Authority(dir) = <<>> /\ Items(<<>>) = {} /\ dir.journal = NoJournal
  BY <1>1 DEF Authority, Items
<1>4. Held = {}
  BY <1>1, <1>2, <1>3 DEF Held
<1>5. Settled
  BY <1>1, <1>3 DEF Settled, Tip
<1> QED
  BY <1>1, <1>2, <1>4, <1>5 DEF IdsInv, RegisterInv

\* All three are invariants.
LEMMA RegisterInvariant ==
    ASSUME OrderedMetadata PROVE Spec => [](IInv /\ IdsInv /\ RegisterInv)
<1>1. Init => IInv /\ IdsInv /\ RegisterInv
  BY InitIInv, InitRegister
<1>2. IInv /\ IdsInv /\ RegisterInv /\ [Next]_vars => (IInv /\ IdsInv /\ RegisterInv)'
  <2> SUFFICES ASSUME IInv, IdsInv, RegisterInv, [Next]_vars
               PROVE  IInv' /\ IdsInv' /\ RegisterInv'
    OBVIOUS
  <2>1. IInv'
    BY NextInv
  <2>2. CASE Next
    BY <2>1, <2>2, RegisterStep
  <2>3. CASE UNCHANGED vars
    <3>1. UNCHANGED <<dir, media, pair, fresh, pc, target, nextTx, rejected, acked, published>>
      BY <2>3 DEF vars, disk, memory, history
    <3>2. Inherits /\ KeepsIds
      BY <3>1, QuietInherits DEF KeepsIds, Unchanged
    <3> QED
      BY <2>1, <3>2, IdsStay, InheritsSettled
  <2> QED
    BY <2>1, <2>2, <2>3
<1> QED
  BY <1>1, <1>2, PTL DEF Spec

\* A commit that failed before its journal was renamed has no effect, ever:
\* not after any crash, recovery or commit of any process.
THEOREM RejectedNeverReturns == ASSUME OrderedMetadata PROVE Spec => []RejectedStaysOut
<1>1. IInv /\ IdsInv /\ RegisterInv => RejectedStaysOut
  BY HeldType DEF IdsInv, RejectedStaysOut
<1> QED
  BY <1>1, RegisterInvariant, PTL

\* The settled part of what a load returns.
SettledTip == IF Settled THEN Tip ELSE Front(Tip)

\* A step that inherits settles the visible transaction, or answers out of what
\* is settled; a journal's rename is a new decision; a power loss drops it, or
\* decides for one.
LEMMA StepRefines ==
    ASSUME OrderedMetadata, IInv, IInv', IdsInv, RegisterInv, Next
    PROVE  [Register!Next]_(Register!vars)
<1>1. Tip \in Pair /\ dir \in media /\ dir' \in media'
  BY AuthorityType DEF IInv, TypeOK, Tip
<1>2. ASSUME ~Settled
      PROVE  /\ \E t \in Tx \ Items(SettledTip) : Tip = Append(SettledTip, t)
             /\ \A d \in media : Authority(d) = SettledTip
                                 \/ \E t \in Tx \ Items(SettledTip) : Authority(d) = Append(SettledTip, t)
  BY <1>2 DEF RegisterInv, Undecided, OneAhead, SettledTip
<1>3. Register!Applied = Items(SettledTip)
  BY DEF Register!Applied, Items, SettledTip
<1>4. ASSUME \E t \in Tx \ Items(SettledTip) : Tip' = Append(SettledTip, t),
             SettledTip' \in {SettledTip, Tip'}, UNCHANGED <<acked, published>>
      PROVE  Register!Decide
  BY <1>3, <1>4 DEF Register!Decide, SettledTip
<1>5. ASSUME Inherits, Answers PROVE [Register!Next]_(Register!vars)
  <2>1. Tip' = Tip /\ (Settled => Settled')
    BY <1>5, InheritsSettled DEF Inherits
  <2>2. CASE Settled
    <3>1. SettledTip' = SettledTip /\ SettledTip = Tip
      BY <2>1, <2>2 DEF SettledTip
    <3>2. acked' \subseteq Items(Tip') /\ published' \subseteq Items(Tip')
      BY <1>1 DEF IInv, AckedSurvives, PublishedSurvives, Tip, Authority, Items
    <3>3. Register!Answer
      BY <1>3, <1>5, <2>1, <3>1, <3>2 DEF Register!Answer, Answers, SettledTip
    <3> QED
      BY <3>3 DEF Register!Next
  <2>3. CASE ~Settled
    <3>1. dir.journal # NoJournal
      <4>1. ASSUME dir.journal = NoJournal PROVE Settled
        BY <4>1 DEF IInv, NoJournalInv, Settled, Tip, Authority
      <4> QED
        BY <2>3, <4>1
    <3>2. UNCHANGED <<acked, published>>
      BY <1>5, <3>1 DEF Answers
    <3>3. CASE Settled'
      <4>1. SettledTip' = Tip'
        BY <3>3 DEF SettledTip
      <4> QED
        BY <1>2, <1>4, <2>1, <2>3, <3>2, <4>1 DEF Register!Next
    <3>4. CASE ~Settled'
      <4>1. SettledTip' = SettledTip
        BY <2>1, <2>3, <3>4 DEF SettledTip, Front
      <4> QED
        BY <2>1, <3>2, <4>1 DEF Register!vars, SettledTip
    <3> QED
      BY <3>3, <3>4
  <2> QED
    BY <2>2, <2>3
<1>6. ASSUME NEW p \in Proc, PublishJournal(p) PROVE Register!Next
  <2>1. /\ UNCHANGED <<acked, published>> /\ ~Settled' /\ OneAhead(Tip', pair[p])
        /\ Front(Tip') = pair[p] /\ pair[p] = SettledTip
    BY <1>6, PublishStep DEF SettledTip
  <2>2. SettledTip' = SettledTip
    BY <2>1 DEF SettledTip, Front
  <2> QED
    BY <1>4, <2>1, <2>2 DEF OneAhead, Register!Next
<1>7. CASE PowerLoss
  <2>1. UNCHANGED <<acked, published>> /\ Settled' /\ \E d \in media : Tip' = Authority(d)
    BY <1>7, PowerLossStep
  <2>2. SettledTip' = Tip'
    BY <2>1 DEF SettledTip
  <2>3. CASE Settled
    <3>1. Tip' = Tip /\ SettledTip = Tip
      BY <2>1, <2>3 DEF Settled, SettledTip
    <3> QED
      BY <2>1, <2>2, <3>1 DEF Register!vars, SettledTip
  <2>4. CASE ~Settled /\ Tip' = SettledTip
    <3>1. Register!Drop
      BY <2>1, <2>2, <2>4 DEF Register!Drop, SettledTip
    <3> QED
      BY <3>1 DEF Register!Next
  <2>5. CASE ~Settled /\ Tip' # SettledTip
    BY <1>2, <1>4, <2>1, <2>2, <2>5 DEF Register!Next
  <2> QED
    BY <2>3, <2>4, <2>5
<1> QED
  BY <1>5, <1>6, <1>7, RegisterStep

\* The pair, its journal and all its processes behave like one durable register:
\* at most one transaction is undecided, what is settled is only appended to,
\* and commits return and loads are served out of what is settled.
THEOREM PairIsRegister == ASSUME OrderedMetadata PROVE Spec => ImplementsRegister
<1>1. Init => Register!Init
  <2> SUFFICES ASSUME Init PROVE Register!Init
    OBVIOUS
  <2>1. dir.journal = NoJournal /\ dir.memory = <<>> /\ media = {dir} /\ acked = {} /\ published = {}
    BY DEF Init
  <2>2. Tip = <<>> /\ Settled
    BY <2>1 DEF Tip, Authority, Settled
  <2> QED
    BY <2>1, <2>2 DEF Register!Init
<1>2. IInv /\ IInv' /\ IdsInv /\ RegisterInv /\ [Next]_vars => [Register!Next]_(Register!vars)
  <2> SUFFICES ASSUME IInv, IInv', IdsInv, RegisterInv, [Next]_vars
               PROVE  [Register!Next]_(Register!vars)
    OBVIOUS
  <2>1. CASE Next
    BY <2>1, StepRefines
  <2>2. CASE UNCHANGED vars
    <3>1. UNCHANGED <<dir, media, pair, fresh, acked, published>>
      BY <2>2 DEF vars, disk, memory, history
    <3>2. Tip' = Tip /\ (Settled' <=> Settled)
      BY <3>1 DEF Tip, Settled, Authority, Unchanged
    <3> QED
      BY <3>1, <3>2 DEF Register!vars, Front
  <2> QED
    BY <2>1, <2>2
<1>3. []IInv /\ []IdsInv /\ []RegisterInv /\ Spec => Register!Spec
  BY <1>1, <1>2, PTL DEF Spec, Register!Spec
<1> QED
  BY <1>3, RegisterInvariant, PTL DEF ImplementsRegister
=============================================================================
