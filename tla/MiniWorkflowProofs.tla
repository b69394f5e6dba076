------------------------- MODULE MiniWorkflowProofs -------------------------
(***************************************************************************)
(* Proofs about MiniWorkflow, for every set of instances, keys, values and *)
(* sources and every bound on the audited operations.                      *)
(***************************************************************************)
EXTENDS MiniWorkflow, FiniteSetTheorems, SequenceTheorems, TLAPS

-----------------------------------------------------------------------------
(* Lemmas about the classification of a source.                            *)

\* The inserted records come from the file, and the counts of new and
\* duplicate rows add up to the rows the loop accepted.
LEMMA InsertedFacts ==
  ASSUME NEW history, NEW recs \in Seq(Record)
  PROVE  /\ Inserted(history, recs) \subseteq Record
         /\ IsFiniteSet(Inserted(history, recs))
         /\ Cardinality(Inserted(history, recs)) \in Nat
         /\ Duplicates(history, recs) \in Nat
         /\ Cardinality(Inserted(history, recs)) + Duplicates(history, recs)
              = Cardinality(Scanned(history, recs))
  <1> DEFINE S == Scanned(history, recs)
             T == {recs[n] : n \in S}
             f == [n \in S |-> recs[n]]
  <1>1. Len(recs) \in Nat /\ S \subseteq 1..Len(recs)
    BY LenProperties DEF Scanned
  <1>2. IsFiniteSet(S)
    <2>1. IsFiniteSet(1..Len(recs))
      BY <1>1, FS_Interval
    <2>2. QED
      BY <1>1, <2>1, FS_Subset
  <1>3. f \in Surjection(S, T)
    BY DEF Surjection
  <1>4. IsFiniteSet(T) /\ Cardinality(T) <= Cardinality(S)
    BY <1>2, <1>3, FS_Surjection
  <1>5. T \subseteq Record
    BY <1>1, ElementOfSeq
  <1>6. Inserted(history, recs) \subseteq T
    BY DEF Inserted
  <1>7. /\ IsFiniteSet(Inserted(history, recs))
        /\ Cardinality(Inserted(history, recs)) <= Cardinality(T)
    BY <1>4, <1>6, FS_Subset
  <1>8. /\ Cardinality(S) \in Nat
        /\ Cardinality(T) \in Nat
        /\ Cardinality(Inserted(history, recs)) \in Nat
    BY <1>2, <1>4, <1>7, FS_CardinalityType
  <1>9. QED
    BY <1>4, <1>5, <1>6, <1>7, <1>8 DEF Duplicates

\* Both audits of a source are well formed.
LEMMA AuditTypes ==
  ASSUME NEW history, NEW s \in Source
  PROVE  CompletedAudit(history, s) \in Audit /\ FailedAudit(history, s) \in Audit
  <1>1. s.records \in Seq(Record) /\ s.rejected \in Nat /\ s.filtered \in Nat
    BY DEF Source
  <1>2. Len(s.records) \in Nat
    BY <1>1, LenProperties
  <1>3. SourceRows(s) \in Nat
    BY <1>1, <1>2 DEF SourceRows
  <1>4. QED
    BY <1>1, <1>3, InsertedFacts DEF Audit, CompletedAudit, FailedAudit

LEMMA NewRowTypes ==
  ASSUME NEW history, NEW recs \in Seq(Record), NEW n \in Nat
  PROVE  NewRows(history, recs, n) \subseteq Row
  BY InsertedFacts DEF NewRows, Row

\* Both commits keep the tables well formed.
LEMMA CommitTypes ==
  ASSUME StorageTypeOK, NEW i \in Instances, NEW s \in Source,
         CommitCompleted(i, s) \/ CommitConflict(i, s)
  PROVE  StorageTypeOK'
  <1>1. s.records \in Seq(Record) /\ Len(operations) + 1 \in Nat
    BY LenProperties DEF Source, StorageTypeOK
  <1>2. rows' \subseteq Row
    BY <1>1, NewRowTypes DEF StorageTypeOK, CommitCompleted, CommitConflict
  <1>3. operations' \in Seq(Audit)
    BY AuditTypes DEF StorageTypeOK, CommitCompleted, CommitConflict
  <1>4. QED
    BY <1>2, <1>3 DEF StorageTypeOK, CommitCompleted, CommitConflict

-----------------------------------------------------------------------------
(* Type correctness.                                                       *)

\* The control part of the type invariant, which every action maintains.
ControlOK ==
  /\ pc \in [Instances -> PC]
  /\ cancel \in [Instances -> BOOLEAN]
  /\ source \in [Instances -> Source]
  /\ snapshot \in [Instances -> Content]
  /\ previous \in [Instances -> File]
  /\ outcome \in [Instances -> Outcome]
  /\ downloads \subseteq Owner
  /\ unrepaired \in BOOLEAN

LEMMA TypeParts == TypeOK <=> StorageTypeOK /\ CsvTypeOK /\ ControlOK
  BY DEF TypeOK, ControlOK

LEMMA FileTypes ==
  /\ NoCsv \in File
  /\ Garbage \in File
  /\ \A content \in Content : Rendered(content) \in File
  BY DEF NoCsv, Garbage, Rendered, File, Content

LEMMA NoSourceType == NoSource \in Source
  BY EmptySeq DEF NoSource, Source

LEMMA RecordsType == ASSUME StorageTypeOK PROVE Records(rows) \in Content
  BY DEF StorageTypeOK, Records, Row, Content

\* The end of an operation resets its local state.
LEMMA FinishType ==
  ASSUME ControlOK, NEW i \in Instances, NEW result \in Outcome, Finish(i, result)
  PROVE  /\ pc' \in [Instances -> PC]
         /\ cancel' \in [Instances -> BOOLEAN]
         /\ source' \in [Instances -> Source]
         /\ snapshot' \in [Instances -> Content]
         /\ previous' \in [Instances -> File]
         /\ outcome' \in [Instances -> Outcome]
  <1>1. {} \in Content
    BY DEF Content
  <1>2. "idle" \in PC
    BY DEF PC
  <1>3. QED
    BY <1>1, <1>2, FileTypes, NoSourceType DEF ControlOK, Finish, Goto

THEOREM TypeCorrect == Spec => []TypeOK
  <1>1. Init => TypeOK
    <2> SUFFICES ASSUME Init PROVE TypeOK
      OBVIOUS
    <2>1. StorageTypeOK /\ CsvTypeOK
      BY EmptySeq, FileTypes
      DEF Init, StorageInit, CsvInit, StorageTypeOK, CsvTypeOK
    <2>2. ControlOK
      BY FileTypes, NoSourceType DEF Init, ControlOK, PC, Content, Outcome
    <2>3. QED
      BY <2>1, <2>2, TypeParts
  <1>2. TypeOK /\ [Next]_vars => TypeOK'
    <2> SUFFICES ASSUME TypeOK, [Next]_vars PROVE TypeOK'
      OBVIOUS
    <2> USE TypeParts
    <2>0. /\ StorageTypeOK /\ CsvTypeOK /\ ControlOK
      OBVIOUS
    <2>a. Outcome = {"none", "completed", "cancelled", "error", "unrestored", "crashed"}
      BY DEF Outcome
    <2>s. ASSUME UNCHANGED storageVars PROVE StorageTypeOK'
      BY <2>0, <2>s DEF storageVars, StorageTypeOK
    <2>c. ASSUME UNCHANGED csvVars PROVE CsvTypeOK'
      BY <2>0, <2>c DEF csvVars, CsvTypeOK
    <2>1. CASE UNCHANGED vars
      BY <2>1, <2>0 DEF vars, StorageTypeOK, CsvTypeOK, ControlOK, TypeOK
    <2>2. ASSUME NEW i \in Instances, Open(i) PROVE TypeOK'
      <3>1. CASE OpenStorageFails(i) \/ StopCancelled(i)
        BY <2>0, <2>s, <2>c, <2>a, <3>1, FinishType
        DEF OpenStorageFails, StopCancelled, ControlOK, TypeOK
      <3>2. CASE OpenStorage(i) \/ BeginRecovery(i)
        BY <2>0, <2>s, <2>c, <3>2
        DEF OpenStorage, BeginRecovery, ControlOK, TypeOK, Goto, localVars, PC,
            BeforeDownload, Recovering
      <3>3. QED
        BY <2>2, <3>1, <3>2 DEF Open
    <2>3. ASSUME NEW i \in Instances, Recover(i) PROVE TypeOK'
      <3>1. CASE RemoveArtifacts(i) \/ RemoveDownloads(i)
        BY <2>0, <2>s, <3>1
        DEF RemoveArtifacts, RemoveDownloads, ControlOK, CsvTypeOK, TypeOK, Goto,
            csvVars, localVars, PC, Recovering
      <3>2. CASE RecoveryCleanupFails(i) \/ ReconcileFails(i)
        BY <2>0, <2>s, <2>a, <3>2, FinishType
        DEF RecoveryCleanupFails, ReconcileFails, ControlOK, CsvTypeOK, TypeOK, csvVars
      <3>3. CASE Reconcile(i)
        BY <2>0, <2>s, <2>c, <3>3
        DEF Reconcile, ControlOK, TypeOK, Goto, localVars, PC, Recovering, BeforeDownload
      <3>4. CASE Republish(i)
        BY <2>0, <2>s, <2>c, <3>4, RecordsType
        DEF Republish, ControlOK, TypeOK, Goto, PC, Publishing
      <3>5. QED
        BY <2>3, <3>1, <3>2, <3>3, <3>4 DEF Recover
    <2>4. ASSUME NEW i \in Instances, Publish(i) PROVE TypeOK'
      <3>1. CASE PublishUnchanged(i)
        BY <2>0, <2>s, <2>c, <3>1
        DEF PublishUnchanged, Published, ControlOK, TypeOK, Goto, localVars, PC,
            BeforeDownload
      <3>2. CASE PublishStage(i)
        BY <2>0, <2>s, <3>2
        DEF PublishStage, StageFile, ControlOK, CsvTypeOK, TypeOK, Goto, localVars,
            Owner, PC, Publishing
      <3>3. CASE PublishReplace(i)
        <4>1. Rendered(snapshot[i]) \in File
          BY <2>0, FileTypes DEF ControlOK
        <4>2. CsvTypeOK'
          BY <2>0, <3>3, <4>1 DEF PublishReplace, ReplaceOutput, CsvTypeOK
        <4>3. QED
          BY <2>0, <2>s, <3>3, <4>2
          DEF PublishReplace, Published, ControlOK, TypeOK, Goto, localVars, PC,
              BeforeDownload
      <3>4. CASE PublishFails(i)
        <4>1. CsvTypeOK'
          BY <2>0, <3>4 DEF PublishFails, DiscardStaged, CsvTypeOK, Owner
        <4>2. CASE InTransaction(i)
          BY <2>0, <2>a, <3>4, <4>1, <4>2
          DEF PublishFails, Rollback, StorageTypeOK, ControlOK, TypeOK, Goto,
              localVars, PC, Restoring
        <4>3. CASE ~InTransaction(i)
          BY <2>0, <2>s, <2>a, <3>4, <4>1, <4>3, FinishType
          DEF PublishFails, ControlOK, TypeOK
        <4>4. QED
          BY <4>2, <4>3
      <3>5. QED
        BY <2>4, <3>1, <3>2, <3>3, <3>4 DEF Publish
    <2>5. ASSUME NEW i \in Instances, Download(i) PROVE TypeOK'
      <3>1. CASE BeginDownload(i)
        BY <2>0, <2>s, <2>c, <3>1
        DEF BeginDownload, ControlOK, TypeOK, Goto, localVars, Owner, PC, WithSource
      <3>2. CASE DownloadAccepted(i)
        BY <2>0, <2>s, <2>c, <3>2, WorkflowAssumption
        DEF DownloadAccepted, ControlOK, TypeOK, Goto, PC, WithSource
      <3>3. CASE DownloadFails(i)
        BY <2>0, <2>s, <2>c, <2>a, <3>3, FinishType
        DEF DownloadFails, DropDownload, ControlOK, TypeOK, Owner
      <3>4. QED
        BY <2>5, <3>1, <3>2, <3>3 DEF Download
    <2>6. ASSUME NEW i \in Instances, Parse(i) PROVE TypeOK'
      <3>1. CASE ParseSource(i) \/ CleanupDownload(i)
        BY <2>0, <2>s, <2>c, <3>1
        DEF ParseSource, CleanupDownload, ControlOK, TypeOK, Goto, localVars, PC,
            WithSource
      <3>2. CASE ParseFails(i) \/ ParseCancelled(i) \/ CleanupDownloadFails(i)
        BY <2>0, <2>s, <2>c, <2>a, <3>2
        DEF ParseFails, ParseCancelled, CleanupDownloadFails, Unwind, ControlOK,
            TypeOK, Goto, localVars, PC
      <3>3. CASE UnwindDownload(i) \/ UnwindDownloadFails(i)
        <4>1. outcome[i] \in Outcome
          BY <2>0 DEF ControlOK
        <4>2. QED
          BY <2>0, <2>s, <2>c, <2>a, <3>3, <4>1, FinishType
          DEF UnwindDownload, UnwindDownloadFails, ControlOK, TypeOK, Owner
      <3>4. QED
        BY <2>6, <3>1, <3>2, <3>3 DEF Parse
    <2>7. ASSUME NEW i \in Instances, Store(i) PROVE TypeOK'
      <3>1. CASE ReadPrevious(i)
        BY <2>0, <2>s, <2>c, <3>1
        DEF ReadPrevious, ControlOK, CsvTypeOK, TypeOK, Goto, PC
      <3>2. CASE ReadPreviousFails(i)
        BY <2>0, <2>s, <2>c, <2>a, <3>2, FinishType
        DEF ReadPreviousFails, ControlOK, TypeOK
      <3>3. CASE BeginStore(i)
        <4>1. source[i].records \in Seq(Record)
          BY <2>0 DEF ControlOK, Source
        <4>2. Records(rows) \cup Inserted(Records(rows), source[i].records) \in Content
          BY <2>0, <4>1, InsertedFacts, RecordsType DEF Content
        <4>3. StorageTypeOK'
          BY <2>0, <3>3 DEF BeginStore, BeginImmediate, StorageTypeOK
        <4>4. QED
          BY <2>0, <2>c, <3>3, <4>2, <4>3
          DEF BeginStore, Classify, ControlOK, TypeOK, Goto, PC, Publishing
      <3>4. CASE BeginStoreFails(i)
        BY <2>0, <2>s, <2>c, <2>a, <3>4
        DEF BeginStoreFails, ToRestore, ControlOK, TypeOK, Goto, localVars, PC, Restoring
      <3>5. CASE TransactionFails(i)
        BY <2>0, <2>c, <2>a, <3>5
        DEF TransactionFails, Rollback, ToRestore, StorageTypeOK, ControlOK, TypeOK,
            Goto, localVars, PC, Restoring
      <3>6. CASE Commit(i)
        <4>1. StorageTypeOK'
          BY <2>0, <3>6, CommitTypes DEF Commit, ControlOK
        <4>2. QED
          BY <2>0, <2>c, <2>a, <3>6, <4>1, FinishType DEF Commit, ControlOK, TypeOK
      <3>7. CASE AuditConflict(i)
        <4>1. StorageTypeOK'
          BY <2>0, <3>7, CommitTypes DEF AuditConflict, ControlOK
        <4>2. QED
          BY <2>0, <2>c, <2>a, <3>7, <4>1
          DEF AuditConflict, ToRestore, ControlOK, TypeOK, Goto, localVars, PC, Restoring
      <3>8. QED
        BY <2>7, <3>1, <3>2, <3>3, <3>4, <3>5, <3>6, <3>7 DEF Store
    <2>8. ASSUME NEW i \in Instances, Restore(i) PROVE TypeOK'
      <3>0. outcome[i] \in Outcome /\ previous[i] \in File
        BY <2>0 DEF ControlOK
      <3>1. CASE RestoreMissing(i)
        BY <2>0, <2>s, <3>0, <3>1, FinishType, FileTypes
        DEF RestoreMissing, ControlOK, CsvTypeOK, TypeOK
      <3>2. CASE RestoreStage(i)
        BY <2>0, <2>s, <3>2
        DEF RestoreStage, StageFile, ControlOK, CsvTypeOK, TypeOK, Goto, localVars,
            Owner, PC, Restoring
      <3>3. CASE RestoreReplace(i)
        BY <2>0, <2>s, <3>0, <3>3, FinishType
        DEF RestoreReplace, ReplaceOutput, ControlOK, CsvTypeOK, TypeOK
      <3>4. CASE RestoreFails(i)
        BY <2>0, <2>s, <2>a, <3>4, FinishType
        DEF RestoreFails, DiscardStaged, ControlOK, CsvTypeOK, TypeOK, Owner
      <3>5. QED
        BY <2>8, <3>1, <3>2, <3>3, <3>4 DEF Restore
    <2>9. ASSUME NEW i \in Instances, Environment(i) PROVE TypeOK'
      <3>1. CASE StartWork(i)
        BY <2>0, <2>s, <2>c, <2>a, <3>1
        DEF StartWork, ControlOK, TypeOK, Goto, localVars, PC, BeforeDownload
      <3>2. CASE RequestCancel(i)
        BY <2>0, <2>s, <2>c, <3>2 DEF RequestCancel, ControlOK, TypeOK
      <3>3. CASE Crash(i)
        <4>1. StorageTypeOK'
          BY <2>0, <3>3 DEF Crash, StorageTypeOK
        <4>2. CsvTypeOK'
          BY <2>0, <3>3 DEF Crash, AbandonStaged, CsvTypeOK, Owner
        <4>3. downloads' \subseteq Owner /\ unrepaired' \in BOOLEAN
          BY <2>0, <3>3 DEF Crash, ControlOK, Owner
        <4>4. QED
          BY <2>0, <2>a, <3>3, <4>1, <4>2, <4>3, FinishType DEF Crash, ControlOK, TypeOK
      <3>4. QED
        BY <2>9, <3>1, <3>2, <3>3 DEF Environment
    <2>10. CASE DamageCsv
      BY <2>0, <2>s, <2>10, FileTypes
      DEF DamageCsv, ControlOK, CsvTypeOK, TypeOK, localVars
    <2>11. QED
      BY <2>1, <2>2, <2>3, <2>4, <2>5, <2>6, <2>7, <2>8, <2>9, <2>10 DEF Next, Worker
  <1>3. QED
    BY <1>1, <1>2, PTL DEF Spec

-----------------------------------------------------------------------------
(* The database.                                                           *)

\* The write lock is held exactly while a worker is inside its transaction,
\* and what the transaction classified stays true until it ends.
LockDiscipline ==
  \A i \in Instances :
    dbLock = i =>
      /\ pc[i] \in {"compare", "replace", "commit", "conflict"}
      /\ pc[i] # "conflict" => ~HasConflict(Records(rows), source[i].records)

\* The inductive invariant of the database.
StorageInv ==
  /\ IsFiniteSet(rows)
  /\ UniqueIdentity
  /\ AuditsAccountForRows
  /\ LockDiscipline

\* A step that changes the tables is a commit.
LEMMA TablesChangeAtCommit ==
  ASSUME [Next]_vars
  PROVE  \/ UNCHANGED <<rows, operations>>
         \/ \E i \in Instances : Commit(i) \/ AuditConflict(i)
  <1>1. CASE UNCHANGED vars
    BY <1>1 DEF vars
  <1>2. CASE DamageCsv
    BY <1>2 DEF DamageCsv, storageVars
  <1>3. ASSUME NEW i \in Instances, Environment(i) PROVE UNCHANGED <<rows, operations>>
    BY <1>3 DEF Environment, StartWork, RequestCancel, Crash, storageVars
  <1>4. ASSUME NEW i \in Instances, Worker(i), ~Store(i)
        PROVE  UNCHANGED <<rows, operations>>
    <2>1. CASE Open(i)
      BY <2>1 DEF Open, OpenStorage, OpenStorageFails, StopCancelled, BeginRecovery,
                  storageVars
    <2>2. CASE Recover(i)
      BY <2>2 DEF Recover, RemoveArtifacts, RemoveDownloads, RecoveryCleanupFails,
                  Reconcile, ReconcileFails, Republish, storageVars
    <2>3. CASE Publish(i)
      BY <2>3 DEF Publish, PublishUnchanged, PublishStage, PublishReplace,
                  PublishFails, Rollback, storageVars
    <2>4. CASE Download(i)
      BY <2>4 DEF Download, BeginDownload, DownloadAccepted, DownloadFails, storageVars
    <2>5. CASE Parse(i)
      BY <2>5 DEF Parse, ParseSource, ParseFails, ParseCancelled, CleanupDownload,
                  CleanupDownloadFails, UnwindDownload, UnwindDownloadFails, storageVars
    <2>6. CASE Restore(i)
      BY <2>6 DEF Restore, RestoreMissing, RestoreStage, RestoreReplace, RestoreFails,
                  storageVars
    <2>7. QED
      BY <1>4, <2>1, <2>2, <2>3, <2>4, <2>5, <2>6 DEF Worker
  <1>5. ASSUME NEW i \in Instances, Store(i)
        PROVE  UNCHANGED <<rows, operations>> \/ Commit(i) \/ AuditConflict(i)
    BY <1>5 DEF Store, ReadPrevious, ReadPreviousFails, BeginStore, BeginImmediate,
                BeginStoreFails, TransactionFails, Rollback, storageVars
  <1>6. QED
    BY <1>1, <1>2, <1>3, <1>4, <1>5 DEF Next

\* A source without conflict adds no second row for an identity.
LEMMA NewRowsKeepIdentity ==
  ASSUME UniqueIdentity, NEW recs \in Seq(Record), NEW n \in Nat,
         ~HasConflict(Records(rows), recs)
  PROVE  \A a, b \in rows \cup NewRows(Records(rows), recs, n) :
           a.record.key = b.record.key => a = b
  <1> DEFINE new == NewRows(Records(rows), recs, n)
  <1>0. Len(recs) \in Nat
    BY LenProperties
  <1>1. ASSUME NEW a \in new
        PROVE  \E p \in 1..Len(recs) :
                 a = [record |-> recs[p], operation |-> n] /\ recs[p] \notin Records(rows)
    BY <1>0 DEF NewRows, Inserted, Scanned
  <1>2. ASSUME NEW p \in 1..Len(recs), NEW r \in Known(Records(rows), recs, p),
               r.key = recs[p].key
        PROVE  r = recs[p]
    BY <1>2 DEF HasConflict, ConflictAt
  <1>3. ASSUME NEW a \in rows, NEW b \in new, a.record.key = b.record.key
        PROVE  FALSE
    <2>1. PICK p \in 1..Len(recs) :
            b = [record |-> recs[p], operation |-> n] /\ recs[p] \notin Records(rows)
      BY <1>1
    <2>2. a.record \in Records(rows)
      BY DEF Records
    <2>3. a.record \in Known(Records(rows), recs, p)
      BY <2>2 DEF Known
    <2>4. QED
      BY <1>2, <1>3, <2>1, <2>2, <2>3
  <1>4. ASSUME NEW a \in new, NEW b \in new, a.record.key = b.record.key
        PROVE  a = b
    <2>1. PICK p \in 1..Len(recs) : a = [record |-> recs[p], operation |-> n]
      BY <1>1
    <2>2. PICK q \in 1..Len(recs) : b = [record |-> recs[q], operation |-> n]
      BY <1>1
    <2>3. CASE p < q
      <3>1. recs[p] \in Known(Records(rows), recs, q)
        BY <1>0, <2>3 DEF Known
      <3>2. QED
        BY <1>2, <1>4, <2>1, <2>2, <3>1
    <2>4. CASE q < p
      <3>1. recs[q] \in Known(Records(rows), recs, p)
        BY <1>0, <2>4 DEF Known
      <3>2. QED
        BY <1>2, <1>4, <2>1, <2>2, <3>1
    <2>5. CASE p = q
      BY <2>1, <2>2, <2>5
    <2>6. QED
      BY <1>0, <2>3, <2>4, <2>5
  <1>5. QED
    BY <1>3, <1>4 DEF UniqueIdentity

\* An operation inserts one row for each new record.
LEMMA NewRowsCount ==
  ASSUME NEW history, NEW recs \in Seq(Record), NEW n \in Nat
  PROVE  /\ IsFiniteSet(NewRows(history, recs, n))
         /\ Cardinality(NewRows(history, recs, n)) = Cardinality(Inserted(history, recs))
  <1> DEFINE I == Inserted(history, recs)
             W == NewRows(history, recs, n)
             f == [r \in I |-> [record |-> r, operation |-> n]]
  <1>1. f \in Bijection(I, W)
    <2>1. f \in [I -> W] /\ \A w \in W : \E r \in I : f[r] = w
      BY DEF NewRows
    <2>2. ASSUME NEW a \in I, NEW b \in I, f[a] = f[b] PROVE a = b
      <3>1. f[a].record = a /\ f[b].record = b
        OBVIOUS
      <3>2. QED
        BY <2>2, <3>1
    <2>3. QED
      BY <2>1, <2>2 DEF Bijection, Injection, IsInjective, Surjection
  <1>2. QED
    BY <1>1, InsertedFacts, FS_Bijection DEF ExistsBijection

\* Without a conflict the loop accepts every row of the file.
LEMMA ScannedWhole ==
  ASSUME NEW history, NEW recs \in Seq(Record), ~HasConflict(history, recs)
  PROVE  Cardinality(Scanned(history, recs)) = Len(recs)
  <1>1. Len(recs) \in Nat
    BY LenProperties
  <1>2. Scanned(history, recs) = 1..Len(recs)
    BY <1>1 DEF Scanned, HasConflict
  <1>3. QED
    BY SMTT(30), <1>1, <1>2, FS_Interval

\* A successful commit keeps the tables consistent with each other.
LEMMA CommitKeepsTables ==
  ASSUME TypeOK, StorageInv, NEW i \in Instances, Commit(i)
  PROVE  IsFiniteSet(rows') /\ UniqueIdentity' /\ AuditsAccountForRows'
  <1> DEFINE n    == Len(operations) + 1
             recs == source[i].records
             new  == NewRows(Records(rows), recs, n)
             op   == CompletedAudit(Records(rows), source[i])
  <1>1. /\ source[i] \in Source
        /\ recs \in Seq(Record)
        /\ source[i].rejected \in Nat /\ source[i].filtered \in Nat
    BY DEF TypeOK, Source
  <1>2. operations \in Seq(Audit) /\ Len(operations) \in Nat /\ n \in Nat
    BY LenProperties DEF TypeOK, StorageTypeOK
  <1>3. /\ rows' = rows \cup new
        /\ operations' = Append(operations, op)
    BY DEF Commit, CommitCompleted
  <1>4. op \in Audit
    BY <1>1, AuditTypes
  <1>5. /\ DOMAIN operations = 1..Len(operations)
        /\ DOMAIN operations' = 1..n
        /\ operations'[n] = op
        /\ \A m \in 1..Len(operations) : operations'[m] = operations[m]
    BY <1>2, <1>3, <1>4
  <1>6. ~HasConflict(Records(rows), recs)
    BY DEF Commit, CommitCompleted, StorageInv, LockDiscipline
  <1>7. IsFiniteSet(rows')
    BY <1>1, <1>2, <1>3, NewRowsCount, FS_Union DEF StorageInv
  <1>8. UniqueIdentity'
    BY <1>1, <1>2, <1>3, <1>6, NewRowsKeepIdentity DEF StorageInv, UniqueIdentity
  <1>9. \A row \in new : row.operation = n
    BY DEF NewRows
  <1>10. \A row \in rows : row.operation \in 1..Len(operations)
    BY <1>5 DEF StorageInv, AuditsAccountForRows
  <1>11. \A row \in rows' : row.operation \in DOMAIN operations'
    BY <1>2, <1>3, <1>5, <1>9, <1>10
  <1>12. ASSUME NEW m \in DOMAIN operations'
         PROVE  /\ operations'[m].inserted = Cardinality({row \in rows' : row.operation = m})
                /\ operations'[m].outcome = "COMPLETED" =>
                     operations'[m].inserted + operations'[m].duplicates
                       + operations'[m].rejected + operations'[m].filtered
                       = operations'[m].sourceRows
                /\ operations'[m].outcome = "FAILED" =>
                     operations'[m].inserted = 0 /\ operations'[m].conflicts = 1
    <2>1. CASE m = n
      <3>1. {row \in rows' : row.operation = m} = new
        BY <1>2, <1>3, <1>9, <1>10, <2>1
      <3>2. Cardinality(new) = Cardinality(Inserted(Records(rows), recs))
        BY <1>1, <1>2, NewRowsCount
      <3>3. Cardinality(Inserted(Records(rows), recs)) + Duplicates(Records(rows), recs)
              = Len(recs)
        BY <1>1, <1>6, InsertedFacts, ScannedWhole
      <3>4. /\ Cardinality(Inserted(Records(rows), recs)) \in Nat
            /\ Duplicates(Records(rows), recs) \in Nat
            /\ Len(recs) \in Nat
        BY <1>1, InsertedFacts, LenProperties
      <3>5. /\ op.inserted = Cardinality(Inserted(Records(rows), recs))
            /\ op.duplicates = Duplicates(Records(rows), recs)
            /\ op.rejected = source[i].rejected
            /\ op.filtered = source[i].filtered
            /\ op.sourceRows = Len(recs) + source[i].filtered + source[i].rejected
            /\ op.outcome = "COMPLETED"
        BY DEF CompletedAudit, SourceRows
      <3>6. op.inserted + op.duplicates + op.rejected + op.filtered = op.sourceRows
        BY SMTT(30), <1>1, <3>3, <3>4, <3>5
      <3>7. op.inserted = Cardinality({row \in rows' : row.operation = m})
        BY <3>1, <3>2, <3>5
      <3> HIDE DEF op
      <3>8. QED
        BY <1>5, <2>1, <3>5, <3>6, <3>7
    <2>2. CASE m \in 1..Len(operations)
      <3>1. {row \in rows' : row.operation = m} = {row \in rows : row.operation = m}
        BY <1>2, <1>3, <1>9, <2>2
      <3>2. QED
        BY <1>5, <2>2, <3>1 DEF StorageInv, AuditsAccountForRows
    <2>3. QED
      BY <1>2, <1>5, <2>1, <2>2
  <1>13. QED
    BY <1>7, <1>8, <1>11, <1>12 DEF AuditsAccountForRows

\* So does the audit of a conflict, which adds no row.
LEMMA ConflictKeepsTables ==
  ASSUME TypeOK, StorageInv, NEW i \in Instances, AuditConflict(i)
  PROVE  IsFiniteSet(rows') /\ UniqueIdentity' /\ AuditsAccountForRows'
  <1> DEFINE n  == Len(operations) + 1
             op == FailedAudit(Records(rows), source[i])
  <1>1. operations \in Seq(Audit) /\ Len(operations) \in Nat
    BY LenProperties DEF TypeOK, StorageTypeOK
  <1>2. rows' = rows /\ operations' = Append(operations, op)
    BY DEF AuditConflict, CommitConflict
  <1>3. source[i] \in Source
    BY DEF TypeOK
  <1>4. op \in Audit
    BY <1>3, AuditTypes
  <1>5. /\ DOMAIN operations = 1..Len(operations)
        /\ DOMAIN operations' = 1..n
        /\ operations'[n] = op
        /\ \A m \in 1..Len(operations) : operations'[m] = operations[m]
    BY <1>1, <1>2, <1>4
  <1>6. \A row \in rows : row.operation \in 1..Len(operations)
    BY <1>5 DEF StorageInv, AuditsAccountForRows
  <1>7. {row \in rows' : row.operation = n} = {}
    BY <1>1, <1>2, <1>6
  <1>8. /\ op.inserted = 0 /\ op.conflicts = 1 /\ op.outcome = "FAILED"
        /\ Cardinality({row \in rows' : row.operation = n}) = 0
    BY <1>7, FS_EmptySet DEF FailedAudit
  <1>9. \A row \in rows' : row.operation \in DOMAIN operations'
    BY <1>1, <1>2, <1>5, <1>6
  <1> HIDE DEF op
  <1>10. ASSUME NEW m \in DOMAIN operations'
         PROVE  /\ operations'[m].inserted = Cardinality({row \in rows' : row.operation = m})
                /\ operations'[m].outcome = "COMPLETED" =>
                     operations'[m].inserted + operations'[m].duplicates
                       + operations'[m].rejected + operations'[m].filtered
                       = operations'[m].sourceRows
                /\ operations'[m].outcome = "FAILED" =>
                     operations'[m].inserted = 0 /\ operations'[m].conflicts = 1
    <2>1. CASE m = n
      BY <1>5, <1>8, <2>1
    <2>2. CASE m \in 1..Len(operations)
      BY ZenonT(60), <1>2, <1>5, <2>2 DEF StorageInv, AuditsAccountForRows
    <2>3. QED
      BY <1>1, <1>5, <2>1, <2>2
  <1>11. QED
    BY <1>2, <1>9, <1>10 DEF StorageInv, AuditsAccountForRows, UniqueIdentity

\* A step outside BeginStore, Republish and the transaction's own steps leaves
\* the transaction where it is.
LEMMA LockStep ==
  ASSUME TypeOK, StorageInv, [Next]_vars PROVE LockDiscipline'
  <1>0. /\ TypeOK /\ LockDiscipline
        /\ pc \in [Instances -> PC] /\ source \in [Instances -> Source]
        /\ NoLock \notin Instances
    BY LockAssumption DEF TypeOK, StorageInv
  <1>1. CASE UNCHANGED vars
    BY <1>0, <1>1 DEF vars, LockDiscipline
  <1>2. CASE DamageCsv
    BY <1>0, <1>2 DEF DamageCsv, storageVars, localVars, LockDiscipline
  <1>3. ASSUME NEW i \in Instances, StartWork(i) \/ RequestCancel(i) PROVE LockDiscipline'
    BY <1>0, <1>3 DEF StartWork, RequestCancel, Goto, storageVars, localVars, LockDiscipline
  <1>4. ASSUME NEW i \in Instances, Crash(i) PROVE LockDiscipline'
    BY <1>0, <1>4 DEF Crash, Finish, Goto, LockDiscipline
  <1>5. ASSUME NEW i \in Instances, Open(i) PROVE LockDiscipline'
    BY <1>0, <1>5 DEF Open, OpenStorage, OpenStorageFails, StopCancelled, BeginRecovery,
       Finish, Goto, storageVars, localVars, LockDiscipline
  <1>6. ASSUME NEW i \in Instances, Recover(i) PROVE LockDiscipline'
    BY <1>0, <1>6 DEF Recover, RemoveArtifacts, RemoveDownloads, RecoveryCleanupFails,
       Reconcile, ReconcileFails, Republish, Finish, Goto, storageVars, localVars,
       LockDiscipline
  <1>7. ASSUME NEW i \in Instances, Publish(i) PROVE LockDiscipline'
    <2>1. CASE PublishUnchanged(i) \/ PublishStage(i) \/ PublishReplace(i)
      BY <1>0, <2>1 DEF PublishUnchanged, PublishStage, PublishReplace, Published,
         InTransaction, Goto, storageVars, localVars, LockDiscipline
    <2>2. CASE PublishFails(i)
      BY <1>0, <2>2 DEF PublishFails, InTransaction, Rollback, Finish, Goto, storageVars,
         localVars, LockDiscipline
    <2>3. QED
      BY <1>7, <2>1, <2>2 DEF Publish
  <1>8. ASSUME NEW i \in Instances, Download(i) PROVE LockDiscipline'
    BY <1>0, <1>8 DEF Download, BeginDownload, DownloadAccepted, DownloadFails, Finish,
       Goto, storageVars, localVars, LockDiscipline
  <1>9. ASSUME NEW i \in Instances, Parse(i) PROVE LockDiscipline'
    BY <1>0, <1>9 DEF Parse, ParseSource, ParseFails, ParseCancelled, CleanupDownload,
       CleanupDownloadFails, UnwindDownload, UnwindDownloadFails, Unwind, Finish, Goto,
       storageVars, localVars, LockDiscipline
  <1>10. ASSUME NEW i \in Instances, Store(i) PROVE LockDiscipline'
    <2>1. CASE ReadPrevious(i) \/ ReadPreviousFails(i) \/ BeginStoreFails(i)
      BY <1>0, <2>1 DEF ReadPrevious, ReadPreviousFails, BeginStoreFails, ToRestore,
         Finish, Goto, storageVars, localVars, LockDiscipline
    <2>2. CASE BeginStore(i)
      BY <1>0, <2>2 DEF BeginStore, BeginImmediate, Classify, Goto, LockDiscipline
    <2>3. CASE TransactionFails(i) \/ Commit(i) \/ AuditConflict(i)
      <3>1. dbLock' = NoLock
        BY <2>3 DEF TransactionFails, Rollback, Commit, CommitCompleted, AuditConflict,
           CommitConflict
      <3>2. QED
        BY <1>0, <3>1 DEF LockDiscipline
    <2>4. QED
      BY <1>10, <2>1, <2>2, <2>3 DEF Store
  <1>11. ASSUME NEW i \in Instances, Restore(i) PROVE LockDiscipline'
    <2>1. /\ UNCHANGED <<rows, dbLock>>
          /\ pc[i] \in Restoring
          /\ \A j \in Instances : j # i => pc'[j] = pc[j] /\ source'[j] = source[j]
      BY <1>0, <1>11 DEF Restore, RestoreMissing, RestoreStage, RestoreReplace,
         RestoreFails, Restoring, Finish, Goto, storageVars, localVars
    <2>2. dbLock # i
      BY <1>0, <2>1 DEF LockDiscipline, Restoring
    <2>3. QED
      BY <1>0, <2>1, <2>2 DEF LockDiscipline
  <1>12. QED
    BY <1>1, <1>2, <1>3, <1>4, <1>5, <1>6, <1>7, <1>8, <1>9, <1>10, <1>11
    DEF Next, Worker, Environment

\* The database invariant, for any number of instances.
THEOREM StorageInvariant == Spec => []StorageInv
  <1>1. Init => StorageInv
    <2> SUFFICES ASSUME Init PROVE StorageInv
      OBVIOUS
    <2>1. rows = {} /\ operations = <<>> /\ dbLock = NoLock
      BY DEF Init, StorageInit
    <2>2. IsFiniteSet(rows)
      BY <2>1, FS_EmptySet
    <2>3. DOMAIN operations = {}
      BY <2>1
    <2>4. QED
      BY <2>1, <2>2, <2>3, LockAssumption
      DEF StorageInv, UniqueIdentity, AuditsAccountForRows, LockDiscipline
  <1>2. TypeOK /\ StorageInv /\ [Next]_vars => StorageInv'
    <2> SUFFICES ASSUME TypeOK, StorageInv, [Next]_vars PROVE StorageInv'
      OBVIOUS
    <2>1. IsFiniteSet(rows') /\ UniqueIdentity' /\ AuditsAccountForRows'
      <3>1. CASE UNCHANGED <<rows, operations>>
        BY <3>1 DEF StorageInv, UniqueIdentity, AuditsAccountForRows
      <3>2. CASE \E i \in Instances : Commit(i) \/ AuditConflict(i)
        BY <3>2, CommitKeepsTables, ConflictKeepsTables
      <3>3. QED
        BY <3>1, <3>2, TablesChangeAtCommit
    <2>2. QED
      BY <2>1, LockStep DEF StorageInv
  <1>3. QED
    BY <1>1, <1>2, TypeCorrect, PTL DEF Spec

\* No identity is ever stored twice.
THEOREM IdentityIsUnique == Spec => []UniqueIdentity
  BY StorageInvariant, PTL DEF StorageInv

\* The audit accounts for every row and every source, at every moment.
THEOREM AuditIsTruthful == Spec => []AuditsAccountForRows
  BY StorageInvariant, PTL DEF StorageInv

\* Nothing stored or audited is ever removed or changed.
THEOREM HistoryIsKept == Spec => HistoryOnlyGrows
  <1> DEFINE Grows == /\ rows \subseteq rows'
                      /\ Len(operations) <= Len(operations')
                      /\ \A n \in DOMAIN operations : operations'[n] = operations[n]
  <1>1. TypeOK /\ [Next]_vars => [Grows]_<<rows, operations>>
    <2> SUFFICES ASSUME TypeOK, [Next]_vars PROVE [Grows]_<<rows, operations>>
      OBVIOUS
    <2>1. ASSUME NEW i \in Instances, Commit(i) \/ AuditConflict(i) PROVE Grows
      <3>1. source[i] \in Source /\ operations \in Seq(Audit)
        BY DEF TypeOK, StorageTypeOK
      <3>2. PICK op \in Audit : operations' = Append(operations, op) /\ rows \subseteq rows'
        BY <2>1, <3>1, AuditTypes
        DEF Commit, CommitCompleted, AuditConflict, CommitConflict
      <3>3. QED
        BY <3>1, <3>2, LenProperties
    <2>2. QED
      BY <2>1, TablesChangeAtCommit
  <1>2. QED
    BY <1>1, TypeCorrect, PTL DEF Spec, HistoryOnlyGrows

-----------------------------------------------------------------------------
(* What an operation holds on disk.                                        *)

\* A staged file belongs to a publication or a restore in progress, and a
\* download directory to an operation that still needs or removes it.
ArtifactsHeld ==
  \A i \in Instances :
    /\ i \in staged => pc[i] \in {"replace", "restoreReplace"}
    /\ i \in downloads => pc[i] \in WithSource \cup {"unwind"}

LEMMA HeldStep ==
  ASSUME TypeOK, ArtifactsHeld, [Next]_vars PROVE ArtifactsHeld'
  <1>0. pc \in [Instances -> PC] /\ Stray \notin Instances /\ ArtifactsHeld
    BY CsvAssumption DEF TypeOK
  <1>1. CASE UNCHANGED vars
    BY <1>0, <1>1 DEF vars, ArtifactsHeld
  <1>2. CASE DamageCsv
    BY <1>0, <1>2 DEF DamageCsv, ArtifactsHeld
  <1>3. ASSUME NEW i \in Instances, StartWork(i) \/ RequestCancel(i) PROVE ArtifactsHeld'
    BY <1>0, <1>3 DEF StartWork, RequestCancel, Goto, csvVars, ArtifactsHeld, WithSource
  <1>4. ASSUME NEW i \in Instances, Crash(i) PROVE ArtifactsHeld'
    BY <1>0, <1>4 DEF Crash, AbandonStaged, Finish, Goto, ArtifactsHeld
  <1>5. ASSUME NEW i \in Instances, Open(i) PROVE ArtifactsHeld'
    BY <1>0, <1>5 DEF Open, OpenStorage, OpenStorageFails, StopCancelled, BeginRecovery,
       Finish, Goto, csvVars, ArtifactsHeld, WithSource
  <1>6. ASSUME NEW i \in Instances, Recover(i) PROVE ArtifactsHeld'
    BY <1>0, <1>6 DEF Recover, RemoveArtifacts, RemoveDownloads, RecoveryCleanupFails,
       Reconcile, ReconcileFails, Republish, Finish, Goto, csvVars, ArtifactsHeld, WithSource
  <1>7. ASSUME NEW i \in Instances, Publish(i) PROVE ArtifactsHeld'
    <2>1. CASE PublishUnchanged(i) \/ PublishStage(i) \/ PublishReplace(i)
      BY <1>0, <2>1 DEF PublishUnchanged, PublishStage, PublishReplace, Published,
         StageFile, ReplaceOutput, Goto, csvVars, ArtifactsHeld, WithSource
    <2>2. CASE PublishFails(i)
      BY <1>0, <2>2 DEF PublishFails, DiscardStaged, Publishing, Finish, Goto,
         ArtifactsHeld, WithSource
    <2>3. QED
      BY <1>7, <2>1, <2>2 DEF Publish
  <1>8. ASSUME NEW i \in Instances, Download(i) PROVE ArtifactsHeld'
    BY <1>0, <1>8 DEF Download, BeginDownload, DownloadAccepted, DownloadFails,
       DropDownload, Finish, Goto, csvVars, ArtifactsHeld, WithSource
  <1>9. ASSUME NEW i \in Instances, Parse(i) PROVE ArtifactsHeld'
    BY <1>0, <1>9 DEF Parse, ParseSource, ParseFails, ParseCancelled, CleanupDownload,
       CleanupDownloadFails, UnwindDownload, UnwindDownloadFails, Unwind, Finish, Goto,
       csvVars, ArtifactsHeld, WithSource
  <1>10. ASSUME NEW i \in Instances, Store(i) PROVE ArtifactsHeld'
    <2>1. UNCHANGED <<staged, downloads>>
      BY <1>10 DEF Store, ReadPrevious, ReadPreviousFails, BeginStore, BeginStoreFails,
         TransactionFails, Commit, AuditConflict, csvVars
    <2>2. /\ pc[i] \in {"processed", "store", "compare", "conflict", "commit"}
          /\ \A j \in Instances : j # i => pc'[j] = pc[j]
      BY <1>0, <1>10 DEF Store, ReadPrevious, ReadPreviousFails, BeginStore, Classify,
         BeginStoreFails, TransactionFails, ToRestore, Commit, AuditConflict, Finish, Goto
    <2>3. QED
      BY <1>0, <2>1, <2>2 DEF ArtifactsHeld, WithSource
  <1>11. ASSUME NEW i \in Instances, Restore(i) PROVE ArtifactsHeld'
    BY <1>0, <1>11 DEF Restore, RestoreMissing, RestoreStage, RestoreReplace, RestoreFails,
       Restoring, StageFile, ReplaceOutput, DiscardStaged, Finish, Goto, ArtifactsHeld,
       WithSource
  <1>12. QED
    BY <1>1, <1>2, <1>3, <1>4, <1>5, <1>6, <1>7, <1>8, <1>9, <1>10, <1>11
    DEF Next, Worker, Environment

\* An operation that is over holds neither the write lock nor an artifact, for
\* any number of instances and wherever each of them fails or crashes.
THEOREM IdleHoldsNothing == Spec => []NothingHeldWhenIdle
  <1>1. Init => ArtifactsHeld
    BY DEF Init, CsvInit, ArtifactsHeld
  <1>2. StorageInv /\ ArtifactsHeld => NothingHeldWhenIdle
    BY DEF StorageInv, LockDiscipline, ArtifactsHeld, NothingHeldWhenIdle, WithSource
  <1>3. QED
    BY <1>1, <1>2, HeldStep, TypeCorrect, StorageInvariant, PTL DEF Spec

-----------------------------------------------------------------------------
(* The abstract history.                                                   *)

LEMMA RecordsOfNewRows ==
  ASSUME NEW S, NEW history, NEW recs, NEW n
  PROVE  Records(S \cup NewRows(history, recs, n))
           = Records(S) \cup Inserted(history, recs)
  <1>1. \A r \in Inserted(history, recs) :
          /\ [record |-> r, operation |-> n] \in NewRows(history, recs, n)
          /\ [record |-> r, operation |-> n].record = r
    BY DEF NewRows
  <1>2. \A w \in NewRows(history, recs, n) : w.record \in Inserted(history, recs)
    BY DEF NewRows
  <1>3. QED
    BY <1>1, <1>2 DEF Records

LEMMA ResultsGrow ==
  ASSUME operations \in Seq(Audit), NEW op \in Audit, operations' = Append(operations, op)
  PROVE  Results' = Append(Results, Result(op))
  <1> DEFINE R == [outcome : {"COMPLETED", "FAILED"}, inserted : Nat]
             len == Len(operations)
  <1>1. len \in Nat /\ Len(operations') = len + 1
    BY LenProperties
  <1>2. \A o \in Audit : Result(o) \in R
    BY DEF Audit, Result
  <1>3. \A n \in 1..len : operations[n] \in Audit /\ operations'[n] = operations[n]
    BY <1>1, ElementOfSeq
  <1>4. operations'[len + 1] = op
    BY <1>1
  <1>5. /\ Results \in Seq(R) /\ Len(Results) = len
        /\ \A n \in 1..len : Results[n] = Result(operations[n])
    BY <1>1, <1>2, <1>3 DEF Results
  <1>6. /\ Results' = [n \in 1..(len + 1) |-> Result(operations'[n])]
        /\ Results' \in Seq(R) /\ Len(Results') = len + 1
    <2>1. Results' = [n \in 1..(len + 1) |-> Result(operations'[n])]
      BY <1>1 DEF Results, Result
    <2>2. \A n \in 1..(len + 1) : Result(operations'[n]) \in R
      BY <1>1, <1>2, <1>3, <1>4
    <2>3. QED
      BY <1>1, <2>1, <2>2
  <1>7. /\ Append(Results, Result(op)) \in Seq(R)
        /\ Len(Append(Results, Result(op))) = len + 1
        /\ \A n \in 1..len : Append(Results, Result(op))[n] = Results[n]
        /\ Append(Results, Result(op))[len + 1] = Result(op)
    BY <1>1, <1>2, <1>5
  <1>8. \A n \in 1..(len + 1) : Results'[n] = Append(Results, Result(op))[n]
    <2>1. \A n \in 1..(len + 1) : Results'[n] = Result(operations'[n])
      BY <1>6
    <2>2. QED
      BY <1>1, <1>3, <1>4, <1>5, <1>7, <2>1
  <1>9. QED
    BY ZenonT(60), <1>6, <1>7, <1>8, SeqEqual

\* The abstract specification counts as the detailed one does.
LEMMA SameCardinality == ASSUME NEW S PROVE History!Cardinality(S) = Cardinality(S)
  BY Zenon DEF History!Cardinality, Cardinality

\* The two-store machinery implements the one-step history.
THEOREM HistoryIsImplemented == Spec => ImplementsHistory
  <1>1. Init => History!Init
    BY DEF Init, StorageInit, History!Init, Records, Results
  <1>2. TypeOK /\ StorageInv /\ StorageInv' /\ [Next]_vars
          => [History!Next]_<<Records(rows), Results>>
    <2> SUFFICES ASSUME TypeOK, StorageInv, StorageInv', [Next]_vars
                 PROVE  [History!Next]_<<Records(rows), Results>>
      OBVIOUS
    <2>1. CASE UNCHANGED <<rows, operations>>
      BY <2>1 DEF Records, Results, Result
    <2>2. ASSUME NEW i \in Instances, Commit(i) PROVE History!Next
      <3> DEFINE recs == source[i].records
                 batch == Inserted(Records(rows), recs)
                 op == CompletedAudit(Records(rows), source[i])
      <3>1. source[i] \in Source /\ recs \in Seq(Record) /\ operations \in Seq(Audit)
        BY DEF TypeOK, StorageTypeOK, Source
      <3>2. op \in Audit /\ operations' = Append(operations, op)
        BY <2>2, <3>1, AuditTypes DEF Commit, CommitCompleted
      <3>3. Records(rows)' = Records(rows) \cup batch
        <4> DEFINE new == NewRows(Records(rows), recs, Len(operations) + 1)
        <4>1. rows' = rows \cup new
          BY <2>2 DEF Commit, CommitCompleted
        <4>2. Records(rows \cup new) = Records(rows) \cup batch
          BY RecordsOfNewRows
        <4>3. Records(rows)' = Records(rows \cup new)
          BY <4>1 DEF Records
        <4>4. QED
          BY <4>2, <4>3
      <3>4. History!Consistent(Records(rows) \cup batch)
        <4>1. \A r \in Records(rows)' : \E row \in rows' : row.record = r
          BY DEF Records
        <4>2. QED
          BY <3>3, <4>1 DEF StorageInv, UniqueIdentity, History!Consistent
      <3>5. batch \in SUBSET History!Auction
        BY <3>1, InsertedFacts DEF History!Auction, Record
      <3>6. batch \ Records(rows) = batch
        BY DEF Inserted
      <3>7. Result(op) = [outcome |-> "COMPLETED", inserted |-> Cardinality(batch)]
        BY DEF Result, CompletedAudit
      <3>8. Results' = Append(Results, Result(op))
        BY <3>1, <3>2, ResultsGrow
      <3>9. Results' = Append(Results, [outcome  |-> "COMPLETED",
                                        inserted |-> Cardinality(batch \ Records(rows))])
        BY <3>6, <3>7, <3>8
      <3> HIDE DEF batch
      <3>10. History!Accumulate
        BY <3>3, <3>4, <3>5, <3>9, SameCardinality DEF History!Accumulate
      <3>11. QED
        BY <3>10 DEF History!Next
    <2>3. ASSUME NEW i \in Instances, AuditConflict(i) PROVE History!Next
      <3> DEFINE op == FailedAudit(Records(rows), source[i])
      <3>1. source[i] \in Source /\ operations \in Seq(Audit)
        BY DEF TypeOK, StorageTypeOK
      <3>2. op \in Audit /\ operations' = Append(operations, op) /\ rows' = rows
        BY <2>3, <3>1, AuditTypes DEF AuditConflict, CommitConflict
      <3>3. Result(op) = [outcome |-> "FAILED", inserted |-> 0]
        BY DEF Result, FailedAudit
      <3>4. Results' = Append(Results, Result(op))
        BY <3>1, <3>2, ResultsGrow
      <3>5. QED
        BY <3>2, <3>3, <3>4 DEF History!Next, History!Refuse, Results, Result, Records
    <2>4. QED
      BY <2>1, <2>2, <2>3, TablesChangeAtCommit
  <1>3. QED
    BY <1>1, <1>2, TypeCorrect, StorageInvariant, PTL
    DEF Spec, ImplementsHistory, History!Spec

-----------------------------------------------------------------------------
(* The course of an operation.                                             *)

\* How many steps of its worker an operation may still take, at most.  The
\* publication inside the transaction comes after the download, the one of the
\* recovery before it.
Course ==
  [opening |-> 19, begin |-> 18, recover |-> 17, recoverDownloads |-> 16, reconcile |-> 15,
   republish |-> 14, compare |-> 13, replace |-> 12, recovered |-> 11, downloading |-> 10,
   downloaded |-> 9, parsed |-> 8, processed |-> 7, store |-> 6, conflict |-> 3, commit |-> 3,
   restore |-> 2, restoreReplace |-> 1, unwind |-> 1, idle |-> 0]

StepsLeft(i) ==
  IF pc[i] \in Publishing /\ dbLock = i THEN Course[pc[i]] - 8 ELSE Course[pc[i]]

\* From the start of an operation to its last cancellation check.
BeforeStorage(i) ==
  \/ pc[i] \in BeforeDownload \cup Recovering \cup WithSource \cup {"unwind", "processed"}
  \/ pc[i] \in Publishing /\ dbLock # i

\* A cancellation that comes in time is heeded: it is not forgotten, ...
Heeded(i) ==
  \/ cancel'[i] /\ BeforeStorage(i)'
  \/ pc'[i] = "idle" /\ outcome'[i] # "completed"

NotYetCompleted == \A i \in Instances : pc[i] # "idle" => outcome[i] # "completed"

LEMMA WorkerIsBusy == ASSUME NEW i \in Instances, Worker(i) PROVE pc[i] # "idle"
  BY DEF Worker, Open, OpenStorage, OpenStorageFails, StopCancelled, BeginRecovery, Recover,
     RemoveArtifacts, RemoveDownloads, RecoveryCleanupFails, Reconcile, ReconcileFails,
     Republish, Publish, PublishUnchanged, PublishStage, PublishReplace, PublishFails,
     Publishing, Download, BeginDownload, DownloadAccepted, DownloadFails, Parse,
     ParseSource, ParseFails, ParseCancelled, CleanupDownload, CleanupDownloadFails,
     UnwindDownload, UnwindDownloadFails, Store, ReadPrevious, ReadPreviousFails, BeginStore,
     BeginStoreFails, TransactionFails, Commit, AuditConflict, Restore, RestoreMissing,
     RestoreStage, RestoreReplace, RestoreFails, Restoring

\* What the step of a worker does to its own operation and to the others.
Advances(i) ==
  /\ StepsLeft(i)' < StepsLeft(i)
  /\ pc'[i] # "idle" => outcome'[i] # "completed"
  /\ cancel[i] /\ BeforeStorage(i) => Heeded(i)
  /\ \A j \in Instances : j # i =>
       /\ pc'[j] = pc[j] /\ cancel'[j] = cancel[j] /\ outcome'[j] = outcome[j]
       /\ dbLock' = j <=> dbLock = j

LEMMA WorkerAdvances ==
  ASSUME TypeOK, StorageInv, NotYetCompleted, NEW i \in Instances, Worker(i)
  PROVE  Advances(i)
  <1>0. /\ pc \in [Instances -> PC] /\ cancel \in [Instances -> BOOLEAN]
        /\ outcome \in [Instances -> Outcome]
        /\ NoLock \notin Instances
        /\ dbLock = i => pc[i] \in {"compare", "replace", "conflict", "commit"}
        /\ pc[i] # "idle" => outcome[i] # "completed"
    BY LockAssumption DEF TypeOK, StorageInv, LockDiscipline, NotYetCompleted
  <1> USE DEF Advances, StepsLeft, Course, Heeded, BeforeStorage, BeforeDownload, Recovering,
              WithSource, Publishing, localVars, storageVars
  <1>1. ASSUME NEW result, Finish(i, result), result # "completed", pc[i] # "idle",
               dbLock' = dbLock
        PROVE  Advances(i)
    BY <1>0, <1>1 DEF Finish, Goto, PC, Restoring
  <1>2. CASE Open(i)
    BY <1>0, <1>1, <1>2 DEF Open, OpenStorage, OpenStorageFails, StopCancelled,
       BeginRecovery, Goto
  <1>3. CASE Recover(i)
    BY <1>0, <1>1, <1>3 DEF Recover, RemoveArtifacts, RemoveDownloads, RecoveryCleanupFails,
       Reconcile, ReconcileFails, Republish, Goto
  <1>4. CASE Publish(i)
    <2>1. CASE PublishUnchanged(i) \/ PublishStage(i) \/ PublishReplace(i)
      BY <1>0, <2>1 DEF PublishUnchanged, PublishStage, PublishReplace, Published,
         InTransaction, Goto
    <2>2. CASE PublishFails(i)
      BY <1>0, <1>1, <2>2 DEF PublishFails, InTransaction, Rollback, Goto
    <2> QED BY <1>4, <2>1, <2>2 DEF Publish
  <1>5. CASE Download(i)
    BY <1>0, <1>1, <1>5 DEF Download, BeginDownload, DownloadAccepted, DownloadFails, Goto
  <1>6. CASE Parse(i)
    BY <1>0, <1>1, <1>6 DEF Parse, ParseSource, ParseFails, ParseCancelled, CleanupDownload,
       CleanupDownloadFails, UnwindDownload, UnwindDownloadFails, Unwind, Goto
  <1>7. CASE Store(i)
    <2>1. CASE ReadPrevious(i) \/ ReadPreviousFails(i) \/ BeginStoreFails(i)
      BY <1>0, <1>1, <2>1 DEF ReadPrevious, ReadPreviousFails, BeginStoreFails, ToRestore,
         Goto
    <2>2. CASE BeginStore(i)
      BY <1>0, <2>2 DEF BeginStore, BeginImmediate, Classify, Goto
    <2>3. CASE TransactionFails(i) \/ AuditConflict(i)
      BY <1>0, <2>3 DEF TransactionFails, AuditConflict, Rollback, CommitConflict,
         ToRestore, Goto
    <2>4. CASE Commit(i)
      BY <1>0, <2>4 DEF Commit, CommitCompleted, Finish, Goto
    <2> QED BY <1>7, <2>1, <2>2, <2>3, <2>4 DEF Store
  <1>8. CASE Restore(i)
    BY <1>0, <1>1, <1>8 DEF Restore, RestoreMissing, RestoreStage, RestoreReplace,
       RestoreFails, Restoring, Goto
  <1> QED BY <1>2, <1>3, <1>4, <1>5, <1>6, <1>7, <1>8 DEF Worker

\* What else happens to an operation: it starts, it is cancelled, it dies, or
\* nothing happens to it.
LEMMA EnvironmentAdvances ==
  ASSUME TypeOK, StorageInv, NotYetCompleted, NEW i \in Instances, pc[i] # "idle",
         \/ \E j \in Instances : Environment(j) \/ (j # i /\ Worker(j))
         \/ DamageCsv \/ UNCHANGED vars
  PROVE  /\ StepsLeft(i)' <= StepsLeft(i)
         /\ pc'[i] # "idle" => outcome'[i] # "completed"
         /\ cancel[i] /\ BeforeStorage(i) => Heeded(i)
  <1>0. /\ pc \in [Instances -> PC] /\ cancel \in [Instances -> BOOLEAN]
        /\ outcome \in [Instances -> Outcome]
        /\ NoLock \notin Instances
        /\ StepsLeft(i) \in Nat
        /\ outcome[i] # "completed"
    <2>1. pc \in [Instances -> PC] /\ cancel \in [Instances -> BOOLEAN]
          /\ outcome \in [Instances -> Outcome]
      BY DEF TypeOK
    <2>2. StepsLeft(i) \in Nat
      BY <2>1 DEF StepsLeft, Course, PC, Recovering, BeforeDownload, WithSource, Publishing,
         Restoring
    <2> QED BY <2>1, <2>2, LockAssumption DEF NotYetCompleted
  <1>1. ASSUME /\ pc'[i] = pc[i] /\ outcome'[i] = outcome[i]
               /\ cancel[i] => cancel'[i]
               /\ dbLock' = i <=> dbLock = i
        PROVE  /\ StepsLeft(i)' <= StepsLeft(i)
               /\ pc'[i] # "idle" => outcome'[i] # "completed"
               /\ cancel[i] /\ BeforeStorage(i) => Heeded(i)
    BY <1>0, <1>1 DEF StepsLeft, Heeded, BeforeStorage
  <1>2. CASE \E j \in Instances : j # i /\ Worker(j)
    BY <1>1, <1>2, WorkerAdvances DEF Advances
  <1>3. CASE DamageCsv \/ UNCHANGED vars
    BY <1>1, <1>3 DEF DamageCsv, vars, localVars, storageVars
  <1>4. ASSUME NEW j \in Instances, StartWork(j) \/ RequestCancel(j) \/ (j # i /\ Crash(j))
        PROVE  /\ pc'[i] = pc[i] /\ outcome'[i] = outcome[i]
               /\ cancel[i] => cancel'[i]
               /\ dbLock' = i <=> dbLock = i
    BY <1>0, <1>4 DEF StartWork, RequestCancel, Crash, Finish, Goto, localVars, storageVars
  <1>5. CASE Crash(i)
    <2>1. pc'[i] = "idle" /\ outcome'[i] = "crashed"
      BY <1>0, <1>5 DEF Crash, Finish, Goto
    <2>2. StepsLeft(i)' = 0
      BY <2>1 DEF StepsLeft, Course, Publishing
    <2> QED BY <1>0, <2>1, <2>2 DEF Heeded
  <1> QED BY <1>1, <1>2, <1>3, <1>4, <1>5 DEF Environment

\* No operation counts as completed before it is over, in any instance.
LEMMA CompletedWhenOver == Spec => []NotYetCompleted
  <1>1. Init => NotYetCompleted
    BY DEF Init, NotYetCompleted
  <1>2. TypeOK /\ StorageInv /\ NotYetCompleted /\ [Next]_vars => NotYetCompleted'
    <2> SUFFICES ASSUME TypeOK, StorageInv, NotYetCompleted, [Next]_vars,
                        NEW i \in Instances, pc'[i] # "idle"
                 PROVE  outcome'[i] # "completed"
      BY DEF NotYetCompleted
    <2>1. CASE Worker(i)
      BY <2>1, WorkerAdvances DEF Advances
    <2>2. CASE pc[i] = "idle"
      <3>1. ASSUME NEW j \in Instances, Worker(j) PROVE j # i /\ pc'[i] = pc[i]
        <4>1. j # i => pc'[i] = pc[i]
          BY <3>1, WorkerAdvances DEF Advances
        <4>2. j # i
          BY <2>2, <3>1, WorkerIsBusy
        <4> QED BY <4>1, <4>2
      <3>2. ASSUME NEW j \in Instances, RequestCancel(j) \/ Crash(j) PROVE pc'[i] = pc[i]
        BY <2>2, <3>2 DEF RequestCancel, Crash, Finish, Goto, TypeOK
      <3>3. ASSUME NEW j \in Instances, StartWork(j) PROVE outcome'[i] # "completed"
        BY <2>2, <3>3 DEF StartWork, Goto, TypeOK
      <3>4. CASE DamageCsv \/ UNCHANGED vars
        BY <2>2, <3>4 DEF DamageCsv, vars
      <3> QED BY <2>2, <3>1, <3>2, <3>3, <3>4 DEF Next, Environment
    <2>3. CASE pc[i] # "idle" /\ ~Worker(i)
      BY <2>3, EnvironmentAdvances DEF Next
    <2> QED BY <2>1, <2>2, <2>3
  <1> QED BY <1>1, <1>2, TypeCorrect, StorageInvariant, PTL DEF Spec

\* Every step of a worker brings its operation closer to the end, whatever it
\* fails at and whatever the other instances do, and no other step takes it
\* back: an operation is over after at most nineteen steps of its worker.
\* There is no retry and no loop in it.
THEOREM OperationAdvances ==
  Spec => [][\A i \in Instances : pc[i] # "idle" =>
               /\ StepsLeft(i) \in 0..19
               /\ StepsLeft(i)' <= StepsLeft(i)
               /\ Worker(i) => StepsLeft(i)' < StepsLeft(i)]_vars
  <1>1. TypeOK /\ TypeOK' /\ StorageInv /\ NotYetCompleted /\ [Next]_vars =>
          [\A i \in Instances : pc[i] # "idle" =>
             /\ StepsLeft(i) \in 0..19
             /\ StepsLeft(i)' <= StepsLeft(i)
             /\ Worker(i) => StepsLeft(i)' < StepsLeft(i)]_vars
    <2> SUFFICES ASSUME TypeOK, TypeOK', StorageInv, NotYetCompleted, Next,
                        NEW i \in Instances, pc[i] # "idle"
                 PROVE  /\ StepsLeft(i) \in 0..19
                        /\ StepsLeft(i)' <= StepsLeft(i)
                        /\ Worker(i) => StepsLeft(i)' < StepsLeft(i)
      OBVIOUS
    <2>1. StepsLeft(i) \in 0..19 /\ StepsLeft(i)' \in 0..19
      <3>1. pc[i] \in PC /\ pc'[i] \in PC
        BY DEF TypeOK
      <3> QED BY <3>1 DEF StepsLeft, Course, PC, Recovering, BeforeDownload, WithSource,
              Publishing, Restoring
    <2>2. Worker(i) => StepsLeft(i)' < StepsLeft(i)
      BY WorkerAdvances DEF Advances
    <2>3. ~Worker(i) => StepsLeft(i)' <= StepsLeft(i)
      BY EnvironmentAdvances DEF Next
    <2> QED BY <2>1, <2>2, <2>3
  <1> QED BY <1>1, TypeCorrect, StorageInvariant, CompletedWhenOver, PTL DEF Spec

\* FR-008, the part of CancelEnds that needs no fairness: an operation that is
\* cancelled before its last check stays cancelled and never reaches the
\* storage.  It ends without completion, and writes neither rows nor audit.
THEOREM CancellationIsHeeded ==
  Spec => [][\A i \in Instances : cancel[i] /\ BeforeStorage(i) =>
               /\ Heeded(i)
               /\ pc'[i] # pc[i] => UNCHANGED <<rows, operations>>]_vars
  <1>1. TypeOK /\ StorageInv /\ NotYetCompleted /\ [Next]_vars =>
          [\A i \in Instances : cancel[i] /\ BeforeStorage(i) =>
             /\ Heeded(i)
             /\ pc'[i] # pc[i] => UNCHANGED <<rows, operations>>]_vars
    <2> SUFFICES ASSUME TypeOK, StorageInv, NotYetCompleted, Next,
                        NEW i \in Instances, cancel[i], BeforeStorage(i)
                 PROVE  /\ Heeded(i)
                        /\ pc'[i] # pc[i] => UNCHANGED <<rows, operations>>
      OBVIOUS
    <2>0. pc[i] # "idle"
      BY DEF BeforeStorage, BeforeDownload, Recovering, WithSource, Publishing
    <2>1. Heeded(i)
      BY <2>0, WorkerAdvances, EnvironmentAdvances DEF Next, Advances
    <2>2. ASSUME NEW j \in Instances, Commit(j) \/ AuditConflict(j) PROVE pc'[i] = pc[i]
      <3>1. Worker(j) /\ j # i
        BY <2>2 DEF Commit, AuditConflict, CommitCompleted, CommitConflict, Worker, Store,
           BeforeStorage, BeforeDownload, Recovering, WithSource, Publishing
      <3> QED BY <3>1, WorkerAdvances DEF Advances
    <2>3. UNCHANGED <<rows, operations>> \/ pc'[i] = pc[i]
      BY <2>2, TablesChangeAtCommit
    <2> QED BY <2>1, <2>3
  <1> QED BY <1>1, TypeCorrect, StorageInvariant, CompletedWhenOver, PTL DEF Spec

=============================================================================
