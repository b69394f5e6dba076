-------------------------- MODULE MiniResultProofs --------------------------
(***************************************************************************)
(* Proofs about the published CSV of MiniWorkflow, for every set of keys,  *)
(* values and sources and every bound on the audited operations.           *)
(*                                                                         *)
(* Nothing in the code protects the CSV, the staged files and the          *)
(* temporary directories of one running instance from another one, so what *)
(* is proved here is proved of the behaviours in which operations take     *)
(* turns, on whichever instances they run; with a single instance, every   *)
(* behaviour is one of them.                                               *)
(***************************************************************************)
EXTENDS MiniWorkflowProofs

\* At most one instance is in the middle of an operation.
TakeTurns ==
  \A i, j \in Instances : pc[i] # "idle" /\ pc[j] # "idle" => i = j

LEMMA OthersIdle ==
  ASSUME TakeTurns, NEW i \in Instances, pc[i] # "idle"
  PROVE  \A j \in Instances : j # i => pc[j] = "idle"
  BY DEF TakeTurns

-----------------------------------------------------------------------------
(* The invariant.                                                          *)

\* The file shows the history, or there is no history to show.
Agrees(file) == Records(rows) = {} \/ file = Current

\* A file nobody damaged: a missing one, or the history.
Sound(file) == unrepaired \/ file \in {NoCsv, Current}

\* What the operation has decided to publish.
Batch(i) == Records(rows) \cup Inserted(Records(rows), source[i].records)

\* After the recovery, before the persistence.
Recovered == {"recovered", "unwind", "processed"} \cup WithSource

\* From the reading of the previous CSV to its replacement.
Storing(i) ==
  \/ pc[i] \in {"store", "conflict"}
  \/ pc[i] \in Publishing /\ dbLock = i

\* What one operation relies on: until os.replace the CSV is the one it has
\* read, from there to the commit it is the one the commit will justify, and
\* what it would restore is a file that agreed with the history.
OperationInv(i) ==
  /\ pc[i] \in Recovered \/ Storing(i) => Agrees(csv)
  /\ Storing(i) => previous[i] = csv
  /\ pc[i] \in Publishing /\ dbLock # i => snapshot[i] = Records(rows)
  /\ pc[i] \in Publishing /\ dbLock = i => snapshot[i] = Batch(i)
  /\ pc[i] = "commit" => dbLock = i /\ csv = Rendered(Batch(i))
  /\ pc[i] \in Restoring \cup {"commit"} => Agrees(previous[i]) /\ Sound(previous[i])
  /\ pc[i] # "idle" => outcome[i] # "completed"

ResultInv ==
  /\ ResultCoversHistory
  /\ SettledResult
  /\ \A i \in Instances : OperationInv(i)

-----------------------------------------------------------------------------
(* Lemmas: what a step has to show.                                        *)

\* The step of the one operation that runs: the others have nothing to show.
LEMMA OneOperation ==
  ASSUME TypeOK, TakeTurns, NEW i \in Instances, pc[i] # "idle",
         \A j \in Instances : j # i => pc'[j] = pc[j],
         ResultCoversHistory',
         pc'[i] \notin Restoring \cup {"commit"} => Sound(csv)',
         OperationInv(i)'
  PROVE  ResultInv'
  <1>1. \A j \in Instances : j # i => pc'[j] = "idle"
    BY OthersIdle
  <1>2. \A j \in Instances : j # i => OperationInv(j)'
    BY <1>1 DEF OperationInv, Storing, Recovered, WithSource, Publishing, Restoring
  <1>3. SettledResult'
    BY DEF SettledResult, Sound
  <1>4. QED
    BY <1>2, <1>3 DEF ResultInv

\* The invariant, read at the operation that runs.
LEMMA AtOperation ==
  ASSUME TakeTurns, ResultInv, NEW i \in Instances, pc[i] # "idle"
  PROVE  /\ ResultCoversHistory
         /\ pc[i] \notin Restoring \cup {"commit"} => Sound(csv)
         /\ OperationInv(i)
  <1>1. \A j \in Instances : j # i => pc[j] \notin Restoring \cup {"commit"}
    BY OthersIdle DEF Restoring
  <1>2. pc[i] \notin Restoring \cup {"commit"} => Sound(csv)
    BY <1>1 DEF ResultInv, SettledResult, Sound
  <1>3. QED
    BY <1>2 DEF ResultInv

\* A step that leaves the tables and the CSV alone.
LEMMA SameFiles ==
  ASSUME UNCHANGED <<rows, csv>>
  PROVE  /\ Current' = Current
         /\ Records(rows)' = Records(rows)
         /\ ResultCoversHistory => ResultCoversHistory'
         /\ Agrees(csv)' <=> Agrees(csv)
         /\ (unrepaired => unrepaired') => (Sound(csv) => Sound(csv)')
  BY DEF Current, ResultCoversHistory, Agrees, Sound

-----------------------------------------------------------------------------
(* The steps.                                                              *)

\* The end of an operation, with any file, when it is a sound one.
LEMMA FinishKeepsResult ==
  ASSUME TypeOK, TakeTurns, NEW i \in Instances, pc[i] # "idle",
         NEW result, Finish(i, result), ResultCoversHistory', Sound(csv)'
  PROVE  ResultInv'
  <1>1. pc'[i] = "idle" /\ \A j \in Instances : j # i => pc'[j] = pc[j]
    BY DEF TypeOK, Finish, Goto
  <1>2. OperationInv(i)'
    BY <1>1 DEF OperationInv, Storing, Recovered, WithSource, Publishing, Restoring
  <1>3. QED
    BY <1>1, <1>2, OneOperation

LEMMA OpenKeepsResult ==
  ASSUME TypeOK, TakeTurns, ResultInv, NEW i \in Instances, Open(i)
  PROVE  ResultInv'
  <1>1. /\ pc[i] \in BeforeDownload \cup {"processed"}
        /\ pc[i] # "idle" /\ pc[i] \notin Restoring \cup {"commit"}
        /\ UNCHANGED <<rows, csv, unrepaired>>
    BY DEF Open, OpenStorage, OpenStorageFails, StopCancelled, BeginRecovery,
           BeforeDownload, Restoring, storageVars, csvVars
  <1>2. ResultCoversHistory' /\ Sound(csv)'
    BY <1>1, AtOperation, SameFiles
  <1>3. CASE OpenStorageFails(i) \/ StopCancelled(i)
    BY <1>1, <1>2, <1>3, FinishKeepsResult DEF OpenStorageFails, StopCancelled
  <1>4. CASE OpenStorage(i) \/ BeginRecovery(i)
    <2>1. /\ pc'[i] \in {"begin", "recover"} /\ outcome' = outcome
          /\ \A j \in Instances : j # i => pc'[j] = pc[j]
      BY <1>4 DEF OpenStorage, BeginRecovery, TypeOK, Goto
    <2>2. OperationInv(i)'
      BY <1>1, <2>1, AtOperation DEF OperationInv, Storing, Recovered, WithSource,
         Publishing, Restoring
    <2>3. QED
      BY <1>1, <1>2, <2>1, <2>2, OneOperation
  <1>5. QED
    BY <1>3, <1>4 DEF Open

LEMMA RecoverKeepsResult ==
  ASSUME TypeOK, StorageInv, TakeTurns, ResultInv, NEW i \in Instances, Recover(i)
  PROVE  ResultInv'
  <1>1. /\ pc[i] \in Recovering
        /\ pc[i] # "idle" /\ pc[i] \notin Restoring \cup {"commit"}
        /\ UNCHANGED <<rows, csv, dbLock>>
    BY DEF Recover, RemoveArtifacts, RemoveDownloads, RecoveryCleanupFails, Reconcile,
           ReconcileFails, Republish, Recovering, Restoring, storageVars, csvVars
  <1>2. ResultCoversHistory' /\ Sound(csv)'
    <2>1. CASE Reconcile(i)
      BY <1>1, <2>1, AtOperation, SameFiles DEF Reconcile, Sound
    <2>2. CASE ~Reconcile(i)
      <3>1. unrepaired' = unrepaired
        BY <2>2 DEF Recover, RemoveArtifacts, RemoveDownloads, RecoveryCleanupFails,
                    ReconcileFails, Republish
      <3>2. QED
        BY <1>1, <3>1, AtOperation, SameFiles
    <2>3. QED
      BY <2>1, <2>2
  <1>3. CASE RecoveryCleanupFails(i) \/ ReconcileFails(i)
    BY <1>1, <1>2, <1>3, FinishKeepsResult DEF RecoveryCleanupFails, ReconcileFails
  <1>4. CASE RemoveArtifacts(i) \/ RemoveDownloads(i) \/ Reconcile(i) \/ Republish(i)
    <2>1. /\ outcome' = outcome
          /\ \A j \in Instances : j # i => pc'[j] = pc[j]
      BY <1>4 DEF RemoveArtifacts, RemoveDownloads, Reconcile, Republish, TypeOK, Goto,
         localVars
    <2>2. dbLock # i
      BY <1>1 DEF StorageInv, LockDiscipline, Recovering
    <2>3. CASE RemoveArtifacts(i) \/ RemoveDownloads(i)
      <3>1. pc'[i] \in {"recoverDownloads", "reconcile"}
        BY <2>3 DEF RemoveArtifacts, RemoveDownloads, TypeOK, Goto
      <3>2. OperationInv(i)'
        BY <1>1, <2>1, <3>1, AtOperation DEF OperationInv, Storing, Recovered, WithSource,
           Publishing, Restoring
      <3>3. QED
        BY <1>1, <1>2, <2>1, <3>2, OneOperation
    <2>4. CASE Reconcile(i)
      <3>1. /\ pc'[i] = "recovered" => Agrees(csv)
            /\ pc'[i] \in {"recovered", "republish"}
        BY <2>4 DEF Reconcile, TypeOK, Goto, NeedsRepublication, Agrees
      <3>2. OperationInv(i)'
        BY <1>1, <2>1, <3>1, AtOperation, SameFiles DEF OperationInv, Storing, Recovered,
           WithSource, Publishing, Restoring
      <3>3. QED
        BY <1>1, <1>2, <2>1, <3>2, OneOperation
    <2>5. CASE Republish(i)
      <3>1. pc'[i] = "compare" /\ snapshot'[i] = Records(rows)
        BY <2>5 DEF Republish, TypeOK, Goto
      <3>2. OperationInv(i)'
        BY <1>1, <2>1, <2>2, <3>1, AtOperation, SameFiles DEF OperationInv, Storing,
           Recovered, WithSource, Publishing, Restoring
      <3>3. QED
        BY <1>1, <1>2, <2>1, <3>2, OneOperation
    <2>6. QED
      BY <1>4, <2>3, <2>4, <2>5
  <1>5. QED
    BY <1>3, <1>4 DEF Recover

LEMMA PublishKeepsResult ==
  ASSUME TypeOK, StorageInv, TakeTurns, ResultInv, NEW i \in Instances, Publish(i)
  PROVE  ResultInv'
  <1>1. /\ pc[i] \in Publishing
        /\ pc[i] # "idle" /\ pc[i] \notin Restoring \cup {"commit"}
        /\ rows' = rows
    BY DEF Publish, PublishUnchanged, PublishStage, PublishReplace, PublishFails,
           Publishing, Restoring, Rollback, storageVars
  <1>2. /\ OperationInv(i) /\ ResultCoversHistory /\ Sound(csv)
        /\ Current' = Current /\ Records(rows)' = Records(rows)
    BY <1>1, AtOperation DEF Current
  <1>3. CASE PublishUnchanged(i) \/ PublishReplace(i)
    <2>1. /\ csv' = Rendered(snapshot[i])
          /\ UNCHANGED <<dbLock, outcome, source, snapshot, previous>>
          /\ \A j \in Instances : j # i => pc'[j] = pc[j]
      BY <1>3 DEF PublishUnchanged, PublishReplace, AlreadyPublished, ReplaceOutput,
         Published, TypeOK, Goto, storageVars, csvVars, localVars
    <2>2. Records(rows) \subseteq snapshot[i]
      BY <1>1, <1>2 DEF OperationInv, Batch
    <2>3. ResultCoversHistory'
      BY <1>2, <2>1, <2>2 DEF ResultCoversHistory, Rendered
    <2>4. CASE dbLock = i
      <3>1. pc'[i] = "commit" /\ unrepaired' = unrepaired
        BY <1>3, <2>4 DEF PublishUnchanged, PublishReplace, Published, InTransaction,
           TypeOK, Goto
      <3>2. Batch(i)' = Batch(i)
        BY <1>2, <2>1 DEF Batch
      <3>3. OperationInv(i)'
        BY <1>1, <1>2, <2>1, <2>4, <3>1, <3>2 DEF OperationInv, Storing, Recovered,
           WithSource, Publishing, Restoring, Agrees, Sound
      <3>4. QED
        BY <1>1, <2>1, <2>3, <3>1, <3>3, OneOperation
    <2>5. CASE dbLock # i
      <3>1. pc'[i] = "recovered" /\ csv' = Current
        BY <1>1, <1>2, <1>3, <2>1, <2>5 DEF PublishUnchanged, PublishReplace, Published,
           InTransaction, TypeOK, Goto, OperationInv, Current
      <3>2. OperationInv(i)' /\ Sound(csv)'
        BY <1>1, <1>2, <2>1, <3>1 DEF OperationInv, Storing, Recovered, WithSource,
           Publishing, Restoring, Agrees, Sound
      <3>3. QED
        BY <1>1, <2>1, <2>3, <3>2, OneOperation
    <2>6. QED
      BY <2>4, <2>5
  <1>4. CASE PublishStage(i) \/ PublishFails(i)
    <2>1. UNCHANGED <<rows, csv, unrepaired>>
      BY <1>1, <1>4 DEF PublishStage, PublishFails, StageFile, DiscardStaged
    <2>2. ResultCoversHistory' /\ Sound(csv)'
      BY <1>2, <2>1, SameFiles
    <2>3. CASE PublishStage(i)
      <3>1. /\ pc'[i] = "replace"
            /\ UNCHANGED <<dbLock, outcome, source, snapshot, previous>>
            /\ \A j \in Instances : j # i => pc'[j] = pc[j]
        BY <2>3 DEF PublishStage, TypeOK, Goto, storageVars, localVars
      <3>2. Batch(i)' = Batch(i)
        BY <1>2, <3>1 DEF Batch
      <3>3. OperationInv(i)'
        BY <1>1, <1>2, <2>1, <3>1, <3>2 DEF OperationInv, Storing, Recovered,
           WithSource, Publishing, Restoring, Agrees, Sound
      <3>4. QED
        BY <1>1, <2>2, <3>1, <3>3, OneOperation
    <2>4. CASE PublishFails(i) /\ dbLock = i
      <3>1. /\ pc'[i] = "restore" /\ outcome'[i] = "error" /\ previous' = previous
            /\ \A j \in Instances : j # i => pc'[j] = pc[j]
        BY <2>4 DEF PublishFails, InTransaction, TypeOK, Goto, localVars
      <3>2. previous[i] = csv /\ Agrees(csv)
        BY <1>1, <1>2, <2>4 DEF OperationInv, Storing
      <3>3. OperationInv(i)'
        BY <1>2, <2>1, <2>2, <3>1, <3>2 DEF OperationInv, Storing, Recovered, WithSource,
           Publishing, Restoring, Agrees, Sound
      <3>4. QED
        BY <1>1, <2>2, <3>1, <3>3, OneOperation
    <2>5. CASE PublishFails(i) /\ dbLock # i
      BY <1>1, <2>2, <2>5, FinishKeepsResult DEF PublishFails, InTransaction
    <2>6. QED
      BY <1>4, <2>3, <2>4, <2>5
  <1>5. QED
    BY <1>3, <1>4 DEF Publish

LEMMA DownloadKeepsResult ==
  ASSUME TypeOK, StorageInv, TakeTurns, ResultInv, NEW i \in Instances,
         Download(i) \/ Parse(i)
  PROVE  ResultInv'
  <1>1. /\ pc[i] \in {"recovered", "unwind"} \cup WithSource
        /\ pc[i] # "idle" /\ pc[i] \notin Restoring \cup {"commit"}
        /\ UNCHANGED <<rows, csv, dbLock, unrepaired>>
    BY DEF Download, BeginDownload, DownloadAccepted, DownloadFails, Parse, ParseSource,
           ParseFails, ParseCancelled, CleanupDownload, CleanupDownloadFails,
           UnwindDownload, UnwindDownloadFails, WithSource, Restoring, storageVars, csvVars
  <1>2. OperationInv(i) /\ ResultCoversHistory' /\ Sound(csv)'
    BY <1>1, AtOperation, SameFiles
  <1>3. CASE DownloadFails(i) \/ UnwindDownload(i) \/ UnwindDownloadFails(i)
    BY <1>1, <1>2, <1>3, FinishKeepsResult
    DEF DownloadFails, UnwindDownload, UnwindDownloadFails
  <1>4. CASE \/ BeginDownload(i) \/ DownloadAccepted(i) \/ ParseSource(i)
             \/ ParseFails(i) \/ ParseCancelled(i) \/ CleanupDownload(i)
             \/ CleanupDownloadFails(i)
    <2>1. /\ pc'[i] \in Recovered
          /\ outcome'[i] \in {outcome[i], "error", "cancelled"}
          /\ \A j \in Instances : j # i => pc'[j] = pc[j]
      BY <1>4 DEF BeginDownload, DownloadAccepted, ParseSource, ParseFails,
         ParseCancelled, CleanupDownload, CleanupDownloadFails, Unwind, TypeOK, Goto,
         Recovered, WithSource
    <2>2. OperationInv(i)'
      BY <1>1, <1>2, <2>1, SameFiles DEF OperationInv, Storing, Recovered, WithSource,
         Publishing, Restoring
    <2>3. QED
      BY <1>1, <1>2, <2>1, <2>2, OneOperation
  <1>5. QED
    BY <1>3, <1>4 DEF Download, Parse

\* A step into the restore, with the file the operation has read before.
LEMMA ToRestoreKeepsResult ==
  ASSUME TypeOK, TakeTurns, ResultInv, NEW i \in Instances, ToRestore(i),
         UNCHANGED <<rows, csv, unrepaired>>,
         Storing(i) \/ pc[i] = "commit"
  PROVE  ResultInv'
  <1>1. /\ pc[i] # "idle"
        /\ OperationInv(i) /\ ResultCoversHistory'
        /\ Current' = Current /\ Records(rows)' = Records(rows)
    BY AtOperation, SameFiles DEF Storing, Publishing
  <1>2. /\ pc'[i] = "restore" /\ outcome'[i] = "error" /\ previous' = previous
        /\ \A j \in Instances : j # i => pc'[j] = pc[j]
    BY DEF ToRestore, TypeOK, Goto, localVars
  <1>3. Agrees(previous[i]) /\ Sound(previous[i])
    <2>1. CASE Storing(i)
      <3>1. Sound(csv)
        BY <1>1, <2>1, AtOperation DEF Storing, Publishing, Restoring
      <3>2. QED
        BY <1>1, <2>1, <3>1 DEF OperationInv
    <2>2. CASE pc[i] = "commit"
      BY <1>1, <2>2 DEF OperationInv
    <2>3. QED
      BY <2>1, <2>2
  <1>4. OperationInv(i)'
    BY <1>1, <1>2, <1>3 DEF OperationInv, Storing, Recovered, WithSource, Publishing,
       Restoring, Agrees, Sound
  <1>5. QED
    BY <1>1, <1>2, <1>4, OneOperation DEF Restoring

LEMMA StoredBatch ==
  ASSUME NEW i \in Instances
  PROVE  Records(rows \cup NewRows(Records(rows), source[i].records, Len(operations) + 1))
           = Batch(i)
  BY RecordsOfNewRows DEF Batch

\* The commit makes the history the one the CSV already shows.
LEMMA CommitMeetsCsv ==
  ASSUME TypeOK, TakeTurns, ResultInv, NEW i \in Instances, Commit(i)
  PROVE  csv' = Current'
  <1> DEFINE new == NewRows(Records(rows), source[i].records, Len(operations) + 1)
  <1>1. rows' = rows \cup new /\ csv' = csv /\ pc[i] = "commit"
    BY DEF Commit, CommitCompleted, csvVars
  <1>2. csv = Rendered(Batch(i))
    BY <1>1, AtOperation DEF OperationInv
  <1>3. Current' = Rendered(Records(rows \cup new))
    BY <1>1 DEF Current
  <1>4. QED
    BY <1>1, <1>2, <1>3, StoredBatch

LEMMA StoreKeepsResult ==
  ASSUME TypeOK, StorageInv, TakeTurns, ResultInv, NEW i \in Instances, Store(i)
  PROVE  ResultInv'
  <1>1. CASE ReadPrevious(i) \/ ReadPreviousFails(i)
    <2>1. /\ pc[i] = "processed" /\ dbLock' = dbLock
          /\ UNCHANGED <<rows, csv, unrepaired>>
      BY <1>1 DEF ReadPrevious, ReadPreviousFails, storageVars, csvVars
    <2>2. OperationInv(i) /\ ResultCoversHistory' /\ Sound(csv)'
      BY <2>1, AtOperation, SameFiles DEF Restoring
    <2>3. CASE ReadPrevious(i)
      <3>1. /\ pc'[i] = "store" /\ previous'[i] = csv /\ outcome' = outcome
            /\ \A j \in Instances : j # i => pc'[j] = pc[j]
        BY <2>3 DEF ReadPrevious, TypeOK, Goto
      <3>2. OperationInv(i)'
        BY <2>1, <2>2, <3>1, SameFiles DEF OperationInv, Storing, Recovered, WithSource,
           Publishing, Restoring
      <3>3. QED
        BY <2>1, <2>2, <3>1, <3>2, OneOperation
    <2>4. CASE ReadPreviousFails(i)
      BY <2>1, <2>2, <2>4, FinishKeepsResult DEF ReadPreviousFails
    <2>5. QED
      BY <1>1, <2>3, <2>4
  <1>2. CASE BeginStore(i)
    <2>1. /\ pc[i] = "store" /\ dbLock' = i
          /\ UNCHANGED <<rows, csv, unrepaired, source, previous, outcome>>
          /\ \A j \in Instances : j # i => pc'[j] = pc[j]
          /\ \/ pc'[i] = "conflict"
             \/ pc'[i] = "compare" /\ snapshot'[i] = Batch(i)
      BY <1>2 DEF BeginStore, BeginImmediate, Classify, TypeOK, Goto, csvVars, Batch
    <2>2. OperationInv(i) /\ ResultCoversHistory' /\ Sound(csv)'
      BY <2>1, AtOperation, SameFiles DEF Restoring
    <2>3. Batch(i)' = Batch(i)
      BY <2>1 DEF Batch
    <2>4. OperationInv(i)'
      BY <2>1, <2>2, <2>3, SameFiles DEF OperationInv, Storing, Recovered, WithSource,
         Publishing, Restoring
    <2>5. QED
      BY <2>1, <2>2, <2>4, OneOperation
  <1>3. CASE BeginStoreFails(i) \/ TransactionFails(i) \/ AuditConflict(i)
    <2>1. ToRestore(i) /\ UNCHANGED <<rows, csv, unrepaired>>
      BY <1>3 DEF BeginStoreFails, TransactionFails, AuditConflict, CommitConflict,
         Rollback, storageVars, csvVars
    <2>2. Storing(i) \/ pc[i] = "commit"
      BY <1>3 DEF BeginStoreFails, TransactionFails, AuditConflict, Rollback, Storing,
         Publishing
    <2>3. QED
      BY <2>1, <2>2, ToRestoreKeepsResult
  <1>4. CASE Commit(i)
    <2>1. csv' = Current' /\ pc[i] # "idle" /\ Finish(i, "completed")
      BY <1>4, CommitMeetsCsv DEF Commit
    <2>2. ResultCoversHistory' /\ Sound(csv)'
      BY <2>1 DEF ResultCoversHistory, Sound, Current, Rendered
    <2>3. QED
      BY <2>1, <2>2, FinishKeepsResult
  <1>5. QED
    BY <1>1, <1>2, <1>3, <1>4 DEF Store

LEMMA RestoreKeepsResult ==
  ASSUME TypeOK, TakeTurns, ResultInv, NEW i \in Instances, Restore(i)
  PROVE  ResultInv'
  <1>1. pc[i] \in Restoring /\ pc[i] # "idle" /\ rows' = rows
    BY DEF Restore, RestoreMissing, RestoreStage, RestoreReplace, RestoreFails, Restoring,
           storageVars
  <1>2. /\ OperationInv(i) /\ ResultCoversHistory
        /\ Current' = Current /\ Records(rows)' = Records(rows)
    BY <1>1, AtOperation DEF Current
  <1>3. Agrees(previous[i]) /\ Sound(previous[i])
    BY <1>1, <1>2 DEF OperationInv
  <1>4. CASE RestoreMissing(i) \/ RestoreReplace(i)
    <2>1. csv' = previous[i] /\ unrepaired' = unrepaired /\ Finish(i, outcome[i])
      BY <1>4 DEF RestoreMissing, RestoreReplace, ReplaceOutput
    <2>2. ResultCoversHistory'
      BY <1>2, <1>3, <2>1 DEF ResultCoversHistory, Agrees, Current, Rendered
    <2>3. Sound(csv)'
      BY <1>2, <1>3, <2>1 DEF Sound
    <2>4. QED
      BY <1>1, <2>1, <2>2, <2>3, FinishKeepsResult
  <1>5. CASE RestoreStage(i)
    <2>1. /\ pc'[i] = "restoreReplace"
          /\ UNCHANGED <<csv, dbLock, outcome, previous, unrepaired>>
          /\ \A j \in Instances : j # i => pc'[j] = pc[j]
      BY <1>5 DEF RestoreStage, StageFile, TypeOK, Goto, storageVars, localVars
    <2>2. OperationInv(i)'
      BY <1>1, <1>2, <1>3, <2>1 DEF OperationInv, Storing, Recovered, WithSource,
         Publishing, Restoring, Agrees, Sound
    <2>3. QED
      BY <1>1, <1>2, <2>1, <2>2, OneOperation, SameFiles DEF Restoring
  <1>6. CASE RestoreFails(i)
    <2>1. csv' = csv /\ unrepaired' = TRUE /\ Finish(i, "unrestored")
      BY <1>6 DEF RestoreFails, DiscardStaged
    <2>2. QED
      BY <1>1, <1>2, <2>1, SameFiles, FinishKeepsResult DEF Sound
  <1>7. QED
    BY <1>4, <1>5, <1>6 DEF Restore

LEMMA EnvironmentKeepsResult ==
  ASSUME TypeOK, TakeTurns, ResultInv, NEW i \in Instances, Environment(i)
  PROVE  ResultInv'
  <1>1. CASE StartWork(i)
    <2>1. /\ UNCHANGED <<rows, csv, dbLock, source, snapshot, previous, unrepaired>>
          /\ pc[i] = "idle" /\ pc'[i] = "opening" /\ outcome'[i] = "none"
          /\ \A j \in Instances : j # i => pc'[j] = pc[j] /\ outcome'[j] = outcome[j]
      BY <1>1 DEF StartWork, TypeOK, Goto, storageVars, csvVars, localVars
    <2>2. ASSUME NEW j \in Instances, j # i PROVE OperationInv(j)'
      <3>1. OperationInv(j) /\ Batch(j)' = Batch(j) /\ pc'[j] = pc[j]
        BY <2>1, <2>2 DEF ResultInv, Batch
      <3>2. QED
        BY <2>1, <2>2, <3>1, SameFiles DEF OperationInv, Storing, Agrees, Sound
    <2>3. OperationInv(i)'
      BY <2>1 DEF OperationInv, Storing, Recovered, WithSource, Publishing, Restoring
    <2>4. ResultCoversHistory' /\ SettledResult'
      BY <2>1, SameFiles DEF ResultInv, SettledResult, Restoring
    <2>5. QED
      BY <2>2, <2>3, <2>4 DEF ResultInv
  <1>2. CASE RequestCancel(i)
    <2>1. UNCHANGED <<rows, csv, dbLock, pc, source, snapshot, previous, outcome, unrepaired>>
      BY <1>2 DEF RequestCancel, storageVars, csvVars
    <2>2. \A j \in Instances : OperationInv(j)' <=> OperationInv(j)
      BY <2>1, SameFiles DEF OperationInv, Storing, Agrees, Sound, Batch
    <2>3. QED
      BY <2>1, <2>2, SameFiles DEF ResultInv, SettledResult
  <1>3. CASE Crash(i)
    <2>1. /\ pc[i] # "idle" /\ Finish(i, "crashed") /\ UNCHANGED <<rows, csv>>
          /\ unrepaired' = (unrepaired \/ pc[i] \in Restoring \cup {"commit"})
      BY <1>3 DEF Crash, AbandonStaged
    <2>2. Sound(csv)'
      BY <2>1, AtOperation, SameFiles DEF Sound
    <2>3. QED
      BY <2>1, <2>2, AtOperation, SameFiles, FinishKeepsResult
  <1>4. QED
    BY <1>1, <1>2, <1>3 DEF Environment

LEMMA DamageKeepsResult ==
  ASSUME ResultInv, DamageCsv PROVE ResultInv'
  <1>1. /\ \A i \in Instances : pc'[i] = "idle"
        /\ csv' \in {NoCsv, Garbage} /\ unrepaired' = TRUE
    BY DEF DamageCsv
  <1>2. ResultCoversHistory' /\ SettledResult'
    BY <1>1 DEF ResultCoversHistory, SettledResult, NoCsv, Garbage
  <1>3. \A i \in Instances : OperationInv(i)'
    BY <1>1 DEF OperationInv, Storing, Recovered, WithSource, Publishing, Restoring
  <1>4. QED
    BY <1>2, <1>3 DEF ResultInv

LEMMA ResultStep ==
  ASSUME TypeOK, StorageInv, TakeTurns, ResultInv, [Next]_vars
  PROVE  ResultInv'
  <1>1. CASE UNCHANGED vars
    <2>1. UNCHANGED <<rows, csv, dbLock, pc, source, snapshot, previous, outcome, unrepaired>>
      BY <1>1 DEF vars
    <2>2. \A j \in Instances : OperationInv(j)' <=> OperationInv(j)
      BY <2>1, SameFiles DEF OperationInv, Storing, Agrees, Sound, Batch
    <2>3. QED
      BY <2>1, <2>2, SameFiles DEF ResultInv, SettledResult
  <1>2. ASSUME NEW i \in Instances, Worker(i) PROVE ResultInv'
    BY <1>2, OpenKeepsResult, RecoverKeepsResult, PublishKeepsResult, DownloadKeepsResult,
       StoreKeepsResult, RestoreKeepsResult DEF Worker
  <1>3. QED
    BY <1>1, <1>2, EnvironmentKeepsResult, DamageKeepsResult DEF Next

LEMMA ResultInvariant == Spec /\ []TakeTurns => []ResultInv
  <1>1. Init => ResultInv
    BY DEF Init, StorageInit, CsvInit, ResultInv, ResultCoversHistory, SettledResult,
       OperationInv, Storing, Recovered, WithSource, Publishing, Restoring, NoCsv
  <1>2. QED
    BY <1>1, ResultStep, TypeCorrect, StorageInvariant, PTL DEF Spec

-----------------------------------------------------------------------------
(* The theorems.                                                           *)

\* The CSV never lacks a committed auction, at whatever step an operation is
\* cancelled, fails, is restored or crashes: publication precedes the commit,
\* and what is restored is a file that showed the whole history.
THEOREM ResultNeverBehind == Spec /\ []TakeTurns => []ResultCoversHistory
  BY ResultInvariant, PTL DEF ResultInv

\* Outside the window between os.replace and the commit or the restore, a CSV
\* that nobody damaged shows exactly the committed history.
THEOREM ResultSettles == Spec /\ []TakeTurns => []SettledResult
  BY ResultInvariant, PTL DEF ResultInv

\* Recovery is over before the browser opens: from there until the operation
\* publishes, a nonempty history and its CSV agree.
THEOREM RecoveryPrecedesBrowser == Spec /\ []TakeTurns => []RecoveredBeforeBrowser
  <1>1. ResultInv => RecoveredBeforeBrowser
    BY DEF ResultInv, OperationInv, RecoveredBeforeBrowser, Recovered, Storing, Agrees
  <1>2. QED
    BY <1>1, ResultInvariant, PTL

\* Only a commit ends an operation as completed.
LEMMA OnlyCommitCompletes ==
  ASSUME TypeOK, NEW j \in Instances, Worker(j) \/ Environment(j), ~Commit(j),
         NEW i \in Instances, outcome'[i] = "completed"
  PROVE  outcome[i] = "completed"
  <1>0. outcome \in [Instances -> Outcome]
    BY DEF TypeOK
  <1>1. CASE Open(j) \/ Recover(j) \/ Environment(j)
    BY <1>0, <1>1 DEF Open, OpenStorage, OpenStorageFails, StopCancelled, BeginRecovery,
       Recover, RemoveArtifacts, RemoveDownloads, RecoveryCleanupFails, Reconcile,
       ReconcileFails, Republish, Environment, StartWork, RequestCancel, Crash, Finish
  <1>2. CASE Publish(j)
    BY <1>0, <1>2 DEF Publish, PublishUnchanged, PublishStage, PublishReplace,
       PublishFails, Finish
  <1>3. CASE Download(j) \/ Parse(j)
    BY <1>0, <1>3 DEF Download, BeginDownload, DownloadAccepted, DownloadFails, Parse,
       ParseSource, ParseFails, ParseCancelled, CleanupDownload, CleanupDownloadFails,
       UnwindDownload, UnwindDownloadFails, Unwind, Finish
  <1>4. CASE Store(j) \/ Restore(j)
    BY <1>0, <1>4 DEF Store, ReadPrevious, ReadPreviousFails, BeginStore, BeginStoreFails,
       TransactionFails, AuditConflict, ToRestore, Restore, RestoreMissing, RestoreStage,
       RestoreReplace, RestoreFails, Finish
  <1>5. QED
    BY <1>1, <1>2, <1>3, <1>4 DEF Worker

\* An operation reports completion only when it has published exactly the
\* history it commits.
THEOREM CompletionIsPublished == Spec /\ []TakeTurns => CompletedIsPublished
  <1> DEFINE Shown == \A i \in Instances :
                        (pc[i] # "idle" /\ outcome'[i] = "completed") => csv' = Current'
  <1>1. TypeOK /\ TakeTurns /\ ResultInv /\ [Next]_vars => [Shown]_vars
    <2> SUFFICES ASSUME TypeOK, TakeTurns, ResultInv, Next, NEW i \in Instances,
                        pc[i] # "idle", outcome'[i] = "completed"
                 PROVE  csv' = Current'
      OBVIOUS
    <2>1. outcome[i] # "completed"
      BY AtOperation DEF OperationInv
    <2>2. ASSUME NEW j \in Instances, Worker(j) \/ Environment(j) PROVE csv' = Current'
      BY <2>1, <2>2, CommitMeetsCsv, OnlyCommitCompletes
    <2>3. QED
      BY <2>1, <2>2 DEF Next, DamageCsv
  <1>2. QED
    BY <1>1, ResultInvariant, TypeCorrect, PTL DEF Spec, CompletedIsPublished

\* While operations take turns, a failure leaves the CSV of a nonempty history
\* unchanged, as TECHNICAL_SPECIFICATION.md:176 says: once there is a history,
\* nothing but a second program breaks FailureKeepsResult.
THEOREM FailureRestores ==
  Spec /\ []TakeTurns =>
    [][Records(rows) # {} /\ csv = Current /\ rows' = rows
         /\ (\E i \in Instances : pc[i] \in Restoring /\ pc'[i] = "idle")
       => csv' = csv]_vars
  <1>1. TypeOK /\ TakeTurns /\ ResultInv /\ [Next]_vars =>
          [Records(rows) # {} /\ csv = Current /\ rows' = rows
             /\ (\E i \in Instances : pc[i] \in Restoring /\ pc'[i] = "idle")
           => csv' = csv]_vars
    <2> SUFFICES ASSUME TypeOK, TakeTurns, ResultInv, Next,
                        Records(rows) # {}, csv = Current,
                        NEW i \in Instances, pc[i] \in Restoring
                 PROVE  csv' = csv
      OBVIOUS
    <2>1. pc[i] # "idle" /\ \A j \in Instances : j # i => pc[j] = "idle"
      BY OthersIdle DEF Restoring
    <2>2. previous[i] = csv
      BY <2>1, AtOperation DEF OperationInv, Agrees
    <2>3. ASSUME NEW j \in Instances, Worker(j) PROVE Restore(i)
      <3>1. pc[j] # "idle"
        BY <2>3, WorkerIsBusy
      <3>2. j = i
        BY <2>1, <3>1
      <3> QED BY <2>3, <3>2 DEF Worker, Restoring, Open, OpenStorage, OpenStorageFails,
              StopCancelled, BeginRecovery, Recover, RemoveArtifacts, RemoveDownloads,
              RecoveryCleanupFails, Reconcile, ReconcileFails, Republish, Publish,
              PublishUnchanged, PublishStage, PublishReplace, PublishFails, Publishing,
              Download, BeginDownload, DownloadAccepted, DownloadFails, Parse, ParseSource,
              ParseFails, ParseCancelled, CleanupDownload, CleanupDownloadFails,
              UnwindDownload, UnwindDownloadFails, Store, ReadPrevious, ReadPreviousFails,
              BeginStore, BeginStoreFails, TransactionFails, Commit, AuditConflict
    <2>4. CASE Restore(i)
      BY <2>2, <2>4 DEF Restore, RestoreMissing, RestoreStage, RestoreReplace, RestoreFails,
         StageFile, ReplaceOutput, DiscardStaged
    <2>5. ASSUME NEW j \in Instances, Environment(j) PROVE csv' = csv
      BY <2>5 DEF Environment, StartWork, RequestCancel, Crash, AbandonStaged, csvVars
    <2>6. ~DamageCsv
      BY <2>1 DEF DamageCsv
    <2> QED BY <2>3, <2>4, <2>5, <2>6 DEF Next
  <1> QED BY <1>1, ResultInvariant, TypeCorrect, PTL DEF Spec

-----------------------------------------------------------------------------
(* Nothing is left behind.                                                 *)

\* Once recovery has removed what nobody owns, nobody leaves anything while
\* his operation goes on: an artifact is abandoned at the end of one, or on
\* the way into the restore.
CleanInv ==
  \A i \in Instances :
    /\ pc[i] \in {"recoverDownloads", "reconcile", "republish", "store", "conflict", "commit"}
               \cup Publishing \cup Recovered => Stray \notin staged
    /\ pc[i] \in {"reconcile", "republish", "store", "conflict", "commit"}
               \cup Publishing \cup Recovered => Stray \notin downloads

LEMMA CleanStep ==
  ASSUME TypeOK, TakeTurns, CleanInv, [Next]_vars PROVE CleanInv'
  <1>0. pc \in [Instances -> PC] /\ Stray \notin Instances
    BY CsvAssumption DEF TypeOK
  <1>1. CASE UNCHANGED vars
    BY <1>1 DEF vars, CleanInv
  <1>2. CASE DamageCsv
    BY <1>2 DEF DamageCsv, CleanInv
  <1>3. ASSUME NEW i \in Instances, StartWork(i) \/ RequestCancel(i) PROVE CleanInv'
    BY <1>0, <1>3 DEF StartWork, RequestCancel, Goto, csvVars, CleanInv, Publishing,
       Recovered, WithSource
  <1>4. ASSUME NEW i \in Instances, pc[i] # "idle",
               \E result : Finish(i, result)
        PROVE  CleanInv'
    BY <1>0, <1>4, OthersIdle DEF Finish, Goto, CleanInv, Publishing, Recovered, WithSource
  <1>5. ASSUME NEW i \in Instances, Open(i) PROVE CleanInv'
    BY <1>0, <1>4, <1>5 DEF Open, OpenStorage, OpenStorageFails, StopCancelled,
       BeginRecovery, Goto, csvVars, CleanInv, Publishing, Recovered, WithSource
  <1>6. ASSUME NEW i \in Instances, Recover(i) PROVE CleanInv'
    <2>1. CASE RecoveryCleanupFails(i) \/ ReconcileFails(i)
      BY <1>4, <2>1 DEF RecoveryCleanupFails, ReconcileFails
    <2>2. CASE RemoveArtifacts(i) \/ RemoveDownloads(i) \/ Reconcile(i) \/ Republish(i)
      BY <1>0, <2>2, OthersIdle DEF RemoveArtifacts, RemoveDownloads, Reconcile,
         Republish, Goto, csvVars, CleanInv, Publishing, Recovered, WithSource
    <2>3. QED
      BY <1>6, <2>1, <2>2 DEF Recover
  <1>7. ASSUME NEW i \in Instances, Publish(i) PROVE CleanInv'
    <2>1. CASE PublishFails(i)
      BY <1>0, <1>4, <2>1, OthersIdle DEF PublishFails, Goto, CleanInv, Publishing,
         Recovered, WithSource
    <2>2. CASE PublishUnchanged(i) \/ PublishStage(i) \/ PublishReplace(i)
      BY <1>0, <2>2, OthersIdle DEF PublishUnchanged, PublishStage, PublishReplace,
         Published, StageFile, ReplaceOutput, Goto, csvVars, CleanInv, Publishing,
         Recovered, WithSource
    <2>3. QED
      BY <1>7, <2>1, <2>2 DEF Publish
  <1>8. ASSUME NEW i \in Instances, Download(i) PROVE CleanInv'
    BY <1>0, <1>4, <1>8, OthersIdle DEF Download, BeginDownload, DownloadAccepted,
       DownloadFails, Goto, csvVars, CleanInv, Publishing, Recovered, WithSource
  <1>9. ASSUME NEW i \in Instances, Parse(i) PROVE CleanInv'
    <2>1. CASE UnwindDownload(i) \/ UnwindDownloadFails(i)
      BY <1>4, <2>1 DEF UnwindDownload, UnwindDownloadFails
    <2>2. CASE \/ ParseSource(i) \/ ParseFails(i) \/ ParseCancelled(i)
               \/ CleanupDownload(i) \/ CleanupDownloadFails(i)
      BY <1>0, <2>2, OthersIdle DEF ParseSource, ParseFails, ParseCancelled,
         CleanupDownload, CleanupDownloadFails, Unwind, Goto, csvVars, CleanInv,
         Publishing, Recovered, WithSource
    <2>3. QED
      BY <1>9, <2>1, <2>2 DEF Parse
  <1>10. ASSUME NEW i \in Instances, Store(i) PROVE CleanInv'
    <2>1. CASE ReadPreviousFails(i) \/ Commit(i)
      BY <1>4, <2>1 DEF ReadPreviousFails, Commit
    <2>2. CASE \/ ReadPrevious(i) \/ BeginStore(i) \/ BeginStoreFails(i)
               \/ TransactionFails(i) \/ AuditConflict(i)
      BY <1>0, <2>2, OthersIdle DEF ReadPrevious, BeginStore, Classify, BeginStoreFails,
         TransactionFails, AuditConflict, ToRestore, Goto, csvVars, CleanInv, Publishing,
         Recovered, WithSource
    <2>3. QED
      BY <1>10, <2>1, <2>2 DEF Store
  <1>11. ASSUME NEW i \in Instances, Restore(i) PROVE CleanInv'
    BY <1>0, <1>4, <1>11, OthersIdle DEF Restore, RestoreMissing, RestoreStage,
       RestoreReplace, RestoreFails, Restoring, Goto, CleanInv, Publishing, Recovered,
       WithSource
  <1>12. ASSUME NEW i \in Instances, Crash(i) PROVE CleanInv'
    BY <1>4, <1>12 DEF Crash
  <1>13. QED
    BY <1>1, <1>2, <1>3, <1>5, <1>6, <1>7, <1>8, <1>9, <1>10, <1>11, <1>12
    DEF Next, Worker, Environment

\* Whatever crashes, failed restores and given up downloads have left behind
\* is gone when recovery is over, and no operation keeps anything.
THEOREM NothingIsLeftBehind == Spec /\ []TakeTurns => []NothingAbandoned
  <1>1. Init => CleanInv
    BY DEF Init, CsvInit, CleanInv, Publishing, Recovered, WithSource
  <1>2. NothingHeldWhenIdle /\ CleanInv => NothingAbandoned
    BY DEF NothingAbandoned, CleanInv, Recovered, WithSource
  <1>3. QED
    BY <1>1, <1>2, CleanStep, IdleHoldsNothing, TypeCorrect, PTL DEF Spec

-----------------------------------------------------------------------------
(* A single instance.                                                      *)

\* One copy of the application takes turns with nobody: all of the above holds
\* in every behaviour.
COROLLARY OneInstance ==
  ASSUME \A i, j \in Instances : i = j
  PROVE  Spec => /\ []ResultCoversHistory
                 /\ []SettledResult
                 /\ []RecoveredBeforeBrowser
                 /\ []NothingAbandoned
                 /\ CompletedIsPublished
  <1>1. TakeTurns
    BY DEF TakeTurns
  <1>2. QED
    BY <1>1, ResultNeverBehind, ResultSettles, RecoveryPrecedesBrowser,
       NothingIsLeftBehind, CompletionIsPublished, PTL

=============================================================================
