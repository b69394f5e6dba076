---------------------------- MODULE MiniWorkflow ----------------------------
(***************************************************************************)
(* MiniIntegratedWorkflow (mini_workflow.py): one operation, from the      *)
(* recovery that precedes it to the publication of the cumulative CSV, in  *)
(* every running instance of the application, with cancellation, failing   *)
(* steps, and crashes between any two steps.                               *)
(*                                                                         *)
(* An instance runs one operation at a time (app.py starts no second       *)
(* worker); several instances share the database, the CSV and the          *)
(* temporary directories, and nothing but the SQLite write lock orders     *)
(* them.  The browser session is one step that delivers a source or fails. *)
(***************************************************************************)
EXTENDS MiniCsv

CONSTANTS
  Sources,        \* what the downloaded files may contain
  MaxOperations   \* bound: audited operations in a behaviour

ASSUME WorkflowAssumption ==
  /\ Sources \subseteq Source
  /\ MaxOperations \in Nat

VARIABLES
  pc,         \* where the worker of each instance is
  cancel,     \* its cancel_event
  source,     \* the source it has downloaded
  snapshot,   \* the records it hands to publish_records
  previous,   \* the CSV it read before storing
  outcome,    \* how its last operation ended
  downloads,  \* owners of the operation directories on disk
  unrepaired  \* history: a crash, a failed restore or an outsider may have
              \* left the CSV wrong and no operation has repaired it since

localVars == <<cancel, source, snapshot, previous>>
vars == <<rows, operations, dbLock, csv, staged, pc, cancel, source, snapshot,
          previous, outcome, downloads, unrepaired>>

Recovering     == {"recover", "recoverDownloads", "reconcile", "republish"}
BeforeDownload == {"opening", "begin", "recovered"}
WithSource     == {"downloading", "downloaded", "parsed"}
Publishing     == {"compare", "replace"}
Restoring      == {"restore", "restoreReplace"}
PC == Recovering \cup BeforeDownload \cup WithSource \cup Publishing \cup
      Restoring \cup {"idle", "unwind", "processed", "store", "conflict", "commit"}

Outcome == {"none", "completed", "cancelled", "error", "unrestored", "crashed"}

\* The source of an operation that holds none.
NoSource == [records |-> <<>>, rejected |-> 0, filtered |-> 0]

\* The CSV that shows the committed history.
Current == Rendered(Records(rows))

Init ==
  /\ StorageInit
  /\ CsvInit
  /\ pc = [i \in Instances |-> "idle"]
  /\ cancel = [i \in Instances |-> FALSE]
  /\ source = [i \in Instances |-> NoSource]
  /\ snapshot = [i \in Instances |-> {}]
  /\ previous = [i \in Instances |-> NoCsv]
  /\ outcome = [i \in Instances |-> "none"]
  /\ downloads = {}
  /\ unrepaired = FALSE

-----------------------------------------------------------------------------
Goto(i, label) == pc' = [pc EXCEPT ![i] = label]

\* The operation is over and its local state is gone.
Finish(i, result) ==
  /\ Goto(i, "idle")
  /\ outcome' = [outcome EXCEPT ![i] = result]
  /\ cancel' = [cancel EXCEPT ![i] = FALSE]
  /\ source' = [source EXCEPT ![i] = NoSource]
  /\ snapshot' = [snapshot EXCEPT ![i] = {}]
  /\ previous' = [previous EXCEPT ![i] = NoCsv]

\* An exception while the download is held: the finally clause of run follows.
Unwind(i, result) ==
  /\ Goto(i, "unwind")
  /\ outcome' = [outcome EXCEPT ![i] = result]

\* Start, or the click that is refused while a worker is active.
StartWork(i) ==
  /\ pc[i] = "idle"
  /\ Goto(i, "opening")
  /\ outcome' = [outcome EXCEPT ![i] = "none"]
  /\ UNCHANGED <<storageVars, csvVars, localVars, downloads, unrepaired>>

RequestCancel(i) ==
  /\ pc[i] # "idle" /\ ~cancel[i]
  /\ cancel' = [cancel EXCEPT ![i] = TRUE]
  /\ UNCHANGED <<storageVars, csvVars, pc, source, snapshot, previous, outcome,
                 downloads, unrepaired>>

-----------------------------------------------------------------------------
(* Opening the storage: initialize_schema takes the write lock once.       *)

OpenStorage(i) ==
  /\ pc[i] = "opening" /\ dbLock = NoLock
  /\ Goto(i, "begin")
  /\ UNCHANGED <<storageVars, csvVars, localVars, outcome, downloads, unrepaired>>

OpenStorageFails(i) ==
  /\ pc[i] = "opening"
  /\ Finish(i, "error")
  /\ UNCHANGED <<storageVars, csvVars, downloads, unrepaired>>

\* The cancellation checks of run where no download is held.
StopCancelled(i) ==
  /\ pc[i] \in {"begin", "recovered", "processed"} /\ cancel[i]
  /\ Finish(i, "cancelled")
  /\ UNCHANGED <<storageVars, csvVars, downloads, unrepaired>>

BeginRecovery(i) ==
  /\ pc[i] = "begin" /\ ~cancel[i]
  /\ Goto(i, "recover")
  /\ UNCHANGED <<storageVars, csvVars, localVars, outcome, downloads, unrepaired>>

-----------------------------------------------------------------------------
(* recover                                                                 *)

\* Mutant: an artifact that cannot be removed is skipped.
RemoveSomeArtifacts(i) ==
  /\ pc[i] = "recover"
  /\ Goto(i, "recoverDownloads")
  /\ staged' \in SUBSET staged
  /\ UNCHANGED <<storageVars, csv, localVars, outcome, downloads, unrepaired>>

\* The code cannot tell abandoned artifacts from those of a live operation.
RemoveArtifacts(i) ==
  /\ pc[i] = "recover"
  /\ Goto(i, "recoverDownloads")
  /\ staged' = {}
  /\ UNCHANGED <<storageVars, csv, localVars, outcome, downloads, unrepaired>>

RemoveDownloads(i) ==
  /\ pc[i] = "recoverDownloads"
  /\ Goto(i, "reconcile")
  /\ downloads' = {}
  /\ UNCHANGED <<storageVars, csvVars, localVars, outcome, unrepaired>>

\* An artifact that cannot be removed ends the operation; others are gone.
RecoveryCleanupFails(i) ==
  /\ \/ /\ pc[i] = "recover"
        /\ \E left \in SUBSET staged : left # {} /\ staged' = left
        /\ UNCHANGED downloads
     \/ /\ pc[i] = "recoverDownloads"
        /\ \E left \in SUBSET downloads : left # {} /\ downloads' = left
        /\ UNCHANGED staged
  /\ Finish(i, "error")
  /\ UNCHANGED <<storageVars, csv, unrepaired>>

\* Mutant: only a missing CSV is rebuilt.
NeedsRepublicationIfMissing == Records(rows) # {} /\ csv = NoCsv

NeedsRepublication == Records(rows) # {} /\ csv # Current

\* Compare the CSV with the history: publish() only for a nonempty history.
Reconcile(i) ==
  /\ pc[i] = "reconcile"
  /\ Goto(i, IF NeedsRepublication THEN "republish" ELSE "recovered")
  /\ unrepaired' = (unrepaired /\ csv \notin {NoCsv, Current})
  /\ UNCHANGED <<storageVars, csvVars, localVars, outcome, downloads>>

ReconcileFails(i) ==
  /\ pc[i] \in {"reconcile", "republish"}
  /\ Finish(i, "error")
  /\ UNCHANGED <<storageVars, csvVars, downloads, unrepaired>>

\* publish reads the history again, outside any transaction.
Republish(i) ==
  /\ pc[i] = "republish"
  /\ Goto(i, "compare")
  /\ snapshot' = [snapshot EXCEPT ![i] = Records(rows)]
  /\ UNCHANGED <<storageVars, csvVars, cancel, source, previous, outcome,
                 downloads, unrepaired>>

-----------------------------------------------------------------------------
(* publish_records, called by recover and inside the write transaction.    *)

InTransaction(i) == dbLock = i

Published(i) ==
  IF InTransaction(i)
  THEN Goto(i, "commit") /\ UNCHANGED unrepaired
  ELSE Goto(i, "recovered") /\ unrepaired' = FALSE

PublishUnchanged(i) ==
  /\ pc[i] = "compare" /\ AlreadyPublished(snapshot[i])
  /\ Published(i)
  /\ UNCHANGED <<storageVars, csvVars, localVars, outcome, downloads>>

\* Also taken for an equal file that could not be read.
PublishStage(i) ==
  /\ pc[i] = "compare"
  /\ Goto(i, "replace")
  /\ StageFile(i)
  /\ UNCHANGED <<storageVars, localVars, outcome, downloads, unrepaired>>

PublishReplace(i) ==
  /\ pc[i] = "replace"
  /\ ReplaceOutput(i, Rendered(snapshot[i]))
  /\ Published(i)
  /\ UNCHANGED <<storageVars, localVars, outcome, downloads>>

\* MiniCsvError: staging, validation or a locked output.  In recover it ends
\* the operation; in the transaction it rolls back.
PublishFails(i) ==
  /\ pc[i] \in Publishing
  /\ DiscardStaged(i)
  /\ IF InTransaction(i)
     THEN /\ Rollback(i)
          /\ Goto(i, "restore")
          /\ outcome' = [outcome EXCEPT ![i] = "error"]
          /\ UNCHANGED localVars
     ELSE Finish(i, "error") /\ UNCHANGED storageVars
  /\ UNCHANGED <<downloads, unrepaired>>

-----------------------------------------------------------------------------
(* The download and the parsing of its file.                               *)

BeginDownload(i) ==
  /\ pc[i] = "recovered" /\ ~cancel[i]
  /\ Goto(i, "downloading")
  /\ downloads' = downloads \cup {i}
  /\ UNCHANGED <<storageVars, csvVars, localVars, outcome, unrepaired>>

DownloadAccepted(i) ==
  /\ pc[i] = "downloading" /\ i \in downloads
  /\ Len(operations) < MaxOperations
  /\ \E s \in Sources : source' = [source EXCEPT ![i] = s]
  /\ Goto(i, "downloaded")
  /\ UNCHANGED <<storageVars, csvVars, cancel, snapshot, previous, outcome,
                 downloads, unrepaired>>

\* What the session leaves on disk: nothing, or a directory it gave up.
DropDownload(i) ==
  \/ downloads' = downloads \ {i}
  \/ i \in downloads /\ downloads' = (downloads \ {i}) \cup {Stray}

\* A failed, cancelled or unexpectedly closed session: run never sees a source.
DownloadFails(i) ==
  /\ pc[i] = "downloading"
  /\ DropDownload(i)
  /\ \/ cancel[i] /\ Finish(i, "cancelled")
     \/ Finish(i, "error")
  /\ UNCHANGED <<storageVars, csvVars, unrepaired>>

ParseSource(i) ==
  /\ pc[i] = "downloaded" /\ i \in downloads /\ ~cancel[i]
  /\ Goto(i, "parsed")
  /\ UNCHANGED <<storageVars, csvVars, localVars, outcome, downloads, unrepaired>>

\* The wrong range, a broken header, an unreadable or vanished file.
ParseFails(i) ==
  /\ pc[i] = "downloaded"
  /\ Unwind(i, "error")
  /\ UNCHANGED <<storageVars, csvVars, localVars, downloads, unrepaired>>

ParseCancelled(i) ==
  /\ pc[i] = "downloaded" /\ cancel[i]
  /\ Unwind(i, "cancelled")
  /\ UNCHANGED <<storageVars, csvVars, localVars, downloads, unrepaired>>

CleanupDownload(i) ==
  /\ pc[i] = "parsed" /\ i \in downloads
  /\ Goto(i, "processed")
  /\ downloads' = downloads \ {i}
  /\ UNCHANGED <<storageVars, csvVars, localVars, outcome, unrepaired>>

CleanupDownloadFails(i) ==
  /\ pc[i] = "parsed"
  /\ Unwind(i, "error")
  /\ UNCHANGED <<storageVars, csvVars, localVars, downloads, unrepaired>>

\* The finally clause: remove the directory if it is still there.
UnwindDownload(i) ==
  /\ pc[i] = "unwind"
  /\ downloads' = downloads \ {i}
  /\ Finish(i, outcome[i])
  /\ UNCHANGED <<storageVars, csvVars, unrepaired>>

\* Its failure replaces the exception that was being raised.
UnwindDownloadFails(i) ==
  /\ pc[i] = "unwind" /\ i \in downloads
  /\ downloads' = (downloads \ {i}) \cup {Stray}
  /\ Finish(i, "error")
  /\ UNCHANGED <<storageVars, csvVars, unrepaired>>

-----------------------------------------------------------------------------
(* Persistence: read the previous CSV, store and publish in a transaction. *)

\* Mutant: no cancellation check between the cleanup and the persistence.
ReadPreviousUnasked(i) ==
  /\ pc[i] = "processed"
  /\ Goto(i, "store")
  /\ previous' = [previous EXCEPT ![i] = csv]
  /\ UNCHANGED <<storageVars, csvVars, cancel, source, snapshot, outcome,
                 downloads, unrepaired>>

ReadPrevious(i) ==
  /\ pc[i] = "processed" /\ ~cancel[i]
  /\ Goto(i, "store")
  /\ previous' = [previous EXCEPT ![i] = csv]
  /\ UNCHANGED <<storageVars, csvVars, cancel, source, snapshot, outcome,
                 downloads, unrepaired>>

ReadPreviousFails(i) ==
  /\ pc[i] = "processed" /\ ~cancel[i]
  /\ Finish(i, "error")
  /\ UNCHANGED <<storageVars, csvVars, downloads, unrepaired>>

\* Mutant: only the new auctions are published.
ClassifyBatch(i) ==
  LET history == Records(rows)
      recs    == source[i].records
  IN  IF HasConflict(history, recs)
      THEN Goto(i, "conflict") /\ UNCHANGED snapshot
      ELSE /\ Goto(i, "compare")
           /\ snapshot' = [snapshot EXCEPT ![i] = Inserted(history, recs)]

\* Mutant: a source without new auctions is not published.
ClassifySkipping(i) ==
  LET history == Records(rows)
      recs    == source[i].records
  IN  /\ Goto(i, IF HasConflict(history, recs) THEN "conflict"
                 ELSE IF Inserted(history, recs) = {} THEN "commit" ELSE "compare")
      /\ snapshot' = [snapshot EXCEPT ![i] = history \cup Inserted(history, recs)]

Classify(i) ==
  LET history == Records(rows)
      recs    == source[i].records
  IN  IF HasConflict(history, recs)
      THEN Goto(i, "conflict") /\ UNCHANGED snapshot
      ELSE /\ Goto(i, "compare")
           /\ snapshot' = [snapshot EXCEPT ![i] = history \cup Inserted(history, recs)]

BeginStore(i) ==
  /\ pc[i] = "store"
  /\ BeginImmediate(i)
  /\ Classify(i)
  /\ UNCHANGED <<csvVars, cancel, source, previous, outcome, downloads, unrepaired>>

\* Mutant: a failed transaction does not restore the CSV.
ToRestoreNothing(i) == Finish(i, "error")

ToRestore(i) ==
  /\ Goto(i, "restore")
  /\ outcome' = [outcome EXCEPT ![i] = "error"]
  /\ UNCHANGED localVars

\* The busy timeout, or any other error before the transaction is open.
BeginStoreFails(i) ==
  /\ pc[i] = "store"
  /\ ToRestore(i)
  /\ UNCHANGED <<storageVars, csvVars, downloads, unrepaired>>

\* Mutant: a transaction that was rolled back is tried again.
TransactionRetries(i) ==
  /\ pc[i] \in {"compare", "conflict", "commit"}
  /\ Rollback(i)
  /\ Goto(i, "store")
  /\ UNCHANGED <<csvVars, localVars, outcome, downloads, unrepaired>>

\* An insert, the audit or the commit fails: everything is rolled back.
TransactionFails(i) ==
  /\ pc[i] \in {"compare", "conflict", "commit"}
  /\ Rollback(i)
  /\ ToRestore(i)
  /\ UNCHANGED <<csvVars, downloads, unrepaired>>

Commit(i) ==
  /\ pc[i] = "commit"
  /\ CommitCompleted(i, source[i])
  /\ Finish(i, "completed")
  /\ unrepaired' = FALSE
  /\ UNCHANGED <<csvVars, downloads>>

\* The audit is committed, then AuctionConflictError is raised.
AuditConflict(i) ==
  /\ pc[i] = "conflict"
  /\ CommitConflict(i, source[i])
  /\ ToRestore(i)
  /\ UNCHANGED <<csvVars, downloads, unrepaired>>

-----------------------------------------------------------------------------
(* _restore_previous_result, after the transaction is over.                *)

RestoreMissing(i) ==
  /\ pc[i] = "restore" /\ previous[i] = NoCsv
  /\ csv' = NoCsv
  /\ Finish(i, outcome[i])
  /\ UNCHANGED <<storageVars, staged, downloads, unrepaired>>

RestoreStage(i) ==
  /\ pc[i] = "restore" /\ previous[i] # NoCsv
  /\ Goto(i, "restoreReplace")
  /\ StageFile(i)
  /\ UNCHANGED <<storageVars, localVars, outcome, downloads, unrepaired>>

RestoreReplace(i) ==
  /\ pc[i] = "restoreReplace"
  /\ ReplaceOutput(i, previous[i])
  /\ Finish(i, outcome[i])
  /\ UNCHANGED <<storageVars, downloads, unrepaired>>

RestoreFails(i) ==
  /\ pc[i] \in Restoring
  /\ DiscardStaged(i)
  /\ Finish(i, "unrestored")
  /\ unrepaired' = TRUE
  /\ UNCHANGED <<storageVars, downloads>>

-----------------------------------------------------------------------------
(* The world around the workers.                                           *)

\* The process dies: SQLite rolls back, files stay where they are.
Crash(i) ==
  /\ pc[i] # "idle"
  /\ dbLock' = IF dbLock = i THEN NoLock ELSE dbLock
  /\ AbandonStaged(i)
  /\ downloads' = IF i \in downloads THEN (downloads \ {i}) \cup {Stray}
                                     ELSE downloads
  /\ unrepaired' = (unrepaired \/ pc[i] \in Restoring \cup {"commit"})
  /\ Finish(i, "crashed")
  /\ UNCHANGED <<rows, operations>>

\* Somebody deletes or overwrites the CSV while no operation is running.
DamageCsv ==
  /\ \A i \in Instances : pc[i] = "idle"
  /\ csv' \in {NoCsv, Garbage}
  /\ unrepaired' = TRUE
  /\ UNCHANGED <<storageVars, staged, pc, localVars, outcome, downloads>>

Open(i)     == OpenStorage(i) \/ OpenStorageFails(i) \/ StopCancelled(i)
               \/ BeginRecovery(i)
Recover(i)  == RemoveArtifacts(i) \/ RemoveDownloads(i) \/ RecoveryCleanupFails(i)
               \/ Reconcile(i) \/ ReconcileFails(i) \/ Republish(i)
Publish(i)  == PublishUnchanged(i) \/ PublishStage(i) \/ PublishReplace(i)
               \/ PublishFails(i)
Download(i) == BeginDownload(i) \/ DownloadAccepted(i) \/ DownloadFails(i)
Parse(i)    == ParseSource(i) \/ ParseFails(i) \/ ParseCancelled(i)
               \/ CleanupDownload(i) \/ CleanupDownloadFails(i)
               \/ UnwindDownload(i) \/ UnwindDownloadFails(i)
Store(i)    == ReadPrevious(i) \/ ReadPreviousFails(i) \/ BeginStore(i)
               \/ BeginStoreFails(i) \/ TransactionFails(i) \/ Commit(i)
               \/ AuditConflict(i)
Restore(i)  == RestoreMissing(i) \/ RestoreStage(i) \/ RestoreReplace(i)
               \/ RestoreFails(i)

Worker(i) == Open(i) \/ Recover(i) \/ Publish(i) \/ Download(i) \/ Parse(i)
             \/ Store(i) \/ Restore(i)

Environment(i) == StartWork(i) \/ RequestCancel(i) \/ Crash(i)

Next == (\E i \in Instances : Worker(i) \/ Environment(i)) \/ DamageCsv

Spec == Init /\ [][Next]_vars

\* The worker thread is scheduled; its waits (browser, SQLite) all time out.
FairSpec == Spec /\ \A i \in Instances : WF_vars(Worker(i))

-----------------------------------------------------------------------------
(***************************************************************************)
(* Properties of the shared database.  They hold for any number of         *)
(* instances: BEGIN IMMEDIATE orders the classification and the commit.    *)
(***************************************************************************)

\* Every variable keeps the values the code can give it.
TypeOK ==
  /\ StorageTypeOK
  /\ CsvTypeOK
  /\ pc \in [Instances -> PC]
  /\ cancel \in [Instances -> BOOLEAN]
  /\ source \in [Instances -> Source]
  /\ snapshot \in [Instances -> Content]
  /\ previous \in [Instances -> File]
  /\ outcome \in [Instances -> Outcome]
  /\ downloads \subseteq Owner
  /\ unrepaired \in BOOLEAN

\* FR-007: whatever the instances store, and wherever they stop, an identity
\* is in the history once.  The known dictionary of store_and_publish is read
\* under the lock and follows the file row by row.
UniqueIdentity ==
  \A a, b \in rows : a.record.key = b.record.key => a = b

\* FR-008: mutation and audit are one transaction.  Every row belongs to an
\* audited operation, every audit counts exactly the rows it inserted, a
\* completed one accounts for each row of its source and a failed one has none.
AuditsAccountForRows ==
  /\ \A row \in rows : row.operation \in DOMAIN operations
  /\ \A n \in DOMAIN operations :
       LET op == operations[n]
       IN  /\ op.inserted = Cardinality({row \in rows : row.operation = n})
           /\ op.outcome = "COMPLETED" =>
                op.inserted + op.duplicates + op.rejected + op.filtered = op.sourceRows
           /\ op.outcome = "FAILED" => op.inserted = 0 /\ op.conflicts = 1

\* FR-006: no step removes or changes a stored row or a recorded audit.
HistoryOnlyGrows ==
  [][/\ rows \subseteq rows'
     /\ Len(operations) <= Len(operations')
     /\ \A n \in DOMAIN operations : operations'[n] = operations[n]]_<<rows, operations>>

\* Every operation, of every instance, takes effect at once or not at all:
\* store_and_publish implements the abstract cumulative history.
Result(op) == [outcome |-> op.outcome, inserted |-> op.inserted]
Results == [n \in 1..Len(operations) |-> Result(operations[n])]

History == INSTANCE CumulativeHistory WITH history <- Records(rows), results <- Results

ImplementsHistory == History!Spec

-----------------------------------------------------------------------------
(***************************************************************************)
(* Properties of the published CSV.  They are about one running instance:  *)
(* `previous' and the artifacts recover removes are not protected from a   *)
(* second one.                                                             *)
(***************************************************************************)

\* The CSV never lacks a committed auction: it may run ahead of the database
\* (published, not yet committed) but never behind, whichever step a crash, a
\* rollback or a restore interrupts.
ResultCoversHistory == csv.kind = "rendered" => Records(rows) \subseteq csv.shows

\* FR-005, FR-008: outside the window between os.replace and the commit or
\* the restore, a CSV nobody damaged shows exactly the committed history:
\* after a success, a conflict, a cancellation or any failure.
SettledResult ==
  (~unrepaired /\ \A i \in Instances : pc[i] \notin Restoring \cup {"commit"})
    => csv \in {NoCsv, Current}

\* An operation that reports completion has published what it committed.
CompletedIsPublished ==
  [][\A i \in Instances :
       (pc[i] # "idle" /\ outcome'[i] = "completed") => csv' = Current']_vars

\* workflow_m.md section 12: a nonempty history and its CSV agree before the
\* browser starts and until the operation publishes.
RecoveredBeforeBrowser ==
  \A i \in Instances :
    pc[i] \in WithSource \cup {"recovered", "unwind", "processed", "store"} =>
      Records(rows) = {} \/ csv = Current

\* A finished operation holds nothing: not the write lock, no artifact.
NothingHeldWhenIdle ==
  \A i \in Instances :
    pc[i] = "idle" => dbLock # i /\ i \notin staged /\ i \notin downloads

\* Whatever earlier operations and crashes left behind is gone once recovery
\* is over, and a finished operation leaves nothing of its own.
NothingAbandoned ==
  /\ NothingHeldWhenIdle
  /\ \A i \in Instances :
       pc[i] \in {"recovered", "downloading", "downloaded", "parsed", "store", "commit"} =>
         Stray \notin staged \cup downloads

\* FR-008: an operation cancelled before persistence ends, and not as a completed
\* one.
CancelEnds ==
  \A i \in Instances :
    (cancel[i] /\ pc[i] \in BeforeDownload \cup Recovering \cup WithSource
                            \cup {"unwind", "processed"})
      ~> (pc[i] = "idle" /\ outcome[i] # "completed")

\* Every operation ends, also one whose steps fail again and again.
OperationEnds == \A i \in Instances : pc[i] # "idle" ~> pc[i] = "idle"

-----------------------------------------------------------------------------
(***************************************************************************)
(* What the documents say and the code does not do.                        *)
(***************************************************************************)

\* TECHNICAL_SPECIFICATION.md:176: a failure leaves the previous valid CSV
\* unchanged: restoring never turns a CSV that shows the committed history
\* into one that does not.
FailureKeepsResult ==
  [][csv = Current /\ rows' = rows
       /\ (\E i \in Instances : pc[i] \in Restoring /\ pc'[i] = "idle")
     => csv' = csv]_vars

=============================================================================
