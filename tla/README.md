# Prisma Function Mini in TLA+

Prisma Function Mini is a Windows desktop application. Each run downloads one
CSV of PRISMA auctions through a managed browser, adds its auctions to a SQLite
history, and publishes the whole history as `data/result/prisma_function_mini.csv`.
The repository also holds the larger application Mini was cut from: its runtime
directories and their migration, an import ledger with a workbook, a browser
controller and a monitor.
This directory holds its formal model: TLA+ modules translated from the Python
source, TLC configurations that check small instances, and TLAPS proofs for all
instances.

## 1. Inventory

| Component (source) | State it keeps | Operations | What is hard |
| --- | --- | --- | --- |
| Mini storage (`mini_storage.py`) | SQLite tables `mini_auctions`, `mini_operations`, `mini_operation_failures` | `store_and_publish`, `store` (no caller), `history`, `operations`, `initialize_schema` | classification, inserts, audit and publication in one `BEGIN IMMEDIATE` transaction; conflict half way through a file; another process holding the lock |
| Mini CSV publisher (`mini_csv.py`) | the CSV, staging files beside it | `publish`, `publish_records` | stage, validate, `os.replace`; locked output; leftovers |
| Mini workflow (`mini_workflow.py`) | one operation directory, the CSV read before storing | `recover`, `run`, `_restore_previous_result`, `parse_source` | two stores (CSV, database) changed in turn; failure, cancellation or crash between any two steps; recovery of what a dead process left |
| Main window (`app.py`, `mini_ui.py`) | UI state, generation, worker thread, cancel event, shutdown flag | `start_work`, `cancel_work`, `closeEvent`, `_on_progress`, `_on_finished` | signals that arrive late, out of order, or after the next start or a close |
| Browser session (`mini_browser.py`) | playwright objects, close/cleanup flags, once-only date filter | `run`, `_run_attempt`, `download_csv`, `apply` | retries that share adapters; a browser that closes by itself |
| Download (`mini_download.py`) | operation directory, submission flag | `download` | dialog or download first; acceptance, cancellation and cleanup |
| Domain (`mini_domain.py`, `parse_source`) | the records, failures and filtered count of a file | record validation, normalization, duplicate key, the decision over each row | boundaries of numbers and times; which error rejects a row and which ends the operation |
| Runtime paths (`runtime_paths.py`) | migration lock directory with its owner record, migrated files | `migrate_legacy_runtime_data` and its lock | stealing a stale lock that somebody else has replaced; crashes half way |
| Legacy storage and import (`storage.py`, `prisma_import_workflow.py`, `prisma_source_updates.py`) | ledger of source operations, auction table, audit of the backfill, workbook, legacy JSON state | `begin_operation`, `apply_operation`, `finalize_operation`, `export_excel`, backfill, source decision | a crash between the phases of an import; two imports at once |
| Browser controller (`browser.py`, `prisma_page.py`) | state, generation, cancel event, request queue | `open`, `stop`, `read_live_auction_status`, the worker | request timeouts, answers to abandoned requests, closures during any of it |
| Monitoring (`monitoring*.py`, `scheduler.py`) | checks, transitions, latest status | `run_forever`, `check_record`, `persist` | a status known from the CSV that is older than the stored one |
| Conversions (`processor.py`, `prisma_references.py`, `csv_contracts.py`, `auction_csv.py`) | none | parsing, enrichment | text only |
| Logging, version, packaging, notifications (`runtime_logging.py`, `version.py`, `validate_package.py`, `notifications.py`, build files) | none | - | not modelled: nothing the properties depend on |

How they interact: the window starts one worker thread per operation. The worker
opens the storage (which takes the write lock once to create its schema), calls
`recover`, runs a browser session that leaves a source file in an operation
directory, parses it, removes the directory, and calls `store_and_publish`, which
calls the publisher inside its transaction. Any exception from it makes the
workflow put back the CSV it read before. Cancellation is an event the worker
polls. Nothing prevents two copies of the program: they share the database, the
CSV and both directories, and only SQLite's write lock orders them.

Of the larger application, `migrate_legacy_runtime_data` moves the files of an
older installation under a lock directory, as often as launches ask for it. Nothing
in the repository but the tests calls it: `main` of `app.py` starts without it and
writes to the same destinations. An import run asks the
ledger whether another source is unresolved, compares its source with the
accepted ones, and takes its operation through the database, the workbook and
the database again. A monitoring run asks the browser controller for the status
of an auction: the request crosses a queue to the worker thread that owns the
browser, with a timeout on the caller's side, and the answer is persisted with
the transition it makes.

What makes each component correct: the storage never holds an identity twice,
never loses a row, and audits every operation truthfully and atomically; the
publisher replaces the CSV as a whole or not at all; the workflow keeps CSV and
database in step, repairs what a crash left before it downloads, leaves nothing
behind, and stores nothing once it saw a cancellation; the window reports what
happened. The migration lets one launch in at a time and returns
only with the legacy data in place; the ledger keeps its records, ends every operation it
began and never hides a newer source behind an older one; the controller answers
or fails every request, is stopped only for a reason of its own, and reports
consistently; the three monitoring tables tell one history. The hazards, each at its line, are listed in `PROJECT.json`.

## 2. Modules

| Module | Models | State |
| --- | --- | --- |
| `MiniStorage` | `mini_storage.py`: classification loop, audit, transaction | `rows`, `operations`, `dbLock` |
| `MiniCsv` | `mini_csv.py`: the file and the staging files | `csv`, `staged` |
| `MiniWorkflow` | `mini_workflow.py` in every running instance, with start and cancel of `app.py`, crashes, and damage to the CSV from outside | `pc`, `cancel`, `source`, `snapshot`, `previous`, `outcome`, `downloads`, `unrepaired` |
| `CumulativeHistory` | the abstract specification: each operation adds its batch or is refused, in one step | `history`, `results` |
| `MiniUi` | `app.py`, `mini_ui.py`: the window, the worker thread of each operation, the queued signals between them | `state`, `generation`, `worker`, `event`, `shutdown`, `window`; `queue`, `polling`; `thread`, `cancelled`, `stored` |
| `MiniDownload` | `mini_download.py`: directory, once-only export, event or limit dialog, acceptance | `pc`, `polls`, `error`, `cancel`, `gone`; `directory`, `captured`, `submitted`, `exportClicks`, `offer` |
| `MiniSession` | `mini_browser.py`: attempts of `download_csv` around `MiniDownload`, date filter, listeners, retry | the above and `attempt`, `closed`; `resources`, `refused`; `filterSubmitted`, `filterClicks`, `filtered`; `outcome` |
| `SourceDelivery` | the abstract specification of a session: a source in its directory, or an error | `outcome`, `directory`, `cancel` |
| `MiniTransform` | `parse_source` and `_row` of `mini_workflow.py`, the record constructor of `mini_domain.py`, product classification | `outcome`, `cancel`, `number`, `last`, `records`, `failures`, `filtered` |
| `MigrationLock` | `migrate_legacy_runtime_data` (`runtime_paths.py`) in every launch, with crashes, failing calls and the applications that have started | `lock`, `record`, `old`; `pc`, `seen`, `owner`, `raised`; `item`, `dest`, `beside`; `reckless`, `late` |
| `ImportLedger` | `run_prisma_import_workflow` over `storage.py` in every instance, with the backfill | `schema`, `status`, `digest`, `auctions`, `market`, `audit`; `book`, `legacy`; `pc`, `run`, `left`, `frame`; `abandoned`, `overlapped` |
| `BrowserController` | `browser.py`: generations, worker thread, requests; `read_status` of `prisma_page.py` | `state`, `generation`, `cancelled`, `results`; `worker`, `browser`, `failure`, `launchError`; `queue`, `serving`, `call`, `request`; `causes` |
| `LiveMonitoring` | monitoring runs composed with `BrowserController`: `scheduler.py`, `monitoring.py`, `persist` of `monitoring_storage.py` | the above and `run`, `stopAsked`, `baseline`; `checks`, `transitions`, `latest` |
| `MCMiniWorkflow`, `MCMiniTransform` | constants for TLC | - |
| `MiniWorkflowProofs`, `MiniResultProofs`, `MiniUiProofs`, `MiniSessionProofs`, `MiniTransformProofs`, `MigrationLockProofs`, `ImportLedgerProofs`, `LiveMonitoringProofs` | theorems and proofs | - |

### State

* `rows` is the committed table `mini_auctions`, each row with the number of the
  operation that inserted it (the code stores the hash and time of that
  operation). `operations` is `mini_operations` in commit order. Uncommitted work
  has no variable: it is a function of `rows` and of the source being stored,
  because the transaction holds the write lock `dbLock` from its begin.
* A record is its duplicate key and one value for all other fields; the code
  compares exactly those two ways (`known.get(key)`, `previous == record`).
* `csv` is the file as bytes up to rendering: missing, garbage, or rendered from
  a set of records. Rows are ordered by their key, so a set determines the bytes.
* `staged` and `downloads` hold the owners of staging files and operation
  directories; `Stray` owns what a finished or dead operation left.
* `pc` is where a worker is between two steps that others can observe: every
  file operation, database transaction and cancellation check is a step.
* In `MiniUi`, a generation names the operation, its thread and its cancel event.
  `queue` is Qt's queue of posted signals, `polling` the outcomes whose 10 ms
  timer runs, `thread` where each worker is: the stage it reported last, inside
  the store, stored, signal emitted, or dead.
* In `MiniSession`, an exception is a kind in `error`, raised at one step and
  translated, unwound or answered by a retry at later ones. `gone` is the truth
  about the browser, `closed` what the listeners told the worker. `offer` is
  PRISMA's answer to the export. `filtered` says that the page of this attempt
  shows the requested range. The once-only flags outlive an attempt, the page
  does not. `resources` are the Playwright objects that are open, each with its
  attempt, and `refused` those whose `close()` or `stop()` has failed: the code logs
  it and goes on, so they may stay open in later attempts and after the session.
* `unrepaired` is a history variable: a crash after the replace, a failed restore
  or somebody outside may have left the CSV wrong, and nothing repaired it since.
* In `MiniTransform` a local time is a number of hours, and a row keeps of each
  field only what the decisions ask: the direction, whether the capacity is
  enough, whether the tariff of the row's own side is there and readable.
  Summer time is one skipped and one repeated hour, and months are a sequence of
  first days, twelve a year, so that gas days of 23 and 25 hours, quarters and years
  are there. The calendar ends on both sides as Python's does: a time that has not
  begun in UTC, a month of the year 10000 and a gas day before the first or after
  the last day raise. A huge number is one whose `Decimal` overflows. `number` is
  the row of the file read last, `last` its content.
* In `MigrationLock` a directory is named by the launch that made it, as each
  makes one at most; the code compares volume and file identities. `lock` is the
  directory at the path, `record` the owner record inside each directory, `old`
  the directories whose modification time is stale. `seen` and `owner` are what an
  inspection found, used after other launches may have acted. `dest` tells the
  legacy content from other content and from what an application has written
  since, at any time, as it takes no part in the lock. Two are history variables.
  `reckless`: a launch took a directory for ownerless that another one was making, or
  held although its record could not be read. `late`: a launch is about to publish
  where an application has created the destination since it was found missing.
* In `ImportLedger` a source is a date and a digest, `auctions` names for each
  stored row the source it was last written from, `market` its required market or
  storage ("filled" when a backfill found a canonical one), and `book` the table that the
  workbook shows, both columns of it, or nothing when `validate_excel` would not
  accept it. `frame` is the table as `export_excel` has read it. `overlapped` is a
  history variable: two runs have been under way at once.
* In `BrowserController` one worker thread at most exists, and it belongs to the
  current generation (`open` needs the state that only its last step sets), so
  worker and generation are single variables; callers of older generations stay
  behind with their requests. `failure` is what a Playwright listener found out,
  `browser` the truth. `causes` is a history variable.
* In `LiveMonitoring` each caller is one monitoring run of one auction;
  `baseline` is the status its CSV knew at the start.

### Actions

`StartWork`/`RequestCancel` are the clicks. `Open*` is the construction of the
storage; `Recover*`, `Reconcile`, `Republish` are `recover`; `Publish*` is
`publish_records`, called by recovery without and by the store with the write
lock; `BeginDownload` ... `DownloadFails` is the session seen from outside;
`Parse*`, `Cleanup*` and `Unwind*` are the parsing, the removal of the directory
and the `finally` clause of `run`; `ReadPrevious` ... `AuditConflict` is the
persistence; `Restore*` is `_restore_previous_result`. Every step that can raise
has a failing alternative, taken with the cleanup the code does. `Crash` ends a
worker anywhere.

In `MiniUi` a handler runs to its end in the Qt thread and is one action:
`Start*`, `CancelWork`, `OpenResultFails`, `Close`, `ShutdownTimer`, `OnProgress`,
`OnFinished`, `PollFinished`. `ReportProgress` ... `ThreadEnds` is `_run_worker`
around a workflow reduced to its cancellation checks, its progress, its commit
and its outcome, so `MiniUi` allows every run of `MiniWorkflow` and the two
modules meet at `stored` (there: `outcome = "completed"`). A click that a
disabled button or an early return ignores is no step.

`MiniSession` extends `MiniDownload`, as the session calls the downloader in the
same thread: `BeginAttempt` ... `ProbeReadiness` open the page, `FillDates` ...
`AwaitRefresh` is the date filter, `CreateDirectory` ... `LeaveDownload` the
download with its `finally` clause, `ReturnSource`, `TranslateError`,
`CloseResource` for each object and `LeaveAttempt` the end of an attempt. A step is one Playwright call, or a group of
file operations, with the checks around it; a listener is attached in the step
that opens its object, as no event can be dispatched in between. Events are
dispatched only while the worker is inside a Playwright call (`InCall`).
`page.locator` is local to Playwright and does not raise outside a `try`. For the
workflow a session is one step, `DownloadAccepted` or `DownloadFails`;
`ImplementsDelivery` says that it is entitled to that.

`MiniTransform` reads one row per step: `Accept`, `Filter`, `Reject` or `Raise`,
by the `Verdict` of `_row` and the constructor, whose rules are asked in the
code's order, the ones that raise something else than a rejection among them; the
workflow sees the whole as `Parse*`.

`MigrationLock` has one action per file system call that another process can come
between: `MakeDirectory`, `FindLock`, the inspection (`StatLock` or `StatFails`,
`IdentifyLock`, `InspectStale`), which opens the path three times, `CheckStale` and
`QuarantineStale`, which renames through a handle; `StageRecord` and `WriteRecord`,
and the cleanup when either raises (`CheckOwnerless`, `RemoveOwnerless`, `LeaveLock`).
A record that cannot be read counts as none wherever the code says so
(`RecordRead`). Then
`CompareArtifact` ... `CopiesDone` for each artifact; `ReadOwnRecord` ...
`ReleaseFails`. `ProcessEnds` is a crash or the end of an application anywhere,
`Age` the passing of `lock_stale_seconds`, `AppWrites` an application that has
migrated or never did.

`ImportLedger` has one action per transaction or file operation of a run:
`OpenStorage`, `CheckUnresolved`, `ReadState` with `AdoptLegacy` for each legacy
source, `BeginOperation`, `InsertOperation`, `RereadOperation`, `CheckPending`,
`ApplyOperation`, `ReadRows`, `Publish`, `Finalize`, and for an exact retry
`ValidateWorkbook` and `Republish`. `Abandon` ends a run before any of them.
`Backfill` is one transaction and exports nothing.

`BrowserController`: `Open` and `Stop` are the clicks; `LaunchBrowser` ...
`EndGeneration` the worker from launch through its polling loop, its requests and
its cleanup to its report; `Refuse`, `Ask`, `Answered`, `Expire`, `GiveUp` a call of
`read_live_auction_status`. `BrowserGone` is the world, `ClosureSeen` the listener,
dispatched only inside a Playwright call. A block under the controller's lock is
one step. `LiveMonitoring` adds the loop of a run around that call and the
transaction of `persist`: the last step of a call and the persistence are one
action, as nothing of the run can be observed in between.

`PROJECT.json` maps each definition to its lines.

## 3. Runs

| Run | Question | Bounds |
| --- | --- | --- |
| `one_instance` | With one program running, are CSV, database and artifacts always in step, repaired after crashes, and is a cancelled operation stopped? Does every operation end? | 1 instance, 3 audited operations, 5 sources, 2 keys x 2 values |
| `two_instances` | Does the database stay correct whatever two programs do to each other? Does it implement the abstract history? | 2 instances (symmetric), 2 to 3 audited operations, 2 sources |
| `restore_race` (violation) | Does a failure leave the valid CSV unchanged? | 2 instances |
| `ui` | Do late signals, cancellation, closing and restarting ever confuse the window, or keep it busy for ever? | 3 operations started |
| `ui_cancelled` (violation) | Is Cancelled shown only if nothing was stored? | 1 operation |
| `session` | Can retries, lost events, a dying browser or a cancellation submit twice, accept half a source, leave a directory or an object it could have closed to the next attempt, or hang? | 2 attempts, 2 polls |
| `transform` | Is every row accounted for once, and does an accepted one have the only product its period fits? | files of up to 2 rows; two years of months of 2 days, the last one of 3, between both ends of the calendar; one skipped and one repeated hour |
| `row_fault` (violation) | Is every row classified? | as `transform` |
| `migration` | Do launches exclude each other, complete what crashed ones began, keep what a destination holds, and end? | 3 launches, one of them crashed before; 2 artifacts, 1 of them with a legacy file; any call failing, suspension allowed, applications writing |
| `migration_race` (violation) | Does the lock serialize launches? | 3 launches, one of them crashed before; no artifacts, no failing call, no suspension |
| `ledger` | Do ledger, table and workbook agree whatever ends a run, and can an unresolved operation be resolved? | 2 instances, 2 dates x 2 digests, exports of a date and the one before, up to 2 legacy sources, 1 abandoned run |
| `monitoring` | Is every caller answered, every generation stopped and reported for its own reasons, and does every history hold together? | 1 run and another application, 2 statuses, 2 generations, 2 checks, pages of up to 2 tables x 2 rows |

**Bounds.** `MaxOperations` bounds the audited operations by refusing a further
accepted download; instances already past that point may still finish, hence the
ranges above. Operations that fail or crash earlier are not bounded. Three
operations are enough for a first, a conflicting or repeated, and a later one.
The five sources cover the ways two rows relate: an empty file with filtered
rows, one auction, another value for its key plus a rejected row, the same row
twice, and a conflict inside the file behind two good rows. Two instances are enough for every race between a
read and a write. In `MiniUi`, `MaxStarts` bounds the clicks on Start: three
operations let a signal of the first meet the third, and refused starts, failed
opens, cancels and close requests are not bounded. In `MiniSession`, `MaxPolls`
stands for the deadline of a wait: two polls let something happen between two of
them. `MaxAttempts` is the policy's, one or two. Symmetry is used only in the
run without liveness.

In `migration`, the race for a lock needs two living launches and a directory
nobody holds any more, which is what the crashed one leaves; crashes of the
living are not bounded. Two artifacts let a launch die between them. In `ledger`,
two dates are an older and a newer source, two digests a conflict; both list the
auction of the older date, so that each can overwrite the other. One abandoned run
is enough for an operation in any phase. The run has blank
market values, which a backfill fills, so that a workbook gets older than its table;
what else a backfill finds matters to `FilledStaysFilled`, which is proved. In
`monitoring`, two generations let a caller of the first give up in the second,
two checks are a first and a later one. In `transform`, two rows show that the
decision over one leaves the other alone; the rows differ from a good one in two
fields, or in their period, also in the first hours and the last months of the
calendar. The proofs cover all sizes.

**Fairness.** `FairSpec` assumes weak fairness of each instance's worker as a
whole: the thread is scheduled, and no wait of it is unbounded (SQLite's busy
timeout, playwright's timeouts and the polling of the cancel event turn each
into an error). Nothing is assumed of the user or of the order in which SQLite
grants its lock, and nothing of crashes. No single action is fair, so liveness
never relies on a download succeeding. In `MiniUi`, weak fairness of each thread
is the same assumption, and that of `EventLoop`, `PollFinished` and
`ShutdownTimer` is Qt's: posted events are handled and running timers fire. The
user is not fair: nobody has to cancel, close or start. In `MiniSession` the
worker is fair, PRISMA, the browser and the user are not; every call has a
timeout except `download.failure()` and `save_as`, so `SessionEnds` assumes that
a transfer that has started ends. Nothing in the code ensures this, and a
cancellation does not interrupt it.

In `MigrationLock` a running launch is scheduled, and strong fairness of `GiveUp`
is the deadline of the acquisition loop: a launch that waits over and over must
find it passed. In `ImportLedger` the steps of runs are fair, and strong fairness
of `Retry` is the user who keeps selecting the source of the unresolved operation;
without one nothing in the code takes it up again. In `LiveMonitoring` the worker
and every step of a run are fair, because every call of both has a timeout;
browser, user and other applications are not.

**What the passing runs show.** `ResultCoversHistory`: the CSV may run ahead of
the database between the replace and the commit, never behind it.
`SettledResult`: outside that window an undamaged CSV shows exactly the history,
or is missing. `RecoveredBeforeBrowser`: from the end of recovery until the
operation publishes, a nonempty history and the CSV agree, whatever crashed or
was damaged before. `NothingAbandoned`: artifacts. `CompletedIsPublished`: success means published. `CancelEnds`,
`OperationEnds`: liveness, where the begin of a transaction may fail at any time,
as it does when another program holds the lock. `UniqueIdentity`,
`AuditsAccountForRows`, `ImplementsHistory`: the database, for several instances.
`OneOperation`: one worker at a time, although `start_work` asks only what is
displayed. `SignalsAreCurrent`: no signal survives its operation, so the
generation test of both handlers is a second line of defence, not what the
window relies on. `CompletedMeansStored`, `ClosedWaits`: what
is displayed is true, and a closed window has waited. `WorkEnds`, `CloseEnds`:
liveness. `SubmittedOnce`: one click on Apply and one on the export over all
attempts. `SourceIsWhole`: what is returned is the complete export of a page that
shows the requested range, in its final place. `RetryIsClean`: no directory and no
error passes from one attempt to the next, and of what an attempt opened only an
object whose own `close()` or `stop()` failed, however many of the others failed
before it. `SessionEnds`,
`ImplementsDelivery`: a session ends, delivers a source that has a directory, and
never invents a cancellation.

`RowsClassified`: whatever ends a file, each row read was accepted, filtered or
rejected once and under its own number; a row that ends the operation has an auction
dated after its flow start, a number too large for a `Decimal`, or a date in the first
day or a flow start in the last quarter of the calendar. `RecordsSound`: an accepted row fits one
product by an independent definition of the products, over both changes of the
clock. `ExclusiveUnlessReckless`: two launches migrate at once only after one of
them took a directory in use for ownerless: it was still being made, or it was old and
its record could not be read, neither at the inspection nor at the check. A crash, a
lock replaced meanwhile, a failing rename or release do not suffice.
`LegacyMigrated`: a launch returns without an error only when each legacy artifact
has arrived or is kept beside. `DestinationKept`: as long as the lock excludes, what
was at a destination when it was compared stays, and so does what an application
wrote to a migrated one; a copy replaces only what an application has created after
the destination was found missing. `LaunchEnds`: liveness.
`RowsFromLedger`, `RecordsKept`: what the ledger says of a row is true and is not
taken back, even when two runs apply one operation. `NewestWins`,
`BookShowsAccepted`, `Retryable`, `RetryResolves`: after any crash, the table keeps
the newer source, an exact retry that keeps the workbook keeps one with the rows and
markets of the table, but for markets that a backfill has filled since, and
an unresolved operation can be and is resolved; these are stated for instances
that take turns. `LegacyNotReplaced`: the sources accepted before the ledger
existed are adopted, one a transaction, before any other content of their dates can
be begun, as long as no run was abandoned or overlapped; the oldest one always.
`WaitingIsServed`, `StoppedForCause`, `ReportsAreConsistent`: no request is lost,
no late timeout stops the browser that was opened since, and the reports of a
generation fit each other. `StatusHistory`: checks, transitions and latest status
agree although each run trusts its own CSV first. `Settles`, `RunEnds`: liveness.

Every run but `one_instance`, `two_instances` and `restore_race` is without a
deadlock check: a closed window, a finished session, a parsed file, launches that
ended, and a database at its bound are the end.

**What the violated ones show.** Two are defects of the code, two are sentences of
the documentation that the code does not keep; `PROJECT.json` quotes them under
`findings`.

1. `restore_race`: the CSV that a failure restores is read before the write lock is
   taken. With two programs, a failing one can remove or overwrite the CSV of the
   other.
2. `ui_cancelled`: the worker asks the cancel event again after the workflow
   returned. A click on Cancel during the commit makes the window say "Cancelled.
   Ready to start." of an operation that is stored and published.
3. `migration_race`: the inspection of a stale lock takes the age from one
   directory and the identity from the next one at the path. A lock in the making is
   quarantined although it is young, the launch that made it writes its record into
   the next directory, and two launches migrate at once. No call fails in this run
   and no process stands still.
4. `row_fault`: `_row` does not check that the auction is dated before the flow
   start. The record constructor does, with a `ValueError` that is not caught as a
   rejected row: one such row ends the whole operation without an audit. It is not the
   only such row: see the last of the divergences below.

**Divergences without a run.** Met while modelling, allowed by the models:

* Recovery republishes only a nonempty history (`mini_workflow.py:366`): the CSV of
  a first operation that died between `os.replace` and the commit stays until an
  operation commits. `RecoveredBeforeBrowser` is stated for a nonempty history.
* Recovery removes all artifacts with Mini's names (`mini_workflow.py:343`), also
  those of a live operation of another program, which then fails.
* A page that closes during the readiness probe looks like an invalid session
  (`mini_browser.py:481`), which is retried, although an unexpected closure should
  not be. An exception nobody translated, such as an `OSError` of the operation
  directory, is retried even after the export (`:496`); the second attempt can
  only fail.
* The legacy state is adopted one source a transaction and only into an empty ledger
  (`prisma_import_workflow.py:67`): a run that ends in between leaves the later
  sources out of the ledger for good, and another run that starts in between
  decides without them. Other content of their dates can then be imported over
  theirs.
* Two imports of different dates that overlap may both find nothing unresolved and
  both begin. If both are then abandoned, each shuts the other out
  (`prisma_import_workflow.py:101`), and no retry resolves either. Hence
  `overlapped` in the properties about retries.
* A page that closes during the launch ends the generation with neither a
  "launched" nor a "failed" report; `ReportsAreConsistent` says what is reported.
* Monitors that overlap may record times out of the order of their rows.
* A destination that an application creates between `exists()` and `os.replace`
  (`runtime_paths.py:147`, `:189` and `:178`, `:190`) is replaced by the legacy copy:
  the lock is for launches, and `main` (`app.py:290`) does not ask for it. `late` marks
  these cases, and `DestinationKept` excludes all others.
* An owner record that cannot be read counts as none (`runtime_paths.py:427`,
  `:441`). A lock older than `lock_stale_seconds` is then quarantined although its
  owner is alive, if the second read fails too, and two launches hold it. `reckless`
  marks it.
* A failing `close()` or `stop()` is logged and forgotten (`mini_browser.py:508`), and
  a retried attempt opens a second browser beside one that is left.
  `TECHNICAL_SPECIFICATION.md:77` says that no browser processes owned by Mini may
  remain after completion. `refused` names what remains.
* A backfill changes the markets of stored rows (`storage.py:357`), which the workbook
  shows, and exports nothing. An exact retry that finds the workbook valid keeps it
  (`prisma_import_workflow.py:114`), so the workbook may lack what was filled.
* Besides a misdated auction, a row ends the operation (`mini_workflow.py:285`) with a
  `ValueError` of the year 10000 (`:119`, `:147`), with an `OverflowError` of a time
  that is before the calendar in UTC (`:111`) or of a gas day outside of it (`:152`,
  `:153`), or with a `decimal.Overflow` (`mini_domain.py:97`, `:394`).

The divergences between programs need two copies of one, which nothing in the
source prevents; the properties of Mini's CSV are therefore checked for one
instance.

The mutants named in `PROJECT.json` (operators commented "Mutant" in the
modules) are plausible mistakes, one for each property of a passing run; each
makes TLC report its property.

## 4. Proofs

`MiniWorkflowProofs` proves, for any set of instances, keys and values, any
sources and any bound:

| Theorem | Says |
| --- | --- |
| `TypeCorrect` | `Spec => []TypeOK` |
| `StorageInvariant` | `Spec => []StorageInv`, the inductive invariant of the database |
| `IdentityIsUnique` | `Spec => []UniqueIdentity` |
| `AuditIsTruthful` | `Spec => []AuditsAccountForRows` |
| `HistoryIsKept` | `Spec => HistoryOnlyGrows` |
| `HistoryIsImplemented` | `Spec => ImplementsHistory` (refinement of `CumulativeHistory`) |
| `IdleHoldsNothing` | `Spec => []NothingHeldWhenIdle` |
| `OperationAdvances` | each step of a worker lowers `StepsLeft`, a measure of at most 19, of its operation; no other step raises it |
| `CancellationIsHeeded` | an operation cancelled before its last check stays so, never reaches the storage, ends not completed, and writes neither row nor audit |

`MiniResultProofs` proves what concerns the files, for the same constants, of the
behaviours in which operations take turns (`TakeTurns`: at most one instance is in
the middle of one), on whichever instances they run, with crashes, failures of any
step, cancellations and damage to the CSV between operations:

| Theorem | Says |
| --- | --- |
| `ResultNeverBehind` | `Spec /\ []TakeTurns => []ResultCoversHistory` |
| `ResultSettles` | `Spec /\ []TakeTurns => []SettledResult` |
| `RecoveryPrecedesBrowser` | `Spec /\ []TakeTurns => []RecoveredBeforeBrowser` |
| `CompletionIsPublished` | `Spec /\ []TakeTurns => CompletedIsPublished` |
| `NothingIsLeftBehind` | `Spec /\ []TakeTurns => []NothingAbandoned` |
| `FailureRestores` | with turns, a failure leaves the valid CSV of a nonempty history unchanged |
| `OneInstance` | with a single instance the first five hold of `Spec`, as a lone program takes turns with nobody |

`MiniUiProofs` proves, for any number of operations:

| Theorem | Says |
| --- | --- |
| `TypeCorrect` | `Spec => []TypeOK` |
| `UiInvariant` | `Spec => []UiInv`, the inductive invariant of the window |
| `OperationIsAlone` | `Spec => []OneOperation` |
| `SignalIsCurrent` | `Spec => []SignalsAreCurrent` |
| `CompletedIsTrue` | `Spec => []CompletedMeansStored` |
| `ClosingWaits` | `Spec => []ClosedWaits` |
| `CancellationIsShown` | `Spec => CancellingLasts` |
| `CancellationIsAsked` | the window says Cancelled only of an operation whose Cancel was clicked or whose close was requested |

`MiniSessionProofs` proves, for any number of polls and one or two attempts:

| Theorem | Says |
| --- | --- |
| `SessionInvariant` | `Spec => [](TypeOK /\ SessionInv)` |
| `TypeCorrect` | `Spec => []TypeOK` |
| `SubmissionIsOnce` | `Spec => []SubmittedOnce` |
| `SourceIsAccepted` | `Spec => []SourceIsWhole` |
| `RetryIsTidy` | `Spec => []RetryIsClean` |
| `DeliveryIsImplemented` | `Spec => ImplementsDelivery` (refinement of `SourceDelivery`) |
| `SessionAdvances` | each step of the worker leads to a later attempt, place or poll, all bounded; nothing else moves it, and after its return there is no step |

`MiniTransformProofs` proves, for any rows and any calendar:

| Theorem | Says |
| --- | --- |
| `TypeCorrect` | `Spec => []TypeOK` |
| `EachRowClassified` | `Spec => []RowsClassified` |
| `EachRecordIsSound` | `Spec => []RecordsSound` |
| `OrdinaryRowsAreClassified` | if no row is misdated, overflows or lies at an end of the calendar, `Spec => []EveryRowClassified` |

`MigrationLockProofs` proves, for any launches, crashed ones and artifacts:

| Theorem | Says |
| --- | --- |
| `TypeCorrect` | `Spec => []TypeOK` |
| `LockInvariant` | `Spec => []LockInv`, the inductive invariant of the lock |
| `MigrationExcludes` | `Spec => []ExclusiveUnlessReckless` |
| `CopyInvariant` | `Spec => []CopyInv`, the inductive invariant of copying |
| `MigrationCompletes` | `Spec => []LegacyMigrated` |
| `DestinationIsKept` | `Spec => DestinationKept` |

`ImportLedgerProofs` proves, for any instances, dates, digests and bounds:

| Theorem | Says |
| --- | --- |
| `TypeCorrect` | `Spec => []TypeOK` |
| `LedgerConsistent` | `Spec => []LedgerInv`, the inductive invariant of the ledger |
| `RowsRecorded` | `Spec => []RowsFromLedger` |
| `RecordsAreKept` | `Spec => RecordsKept` |
| `FilledIsKept` | `Spec => []FilledStaysFilled` |
| `TurnsKept` | `Spec => []TurnsInv`, the inductive invariant while instances take turns |
| `RetryAllowed` | `Spec => []Retryable` |
| `BookCurrent` | `Spec => []BookShowsAccepted` |
| `NewestIsKept` | `Spec => []NewestWins` |
| `LegacyIsKept` | `Spec => []LegacyNotReplaced` |

`LiveMonitoringProofs` proves, for any callers, statuses, generations and pages:

| Theorem | Says |
| --- | --- |
| `TypeCorrect` | `Spec => []TypeOK` |
| `ControllerInvariant` | `Spec => []ControllerInv`, the inductive invariant of the controller |
| `WaitingCallerIsServed` | `Spec => []WaitingIsServed` |
| `StopHasCause` | `Spec => []StoppedForCause` |
| `ReportIsConsistent` | `Spec => []ReportsAreConsistent` |
| `HistoryIsOne` | `Spec => []StatusHistory` |

Assumptions: `NoLock` and `Stray` are no instances, `Sources` is a set of
sources (finite sequences of records with two counts), `MaxOperations` is a
natural number, and so is `MaxStarts`; `MaxPolls` is positive, `MaxAttempts` one
or two, as the policy demands. `None` is no launch (`LaunchAssumption`), digest
(`DigestAssumption`), source (`SourceAssumption`), caller or status (`CallerAssumption`, `ChecksAssumption`); the
words for answers that are no status are none (`StatusAssumption`); the crashed
launches are launches and the legacy artifacts artifacts (`ArtifactAssumption`); a
database is found in one of the code's schema states (`FoundAssumption`); bounds
are natural numbers (`DateAssumption`, `BoundAssumption`, `BoundsAssumption`), and
rows and the clock have their shape (`RowsAssumption`, `ClockAssumption`). The
calendar has whole years that begin with January, no month begins after its last day,
and a month is longer than a gas day (`CalendarAssumption`): a period that is one gas
day is then no month, and a last quarter exists. TLC evaluates all of them.

The argument. `UniqueIdentity` alone is not inductive: a commit inserts rows that
were checked for conflicts at an earlier step. `LockDiscipline` carries the check
to the commit: whoever holds `dbLock` is inside the transaction, and unless it
found a conflict its source still has none with the rows, since only a holder of
the lock changes them (`TablesChangeAtCommit`, `LockStep`). `IsFiniteSet(rows)`
is there because the audit counts rows with `Cardinality`. The lemmas on the
classification loop (`InsertedFacts`, `AuditTypes`, ...) say what is inserted:
records of the source, not in the history, with pairwise different keys when
there is no conflict; and that the duplicate count is a natural number, because
the inserted records are an image of the scanned positions. `CommitKeepsTables`
and `ConflictKeepsTables` then show that the two committing steps keep both
properties. The refinement maps a commit to `Accumulate` with the inserted
records, a conflict to `Refuse`, and every other step to a stutter.

For the files, the database invariant says nothing: `csv`, `snapshot` and `previous`
are read at one step and used several steps later. `OperationInv` says what the one
operation relies on at each of them. After recovery the CSV agrees with a nonempty
history; while it is stored, `previous` is the CSV itself; a publication by recovery
has the history as its snapshot, one inside the transaction the history with the batch; at the
commit the CSV is what the commit will justify; and what a restore would put back
agreed with the history (`Agrees`) and was nobody's damage (`Sound`). Nobody else
can write in between, which is where turns are needed: with two programs each of
these facts can be lost, and `restore_race` shows one being lost. `FailureRestores`
is the other half of that finding: for a nonempty history nothing but a second
program breaks the sentence. With an empty history, a failure of the first operation
puts back whatever it found. `CleanInv` is the same for artifacts: once
recovery has removed those of nobody, none appears while the operation goes on.

For the end of an operation, `Course` numbers the places of `run`. A publication
occurs twice, in recovery and in the transaction; `StepsLeft` tells them apart by
`dbLock`, for which `LockDiscipline` is needed. No place is visited twice, so an
operation whose worker is scheduled takes at most 19 steps; that the worker can
always take one of them is what remains for TLC (`OperationEnds`). Likewise for
`CancelEnds`: `Heeded` says that a cancellation survives each step or ends the
operation, and that the place after the last check is out of reach.

For the window, that a new operation finds nothing of the last one needs a chain
of facts about signals: a thread that works has posted progress only
(`RunningSendsProgress`), its outcome is the last signal and is polled by one
timer at most (`OutcomeIsLast`), and the window leaves the active states only
once queue, timer and thread are empty (`ReadyIsQuiet`). `OutcomeInv` is the
step where the chain closes: the handler concludes only with an empty queue and
a dead thread. `Asked` follows the word "cancelled" back from the display through
poller and queue to the thread, which says so only if it finds its event set, and only
the user and the closing window set it.

For the session, a source is whole because acceptance is carried from
`VerifyFile` through the `finally` clause and the cleanup to the return
(`AcceptedIsWhole`), behind a filter that was refreshed (`FilteredFirst`).
`DirectoryOwned` is what makes a retry clean: when an exception leaves the
download its directory is gone, or it has become a "download" error, which is not
retried. `OpenIsCurrent` is the other half: what has not refused to close belongs to the
attempt under way, and an attempt is left only when nothing is left to close. Only
the translation in the type lemma needs `ErrorsPending`: no raw
exception ends a session. `Order` numbers the places of an attempt, and each step
goes up in attempt, place and poll, compared in this order.

For the rows of a file, `RowsClassified` is inductive beside the types: the numbers
in both sequences are at most `number`, and an appended one is larger. What is used
of `Verdict` is that its outcomes are exclusive and what can raise
(`RaisedHasCause`): a time before the calendar in UTC is in its first day; a month
the calendar lacks is asked for only of a start in its last quarter, which its last
October opens (`LastQuarter`); a gas day outside of the calendar is that of a start in
its first or its last day (`ClassifyRaises`); a number is huge; and of the two errors
of the constructor only the date of the auction is left, because a period that ends
before it begins has no product and was rejected before.

`RecordsSound` compares two definitions of the products: `Classify` tries them in
the code's order, `Fits` says of each what its period is, in gas days and
boundaries of months. What `Classify` finds fits (`ClassifiedFits`), where months
counted from a first day become a period between two boundaries (`SpansCovers`);
and nothing else does (`FitsOnce`), since the rest of a gas day begins inside of
it, a gas day ends with the next one, a period of months is two days long at least
(`CoversIsLong`), and periods of different numbers of months end differently
(`CoversIsOne`). `HoursOfADay` accounts for both changes of the clock. The record
of the row read last is that row's (`LastRecord`).
`OrdinaryRowsAreClassified` turns `RaisedHasCause` round: the finding `row_fault` has
these causes and no other.

For the lock, mutual exclusion follows from a chain about directories: while no one
was reckless, a launch that holds or makes the lock owns the directory at the path
(`OwnsLock`), that directory carries its record once it holds (`OwnRecord`), a
directory not yet made is nowhere (`Unmade`), and a record that an inspection has found stale
is that of a dead launch (`Condemned`). The second comparison then either finds this
record in the inspected directory, whose owner is dead and stays so however long the
launch waits before it renames; or it finds no record, and the directory is that of a
launch that has ended, or `reckless` records that it is not. For the copies, what a
launch has passed has arrived (`PassedIsKept`), no step loses what is kept, and a
version kept beside is kept only where the destination differs (`BesideDiffers`).
`DestinationKept` needs exclusion: nobody else copies, so between comparison and
replace a missing destination stays missing or an application creates it, which
puts the launch into `late` (`PublishesNew`).

For the ledger, a run past its begin works on an operation of its own digest
(`RunKnows`), which makes overlapping runs of one source harmless: the second one
writes what is there. While instances take turns, the lone run knows more
(`LoneRun`): what it decided before its transaction still holds in it, since
nobody else can have written. The workbook is current, or the run is about to
rewrite it (`BookIsCurrent`), and one operation at most is unresolved and not stale
(`CanRetry`). For `NewestWins`, a committed source is on top: each row it lists shows
it or a newer one (`OnTop`). An applied source takes rows of older ones only, since
the source decision refused it otherwise and still holds (`AppliedIsNewest`);
sources adopted later come from the legacy state, whose table had the newest source
of each row (`ImportedOnTop`, which rests on `LatestExists`). For
`LegacyNotReplaced`, the oldest source is adopted in the transaction in which the
ledger stops being empty (`OldestFirst`), which no crash and no other run can
separate; the others follow only if the run goes on alone (`Whole`).

For the controller, `LifeInv` says where the worker is in each state and that
stopping has a cause; `ServiceInv` says who owns a request: queued once, or being
read, never both, always of the current generation until it is answered. A caller
that gave up can only have left an abandoned request in a generation that it has
stopped, which is why no later call of it is queued twice. `StatusHistory` is
inductive beside the types: `latest` is where the last successful check ended, and
`persist` reads it in the transaction that appends.

Induction. The library's induction theorems with an operator as a parameter cannot
be used, so what a recursive function computes is not proved. Where a proof needs an extreme
element, it takes it from the well-foundedness of the order of the naturals, a
theorem about sets (`LeastNatural`).

Only model-checked: liveness, which is `CancelEnds`, `OperationEnds`, `WorkEnds`,
`CloseEnds`, `SessionEnds`, `LaunchEnds`, `RetryResolves`, `Settles` and `RunEnds`
(fairness and ENABLED are out of the prover's reach). For operations and sessions
the bound on their steps is proved. Every invariant and every action property that
a passing run checks is a theorem. With two instances the properties of the CSV are
false; `restore_race` is an example.

## 5. Not modelled

`store` has no caller besides tests, nor have `upsert` (kept for compatibility),
`apply_date_filter`, a session without an action, and some helpers of the domain.
Rendering, hashes, clocks and logging are abstracted: for the workflow a source is a
sequence of records with the numbers of rejected and filtered rows. Selectors,
dates and the text of the limit dialog are abstracted to found or not and equal or
limited. Decimal arithmetic is not modelled: a capacity is enough, below, invalid,
of an unsupported unit, or so huge that the arithmetic overflows, and so is a tariff but
for the threshold. A torn write of the CSV is impossible through
`os.replace`; a torn database is SQLite's concern. Layout and `main` of the window
are left out; its Validating state begins and ends inside `start_work`.

Of the larger application: the search for a browser and the clicks of the capacity
filter are one step that succeeds or fails; the selection of directories and the
retention of logs keep no state that another step reads; future dates, invalid files
and a workbook locked by Excel end a run as `Abandon`; the backfill's check of its
own result is part of its transaction; notifications and the readers of the
monitoring history change nothing. The processor, its references and the CSV
contracts convert text without state. Logging, version and packaging have no state
the properties depend on.

## 6. Plan

What is left, the most valuable first:

1. A composition of `MiniUi` with the outcomes of `MiniWorkflow`, in place of the
   reduced thread, and of `MiniWorkflow` with `SourceDelivery` and `MiniTransform`.
2. Bounds on the steps of a launch, of an import run and of a call of the
   controller, as `StepsLeft` is one for an operation.
3. What remains true of the CSV when two programs interleave.
4. The row decisions of the processor as operators, in the manner of
   `MiniTransform`.
