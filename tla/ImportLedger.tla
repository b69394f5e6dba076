---------------------------- MODULE ImportLedger ----------------------------
(***************************************************************************)
(* run_prisma_import_workflow (prisma_import_workflow.py) over the ledger  *)
(* of source operations, the auction table and the cumulative workbook     *)
(* (storage.py), and the historical backfill of the same table.            *)
(*                                                                         *)
(* Every SQLite transaction and every file operation of a run is a step; a *)
(* run can be abandoned before any of them, by a crash or an exception.    *)
(***************************************************************************)
EXTENDS Naturals, FiniteSets

CONSTANTS
  Instance,      \* processes that share the database and the workbook
  LastDate,      \* source dates are 1..LastDate
  Digest,        \* contents an export of one date may have
  None,          \* no digest, no source, no workbook
  Window,        \* an export lists the auctions of its date and so many days before
  Unfillable,    \* stored auctions the backfill cannot resolve: bundles,
                 \* names missing from the catalog, malformed rows
  Schemas,       \* states of the historical tables a database is found in
  Markets,       \* Market / Storage values found in it
  MaxLegacy,     \* bound: sources in the legacy JSON state
  MaxAbandoned   \* bound: runs abandoned

ASSUME DateAssumption == {LastDate, Window, MaxLegacy, MaxAbandoned} \subseteq Nat
ASSUME DigestAssumption == None \notin Digest
ASSUME FoundAssumption ==
  /\ Schemas \subseteq {"absent", "experimental", "current", "unknown"}
  /\ Markets \subseteq {"blank", "canonical", "other"}

VARIABLES
  schema,     \* the historical Market / Storage tables
  status,     \* status of the ledger's operation for each date
  digest,     \* and its sha256
  auctions,   \* the source each stored auction was last written from
  market,     \* its required Market / Storage value; "filled" is a canonical
              \* one that a backfill has found
  audit,      \* status of each row in the last backfill's audit
  book,       \* the workbook: the table as it was exported, or None when
              \* there is none that validate_excel accepts
  legacy,     \* the legacy JSON state
  pc,         \* where each instance's run is
  run,        \* the source it imports
  left,       \* legacy sources it has still to adopt
  frame,      \* the table as it has read it for the workbook
  abandoned,  \* number of runs abandoned
  overlapped  \* history: two instances have run at once

tables == <<schema, status, digest, auctions, market, audit>>
locals == <<run, left, frame>>
vars == <<tables, book, legacy, pc, locals, abandoned, overlapped>>

Date == 1..LastDate
Source == [date: Date, sha256: Digest]
Row == 1..LastDate

ASSUME SourceAssumption == None \notin Source

Listed(s) == {r \in Row : r <= s.date /\ s.date <= r + Window}

\* PrismaSourceState: one source a date.
States == {k \in SUBSET Source : \A s, t \in k : s.date = t.date => s = t}

Latest(k) == {s \in k : \A t \in k : t.date <= s.date}

Auctions == [Row -> Source \cup {None}]

MarketColumn == [Row -> {"absent", "blank", "canonical", "filled", "other"}]

\* A workbook has the columns of the table, those of the market included.
Workbook == [rows: Auctions, market: MarketColumn]

Table == [rows |-> auctions, market |-> market]

\* What the auction table holds when the sources of k were imported in order.
Imported(k) ==
  [r \in Row |-> LET writers == Latest({s \in k : r \in Listed(s)})
                 IN IF writers = {} THEN None ELSE CHOOSE s \in writers : TRUE]

Place == {"idle", "open", "unresolved", "state", "adopt", "begin", "insert",
          "reread", "check", "apply", "validate", "export", "publish",
          "finalize", "reexport", "republish"}

Unresolved(d) == status[d] \in {"pending", "data_committed"}
Accepted == {s \in Source : status[s.date] = "accepted" /\ digest[s.date] = s.sha256}

\* A database of the version before the ledger, or a new one.
Init ==
  /\ schema \in Schemas
  /\ legacy \in {k \in States : Cardinality(k) <= MaxLegacy}
  /\ auctions = Imported(legacy)
  /\ market \in {m \in [Row -> Markets \cup {"absent"}] :
                   \A r \in Row : (m[r] = "absent") <=> (auctions[r] = None)}
  /\ status = [d \in Date |-> "none"]
  /\ digest = [d \in Date |-> None]
  /\ audit = [r \in Row |-> "none"]
  /\ book \in {None, Table}
  /\ pc = [i \in Instance |-> "idle"]
  /\ run = [i \in Instance |-> None]
  /\ left = [i \in Instance |-> {}]
  /\ frame = [i \in Instance |-> None]
  /\ abandoned = 0
  /\ overlapped = FALSE

Goto(i, place) == pc' = [pc EXCEPT ![i] = place]

\* A run returns or raises: its local state is gone.
Finish(i) ==
  /\ Goto(i, "idle")
  /\ run' = [run EXCEPT ![i] = None]
  /\ left' = [left EXCEPT ![i] = {}]
  /\ frame' = [frame EXCEPT ![i] = None]

SetStatus(d, value) == status' = [status EXCEPT ![d] = value]

-----------------------------------------------------------------------------
(* A run up to the lifecycle decision. *)

\* The user selects an export of the detailed contract and its date.
Start(i, s) ==
  /\ pc[i] = "idle"
  /\ run' = [run EXCEPT ![i] = s]
  /\ Goto(i, "open")
  /\ overlapped' = (overlapped \/ \E j \in Instance \ {i} : pc[j] # "idle")
  /\ UNCHANGED <<tables, book, legacy, left, frame, abandoned>>

\* AuctionStorage(): one BEGIN IMMEDIATE transaction.
OpenStorage(i) ==
  /\ pc[i] = "open"
  /\ IF schema = "unknown" THEN Finish(i) /\ UNCHANGED schema
     ELSE schema' = "current" /\ Goto(i, "unresolved") /\ UNCHANGED locals
  /\ UNCHANGED <<status, digest, auctions, market, audit, book, legacy,
                 abandoned, overlapped>>

\* Mutant: other dates are imported while one is unresolved.
IgnoreUnresolved(i) ==
  /\ pc[i] = "unresolved"
  /\ Goto(i, "state")
  /\ UNCHANGED <<tables, book, legacy, locals, abandoned, overlapped>>

CheckUnresolved(i) ==
  /\ pc[i] = "unresolved"
  /\ IF \E d \in Date \ {run[i].date} : Unresolved(d)
     THEN Finish(i)
     ELSE Goto(i, "state") /\ UNCHANGED locals
  /\ UNCHANGED <<tables, book, legacy, abandoned, overlapped>>

\* Mutant: stale sources are let through.
RefuseConflictOnly(s, k) == (\E t \in k : t.date = s.date) /\ s \notin k

\* evaluate_prisma_source_update refuses a source that conflicts with the
\* accepted one of its date, or is older than the latest.
Refused(s, k) ==
  IF \E t \in k : t.date = s.date
  THEN s \notin k
  ELSE \E t \in k : s.date < t.date

\* Future dates and invalid files are refused too: see Abandon.
Evaluate(i) == IF Refused(run[i], Accepted) THEN Finish(i)
               ELSE Goto(i, "begin") /\ UNCHANGED locals

\* Mutant: the legacy state is ignored.
ReadLedgerOnly(i) ==
  /\ pc[i] = "state"
  /\ Evaluate(i)
  /\ UNCHANGED <<tables, book, legacy, abandoned, overlapped>>

\* _state: the legacy state counts only while the ledger is empty.
ReadState(i) ==
  /\ pc[i] = "state"
  /\ IF \A d \in Date : status[d] = "none"
     THEN left' = [left EXCEPT ![i] = legacy] /\ Goto(i, "adopt") /\ UNCHANGED <<run, frame>>
     ELSE Evaluate(i)
  /\ UNCHANGED <<tables, book, legacy, abandoned, overlapped>>

\* import_legacy_operation, in date order: INSERT OR IGNORE.
AdoptLegacy(i, s) ==
  /\ pc[i] = "adopt"
  /\ s \in left[i] /\ \A t \in left[i] : s.date <= t.date
  /\ IF status[s.date] = "none"
     THEN /\ SetStatus(s.date, "accepted")
          /\ digest' = [digest EXCEPT ![s.date] = s.sha256]
     ELSE UNCHANGED <<status, digest>>
  /\ left' = [left EXCEPT ![i] = @ \ {s}]
  /\ UNCHANGED <<schema, auctions, market, audit, book, legacy, pc, run, frame,
                 abandoned, overlapped>>

LegacyAdopted(i) ==
  /\ pc[i] = "adopt" /\ left[i] = {}
  /\ Evaluate(i)
  /\ UNCHANGED <<tables, book, legacy, abandoned, overlapped>>

-----------------------------------------------------------------------------
(* The operation: begin, apply, export, finalize. *)

\* Where a run goes on with the operation it has read.
Continuation(st) == CASE st = "accepted"       -> "validate"
                      [] st = "pending"        -> "check"
                      [] st = "data_committed" -> "export"

\* Mutant: an operation left unresolved is not taken up again.
BeginNewOnly(i) ==
  LET s == run[i] IN
  /\ pc[i] = "begin"
  /\ CASE status[s.date] = "none"     -> Goto(i, "insert") /\ UNCHANGED locals
       [] status[s.date] = "accepted" -> Goto(i, "validate") /\ UNCHANGED locals
       [] OTHER -> Finish(i)
  /\ UNCHANGED <<tables, book, legacy, abandoned, overlapped>>

\* begin_operation reads the date's operation.
BeginOperation(i) ==
  LET s == run[i] IN
  /\ pc[i] = "begin"
  /\ CASE status[s.date] = "none"        -> Goto(i, "insert") /\ UNCHANGED locals
       [] digest[s.date] \in Digest \ {s.sha256} -> Finish(i)
       [] OTHER -> Goto(i, Continuation(status[s.date])) /\ UNCHANGED locals
  /\ UNCHANGED <<tables, book, legacy, abandoned, overlapped>>

\* Mutant: INSERT OR REPLACE.
InsertOrReplace(i) ==
  LET s == run[i] IN
  /\ pc[i] = "insert"
  /\ SetStatus(s.date, "pending")
  /\ digest' = [digest EXCEPT ![s.date] = s.sha256]
  /\ Goto(i, "reread")
  /\ UNCHANGED <<schema, auctions, market, audit, book, legacy, locals,
                 abandoned, overlapped>>

\* UNIQUE(source_date) refuses the insert when another run was faster.
InsertOperation(i) ==
  LET s == run[i] IN
  /\ pc[i] = "insert"
  /\ IF status[s.date] = "none"
     THEN /\ SetStatus(s.date, "pending")
          /\ digest' = [digest EXCEPT ![s.date] = s.sha256]
          /\ Goto(i, "reread")
          /\ UNCHANGED locals
     ELSE Finish(i) /\ UNCHANGED <<status, digest>>
  /\ UNCHANGED <<schema, auctions, market, audit, book, legacy, abandoned, overlapped>>

RereadOperation(i) ==
  /\ pc[i] = "reread"
  /\ Goto(i, Continuation(status[run[i].date]))
  /\ UNCHANGED <<tables, book, legacy, locals, abandoned, overlapped>>

\* apply_operation reads the status before its first write takes the lock.
CheckPending(i) ==
  /\ pc[i] = "check"
  /\ Goto(i, IF status[run[i].date] = "pending" THEN "apply" ELSE "export")
  /\ UNCHANGED <<tables, book, legacy, locals, abandoned, overlapped>>

\* _upsert_rows: import_prisma_export has given every row its canonical names.
Upsert(s) ==
  /\ auctions' = [r \in Row |-> IF r \in Listed(s) THEN s ELSE auctions[r]]
  /\ market' = [r \in Row |-> IF r \in Listed(s) THEN "canonical" ELSE market[r]]

\* Mutant: the rows are stored, their operation stays pending.
ApplyRowsOnly(i) ==
  /\ pc[i] = "apply"
  /\ Upsert(run[i])
  /\ Goto(i, "export")
  /\ UNCHANGED <<schema, status, digest, audit, book, legacy, locals,
                 abandoned, overlapped>>

\* Mutant: the operation is accepted before the workbook is published.
ApplyAndAccept(i) ==
  LET s == run[i] IN
  /\ pc[i] = "apply"
  /\ Upsert(s)
  /\ SetStatus(s.date, "accepted")
  /\ Goto(i, "export")
  /\ UNCHANGED <<schema, digest, audit, book, legacy, locals, abandoned, overlapped>>

ApplyOperation(i) ==
  LET s == run[i] IN
  /\ pc[i] = "apply"
  /\ Upsert(s)
  /\ IF status[s.date] = "pending" THEN SetStatus(s.date, "data_committed")
     ELSE UNCHANGED status
  /\ Goto(i, "export")
  /\ UNCHANGED <<schema, digest, audit, book, legacy, locals, abandoned, overlapped>>

ValidateWorkbook(i) ==
  /\ pc[i] = "validate"
  /\ IF book # None THEN Finish(i)
     ELSE Goto(i, "reexport") /\ UNCHANGED locals
  /\ UNCHANGED <<tables, book, legacy, abandoned, overlapped>>

\* export_excel reads the table, then stages, validates and replaces.
ReadRows(i) ==
  /\ pc[i] \in {"export", "reexport"}
  /\ frame' = [frame EXCEPT ![i] = Table]
  /\ Goto(i, IF pc[i] = "export" THEN "publish" ELSE "republish")
  /\ UNCHANGED <<tables, book, legacy, run, left, abandoned, overlapped>>

Publish(i) ==
  /\ pc[i] = "publish"
  /\ book' = frame[i]
  /\ Goto(i, "finalize")
  /\ UNCHANGED <<tables, legacy, locals, abandoned, overlapped>>

\* An exact retry of an accepted source ends here.
Republish(i) ==
  /\ pc[i] = "republish"
  /\ book' = frame[i]
  /\ Finish(i)
  /\ UNCHANGED <<tables, legacy, abandoned, overlapped>>

\* finalize_operation raises when no row was data_committed.
Finalize(i) ==
  /\ pc[i] = "finalize"
  /\ IF status[run[i].date] = "data_committed" THEN SetStatus(run[i].date, "accepted")
     ELSE UNCHANGED status
  /\ Finish(i)
  /\ UNCHANGED <<schema, digest, auctions, market, audit, book, legacy,
                 abandoned, overlapped>>

\* The process dies, or an exception ends the run: SQLite or the file system
\* failed, the source is in the future or invalid, the workbook is locked.
Abandon(i) ==
  /\ pc[i] # "idle" /\ abandoned < MaxAbandoned
  /\ abandoned' = abandoned + 1
  /\ Finish(i)
  /\ UNCHANGED <<tables, book, legacy, overlapped>>

-----------------------------------------------------------------------------
(* Backfill and the world. *)

\* _resolve_historical_market_storage.
Resolve(r) ==
  CASE r \in Unfillable -> "unresolvable"
    [] market[r] = "other" -> "conflict"
    [] market[r] \in {"canonical", "filled"} -> "already_complete"
    [] OTHER -> "updated"

\* backfill_historical_market_storage: one transaction, and no export.
Backfill ==
  LET stored == {r \in Row : auctions[r] # None} IN
  /\ schema = "current"
  /\ audit' = [r \in Row |-> IF r \in stored THEN Resolve(r) ELSE "none"]
  /\ market' = [r \in Row |-> IF r \in stored /\ Resolve(r) = "updated"
                              THEN "filled" ELSE market[r]]
  /\ UNCHANGED <<schema, status, digest, auctions, book, legacy, pc, locals,
                 abandoned, overlapped>>

\* The user deletes the workbook, or it is damaged.
LoseWorkbook ==
  /\ book # None
  /\ book' = None
  /\ UNCHANGED <<tables, legacy, pc, locals, abandoned, overlapped>>

Step(i) ==
  \/ OpenStorage(i) \/ CheckUnresolved(i) \/ ReadState(i) \/ LegacyAdopted(i)
  \/ \E s \in Source : AdoptLegacy(i, s)
  \/ BeginOperation(i) \/ InsertOperation(i) \/ RereadOperation(i)
  \/ CheckPending(i) \/ ApplyOperation(i) \/ ValidateWorkbook(i)
  \/ ReadRows(i) \/ Publish(i) \/ Republish(i) \/ Finalize(i)

Next ==
  \/ \E i \in Instance : Step(i) \/ Abandon(i) \/ \E s \in Source : Start(i, s)
  \/ Backfill \/ LoseWorkbook

Spec == Init /\ [][Next]_vars

\* The user selects the source of the unresolved operation again.
Retry(i) == \E s \in Source : /\ Unresolved(s.date) /\ digest[s.date] = s.sha256
                              /\ Start(i, s)

FairSpec ==
  /\ Spec
  /\ WF_vars(\E i \in Instance : Step(i))
  /\ SF_vars(\E i \in Instance : Retry(i))

-----------------------------------------------------------------------------
TypeOK ==
  /\ schema \in {"absent", "experimental", "current", "unknown"}
  /\ status \in [Date -> {"none", "pending", "data_committed", "accepted"}]
  /\ digest \in [Date -> Digest \cup {None}]
  /\ \A d \in Date : (status[d] = "none") <=> (digest[d] = None)
  /\ auctions \in Auctions
  /\ market \in MarketColumn
  /\ audit \in [Row -> {"none", "unresolvable", "conflict", "already_complete", "updated"}]
  /\ book \in Workbook \cup {None}
  /\ legacy \in States
  /\ pc \in [Instance -> Place]
  /\ run \in [Instance -> Source \cup {None}]
  /\ left \in [Instance -> SUBSET Source]
  /\ frame \in [Instance -> Workbook \cup {None}]
  /\ abandoned \in 0..MaxAbandoned
  /\ overlapped \in BOOLEAN

\* No row of an import is in the table before its operation is committed, or
\* without it, and none of another content of the same date
\* (begin_operation, apply_operation).
RowsFromLedger ==
  \A r \in Row : auctions[r] # None =>
    LET s == auctions[r] IN
    s \in legacy \/ ( /\ status[s.date] \in {"data_committed", "accepted"}
                      /\ digest[s.date] = s.sha256 )

\* While the instances take turns, an import never leaves the rows of an older
\* source where a newer one has been committed (evaluate_prisma_source_update).
NewestWins ==
  overlapped \/
  \A d \in Date : status[d] \in {"data_committed", "accepted"} =>
    \A r \in Listed([date |-> d, sha256 |-> digest[d]]) :
      auctions[r] # None /\ auctions[r].date >= d

\* w shows the rows of the table, and their markets but for those that a backfill
\* has filled since.
Shows(w) ==
  w.rows = auctions /\ \A r \in Row : market[r] \in {w.market[r], "filled"}

\* While the instances take turns, a workbook that validate_excel accepts shows
\* the auction table unless an operation is still to be accepted: an exact
\* retry, which keeps such a workbook, keeps one that lacks nothing but what
\* backfills have filled since its export.
BookShowsAccepted ==
  overlapped \/ book = None \/ Shows(book) \/ \E d \in Date : status[d] = "data_committed"

\* A source whose operation is unresolved is neither shut out by another
\* unresolved one nor stale, so that selecting it again can resolve it.
CanRetry ==
  \A d \in Date : Unresolved(d) =>
    /\ ~Refused([date |-> d, sha256 |-> digest[d]], Accepted)
    /\ \A e \in Date \ {d} : ~Unresolved(e)

\* That holds while the instances take turns; two that overlap may both begin
\* an operation and then refuse each other.
Retryable == overlapped \/ CanRetry

\* Once its adoption began, the legacy state is never read again, so it must
\* arrive whole before another content of an accepted date can be begun.  It
\* does unless a run was abandoned or overlapped by another, and even then the
\* oldest source, adopted first, is not replaced (_state).
LegacyNotReplaced ==
  \A s \in legacy :
    (abandoned = 0 /\ ~overlapped) \/ (\A t \in legacy : s.date <= t.date) =>
      digest[s.date] \in {s.sha256, None}

\* A row that the last backfill reported complete stays complete, whatever is
\* imported over it since (_import_row leaves the values empty, _enrich_row
\* fills them).
FilledStaysFilled ==
  \A r \in Row : audit[r] \in {"updated", "already_complete"} =>
    market[r] \in {"canonical", "filled"}

Progress == << "none", "pending", "data_committed", "accepted" >>

\* What is recorded of an operation is not taken back: its digest stays and its
\* status only advances, even when two runs apply the same operation.
RecordsKept ==
  [][ \A d \in Date : status[d] # "none" =>
        /\ digest'[d] = digest[d]
        /\ \E m, n \in 1..4 : m <= n /\ status[d] = Progress[m] /\ status'[d] = Progress[n]
    ]_vars

\* While the instances take turns and the user keeps selecting the unresolved
\* source, no operation stays unresolved, wherever earlier runs ended.
RetryResolves ==
  [](~overlapped) => ((\E d \in Date : Unresolved(d)) ~> \A d \in Date : ~Unresolved(d))

=============================================================================
