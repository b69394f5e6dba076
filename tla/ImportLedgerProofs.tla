------------------------- MODULE ImportLedgerProofs -------------------------
(***************************************************************************)
(* Proofs about ImportLedger, for every number of instances, dates and     *)
(* digests, every window and every bound.                                  *)
(***************************************************************************)
EXTENDS ImportLedger, WellFoundedInduction, TLAPS

\* Places a run reaches with the operation of its date recorded.
Operating == {"reread", "check", "apply", "validate", "export", "publish",
              "finalize", "reexport", "republish"}

\* Places a run reaches once the rows of its source have been stored.
Stored == {"export", "publish", "finalize"}

\* What a run that is under way knows of the ledger.
RunKnows(i) ==
  /\ pc[i] # "idle" => run[i] \in Source
  /\ left[i] \subseteq legacy
  /\ pc[i] \in Operating =>
       status[run[i].date] # "none" /\ digest[run[i].date] = run[i].sha256
  /\ pc[i] \in Stored => status[run[i].date] \in {"data_committed", "accepted"}
  /\ pc[i] \in {"publish", "republish"} => frame[i] \in Workbook

LedgerInv == /\ TypeOK
             /\ \A i \in Instance : RunKnows(i)
             /\ RowsFromLedger

-----------------------------------------------------------------------------
(* Types. *)

LEMMA ImportedType == ASSUME NEW k \in SUBSET Source
                      PROVE  /\ Imported(k) \in Auctions
                             /\ \A r \in Row : Imported(k)[r] \in k \cup {None}
  <1>1. ASSUME NEW r \in Row PROVE Imported(k)[r] \in k \cup {None}
    <2> DEFINE writers == Latest({s \in k : r \in Listed(s)})
    <2>1. writers \subseteq k
      BY DEF Latest
    <2>2. Imported(k)[r] = IF writers = {} THEN None ELSE CHOOSE s \in writers : TRUE
      BY DEF Imported
    <2>3. QED
      BY <2>1, <2>2
  <1>2. QED
    BY <1>1 DEF Imported, Auctions

LEMMA InitInv == Init => LedgerInv
  <1> SUFFICES ASSUME Init PROVE LedgerInv
    OBVIOUS
  <1>1. legacy \in States /\ legacy \in SUBSET Source
    BY DEF Init, States
  <1>2. auctions \in Auctions /\ \A r \in Row : auctions[r] \in legacy \cup {None}
    BY <1>1, ImportedType DEF Init
  <1>3. market \in MarketColumn
    BY FoundAssumption DEF Init, MarketColumn
  <1>4. TypeOK
    <2>1. book \in Workbook \cup {None}
      BY <1>2, <1>3 DEF Init, Table, Workbook
    <2>2. schema \in {"absent", "experimental", "current", "unknown"}
      BY FoundAssumption DEF Init
    <2>3. abandoned \in 0..MaxAbandoned
      BY DateAssumption DEF Init
    <2>4. pc \in [Instance -> Place]
      BY DEF Init, Place
    <2>5. /\ status \in [Date -> {"none", "pending", "data_committed", "accepted"}]
          /\ digest \in [Date -> Digest \cup {None}]
          /\ \A d \in Date : (status[d] = "none") <=> (digest[d] = None)
          /\ audit \in [Row -> {"none", "unresolvable", "conflict", "already_complete", "updated"}]
      BY DEF Init
    <2>6. /\ run \in [Instance -> Source \cup {None}]
          /\ left \in [Instance -> SUBSET Source]
          /\ frame \in [Instance -> Workbook \cup {None}]
          /\ overlapped \in BOOLEAN
      BY DEF Init
    <2>7. QED
      BY <1>1, <1>2, <1>3, <2>1, <2>2, <2>3, <2>4, <2>5, <2>6 DEF TypeOK
  <1>5. \A i \in Instance : RunKnows(i)
    BY DEF Init, RunKnows, Operating, Stored
  <1>6. QED
    BY <1>2, <1>4, <1>5 DEF LedgerInv, RowsFromLedger

\* A step that only ends a run or sends it on.
LEMMA GoesOnType ==
  ASSUME TypeOK, NEW i \in Instance, UNCHANGED <<tables, book, legacy, abandoned, overlapped>>,
         Finish(i) \/ (UNCHANGED locals /\ \E place \in Place : Goto(i, place))
  PROVE  TypeOK'
  <1>1. pc' \in [Instance -> Place]
    BY DEF TypeOK, Finish, Goto, Place
  <1>2. /\ run' \in [Instance -> Source \cup {None}]
        /\ left' \in [Instance -> SUBSET Source]
        /\ frame' \in [Instance -> Workbook \cup {None}]
    BY DEF TypeOK, Finish, locals
  <1>3. QED
    BY <1>1, <1>2 DEF TypeOK, tables

LEMMA GoingOnType ==
  ASSUME LedgerInv, NEW i \in Instance,
         \/ CheckUnresolved(i) \/ LegacyAdopted(i) \/ BeginOperation(i)
         \/ InsertOperation(i) /\ status[run[i].date] # "none"
  PROVE  TypeOK'
  <1>1. TypeOK /\ {"state", "begin", "insert"} \subseteq Place
    BY DEF LedgerInv, Place
  <1>2. UNCHANGED <<tables, book, legacy, abandoned, overlapped>>
    BY DEF CheckUnresolved, LegacyAdopted, BeginOperation, InsertOperation, tables
  <1>3. ASSUME BeginOperation(i), status[run[i].date] # "none"
        PROVE  Continuation(status[run[i].date]) \in Place
    <2>1. status[run[i].date] \in {"pending", "data_committed", "accepted"}
      BY <1>3 DEF BeginOperation, LedgerInv, RunKnows, TypeOK, Source, Place
    <2>2. QED
      BY <2>1 DEF Continuation, Place
  <1>4. Finish(i) \/ (UNCHANGED locals /\ \E place \in Place : Goto(i, place))
    <2>1. CASE CheckUnresolved(i) \/ LegacyAdopted(i)
      BY <1>1, <2>1 DEF CheckUnresolved, LegacyAdopted, Evaluate, Finish, Goto, locals
    <2>2. CASE BeginOperation(i)
      BY <1>1, <1>3, <2>2 DEF BeginOperation, Finish, Goto, locals
    <2>3. CASE InsertOperation(i) /\ status[run[i].date] # "none"
      BY <2>3 DEF InsertOperation, Finish, Goto
    <2>4. QED
      BY <2>1, <2>2, <2>3
  <1>5. QED
    BY <1>1, <1>2, <1>4, GoesOnType

LEMMA RunType ==
  ASSUME LedgerInv, NEW i \in Instance,
         Step(i) \/ Abandon(i) \/ \E s \in Source : Start(i, s)
  PROVE  TypeOK'
  <1> USE DigestAssumption, DateAssumption
      DEF LedgerInv, TypeOK, RunKnows, tables, locals, Place, Operating, Source, States
  <1>1. CASE \E s \in Source : Start(i, s)
    BY <1>1 DEF Start, Goto
  <1>2. CASE OpenStorage(i)
    <2>1. CASE schema = "unknown"
      BY <1>2, <2>1 DEF OpenStorage, Goto, Finish
    <2>2. CASE schema # "unknown"
      BY <1>2, <2>2 DEF OpenStorage, Goto
    <2>3. QED
      BY <2>1, <2>2
  <1>3. CASE CheckUnresolved(i)
    BY <1>3, GoingOnType
  <1>4. CASE ReadState(i)
    BY <1>4 DEF ReadState, Goto, Finish, Evaluate
  <1>5. CASE \E s \in Source : AdoptLegacy(i, s)
    BY <1>5 DEF AdoptLegacy, SetStatus
  <1>6. CASE LegacyAdopted(i)
    BY <1>6, GoingOnType
  <1>7. CASE BeginOperation(i)
    BY <1>7, GoingOnType
  <1>8. CASE InsertOperation(i)
    <2>1. CASE status[run[i].date] = "none"
      BY <1>8, <2>1 DEF InsertOperation, Goto, SetStatus
    <2>2. CASE status[run[i].date] # "none"
      BY <1>8, <2>2, GoingOnType
    <2>3. QED
      BY <2>1, <2>2
  <1>9. CASE RereadOperation(i)
    BY <1>9 DEF RereadOperation, Goto, Continuation
  <1>10. CASE CheckPending(i)
    BY <1>10 DEF CheckPending, Goto
  <1>11. CASE ApplyOperation(i)
    <2>1. run[i] \in Source
      BY <1>11 DEF ApplyOperation
    <2>2. /\ auctions' \in Auctions
          /\ market' \in MarketColumn
      BY <1>11, <2>1 DEF ApplyOperation, Upsert, Auctions, MarketColumn
    <2>3. /\ status' \in [Date -> {"none", "pending", "data_committed", "accepted"}]
          /\ \A d \in Date : (status'[d] = "none") <=> (digest'[d] = None)
      BY <1>11, <2>1 DEF ApplyOperation, SetStatus
    <2>4. QED
      BY <1>11, <2>2, <2>3 DEF ApplyOperation, Goto
  <1>12. CASE ValidateWorkbook(i)
    BY SMTT(30), <1>12 DEF ValidateWorkbook, Goto, Finish
  <1>13. CASE ReadRows(i)
    BY <1>13 DEF ReadRows, Goto, Table, Workbook
  <1>14. CASE Publish(i)
    BY <1>14 DEF Publish, Goto
  <1>15. CASE Republish(i)
    BY <1>15 DEF Republish, Goto, Finish
  <1>16. CASE Finalize(i)
    BY <1>16 DEF Finalize, Goto, Finish, SetStatus
  <1>17. CASE Abandon(i)
    BY <1>17 DEF Abandon, Finish, Goto
  <1>18. QED
    BY <1>1, <1>2, <1>3, <1>4, <1>5, <1>6, <1>7, <1>8, <1>9, <1>10, <1>11, <1>12, <1>13, <1>14, <1>15, <1>16, <1>17 DEF Step

LEMMA RunRuns ==
  ASSUME LedgerInv, NEW i \in Instance,
         Step(i) \/ Abandon(i) \/ \E s \in Source : Start(i, s),
         NEW j \in Instance
  PROVE  RunKnows(j)'
  <1> USE DigestAssumption
      DEF LedgerInv, TypeOK, RunKnows, tables, locals, Operating, Stored, Source
  <1>1. CASE \E s \in Source : Start(i, s)
    BY <1>1 DEF Start, Goto
  <1>2. CASE OpenStorage(i)
    BY <1>2 DEF OpenStorage, Goto, Finish
  <1>3. CASE CheckUnresolved(i)
    BY <1>3 DEF CheckUnresolved, Goto, Finish
  <1>4. CASE ReadState(i)
    BY <1>4 DEF ReadState, Goto, Finish, Evaluate
  <1>5. CASE \E s \in Source : AdoptLegacy(i, s)
    BY <1>5 DEF AdoptLegacy, SetStatus
  <1>6. CASE LegacyAdopted(i)
    BY <1>6 DEF LegacyAdopted, Goto, Finish, Evaluate
  <1>7. CASE BeginOperation(i)
    BY <1>7 DEF BeginOperation, Goto, Finish, Continuation
  <1>8. CASE InsertOperation(i)
    BY <1>8 DEF InsertOperation, Goto, Finish, SetStatus
  <1>9. CASE RereadOperation(i)
    BY <1>9 DEF RereadOperation, Goto, Continuation
  <1>10. CASE CheckPending(i)
    BY <1>10 DEF CheckPending, Goto
  <1>11. CASE ApplyOperation(i)
    BY <1>11 DEF ApplyOperation, Goto, Upsert, SetStatus
  <1>12. CASE ValidateWorkbook(i)
    BY <1>12 DEF ValidateWorkbook, Goto, Finish
  <1>13. CASE ReadRows(i)
    BY <1>13 DEF ReadRows, Goto, Table, Workbook
  <1>14. CASE Publish(i)
    BY <1>14 DEF Publish, Goto
  <1>15. CASE Republish(i)
    BY <1>15 DEF Republish, Goto, Finish
  <1>16. CASE Finalize(i)
    BY <1>16 DEF Finalize, Goto, Finish, SetStatus
  <1>17. CASE Abandon(i)
    BY <1>17 DEF Abandon, Finish, Goto
  <1>18. QED
    BY <1>1, <1>2, <1>3, <1>4, <1>5, <1>6, <1>7, <1>8, <1>9, <1>10, <1>11, <1>12, <1>13, <1>14, <1>15, <1>16, <1>17 DEF Step

LEMMA RunRows ==
  ASSUME LedgerInv, NEW i \in Instance,
         Step(i) \/ Abandon(i) \/ \E s \in Source : Start(i, s)
  PROVE  RowsFromLedger'
  <1> USE DigestAssumption
      DEF LedgerInv, TypeOK, RunKnows, RowsFromLedger, tables, locals, Operating, Stored, Source, Auctions
  <1>1. CASE \E s \in Source : Start(i, s)
    BY <1>1 DEF Start, Goto
  <1>2. CASE OpenStorage(i)
    BY <1>2 DEF OpenStorage, Goto, Finish
  <1>3. CASE CheckUnresolved(i)
    BY <1>3 DEF CheckUnresolved, Goto, Finish
  <1>4. CASE ReadState(i)
    BY <1>4 DEF ReadState, Goto, Finish, Evaluate
  <1>5. CASE \E s \in Source : AdoptLegacy(i, s)
    BY <1>5 DEF AdoptLegacy, SetStatus
  <1>6. CASE LegacyAdopted(i)
    BY <1>6 DEF LegacyAdopted, Goto, Finish, Evaluate
  <1>7. CASE BeginOperation(i)
    BY <1>7 DEF BeginOperation, Goto, Finish, Continuation
  <1>8. CASE InsertOperation(i)
    BY <1>8 DEF InsertOperation, Goto, Finish, SetStatus
  <1>9. CASE RereadOperation(i)
    BY <1>9 DEF RereadOperation, Goto, Continuation
  <1>10. CASE CheckPending(i)
    BY <1>10 DEF CheckPending, Goto
  <1>11. CASE ApplyOperation(i)
    BY <1>11 DEF ApplyOperation, Goto, Upsert, SetStatus
  <1>12. CASE ValidateWorkbook(i)
    BY <1>12 DEF ValidateWorkbook, Goto, Finish
  <1>13. CASE ReadRows(i)
    BY <1>13 DEF ReadRows, Goto
  <1>14. CASE Publish(i)
    BY <1>14 DEF Publish, Goto
  <1>15. CASE Republish(i)
    BY <1>15 DEF Republish, Goto, Finish
  <1>16. CASE Finalize(i)
    BY <1>16 DEF Finalize, Goto, Finish, SetStatus
  <1>17. CASE Abandon(i)
    BY <1>17 DEF Abandon, Finish, Goto
  <1>18. QED
    BY <1>1, <1>2, <1>3, <1>4, <1>5, <1>6, <1>7, <1>8, <1>9, <1>10, <1>11, <1>12, <1>13, <1>14, <1>15, <1>16, <1>17 DEF Step

LEMMA BackfillInv == ASSUME LedgerInv, Backfill PROVE LedgerInv'
  <1> USE DEF Backfill
  <1>1. audit' \in [Row -> {"none", "unresolvable", "conflict", "already_complete", "updated"}]
    BY DEF Resolve
  <1>2. market' \in MarketColumn
    BY DEF LedgerInv, TypeOK, MarketColumn
  <1>3. TypeOK'
    BY <1>1, <1>2 DEF LedgerInv, TypeOK, locals
  <1>4. \A i \in Instance : RunKnows(i)'
    BY DEF LedgerInv, RunKnows, locals
  <1>5. QED
    BY <1>3, <1>4 DEF LedgerInv, RowsFromLedger, Source

LEMMA OtherInv == ASSUME LedgerInv, LoseWorkbook \/ UNCHANGED vars PROVE LedgerInv'
  <1> USE DEF LoseWorkbook, vars, tables, locals
  <1>1. TypeOK'
    BY DEF LedgerInv, TypeOK
  <1>2. \A i \in Instance : RunKnows(i)'
    BY DEF LedgerInv, RunKnows
  <1>3. QED
    BY <1>1, <1>2 DEF LedgerInv, RowsFromLedger

\* What every step preserves about the ledger, the table and the runs.
THEOREM LedgerConsistent == Spec => []LedgerInv
  <1>1. LedgerInv /\ [Next]_vars => LedgerInv'
    <2> SUFFICES ASSUME LedgerInv, [Next]_vars PROVE LedgerInv'
      OBVIOUS
    <2>1. ASSUME NEW i \in Instance,
                 Step(i) \/ Abandon(i) \/ \E s \in Source : Start(i, s)
          PROVE  LedgerInv'
      BY <2>1, RunType, RunRuns, RunRows DEF LedgerInv
    <2>2. QED
      BY <2>1, BackfillInv, OtherInv DEF Next
  <1>2. QED
    BY InitInv, <1>1, PTL DEF Spec

\* Every variable keeps its type, however the runs interleave.
THEOREM TypeCorrect == Spec => []TypeOK
  BY LedgerConsistent, PTL DEF LedgerInv

\* The auction table never holds rows of an operation that is not committed.
THEOREM RowsRecorded == Spec => []RowsFromLedger
  BY LedgerConsistent, PTL DEF LedgerInv

-----------------------------------------------------------------------------
(* The ledger. *)

\* A record of the ledger as a step may change it.
Recorded(d) ==
  status[d] # "none" =>
    /\ digest'[d] = digest[d]
    /\ \E m, n \in 1..4 : m <= n /\ status[d] = Progress[m] /\ status'[d] = Progress[n]

LEMMA Advance ==
  ASSUME NEW d \in Date, digest'[d] = digest[d],
         \/ /\ status[d] \in {"none", "pending", "data_committed", "accepted"}
            /\ status'[d] = status[d]
         \/ status[d] = "pending" /\ status'[d] = "data_committed"
         \/ status[d] = "data_committed" /\ status'[d] = "accepted"
  PROVE  Recorded(d)
  <1>1. /\ Progress[1] = "none" /\ Progress[2] = "pending"
        /\ Progress[3] = "data_committed" /\ Progress[4] = "accepted"
    BY DEF Progress
  <1>2. \E m, n \in 1..4 : m <= n /\ status[d] = Progress[m] /\ status'[d] = Progress[n]
    <2>1. CASE status[d] \in {"none", "pending", "data_committed", "accepted"}
               /\ status'[d] = status[d]
      <3>1. PICK m \in 1..4 : status[d] = Progress[m]
        BY <1>1, <2>1
      <3>2. m <= m
        OBVIOUS
      <3>3. QED
        BY <2>1, <3>1, <3>2
    <2>2. CASE status[d] = "pending" /\ status'[d] = "data_committed"
      <3>1. 2 \in 1..4 /\ 3 \in 1..4 /\ 2 <= 3
        OBVIOUS
      <3>2. QED
        BY <1>1, <2>2, <3>1
    <2>3. CASE status[d] = "data_committed" /\ status'[d] = "accepted"
      <3>1. 3 \in 1..4 /\ 4 \in 1..4 /\ 3 <= 4
        OBVIOUS
      <3>2. QED
        BY <1>1, <2>3, <3>1
    <2>4. QED
      BY <2>1, <2>2, <2>3
  <1>3. QED
    BY <1>2 DEF Recorded

LEMMA RunRecords ==
  ASSUME LedgerInv, NEW i \in Instance,
         Step(i) \/ Abandon(i) \/ \E s \in Source : Start(i, s),
         NEW d \in Date, status[d] # "none"
  PROVE  /\ digest'[d] = digest[d]
         /\ \/ status'[d] = status[d]
            \/ status[d] = "pending" /\ status'[d] = "data_committed"
            \/ status[d] = "data_committed" /\ status'[d] = "accepted"
  <1> USE DEF LedgerInv, TypeOK, RunKnows, tables, locals, Source
  <1>1. CASE \E s \in Source : Start(i, s)
    BY <1>1 DEF Start, Goto
  <1>2. CASE OpenStorage(i)
    BY <1>2 DEF OpenStorage, Goto, Finish
  <1>3. CASE CheckUnresolved(i)
    BY <1>3 DEF CheckUnresolved, Goto, Finish
  <1>4. CASE ReadState(i)
    BY <1>4 DEF ReadState, Goto, Finish, Evaluate
  <1>5. CASE \E s \in Source : AdoptLegacy(i, s)
    BY <1>5 DEF AdoptLegacy, SetStatus
  <1>6. CASE LegacyAdopted(i)
    BY <1>6 DEF LegacyAdopted, Goto, Finish, Evaluate
  <1>7. CASE BeginOperation(i)
    BY <1>7 DEF BeginOperation, Goto, Finish, Continuation
  <1>8. CASE InsertOperation(i)
    BY <1>8 DEF InsertOperation, Goto, Finish, SetStatus
  <1>9. CASE RereadOperation(i)
    BY <1>9 DEF RereadOperation, Goto, Continuation
  <1>10. CASE CheckPending(i)
    BY <1>10 DEF CheckPending, Goto
  <1>11. CASE ApplyOperation(i)
    BY <1>11 DEF ApplyOperation, Goto, Upsert, SetStatus
  <1>12. CASE ValidateWorkbook(i)
    BY <1>12 DEF ValidateWorkbook, Goto, Finish
  <1>13. CASE ReadRows(i)
    BY <1>13 DEF ReadRows, Goto
  <1>14. CASE Publish(i)
    BY <1>14 DEF Publish, Goto
  <1>15. CASE Republish(i)
    BY <1>15 DEF Republish, Goto, Finish
  <1>16. CASE Finalize(i)
    BY <1>16 DEF Finalize, Goto, Finish, SetStatus
  <1>17. CASE Abandon(i)
    BY <1>17 DEF Abandon, Finish, Goto
  <1>18. QED
    BY <1>1, <1>2, <1>3, <1>4, <1>5, <1>6, <1>7, <1>8, <1>9, <1>10, <1>11, <1>12, <1>13, <1>14, <1>15, <1>16, <1>17 DEF Step

\* The digest of an operation never changes, and its status never falls back.
THEOREM RecordsAreKept == Spec => RecordsKept
  <1>1. LedgerInv /\ [Next]_vars => [\A d \in Date : Recorded(d)]_vars
    <2> SUFFICES ASSUME LedgerInv, [Next]_vars, NEW d \in Date, status[d] # "none"
                 PROVE  Recorded(d)
      BY DEF Recorded
    <2>1. status[d] \in {"none", "pending", "data_committed", "accepted"}
      BY DEF LedgerInv, TypeOK
    <2>2. ASSUME NEW i \in Instance,
                 Step(i) \/ Abandon(i) \/ \E s \in Source : Start(i, s)
          PROVE  Recorded(d)
      BY <2>1, <2>2, RunRecords, Advance
    <2>3. CASE Backfill \/ LoseWorkbook \/ UNCHANGED vars
      <3>1. UNCHANGED <<status, digest>>
        BY <2>3 DEF Backfill, LoseWorkbook, vars, tables
      <3>2. QED
        BY <2>1, <3>1, Advance
    <2>4. QED
      BY <2>2, <2>3 DEF Next
  <1>2. QED
    BY <1>1, LedgerConsistent, PTL DEF Spec, RecordsKept, Recorded

-----------------------------------------------------------------------------
(* Backfill. *)

LEMMA MarketStep ==
  ASSUME LedgerInv, FilledStaysFilled, NEW i \in Instance,
         Step(i) \/ Abandon(i) \/ \E s \in Source : Start(i, s)
  PROVE  FilledStaysFilled'
  <1> USE DEF FilledStaysFilled, LedgerInv, TypeOK, MarketColumn, tables, locals
  <1>1. CASE \E s \in Source : Start(i, s)
    BY <1>1 DEF Start, Goto
  <1>2. CASE OpenStorage(i)
    BY <1>2 DEF OpenStorage, Goto, Finish
  <1>3. CASE CheckUnresolved(i)
    BY <1>3 DEF CheckUnresolved, Goto, Finish
  <1>4. CASE ReadState(i)
    BY <1>4 DEF ReadState, Goto, Finish, Evaluate
  <1>5. CASE \E s \in Source : AdoptLegacy(i, s)
    BY <1>5 DEF AdoptLegacy, SetStatus
  <1>6. CASE LegacyAdopted(i)
    BY <1>6 DEF LegacyAdopted, Goto, Finish, Evaluate
  <1>7. CASE BeginOperation(i)
    BY <1>7 DEF BeginOperation, Goto, Finish, Continuation
  <1>8. CASE InsertOperation(i)
    BY <1>8 DEF InsertOperation, Goto, Finish, SetStatus
  <1>9. CASE RereadOperation(i)
    BY <1>9 DEF RereadOperation, Goto, Continuation
  <1>10. CASE CheckPending(i)
    BY <1>10 DEF CheckPending, Goto
  <1>11. CASE ApplyOperation(i)
    BY <1>11 DEF ApplyOperation, Goto, Upsert, SetStatus
  <1>12. CASE ValidateWorkbook(i)
    BY <1>12 DEF ValidateWorkbook, Goto, Finish
  <1>13. CASE ReadRows(i)
    BY <1>13 DEF ReadRows, Goto
  <1>14. CASE Publish(i)
    BY <1>14 DEF Publish, Goto
  <1>15. CASE Republish(i)
    BY <1>15 DEF Republish, Goto, Finish
  <1>16. CASE Finalize(i)
    BY <1>16 DEF Finalize, Goto, Finish, SetStatus
  <1>17. CASE Abandon(i)
    BY <1>17 DEF Abandon, Finish, Goto
  <1>18. QED
    BY <1>1, <1>2, <1>3, <1>4, <1>5, <1>6, <1>7, <1>8, <1>9, <1>10, <1>11, <1>12, <1>13, <1>14, <1>15, <1>16, <1>17 DEF Step

\* No import empties a value that a backfill found or made complete.
THEOREM FilledIsKept == Spec => []FilledStaysFilled
  <1>1. Init => FilledStaysFilled
    BY DEF Init, FilledStaysFilled
  <1>2. LedgerInv /\ FilledStaysFilled /\ [Next]_vars => FilledStaysFilled'
    <2> SUFFICES ASSUME LedgerInv, FilledStaysFilled, [Next]_vars PROVE FilledStaysFilled'
      OBVIOUS
    <2>1. CASE Backfill
      <3>1. ASSUME NEW r \in Row, audit'[r] \in {"updated", "already_complete"}
            PROVE  market'[r] \in {"canonical", "filled"}
        BY <2>1, <3>1 DEF Backfill, Resolve, LedgerInv, TypeOK, MarketColumn
      <3>2. QED
        BY <3>1 DEF FilledStaysFilled
    <2>2. CASE LoseWorkbook \/ UNCHANGED vars
      BY <2>2 DEF LoseWorkbook, vars, tables, FilledStaysFilled
    <2>3. QED
      BY <2>1, <2>2, MarketStep DEF Next
  <1>3. QED
    BY <1>1, <1>2, LedgerConsistent, PTL DEF Spec

-----------------------------------------------------------------------------
(* Instances that take turns. *)

TakeTurns == \A i, j \in Instance : i # j => pc[i] = "idle" \/ pc[j] = "idle"

\* Places a run reaches once it has found no other date unresolved.
Alone == Place \ {"idle", "open", "unresolved"}

\* What the only run under way can rely on.
LoneRun(i) ==
  /\ pc[i] \in Alone => \A d \in Date \ {run[i].date} : ~Unresolved(d)
  /\ pc[i] = "adopt" => \A d \in Date : ~Unresolved(d)
  /\ pc[i] \in {"begin", "insert"} => ~Refused(run[i], Accepted)
  /\ pc[i] \in {"validate", "reexport", "republish"} => status[run[i].date] = "accepted"
  /\ pc[i] \in {"check", "apply"} => status[run[i].date] = "pending"
  /\ pc[i] \in Stored => status[run[i].date] = "data_committed"
  /\ pc[i] \in {"publish", "republish"} => Shows(frame[i])
  /\ pc[i] = "finalize" => book = None \/ Shows(book)

BookIsCurrent == book = None \/ Shows(book) \/ \E d \in Date : status[d] = "data_committed"

TurnsInv ==
  overlapped \/ ( /\ TakeTurns
                  /\ \A i \in Instance : LoneRun(i)
                  /\ CanRetry
                  /\ BookIsCurrent )

LEMMA OverlapLasts ==
  ASSUME TypeOK, NEW i \in Instance,
         Step(i) \/ Abandon(i) \/ \E s \in Source : Start(i, s), ~overlapped'
  PROVE  ~overlapped
  <1>1. CASE \E s \in Source : Start(i, s)
    BY <1>1, Zenon DEF Start
  <1>2. CASE overlapped' = overlapped
    BY <1>2
  <1>3. QED
    BY <1>1, <1>2
    DEF Step, OpenStorage, CheckUnresolved, ReadState, AdoptLegacy, LegacyAdopted,
        BeginOperation, InsertOperation, RereadOperation, CheckPending, ApplyOperation,
        ValidateWorkbook, ReadRows, Publish, Republish, Finalize, Abandon

LEMMA TurnsTaken ==
  ASSUME LedgerInv, TakeTurns, NEW i \in Instance,
         Step(i) \/ Abandon(i) \/ \E s \in Source : Start(i, s), ~overlapped'
  PROVE  /\ TakeTurns'
         /\ \A j \in Instance \ {i} : pc'[j] = "idle"
  <1> USE DEF LedgerInv, TypeOK, TakeTurns
  <1>1. CASE \E s \in Source : Start(i, s)
    <2>1. PICK s \in Source : Start(i, s)
      BY <1>1
    <2>2. ~overlapped /\ ~\E j \in Instance \ {i} : pc[j] # "idle"
      BY <2>1, Zenon DEF Start
    <2>3. \A j \in Instance \ {i} : pc'[j] = "idle"
      BY <2>1, <2>2 DEF Start, Goto
    <2>4. QED
      BY <2>2, <2>3
  <1>2. CASE OpenStorage(i)
    BY <1>2 DEF OpenStorage, Goto, Finish
  <1>3. CASE CheckUnresolved(i)
    BY <1>3 DEF CheckUnresolved, Goto, Finish
  <1>4. CASE ReadState(i)
    BY <1>4 DEF ReadState, Goto, Finish, Evaluate
  <1>5. CASE \E s \in Source : AdoptLegacy(i, s)
    BY <1>5 DEF AdoptLegacy, SetStatus
  <1>6. CASE LegacyAdopted(i)
    BY <1>6 DEF LegacyAdopted, Goto, Finish, Evaluate
  <1>7. CASE BeginOperation(i)
    BY <1>7 DEF BeginOperation, Goto, Finish, Continuation
  <1>8. CASE InsertOperation(i)
    BY <1>8 DEF InsertOperation, Goto, Finish, SetStatus
  <1>9. CASE RereadOperation(i)
    BY <1>9 DEF RereadOperation, Goto, Continuation
  <1>10. CASE CheckPending(i)
    BY <1>10 DEF CheckPending, Goto
  <1>11. CASE ApplyOperation(i)
    BY <1>11 DEF ApplyOperation, Goto, Upsert, SetStatus
  <1>12. CASE ValidateWorkbook(i)
    BY <1>12 DEF ValidateWorkbook, Goto, Finish
  <1>13. CASE ReadRows(i)
    BY <1>13 DEF ReadRows, Goto
  <1>14. CASE Publish(i)
    BY <1>14 DEF Publish, Goto
  <1>15. CASE Republish(i)
    BY <1>15 DEF Republish, Goto, Finish
  <1>16. CASE Finalize(i)
    BY <1>16 DEF Finalize, Goto, Finish, SetStatus
  <1>17. CASE Abandon(i)
    BY <1>17 DEF Abandon, Finish, Goto
  <1>18. QED
    BY <1>1, <1>2, <1>3, <1>4, <1>5, <1>6, <1>7, <1>8, <1>9, <1>10, <1>11, <1>12, <1>13, <1>14, <1>15, <1>16, <1>17 DEF Step

LEMMA EvaluateAlone ==
  ASSUME LedgerInv, NEW i \in Instance, LoneRun(i), Evaluate(i), pc[i] \in {"state", "adopt"},
         UNCHANGED <<status, digest, auctions, book>>
  PROVE  LoneRun(i)'
  <1> USE DEF LedgerInv, TypeOK, LoneRun, Alone, Place, Stored, locals, Unresolved
  <1>1. Accepted' = Accepted
    BY DEF Accepted
  <1>2. CASE Refused(run[i], Accepted)
    BY <1>2 DEF Evaluate, Goto, Finish
  <1>3. CASE ~Refused(run[i], Accepted)
    BY <1>1, <1>3 DEF Evaluate, Goto
  <1>4. QED
    BY <1>2, <1>3

LEMMA RunStaysAlone ==
  ASSUME LedgerInv, TakeTurns, CanRetry, NEW i \in Instance, LoneRun(i),
         Step(i) \/ Abandon(i) \/ \E s \in Source : Start(i, s)
  PROVE  LoneRun(i)'
  <1> USE DEF LedgerInv, TypeOK, RunKnows, LoneRun, Alone, Place, Operating, Stored,
              tables, locals, Unresolved, Source
  <1>1. CASE \E s \in Source : Start(i, s)
    BY <1>1 DEF Start, Goto
  <1>2. CASE OpenStorage(i)
    BY <1>2 DEF OpenStorage, Goto, Finish
  <1>3. CASE CheckUnresolved(i)
    BY <1>3 DEF CheckUnresolved, Goto, Finish
  <1>4. CASE ReadState(i)
    <2>1. UNCHANGED <<status, digest, auctions, book>>
      BY <1>4 DEF ReadState
    <2>3. Accepted' = Accepted
      BY <2>1 DEF Accepted
    <2>4. CASE \A d \in Date : status[d] = "none"
      BY <1>4, <2>1, <2>4 DEF ReadState, Goto
    <2>5. CASE ~\A d \in Date : status[d] = "none"
      BY <1>4, <2>1, <2>3, <2>5, EvaluateAlone DEF ReadState
    <2>6. QED
      BY <2>4, <2>5
  <1>5. CASE \E s \in Source : AdoptLegacy(i, s)
    BY <1>5 DEF AdoptLegacy, SetStatus
  <1>6. CASE LegacyAdopted(i)
    BY <1>6, EvaluateAlone DEF LegacyAdopted
  <1>7. CASE BeginOperation(i)
    <2>1. UNCHANGED <<status, digest, auctions, book>>
      BY <1>7 DEF BeginOperation
    <2>2. Accepted' = Accepted
      BY <2>1 DEF Accepted
    <2>3. CASE status[run[i].date] = "none"
      <3>1. pc' = [pc EXCEPT ![i] = "insert"] /\ run' = run /\ pc[i] = "begin"
        BY <1>7, <2>3, DigestAssumption DEF BeginOperation, Goto
      <3>2. pc'[i] = "insert"
        BY <3>1
      <3>3. ~Refused(run[i], Accepted)'
        BY <2>2, <3>1
      <3>4. \A d \in Date \ {run[i].date} : ~Unresolved(d)'
        BY <2>1, <3>1
      <3>5. QED
        BY <3>1, <3>2, <3>3, <3>4
    <2>4. CASE digest[run[i].date] \in Digest \ {run[i].sha256}
      BY <1>7, <2>1, <2>4 DEF BeginOperation, Goto, Finish
    <2>5. CASE status[run[i].date] # "none" /\ digest[run[i].date] \notin Digest \ {run[i].sha256}
      <3>1. Goto(i, Continuation(status[run[i].date])) /\ UNCHANGED locals
        BY <1>7, <2>5 DEF BeginOperation
      <3>2. status[run[i].date] \in {"pending", "data_committed", "accepted"}
        BY <1>7, <2>5 DEF BeginOperation
      <3>3. QED
        BY <1>7, <2>1, <3>1, <3>2 DEF BeginOperation, Goto, Continuation
    <2>6. QED
      BY <2>3, <2>4, <2>5
  <1>8. CASE InsertOperation(i)
    BY <1>8 DEF InsertOperation, Goto, Finish, SetStatus
  <1>9. CASE RereadOperation(i)
    BY <1>9 DEF RereadOperation, Goto, Continuation
  <1>10. CASE CheckPending(i)
    BY <1>10 DEF CheckPending, Goto
  <1>11. CASE ApplyOperation(i)
    BY <1>11 DEF ApplyOperation, Goto, Upsert, SetStatus
  <1>12. CASE ValidateWorkbook(i)
    BY <1>12 DEF ValidateWorkbook, Goto, Finish
  <1>13. CASE ReadRows(i)
    <2>1. /\ frame'[i] = Table /\ UNCHANGED <<auctions, market, status, digest, run>>
          /\ pc[i] \in {"export", "reexport"}
          /\ pc'[i] = IF pc[i] = "export" THEN "publish" ELSE "republish"
      BY <1>13 DEF ReadRows, Goto
    <2>2. Shows(frame[i])'
      BY <2>1 DEF Shows, Table
    <2>3. Accepted' = Accepted
      BY <2>1 DEF Accepted
    <2>4. QED
      BY <2>1, <2>2, <2>3
  <1>14. CASE Publish(i)
    <2>1. /\ book' = frame[i] /\ UNCHANGED <<auctions, market, status, digest, run>>
          /\ pc[i] = "publish" /\ pc'[i] = "finalize"
      BY <1>14 DEF Publish, Goto
    <2>2. Shows(book)'
      BY <2>1 DEF Shows
    <2>3. Accepted' = Accepted
      BY <2>1 DEF Accepted
    <2>4. QED
      BY <2>1, <2>2, <2>3
  <1>15. CASE Republish(i)
    BY <1>15 DEF Republish, Goto, Finish
  <1>16. CASE Finalize(i)
    BY <1>16 DEF Finalize, Goto, Finish, SetStatus
  <1>17. CASE Abandon(i)
    BY <1>17 DEF Abandon, Finish, Goto
  <1>18. QED
    BY <1>1, <1>2, <1>3, <1>4, <1>5, <1>6, <1>7, <1>8, <1>9, <1>10, <1>11, <1>12, <1>13, <1>14, <1>15, <1>16, <1>17 DEF Step

LEMMA RunLeavesRetryable ==
  ASSUME LedgerInv, CanRetry, NEW i \in Instance, LoneRun(i),
         Step(i) \/ Abandon(i) \/ \E s \in Source : Start(i, s)
  PROVE  CanRetry'
  <1> USE DEF LedgerInv, TypeOK, RunKnows, Unresolved, Source, tables
  <1>1. CASE UNCHANGED <<status, digest>>
    BY <1>1 DEF CanRetry, Refused, Accepted
  <1>2. CASE \E s \in Source : AdoptLegacy(i, s)
    <2>1. \A d \in Date : ~Unresolved(d)'
      BY <1>2 DEF AdoptLegacy, SetStatus, LoneRun
    <2>2. QED
      BY <2>1 DEF CanRetry
  <1>3. CASE InsertOperation(i) /\ status[run[i].date] = "none"
    <2> DEFINE s == run[i]
    <2>1. s \in Source /\ status' = [status EXCEPT ![s.date] = "pending"]
          /\ digest' = [digest EXCEPT ![s.date] = s.sha256]
      BY <1>3 DEF InsertOperation, SetStatus
    <2>2. Accepted' = Accepted
      BY <1>3, <2>1 DEF Accepted
    <2>3. ~Refused(s, Accepted) /\ \A d \in Date \ {s.date} : ~Unresolved(d)
      BY <1>3 DEF InsertOperation, LoneRun, Alone, Place
    <2>4. \A d \in Date \ {s.date} : ~Unresolved(d)'
      BY <2>1, <2>3
    <2>5. [date |-> s.date, sha256 |-> digest'[s.date]] = s
      BY <2>1
    <2>6. QED
      BY <2>1, <2>2, <2>3, <2>4, <2>5 DEF CanRetry
  <1>4. CASE ApplyOperation(i) /\ status[run[i].date] = "pending"
    <2>1. run[i] \in Source /\ status' = [status EXCEPT ![run[i].date] = "data_committed"]
          /\ digest' = digest
      BY <1>4 DEF ApplyOperation, SetStatus
    <2>2. Accepted' = Accepted
      BY <1>4, <2>1 DEF Accepted
    <2>3. \A d \in Date : Unresolved(d)' <=> Unresolved(d)
      BY <1>4, <2>1
    <2>4. QED
      BY <2>1, <2>2, <2>3 DEF CanRetry
  <1>5. CASE Finalize(i) /\ status[run[i].date] = "data_committed"
    <2>1. run[i] \in Source /\ status' = [status EXCEPT ![run[i].date] = "accepted"]
      BY <1>5 DEF Finalize, SetStatus
    <2>2. \A d \in Date : ~Unresolved(d)'
      BY <1>5, <2>1 DEF Finalize, LoneRun, Alone, Place
    <2>3. QED
      BY <2>2 DEF CanRetry
  <1>6. QED
    BY <1>1, <1>2, <1>3, <1>4, <1>5
    DEF Step, Start, OpenStorage, CheckUnresolved, ReadState, LegacyAdopted, BeginOperation,
        InsertOperation, RereadOperation, CheckPending, ApplyOperation, ValidateWorkbook,
        ReadRows, Publish, Republish, Finalize, Abandon

LEMMA RunLeavesBook ==
  ASSUME LedgerInv, BookIsCurrent, NEW i \in Instance, LoneRun(i),
         Step(i) \/ Abandon(i) \/ \E s \in Source : Start(i, s)
  PROVE  BookIsCurrent'
  <1> USE DEF LedgerInv, TypeOK, RunKnows, Operating, Source, tables
  <1>1. CASE UNCHANGED <<status, auctions, market, book>>
    BY <1>1 DEF BookIsCurrent, Shows
  <1>2. CASE \E s \in Source : AdoptLegacy(i, s)
    BY <1>2 DEF AdoptLegacy, SetStatus, BookIsCurrent, Shows
  <1>3. CASE InsertOperation(i)
    BY <1>3 DEF InsertOperation, SetStatus, BookIsCurrent, Shows
  <1>4. CASE ApplyOperation(i)
    BY <1>4 DEF ApplyOperation, SetStatus, LoneRun, BookIsCurrent
  <1>5. CASE Publish(i) \/ Republish(i)
    BY <1>5 DEF Publish, Republish, LoneRun, BookIsCurrent, Shows
  <1>6. CASE Finalize(i)
    BY <1>6 DEF Finalize, LoneRun, BookIsCurrent, Shows
  <1>7. QED
    BY <1>1, <1>2, <1>3, <1>4, <1>5, <1>6
    DEF Step, Start, OpenStorage, CheckUnresolved, ReadState, LegacyAdopted, BeginOperation,
        RereadOperation, CheckPending, ValidateWorkbook, ReadRows, Abandon

\* Instances that have taken turns so far leave every unresolved operation
\* ready to be retried and every workbook current.
THEOREM TurnsKept == Spec => []TurnsInv
  <1>1. Init => TurnsInv
    BY DEF Init, TurnsInv, TakeTurns, LoneRun, Alone, Stored, CanRetry, Unresolved, BookIsCurrent,
       Shows, Table
  <1>2. LedgerInv /\ TurnsInv /\ [Next]_vars => TurnsInv'
    <2> SUFFICES ASSUME LedgerInv, TurnsInv, [Next]_vars, ~overlapped' PROVE TurnsInv'
      BY DEF TurnsInv
    <2>1. ASSUME NEW i \in Instance,
                 Step(i) \/ Abandon(i) \/ \E s \in Source : Start(i, s)
          PROVE  TurnsInv'
      <3>1. ~overlapped
        BY <2>1, OverlapLasts DEF LedgerInv
      <3>2. TakeTurns /\ LoneRun(i) /\ CanRetry /\ BookIsCurrent
        BY <3>1 DEF TurnsInv
      <3>3. TakeTurns' /\ \A j \in Instance \ {i} : pc'[j] = "idle"
        BY <2>1, <3>2, TurnsTaken
      <3>4. \A j \in Instance \ {i} : LoneRun(j)'
        BY <3>3 DEF LoneRun, Alone, Stored
      <3>5. LoneRun(i)'
        BY <2>1, <3>2, RunStaysAlone
      <3>6. CanRetry' /\ BookIsCurrent'
        BY <2>1, <3>2, RunLeavesRetryable, RunLeavesBook
      <3>7. QED
        BY <3>3, <3>4, <3>5, <3>6 DEF TurnsInv
    <2>2. CASE Backfill \/ LoseWorkbook \/ UNCHANGED vars
      <3>1. UNCHANGED <<status, digest, auctions, pc, run, frame, overlapped>>
            /\ book' \in {book, None}
        BY <2>2 DEF Backfill, LoseWorkbook, vars, tables, locals
      <3>2. TakeTurns /\ (\A i \in Instance : LoneRun(i)) /\ CanRetry /\ BookIsCurrent
        BY <3>1 DEF TurnsInv
      <3>3. Accepted' = Accepted
        BY <3>1 DEF Accepted
      <3>7. \A r \in Row : market'[r] \in {market[r], "filled"}
        BY <2>2 DEF Backfill, LoseWorkbook, vars, tables, LedgerInv, TypeOK, MarketColumn
      <3>4. \A i \in Instance : LoneRun(i)'
        <4>1. ASSUME NEW i \in Instance PROVE LoneRun(i)'
          <5>1. LoneRun(i) /\ UNCHANGED <<status, digest, pc[i], run[i], frame[i]>>
            BY <3>1, <3>2
          <5>2. /\ pc[i] \in {"publish", "republish"} => Shows(frame[i])'
                /\ pc[i] = "finalize" => book' = None \/ Shows(book)'
            <6>1. Shows(frame[i]) => Shows(frame[i])'
              BY <3>1, <3>7 DEF Shows
            <6>2. book' = None \/ (book' = book /\ (Shows(book) => Shows(book)'))
              BY <3>1, <3>7 DEF Shows
            <6>3. QED
              BY <5>1, <6>1, <6>2 DEF LoneRun
          <5>3. QED
            BY <3>1, <3>3, <5>1, <5>2 DEF LoneRun, Unresolved
        <4>2. QED
          BY <4>1
      <3>5. TakeTurns' /\ CanRetry' /\ BookIsCurrent'
        <4>1. BookIsCurrent'
          BY <3>1, <3>2, <3>7 DEF BookIsCurrent, Shows
        <4>2. QED
          BY <3>1, <3>2, <3>3, <4>1 DEF TakeTurns, CanRetry, Unresolved
      <3>6. QED
        BY <3>4, <3>5 DEF TurnsInv
    <2>3. QED
      BY <2>1, <2>2 DEF Next
  <1>3. QED
    BY <1>1, <1>2, LedgerConsistent, PTL DEF Spec

\* Selecting the unresolved source again can always resolve it.
THEOREM RetryAllowed == Spec => []Retryable
  <1>1. TurnsInv => Retryable
    BY DEF TurnsInv, Retryable, CanRetry
  <1>2. QED
    BY <1>1, TurnsKept, PTL

\* A workbook that an exact retry keeps shows what has been accepted, but for the
\* markets that backfills have filled since it was exported.
THEOREM BookCurrent == Spec => []BookShowsAccepted
  <1>1. TurnsInv => BookShowsAccepted
    BY DEF TurnsInv, BookIsCurrent, BookShowsAccepted
  <1>2. QED
    BY <1>1, TurnsKept, PTL

-----------------------------------------------------------------------------
(* The newest source wins. *)

\* The least-number principle, in the one form the provers can use.
LEMMA LeastNatural ==
  ASSUME NEW T \in SUBSET Nat, T # {}
  PROVE  \E x \in T : \A y \in T : x <= y
  <1> DEFINE R == OpToRel(<, Nat)
  <1>1. \E x \in T : \A y \in T : ~ (<<y, x>> \in R)
    <2>1. IsWellFoundedOn(R, Nat)
      BY NatLessThanWellFounded
    <2> HIDE DEF R
    <2>2. QED
      BY <2>1, WFMin
  <1>2. \A x, y \in Nat : <<y, x>> \in R <=> y < x
    BY DEF OpToRel
  <1> HIDE DEF R
  <1>3. PICK x \in T : \A y \in T : ~ (<<y, x>> \in R)
    BY <1>1
  <1>4. ASSUME NEW y \in T PROVE x <= y
    <2>1. ~ (y < x)
      BY <1>2, <1>3
    <2>2. QED
      BY <2>1
  <1>5. QED
    BY <1>4

\* A nonempty set of sources has a latest one.
LEMMA LatestExists ==
  ASSUME NEW k \in SUBSET Source, k # {}
  PROVE  Latest(k) # {}
  <1> DEFINE T == {LastDate - s.date : s \in k}
  <1>1. LastDate \in Nat /\ \A s \in k : s.date \in 1..LastDate
    BY DateAssumption DEF Source, Date
  <1>2. T \in SUBSET Nat /\ T # {}
    BY <1>1
  <1> HIDE DEF T
  <1>3. PICK x \in T : \A y \in T : x <= y
    BY <1>2, LeastNatural
  <1>4. PICK s \in k : x = LastDate - s.date
    BY <1>3 DEF T
  <1>5. ASSUME NEW t \in k PROVE t.date <= s.date
    <2>1. LastDate - t.date \in T
      BY DEF T
    <2>2. LastDate - s.date <= LastDate - t.date
      BY <1>3, <1>4, <2>1
    <2>3. QED
      BY <1>1, <2>2
  <1>6. QED
    BY <1>5 DEF Latest

\* The table shows a source of date d, or a newer one, wherever one of date d
\* is listed.
OnTop(d) ==
  \A r \in Row : r <= d /\ d <= r + Window =>
    auctions[r] # None /\ auctions[r].date >= d

\* Importing sources in order leaves each of them on top.
LEMMA ImportedOnTop ==
  ASSUME NEW k \in SUBSET Source, NEW s \in k, NEW r \in Listed(s)
  PROVE  Imported(k)[r] # None /\ Imported(k)[r].date >= s.date
  <1> DEFINE candidates == {t \in k : r \in Listed(t)}
             writers == Latest(candidates)
  <1>1. r \in Row /\ s \in candidates
    BY DEF Listed
  <1>2. writers # {}
    BY <1>1, LatestExists
  <1>3. Imported(k)[r] = CHOOSE t \in writers : TRUE
    BY <1>1, <1>2 DEF Imported
  <1>4. PICK t \in writers : Imported(k)[r] = t
    BY <1>2, <1>3
  <1>5. t \in Source /\ s.date <= t.date
    BY <1>1, <1>4 DEF Latest
  <1>6. s.date \in Nat /\ t.date \in Nat /\ t # None
    <2>1. t \in Source /\ s \in Source
      BY <1>5
    <2>2. \A u \in Source : u.date \in Nat
      BY DateAssumption DEF Source, Date
    <2>3. QED
      BY <2>1, <2>2, SourceAssumption
  <1>7. QED
    BY <1>4, <1>5, <1>6

LedgerEmpty == \A d \in Date : status[d] = "none"

\* Which dates are recorded, where runs stand, and what is left to adopt, when a
\* step neither adopts nor inserts.
SameLedger == \A d \in Date : (status'[d] = "none") <=> (status[d] = "none")

Follows(j) ==
  /\ pc'[j] = "adopt" =>
       \/ pc[j] = "adopt" /\ left'[j] = left[j]
       \/ LedgerEmpty /\ left'[j] = legacy
  /\ pc'[j] \in {"begin", "insert"} =>
       \/ pc[j] \in {"begin", "insert"}
       \/ pc[j] = "adopt" /\ left[j] = {}
       \/ pc[j] = "state" /\ ~LedgerEmpty
  /\ pc[j] = "adopt" /\ pc'[j] # "adopt" => left[j] = {} \/ abandoned' # 0

LEMMA OtherSteps ==
  ASSUME LedgerInv, NEW i \in Instance,
         Step(i) \/ Abandon(i) \/ \E s \in Source : Start(i, s),
         ~InsertOperation(i), ~\E s \in Source : AdoptLegacy(i, s)
  PROVE  SameLedger /\ \A j \in Instance : Follows(j)
  <1> SUFFICES ASSUME NEW j \in Instance PROVE SameLedger /\ Follows(j)
    OBVIOUS
  <1> USE DEF LedgerInv, TypeOK, RunKnows, Source, tables, locals, SameLedger, Follows
  <1>1. CASE \E s \in Source : Start(i, s)
    BY <1>1 DEF Start, Goto
  <1>2. CASE OpenStorage(i) \/ CheckUnresolved(i)
    BY <1>2 DEF OpenStorage, CheckUnresolved, Goto, Finish
  <1>3. CASE Abandon(i)
    BY <1>3, DateAssumption DEF Abandon, Goto, Finish
  <1>4. CASE ReadState(i)
    BY <1>4 DEF ReadState, Evaluate, Goto, Finish, LedgerEmpty
  <1>5. CASE LegacyAdopted(i)
    BY <1>5 DEF LegacyAdopted, Evaluate, Goto, Finish
  <1>6. CASE BeginOperation(i)
    BY <1>6 DEF BeginOperation, Continuation, Goto, Finish
  <1>7. CASE RereadOperation(i) \/ CheckPending(i)
    BY <1>7 DEF RereadOperation, CheckPending, Continuation, Operating, Goto
  <1>8. CASE ApplyOperation(i) \/ Finalize(i)
    BY <1>8 DEF ApplyOperation, Finalize, SetStatus, Goto, Finish
  <1>9. CASE ValidateWorkbook(i) \/ ReadRows(i) \/ Publish(i) \/ Republish(i)
    BY <1>9 DEF ValidateWorkbook, ReadRows, Publish, Republish, Goto, Finish
  <1>10. QED
    BY <1>1, <1>2, <1>3, <1>4, <1>5, <1>6, <1>7, <1>8, <1>9 DEF Step

\* Every committed source is on top; before the ledger has one, and while the
\* adoption goes on, so is every source of the legacy state.
Newest ==
  /\ \A d \in Date : status[d] \in {"data_committed", "accepted"} =>
       OnTop(d)
  /\ LedgerEmpty => \A s \in legacy : OnTop(s.date)
  /\ \A i \in Instance : pc[i] = "adopt" => \A s \in left[i] : OnTop(s.date)

NewestInv == overlapped \/ Newest

\* The source a lone run applies is the newest of those committed.
LEMMA AppliedIsNewest ==
  ASSUME LedgerInv, CanRetry, NEW i \in Instance, LoneRun(i), pc[i] = "apply",
         NEW e \in Date \ {run[i].date}, status[e] \in {"data_committed", "accepted"}
  PROVE  e <= run[i].date
  <1> DEFINE d == run[i].date
             s == [date |-> d, sha256 |-> digest[d]]
             t == [date |-> e, sha256 |-> digest[e]]
  <1>1. d \in Date /\ status[d] = "pending" /\ d \in Nat /\ e \in Nat
    BY DateAssumption DEF LedgerInv, RunKnows, LoneRun, Source, Date
  <1>2. ~Unresolved(e)
    BY DEF LoneRun, Alone, Place
  <1>3. status[e] = "accepted" /\ digest[e] \in Digest
    BY <1>2 DEF Unresolved, LedgerInv, TypeOK
  <1>4. t \in Accepted
    BY <1>3 DEF Accepted, Source
  <1>5. ~Refused(s, Accepted)
    BY <1>1 DEF CanRetry, Unresolved
  <1>6. \A u \in Accepted : u.date # d
    BY <1>1 DEF Accepted
  <1>7. ~(d < e)
    BY <1>4, <1>5, <1>6 DEF Refused
  <1>8. QED
    BY <1>1, <1>7

LEMMA ApplyKeepsNewest ==
  ASSUME LedgerInv, CanRetry, TakeTurns, Newest, NEW i \in Instance, LoneRun(i),
         ApplyOperation(i)
  PROVE  Newest'
  <1> DEFINE s == run[i]
  <1>1. /\ pc[i] = "apply" /\ s \in Source /\ s.date \in Date /\ s.date \in Nat
        /\ status[s.date] = "pending" /\ digest[s.date] = s.sha256 /\ digest' = digest
        /\ status' = [status EXCEPT ![s.date] = "data_committed"]
        /\ status \in [Date -> {"none", "pending", "data_committed", "accepted"}]
    BY DateAssumption DEF ApplyOperation, SetStatus, LedgerInv, TypeOK, RunKnows, LoneRun,
       Operating, Source, Date
  <1>2. \A r \in Row : auctions'[r] = IF r \in Listed(s) THEN s ELSE auctions[r]
    BY DEF ApplyOperation, Upsert
  <1>3. s # None
    BY <1>1, SourceAssumption
  <1>4. ASSUME NEW d \in Date, status'[d] \in {"data_committed", "accepted"},
               NEW r \in Row, r <= d /\ d <= r + Window
        PROVE  auctions'[r] # None /\ auctions'[r].date >= d
    <2>1. d \in Nat
      BY DateAssumption DEF Date
    <2>2. CASE d = s.date
      BY <1>1, <1>2, <1>3, <1>4, <2>1, <2>2 DEF Listed
    <2>3. CASE d # s.date
      <3>1. status[d] \in {"data_committed", "accepted"} /\ d <= s.date
        BY <1>1, <1>4, <2>3, AppliedIsNewest
      <3>2. auctions[r] # None /\ auctions[r].date >= d
        BY <1>4, <3>1 DEF Newest, OnTop
      <3>3. QED
        BY <1>1, <1>2, <1>3, <2>1, <3>1, <3>2
    <2>4. QED
      BY <2>2, <2>3
  <1>5. ~LedgerEmpty'
    BY <1>1 DEF LedgerEmpty
  <1>6. \A j \in Instance : pc'[j] # "adopt"
    BY <1>1 DEF ApplyOperation, Goto, TakeTurns, LedgerInv, TypeOK
  <1>7. QED
    BY <1>4, <1>5, <1>6 DEF Newest, OnTop

LEMMA RunKeepsNewest ==
  ASSUME LedgerInv, CanRetry, TakeTurns, Newest, NEW i \in Instance, LoneRun(i),
         Step(i) \/ Abandon(i) \/ \E s \in Source : Start(i, s)
  PROVE  Newest'
  <1> USE DEF LedgerInv, TypeOK, RunKnows, Source, tables, locals
  <1>1. CASE UNCHANGED <<status, auctions, legacy>> /\ \A j \in Instance : Follows(j)
    BY <1>1 DEF Newest, OnTop, LedgerEmpty, Follows
  <1>2. CASE \E s \in Source : AdoptLegacy(i, s)
    <2>1. PICK s \in Source : AdoptLegacy(i, s)
      BY <1>2
    <2>2. UNCHANGED <<auctions, legacy, pc>> /\ pc[i] = "adopt" /\ s \in left[i]
          /\ left' = [left EXCEPT ![i] = @ \ {s}]
      BY <2>1 DEF AdoptLegacy
    <2>3. OnTop(s.date)
      BY <2>2 DEF Newest
    <2>4. \A t : OnTop(t)' <=> OnTop(t)
      BY <2>2 DEF OnTop
    <2>5. ASSUME NEW d \in Date, status'[d] \in {"data_committed", "accepted"}
          PROVE  OnTop(d)'
      <3>1. d = s.date \/ status'[d] = status[d]
        BY <2>1 DEF AdoptLegacy, SetStatus
      <3>2. QED
        BY <2>3, <2>4, <2>5, <3>1 DEF Newest
    <2>6. LedgerEmpty' => LedgerEmpty
      BY <2>1 DEF LedgerEmpty, AdoptLegacy, SetStatus
    <2>7. \A j \in Instance : left'[j] \subseteq left[j]
      BY <2>2
    <2>8. QED
      BY <2>2, <2>4, <2>5, <2>6, <2>7 DEF Newest
  <1>3. CASE InsertOperation(i)
    <2>1. /\ UNCHANGED <<auctions, legacy>>
          /\ \A d \in Date : status'[d] \in {"data_committed", "accepted"} =>
               status'[d] = status[d]
          /\ LedgerEmpty' => LedgerEmpty
          /\ \A j \in Instance : pc'[j] = "adopt" => pc[j] = "adopt" /\ left'[j] = left[j]
      BY <1>3 DEF InsertOperation, SetStatus, Goto, Finish, LedgerEmpty
    <2>2. \A t : OnTop(t)' <=> OnTop(t)
      BY <2>1 DEF OnTop
    <2>3. QED
      BY <2>1, <2>2 DEF Newest
  <1>4. CASE Finalize(i)
    <2>1. /\ UNCHANGED <<auctions, legacy>>
          /\ \A d \in Date : status'[d] \in {"data_committed", "accepted"} =>
               status[d] \in {"data_committed", "accepted"}
          /\ LedgerEmpty' => LedgerEmpty
          /\ \A j \in Instance : pc'[j] = "adopt" => pc[j] = "adopt" /\ left'[j] = left[j]
      BY <1>4 DEF Finalize, SetStatus, Goto, Finish, LedgerEmpty
    <2>2. \A t : OnTop(t)' <=> OnTop(t)
      BY <2>1 DEF OnTop
    <2>3. QED
      BY <2>1, <2>2 DEF Newest
  <1>5. CASE ApplyOperation(i)
    BY <1>5, ApplyKeepsNewest
  <1>6. CASE ~(\E s \in Source : AdoptLegacy(i, s)) /\ ~InsertOperation(i)
             /\ ~Finalize(i) /\ ~ApplyOperation(i)
    <2>1. UNCHANGED <<status, auctions, legacy>>
      BY <1>6 DEF Step, Start, OpenStorage, CheckUnresolved, ReadState, LegacyAdopted,
         BeginOperation, RereadOperation, CheckPending, ValidateWorkbook, ReadRows,
         Publish, Republish, Abandon
    <2>2. QED
      BY <1>1, <1>6, <2>1, OtherSteps
  <1>7. QED
    BY <1>2, <1>3, <1>4, <1>5, <1>6

\* While the instances take turns, no import leaves the rows of an older source
\* where a newer one has been committed.
THEOREM NewestIsKept == Spec => []NewestWins
  <1>1. Init => NewestInv
    <2> SUFFICES ASSUME Init PROVE Newest
      BY DEF NewestInv
    <2>1. legacy \in SUBSET Source /\ auctions = Imported(legacy)
      BY DEF Init, States
    <2>2. \A s \in legacy : OnTop(s.date)
      BY <2>1, ImportedOnTop DEF OnTop, Listed
    <2>3. QED
      BY <2>2 DEF Init, Newest
  <1>2. LedgerInv /\ TurnsInv /\ NewestInv /\ [Next]_vars => NewestInv'
    <2> SUFFICES ASSUME LedgerInv, TurnsInv, NewestInv, [Next]_vars, ~overlapped'
                 PROVE  Newest'
      BY DEF NewestInv
    <2>1. ASSUME NEW i \in Instance,
                 Step(i) \/ Abandon(i) \/ \E s \in Source : Start(i, s)
          PROVE  Newest'
      <3>1. ~overlapped
        BY <2>1, OverlapLasts DEF LedgerInv
      <3>2. QED
        BY <2>1, <3>1, RunKeepsNewest DEF TurnsInv, NewestInv
    <2>2. CASE Backfill \/ LoseWorkbook \/ UNCHANGED vars
      <3>1. UNCHANGED <<status, digest, auctions, legacy, pc, left, overlapped>>
        BY <2>2 DEF Backfill, LoseWorkbook, vars, tables, locals
      <3>2. QED
        BY <3>1 DEF NewestInv, Newest, OnTop, LedgerEmpty
    <2>3. QED
      BY <2>1, <2>2 DEF Next
  <1>3. NewestInv => NewestWins
    BY DEF NewestInv, Newest, NewestWins, OnTop, Listed
  <1>4. QED
    BY <1>1, <1>2, <1>3, LedgerConsistent, TurnsKept, PTL DEF Spec

-----------------------------------------------------------------------------
(* The adoption of the legacy state. *)

Adopted(s) == status[s.date] # "none" /\ digest[s.date] = s.sha256

Oldest(s) == s \in legacy /\ \A t \in legacy : s.date <= t.date

\* The oldest source is adopted before anything else is recorded.
OldestFirst ==
  /\ ~LedgerEmpty => \A s \in legacy : Oldest(s) => Adopted(s)
  /\ \A i \in Instance : pc[i] = "adopt" => left[i] = legacy \/ ~LedgerEmpty
  /\ \A i \in Instance : pc[i] \in {"begin", "insert"} => legacy = {} \/ ~LedgerEmpty

\* A run that neither ends early nor is overtaken adopts them all.
Whole ==
  /\ ~LedgerEmpty /\ (\A i \in Instance : pc[i] # "adopt") => \A s \in legacy : Adopted(s)
  /\ \A i \in Instance : pc[i] = "adopt" =>
       \A s \in legacy : IF s \in left[i] THEN status[s.date] = "none" ELSE Adopted(s)
  /\ \A i \in Instance : pc[i] \in {"begin", "insert"} => \A s \in legacy : Adopted(s)

WholeInv == abandoned # 0 \/ overlapped \/ Whole

\* What a run that is not adopting may do to the ledger.
LEMMA RecordsStay ==
  ASSUME LedgerInv, NEW i \in Instance,
         Step(i) \/ Abandon(i) \/ \E s \in Source : Start(i, s)
  PROVE  /\ legacy' = legacy
         /\ \A s \in legacy : Adopted(s) => Adopted(s)'
         /\ ~LedgerEmpty => ~LedgerEmpty'
  <1>1. legacy' = legacy
    BY DEF Step, Start, OpenStorage, CheckUnresolved, ReadState, AdoptLegacy, LegacyAdopted,
       BeginOperation, InsertOperation, RereadOperation, CheckPending, ApplyOperation,
       ValidateWorkbook, ReadRows, Publish, Republish, Finalize, Abandon
  <1>2. \A d \in Date : status[d] # "none" => status'[d] # "none" /\ digest'[d] = digest[d]
    BY RunRecords
  <1>3. \A s \in legacy : s.date \in Date
    BY DEF LedgerInv, TypeOK, States, Source
  <1>4. QED
    BY <1>1, <1>2, <1>3 DEF Adopted, LedgerEmpty

LEMMA AdoptionStep ==
  ASSUME LedgerInv, OldestFirst, NEW i \in Instance, NEW s \in Source, AdoptLegacy(i, s)
  PROVE  /\ OldestFirst'
         /\ status[s.date] = "none" => Adopted(s)'
         /\ ~LedgerEmpty'
         /\ s \in legacy
  <1>1. /\ s \in left[i] /\ (\A t \in left[i] : s.date <= t.date)
        /\ UNCHANGED <<legacy, pc>> /\ pc[i] = "adopt"
        /\ left' = [left EXCEPT ![i] = @ \ {s}]
        /\ left[i] \subseteq legacy
        /\ s.date \in Date
    BY DEF AdoptLegacy, LedgerInv, RunKnows, Source
  <1>2. /\ status[s.date] = "none" => Adopted(s)'
        /\ status'[s.date] # "none"
    BY <1>1 DEF AdoptLegacy, SetStatus, Adopted, LedgerInv, TypeOK
  <1>3. ~LedgerEmpty'
    BY <1>1, <1>2 DEF LedgerEmpty
  <1>4. ASSUME NEW t \in legacy, Oldest(t) PROVE Adopted(t)'
    <2>1. CASE ~LedgerEmpty
      <3>1. Adopted(t)
        BY <1>4, <2>1 DEF OldestFirst
      <3>2. QED
        BY <3>1, RecordsStay DEF Step
    <2>2. CASE LedgerEmpty
      <3>1. left[i] = legacy
        BY <1>1, <2>2 DEF OldestFirst
      <3>2. s.date \in Nat /\ t.date \in Nat
        BY DateAssumption DEF LedgerInv, TypeOK, States, Source, Date
      <3>3. s.date = t.date
        BY <1>1, <1>4, <3>1, <3>2 DEF Oldest
      <3>4. s = t
        BY <1>1, <3>3 DEF LedgerInv, TypeOK, States
      <3>5. QED
        BY <1>1, <1>2, <2>2, <3>4 DEF LedgerEmpty
    <2>3. QED
      BY <2>1, <2>2
  <1>5. QED
    BY <1>1, <1>2, <1>3, <1>4 DEF OldestFirst, Oldest

LEMMA RunKeepsOldest ==
  ASSUME LedgerInv, OldestFirst, NEW i \in Instance,
         Step(i) \/ Abandon(i) \/ \E s \in Source : Start(i, s)
  PROVE  OldestFirst'
  <1>1. CASE \E s \in Source : AdoptLegacy(i, s)
    BY <1>1, AdoptionStep
  <1>2. CASE InsertOperation(i)
    <2>1. legacy = {} \/ ~LedgerEmpty
      BY <1>2 DEF InsertOperation, OldestFirst
    <2>2. \A j \in Instance : pc'[j] \in {"adopt", "begin", "insert"} =>
            pc'[j] = pc[j] /\ left'[j] = left[j]
      BY <1>2 DEF InsertOperation, Goto, Finish, LedgerInv, TypeOK, locals
    <2>3. QED
      BY <2>1, <2>2, RecordsStay DEF OldestFirst, Oldest
  <1>3. CASE SameLedger /\ \A j \in Instance : Follows(j)
    BY <1>3, RecordsStay DEF SameLedger, Follows, OldestFirst, Oldest, LedgerEmpty
  <1>4. QED
    BY <1>1, <1>2, <1>3, OtherSteps

LEMMA RunKeepsWhole ==
  ASSUME LedgerInv, TakeTurns, Whole, NEW i \in Instance,
         Step(i) \/ Abandon(i) \/ \E s \in Source : Start(i, s),
         ~overlapped', abandoned' = 0
  PROVE  Whole'
  <1>1. \A j \in Instance \ {i} : pc'[j] = "idle"
    BY TurnsTaken
  <1>2. CASE \E s \in Source : AdoptLegacy(i, s)
    <2>1. PICK s \in Source : AdoptLegacy(i, s)
      BY <1>2
    <2>2. /\ pc[i] = "adopt" /\ pc'[i] = "adopt" /\ legacy' = legacy
          /\ s \in left[i] /\ s \in legacy /\ left'[i] = left[i] \ {s}
          /\ status[s.date] = "none"
          /\ status' = [status EXCEPT ![s.date] = "accepted"]
          /\ digest' = [digest EXCEPT ![s.date] = s.sha256]
      BY <2>1 DEF AdoptLegacy, SetStatus, Whole, LedgerInv, TypeOK, RunKnows
    <2>3. Adopted(s)'
      BY <2>2 DEF Adopted, LedgerInv, TypeOK, Source
    <2>4. ASSUME NEW t \in legacy
          PROVE  IF t \in left'[i] THEN status'[t.date] = "none" ELSE Adopted(t)'
      <3>1. CASE t \in left'[i]
        <4>1. t.date # s.date /\ status[t.date] = "none"
          BY <2>2, <3>1 DEF Whole, LedgerInv, TypeOK, States
        <4>2. QED
          BY <2>2, <3>1, <4>1 DEF LedgerInv, TypeOK, States, Source
      <3>2. CASE t \notin left'[i] /\ t # s
        BY <2>2, <3>2, RecordsStay DEF Whole
      <3>3. QED
        BY <2>2, <2>3, <3>1, <3>2
    <2>5. QED
      BY <1>1, <2>2, <2>4 DEF Whole
  <1>3. CASE InsertOperation(i)
    <2>1. /\ \A s \in legacy : Adopted(s)
          /\ pc'[i] # "adopt"
      BY <1>3 DEF InsertOperation, Whole, Goto, Finish, LedgerInv, TypeOK
    <2>2. QED
      BY <1>1, <2>1, RecordsStay DEF Whole
  <1>4. CASE SameLedger /\ \A j \in Instance : Follows(j)
    <2>1. CASE \E j \in Instance : pc[j] = "adopt" /\ pc'[j] # "adopt"
      <3>1. \A s \in legacy : Adopted(s)
        BY <1>4, <2>1 DEF Follows, Whole
      <3>2. ASSUME NEW k \in Instance, pc'[k] = "adopt", NEW s \in legacy
            PROVE  FALSE
        <4>1. ~LedgerEmpty
          BY <3>1, <3>2 DEF LedgerEmpty, Adopted, LedgerInv, TypeOK, States, Source
        <4>2. pc[k] = "adopt"
          BY <1>4, <3>2, <4>1 DEF Follows
        <4>3. QED
          BY <2>1, <3>2, <4>2 DEF TakeTurns
      <3>3. QED
        BY <3>1, <3>2, RecordsStay DEF Whole
    <2>2. CASE \A j \in Instance : pc[j] = "adopt" => pc'[j] = "adopt"
      <3>1. ASSUME NEW j \in Instance, pc'[j] = "adopt", NEW s \in legacy
            PROVE  IF s \in left'[j] THEN status'[s.date] = "none" ELSE Adopted(s)'
        <4>1. s.date \in Date
          BY DEF LedgerInv, TypeOK, States, Source
        <4>2. QED
          BY <1>4, <3>1, <4>1, RecordsStay DEF Follows, SameLedger, LedgerEmpty, Whole
      <3>2. ASSUME NEW j \in Instance, pc'[j] \in {"begin", "insert"}
            PROVE  \A s \in legacy : Adopted(s)
        <4>1. CASE pc[j] = "state" /\ ~LedgerEmpty
          <5>1. \A k \in Instance : pc[k] # "adopt"
            BY <4>1 DEF TakeTurns
          <5>2. QED
            BY <4>1, <5>1 DEF Whole
        <4>2. QED
          BY <1>4, <3>2, <4>1 DEF Follows, Whole
      <3>3. ASSUME ~LedgerEmpty', \A j \in Instance : pc'[j] # "adopt"
            PROVE  \A s \in legacy : Adopted(s)
        BY <1>4, <2>2, <3>3 DEF SameLedger, LedgerEmpty, Whole
      <3>4. QED
        BY <3>1, <3>2, <3>3, RecordsStay DEF Whole
    <2>3. QED
      BY <2>1, <2>2
  <1>5. QED
    BY <1>2, <1>3, <1>4, OtherSteps

LEMMA OldestIsFirst == Spec => []OldestFirst
  <1>1. Init => OldestFirst
    BY DEF Init, OldestFirst, LedgerEmpty
  <1>2. LedgerInv /\ OldestFirst /\ [Next]_vars => OldestFirst'
    <2> SUFFICES ASSUME LedgerInv, OldestFirst, [Next]_vars PROVE OldestFirst'
      OBVIOUS
    <2>1. CASE Backfill \/ LoseWorkbook \/ UNCHANGED vars
      BY <2>1 DEF Backfill, LoseWorkbook, vars, tables, locals, OldestFirst, LedgerEmpty,
         Oldest, Adopted
    <2>2. QED
      BY <2>1, RunKeepsOldest DEF Next
  <1>3. QED
    BY <1>1, <1>2, LedgerConsistent, PTL DEF Spec

LEMMA AdoptionIsWhole == Spec => []WholeInv
  <1>1. Init => WholeInv
    BY DEF Init, WholeInv, Whole, LedgerEmpty
  <1>2. LedgerInv /\ TurnsInv /\ WholeInv /\ [Next]_vars => WholeInv'
    <2> SUFFICES ASSUME LedgerInv, TurnsInv, WholeInv, [Next]_vars,
                        ~overlapped', abandoned' = 0
                 PROVE  Whole'
      BY DEF WholeInv
    <2>1. ASSUME NEW i \in Instance,
                 Step(i) \/ Abandon(i) \/ \E s \in Source : Start(i, s)
          PROVE  Whole'
      <3>1. ~overlapped
        BY <2>1, OverlapLasts DEF LedgerInv
      <3>2. abandoned = 0
        <4>1. abandoned \in Nat
          BY DateAssumption DEF LedgerInv, TypeOK
        <4>2. abandoned' \in {abandoned, abandoned + 1}
          BY <2>1 DEF Step, Start, OpenStorage, CheckUnresolved, ReadState, AdoptLegacy,
             LegacyAdopted, BeginOperation, InsertOperation, RereadOperation, CheckPending,
             ApplyOperation, ValidateWorkbook, ReadRows, Publish, Republish, Finalize, Abandon
        <4>3. QED
          BY <4>1, <4>2
      <3>3. QED
        BY <2>1, <3>1, <3>2, RunKeepsWhole DEF TurnsInv, WholeInv
    <2>2. CASE Backfill \/ LoseWorkbook \/ UNCHANGED vars
      BY <2>2 DEF Backfill, LoseWorkbook, vars, tables, locals, WholeInv, Whole,
         LedgerEmpty, Adopted
    <2>3. QED
      BY <2>1, <2>2 DEF Next
  <1>3. QED
    BY <1>1, <1>2, LedgerConsistent, TurnsKept, PTL DEF Spec

\* No import of another content takes the place of an accepted legacy source:
\* never of the oldest one, and of none while runs are neither abandoned nor
\* overtaken.
THEOREM LegacyIsKept == Spec => []LegacyNotReplaced
  <1>1. LedgerInv /\ TurnsInv /\ OldestFirst /\ WholeInv => LegacyNotReplaced
    <2> SUFFICES ASSUME LedgerInv, TurnsInv, OldestFirst, WholeInv, NEW s \in legacy,
                        (abandoned = 0 /\ ~overlapped) \/ Oldest(s)
                 PROVE  digest[s.date] \in {s.sha256, None}
      BY DEF LegacyNotReplaced, Oldest
    <2>1. s.date \in Date
      BY DEF LedgerInv, TypeOK, States, Source
    <2>2. (status[s.date] = "none") => digest[s.date] = None
      BY <2>1 DEF LedgerInv, TypeOK
    <2>3. CASE LedgerEmpty
      BY <2>1, <2>2, <2>3 DEF LedgerEmpty
    <2>4. CASE ~LedgerEmpty /\ Oldest(s)
      BY <2>4 DEF OldestFirst, Adopted
    <2>5. CASE ~LedgerEmpty /\ abandoned = 0 /\ ~overlapped
      BY <2>2, <2>5 DEF WholeInv, Whole, Adopted
    <2>6. QED
      BY <2>3, <2>4, <2>5
  <1>2. QED
    BY <1>1, LedgerConsistent, TurnsKept, OldestIsFirst, AdoptionIsWhole, PTL

=============================================================================
