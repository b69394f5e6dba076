---------------------------- MODULE MiniStorage ----------------------------
(***************************************************************************)
(* MiniAuctionStorage (mini_storage.py): the authoritative SQLite history  *)
(* and the operation audit, shared by every running instance of Mini.      *)
(*                                                                         *)
(* `rows' is the committed content of the table mini_auctions and          *)
(* `operations' that of mini_operations in commit order.  A write          *)
(* transaction (BEGIN IMMEDIATE) holds `dbLock' from its begin to its      *)
(* commit or rollback; what it has written but not committed is a function *)
(* of `rows' and of the source it stores, so it needs no variable.         *)
(*                                                                         *)
(* A normalized auction record is abstracted to its duplicate key (the     *)
(* five identity fields) and one value standing for all other fields.      *)
(***************************************************************************)
EXTENDS Naturals, Sequences, FiniteSets

CONSTANTS
  Instances,  \* running copies of the application
  Key,        \* auction identities: NormalizedAuctionRecord.duplicate_key
  Value,      \* what equal keys may disagree on: every other field
  NoLock      \* no write transaction is open

ASSUME LockAssumption == NoLock \notin Instances

VARIABLES rows, operations, dbLock

storageVars == <<rows, operations, dbLock>>

Record == [key : Key, value : Value]

(***************************************************************************)
(* One row of mini_auctions: the auction, and the operation that inserted  *)
(* it (the code stores source_sha256 and accumulated_at_utc, one per       *)
(* operation; the model stores the operation's number).                    *)
(***************************************************************************)
Row == [record : Record, operation : Nat]

Records(S) == {row.record : row \in S}

(***************************************************************************)
(* What parse_source hands over: the accepted records in file order and    *)
(* the numbers of rejected and filtered rows.                              *)
(***************************************************************************)
Source == [records : Seq(Record), rejected : Nat, filtered : Nat]

SourceRows(s) == Len(s.records) + s.filtered + s.rejected

Audit == [outcome : {"COMPLETED", "FAILED"}, inserted : Nat, duplicates : Nat,
          conflicts : Nat, rejected : Nat, filtered : Nat, sourceRows : Nat]

-----------------------------------------------------------------------------
(* The classification loop of store and store_and_publish.                 *)

\* Mutant: the stored rows are not loaded into the dictionary.
KnownInFileOnly(history, recs, n) == {recs[m] : m \in 1..(n - 1)}

\* The records the loop knows before it looks at position n.
Known(history, recs, n) == history \cup {recs[m] : m \in 1..(n - 1)}

ConflictAt(history, recs, n) ==
  \E r \in Known(history, recs, n) : r.key = recs[n].key /\ r # recs[n]

HasConflict(history, recs) ==
  \E n \in 1..Len(recs) : ConflictAt(history, recs, n)

\* The positions the loop accepts: it breaks at the first conflict.
Scanned(history, recs) ==
  {n \in 1..Len(recs) : \A m \in 1..n : ~ConflictAt(history, recs, m)}

Inserted(history, recs) ==
  {recs[n] : n \in Scanned(history, recs)} \ history

\* Mutant: an inserted row is counted as a duplicate too.
DuplicatesWithInserted(history, recs) == Cardinality(Scanned(history, recs))

Duplicates(history, recs) ==
  Cardinality(Scanned(history, recs)) - Cardinality(Inserted(history, recs))

CompletedAudit(history, s) ==
  [outcome    |-> "COMPLETED",
   inserted   |-> Cardinality(Inserted(history, s.records)),
   duplicates |-> Duplicates(history, s.records),
   conflicts  |-> 0,
   rejected   |-> s.rejected,
   filtered   |-> s.filtered,
   sourceRows |-> SourceRows(s)]

\* inserted_count is 0: nothing of a conflicting source is stored.
FailedAudit(history, s) ==
  [outcome    |-> "FAILED",
   inserted   |-> 0,
   duplicates |-> Duplicates(history, s.records),
   conflicts  |-> 1,
   rejected   |-> s.rejected,
   filtered   |-> s.filtered,
   sourceRows |-> SourceRows(s)]

NewRows(history, recs, n) ==
  {[record |-> r, operation |-> n] : r \in Inserted(history, recs)}

-----------------------------------------------------------------------------
StorageInit == rows = {} /\ operations = <<>> /\ dbLock = NoLock

BeginImmediate(i) ==
  /\ dbLock = NoLock
  /\ dbLock' = i
  /\ UNCHANGED <<rows, operations>>

Rollback(i) ==
  /\ dbLock = i
  /\ dbLock' = NoLock
  /\ UNCHANGED <<rows, operations>>

\* The transaction of a source without conflict, up to its commit.
CommitCompleted(i, s) ==
  /\ dbLock = i
  /\ rows' = rows \cup NewRows(Records(rows), s.records, Len(operations) + 1)
  /\ operations' = Append(operations, CompletedAudit(Records(rows), s))
  /\ dbLock' = NoLock

\* Mutant: the rows before the conflict are committed with the audit.
CommitPrefix(i, s) ==
  /\ dbLock = i
  /\ rows' = rows \cup NewRows(Records(rows), s.records, Len(operations) + 1)
  /\ operations' = Append(operations, FailedAudit(Records(rows), s))
  /\ dbLock' = NoLock

\* The transaction of a conflicting source commits its audit and no row.
CommitConflict(i, s) ==
  /\ dbLock = i
  /\ operations' = Append(operations, FailedAudit(Records(rows), s))
  /\ dbLock' = NoLock
  /\ UNCHANGED rows

-----------------------------------------------------------------------------
StorageTypeOK ==
  /\ rows \subseteq Row
  /\ operations \in Seq(Audit)
  /\ dbLock \in Instances \cup {NoLock}

=============================================================================
