------------------------------ MODULE MiniCsv ------------------------------
(***************************************************************************)
(* MiniCsvPublisher (mini_csv.py): the cumulative CSV file and the staging *)
(* files beside it.                                                        *)
(*                                                                         *)
(* publish_records writes the bytes rendered from the stored records, in   *)
(* the total order of their keys, so the file is Rendered(the set of       *)
(* records it shows), or NoCsv, the missing file, or Garbage, any content  *)
(* no rendering produces.  The CSV has no column for the auction and point *)
(* ids, so unlike histories can render alike; to the code they are then    *)
(* one file, and `shows' tells apart only histories the CSV tells apart.   *)
(* `staged' holds the owners of the .prisma_function_mini-*.csv files on   *)
(* disk; Stray owns those whose operation is over.                         *)
(***************************************************************************)
EXTENDS MiniStorage

CONSTANT Stray

ASSUME CsvAssumption == Stray \notin Instances

VARIABLES csv, staged

csvVars == <<csv, staged>>

Content == SUBSET Record
File    == [kind : {"missing", "garbage", "rendered"}, shows : Content]
Owner   == Instances \cup {Stray}

NoCsv             == [kind |-> "missing", shows |-> {}]
Garbage           == [kind |-> "garbage", shows |-> {}]
Rendered(content) == [kind |-> "rendered", shows |-> content]

CsvInit == csv = NoCsv /\ staged = {}

\* publish_records returns at once when the file already has this content.
AlreadyPublished(content) == csv = Rendered(content)

\* mkstemp, write, flush, fsync and the validation of the staged file.
StageFile(i) ==
  /\ staged' = staged \cup {i}
  /\ UNCHANGED csv

\* os.replace: atomic, and impossible once someone removed the staged file.
ReplaceOutput(i, file) ==
  /\ i \in staged
  /\ csv' = file
  /\ staged' = staged \ {i}

\* The finally clause unlinks the staged file, and ignores it if it cannot.
DiscardStaged(i) ==
  /\ \/ staged' = staged \ {i}
     \/ i \in staged /\ staged' = (staged \ {i}) \cup {Stray}
  /\ UNCHANGED csv

\* A process that dies leaves its staging file to nobody.
AbandonStaged(i) ==
  /\ staged' = IF i \in staged THEN (staged \ {i}) \cup {Stray} ELSE staged
  /\ UNCHANGED csv

CsvTypeOK ==
  /\ csv \in File
  /\ staged \subseteq Owner

=============================================================================
