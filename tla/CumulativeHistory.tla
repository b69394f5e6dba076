-------------------------- MODULE CumulativeHistory --------------------------
(***************************************************************************)
(* What Mini promises of its history, with no lock, transaction, file or   *)
(* crash in sight: every operation takes effect in one step, either adding *)
(* its whole batch to a history in which no identity ever gets a second    *)
(* value, or adding nothing; and it is audited in that same step.          *)
(***************************************************************************)
EXTENDS Naturals, Sequences, FiniteSets

CONSTANTS Key, Value

VARIABLES
  history,  \* the auctions accumulated so far
  results   \* outcome and number of new auctions of every operation, in order

Auction == [key : Key, value : Value]

Consistent(S) == \A a, b \in S : a.key = b.key => a = b

Init == history = {} /\ results = <<>>

Accumulate ==
  \E batch \in SUBSET Auction :
    /\ Consistent(history \cup batch)
    /\ history' = history \cup batch
    /\ results' = Append(results, [outcome  |-> "COMPLETED",
                                   inserted |-> Cardinality(batch \ history)])

Refuse ==
  /\ results' = Append(results, [outcome |-> "FAILED", inserted |-> 0])
  /\ UNCHANGED history

Next == Accumulate \/ Refuse

Spec == Init /\ [][Next]_<<history, results>>

=============================================================================
