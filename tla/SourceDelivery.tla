--------------------------- MODULE SourceDelivery ---------------------------
(***************************************************************************)
(* What the workflow relies on when it calls download_csv: one source in a  *)
(* directory that is kept, or an error; a cancellation is never invented;   *)
(* nothing changes after the return.                                       *)
(***************************************************************************)

VARIABLES outcome, directory, cancel

Init == outcome = "none" /\ directory = FALSE /\ cancel = FALSE

Request == cancel' = TRUE /\ UNCHANGED <<outcome, directory>>

Work == outcome = "none" /\ directory' \in BOOLEAN /\ UNCHANGED <<outcome, cancel>>

Deliver ==
  /\ outcome = "none" /\ directory
  /\ outcome' = "source"
  /\ UNCHANGED <<directory, cancel>>

Fail ==
  /\ outcome = "none"
  /\ outcome' = "error" \/ (cancel /\ outcome' = "cancelled")
  /\ UNCHANGED <<directory, cancel>>

Spec == Init /\ [][Request \/ Work \/ Deliver \/ Fail]_<<outcome, directory, cancel>>

=============================================================================
