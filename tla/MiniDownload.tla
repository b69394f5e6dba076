---------------------------- MODULE MiniDownload ----------------------------
(***************************************************************************)
(* MiniPrismaCsvDownloader (mini_download.py): one export of the page, with *)
(* or without the limit dialog, saved to a directory of its own.           *)
(*                                                                         *)
(* Each step is a Playwright call or a group of file operations, with the  *)
(* cancellation check before it.  Every failure of it is an exception of   *)
(* one of the kinds that the session tells apart.                          *)
(***************************************************************************)
EXTENDS Naturals

CONSTANT MaxPolls  \* polls until the deadline of a wait

ASSUME MaxPollsAssumption == MaxPolls \in Nat \ {0}

VARIABLES
  pc,            \* where the worker is
  polls,         \* polls of the current wait
  error,         \* the exception being raised, "none" without one
  cancel,        \* cancel_event
  gone,          \* the browser, the context or the page no longer exists
  directory,     \* the operation directory: "none", "staging" or "final"
  captured,      \* a download event has been observed
  submitted,     \* exports submitted: MiniPrismaCsvDownloader._submitted
  exportClicks,  \* clicks of the main CSV action
  offer          \* how PRISMA answers the export

progressVars == <<pc, polls, error>>
downloadVars == <<directory, captured, submitted, exportClicks, offer>>

\* An export at once, or behind a dialog that admits all items or fewer.
Offers == {"direct", "equal", "limited"}

Goto(p)     == pc' = p /\ polls' = 0 /\ UNCHANGED error
Raise(kind) == pc' = "raised" /\ polls' = 0 /\ error' = kind

\* Leave the try block of download.
Unwind(kind) == pc' = "unwind" /\ polls' = 0 /\ error' = kind

\* Mutant: the deadline is never reached.
PollAgain == polls' = (polls + 1) % MaxPolls /\ UNCHANGED <<pc, error>>

\* A poll timed out before the deadline.
Poll == polls + 1 < MaxPolls /\ polls' = polls + 1 /\ UNCHANGED <<pc, error>>

DownloadInit ==
  /\ directory = "none" /\ captured = FALSE
  /\ submitted = FALSE /\ exportClicks = 0 /\ offer = "none"

-----------------------------------------------------------------------------
\* MiniDownloadCancelledError and MiniBrowserCancelledError are "cancelled";
\* every other MiniDownloadError is "download".
CreateDirectory ==
  /\ pc = "directory"
  /\ \/ cancel /\ Raise("cancelled") /\ UNCHANGED directory
     \/ ~cancel /\ Goto("locate") /\ directory' = "staging"
     \/ ~cancel /\ Raise("download") /\ UNCHANGED directory
  /\ UNCHANGED <<captured, submitted, exportClicks, offer>>

\* A wait goes on, or ends without what it waits for: the DOM has changed, the
\* page has closed, the deadline is reached.
KeepWaiting ==
  \/ cancel /\ Unwind("cancelled")
  \/ ~cancel /\ Poll
  \/ ~cancel /\ Unwind("download")

\* Wait for something that the page shows.
WaitFor(found) == KeepWaiting \/ (~cancel /\ ~gone /\ found)

\* A download that has been captured is taken without asking the page.
TakeCaptured == ~cancel /\ captured /\ Goto("save")

\* The listener, and the main action outside the dialog; both are asked for
\* before the first check of the cancellation.
LocateExport ==
  /\ pc = "locate"
  /\ WaitFor(Goto("submit")) \/ (polls = 0 /\ Unwind("download"))
  /\ UNCHANGED downloadVars

\* The submission is marked before the click, whose failure is uncertain.
SubmitOnce ==
  /\ pc = "submit"
  /\ \/ cancel /\ Unwind("cancelled") /\ UNCHANGED <<submitted, exportClicks, offer>>
     \/ ~cancel /\ submitted /\ Unwind("download")
        /\ UNCHANGED <<submitted, exportClicks, offer>>
     \/ /\ ~cancel /\ ~submitted
        /\ submitted' = TRUE /\ exportClicks' = exportClicks + 1
        /\ \/ ~gone /\ Goto("await") /\ offer' \in Offers
           \/ Unwind("download") /\ UNCHANGED offer
  /\ UNCHANGED <<directory, captured>>

\* The event is dispatched while the worker waits in Playwright.
DownloadStarts ==
  /\ ~gone /\ ~captured
  /\ \/ pc = "await" /\ offer = "direct"
     \/ pc = "awaitConfirmed" /\ offer \in {"equal", "limited"}
  /\ captured' = TRUE
  /\ UNCHANGED <<progressVars, cancel, gone, directory, submitted, exportClicks, offer>>

\* The download, or a dialog with well-formed counts.
AwaitDownloadOrDialog ==
  /\ pc = "await"
  /\ \/ TakeCaptured
     \/ WaitFor(~captured /\ offer \in {"equal", "limited"} /\ Goto("confirmation"))
  /\ UNCHANGED downloadVars

ConfirmDialog ==
  /\ pc = "confirmation"
  /\ WaitFor(Goto("awaitConfirmed")) \/ (polls = 0 /\ Unwind("download"))
  /\ UNCHANGED downloadVars

AwaitDownload ==
  /\ pc = "awaitConfirmed"
  /\ KeepWaiting \/ TakeCaptured
  /\ UNCHANGED downloadVars

\* File name, completeness, save_as; the page may be gone by now.
SaveDownload ==
  /\ pc = "save"
  /\ \/ ~cancel /\ Goto("verify")
     \/ cancel /\ Unwind("cancelled")
     \/ Unwind("download")
  /\ UNCHANGED downloadVars

\* Mutant: a limited export is accepted.
VerifyWithoutLimit ==
  /\ pc = "verify"
  /\ directory' = "final" /\ Unwind("none")
  /\ UNCHANGED <<captured, submitted, exportClicks, offer>>

\* Size, digest and contract, os.replace, and last the limit of the dialog.
\* The listing before and the request built after are not guarded.
VerifyFile ==
  /\ pc = "verify"
  /\ \/ directory' = "final" /\ Unwind(IF offer = "limited" THEN "download" ELSE "none")
     \/ directory' \in {"staging", "final"} /\ \E kind \in {"download", "other"} : Unwind(kind)
  /\ UNCHANGED <<captured, submitted, exportClicks, offer>>

\* The finally clause of a download that is not accepted.
RemoveRejected ==
  /\ error # "none"
  /\ \/ directory' = "none" /\ Raise(error)
     \/ UNCHANGED directory /\ Raise("download")

\* That of an accepted one, whose listener is removed or not.
KeepAccepted ==
  /\ error = "none"
  /\ \/ Goto("downloaded") /\ UNCHANGED directory
     \/ Raise("download") /\ directory' \in {"none", directory}

LeaveDownload ==
  /\ pc = "unwind"
  /\ RemoveRejected \/ KeepAccepted
  /\ UNCHANGED <<captured, submitted, exportClicks, offer>>

Download ==
  CreateDirectory \/ LocateExport \/ SubmitOnce \/ AwaitDownloadOrDialog
  \/ ConfirmDialog \/ AwaitDownload \/ SaveDownload \/ VerifyFile \/ LeaveDownload

=============================================================================
