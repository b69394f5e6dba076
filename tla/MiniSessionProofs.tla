-------------------------- MODULE MiniSessionProofs --------------------------
(***************************************************************************)
(* Proofs about MiniSession, for every number of polls and of attempts.     *)
(***************************************************************************)
EXTENDS MiniSession, TLAPS

-----------------------------------------------------------------------------
(* The inductive invariant.                                                *)

Exporting == {"locate", "submit", "await", "confirmation", "awaitConfirmed", "save", "verify"}

\* An exception is pending exactly where it is raised, translated or unwound.
ErrorsPending ==
  /\ error # "none" => pc \in {"unwind", "raised", "cleanup", "done"}
  /\ pc = "raised" => error # "none"
  /\ pc \in {"cleanup", "done"} => error \notin {"other", "rawTimeout", "invalidSession"}
  /\ outcome # "none" => pc = "done"
  /\ error = "cancelled" => cancel

\* A submission is marked before its click.
MarkedFirst ==
  /\ filterClicks <= 1 /\ (~filterSubmitted => filterClicks = 0)
  /\ exportClicks <= 1 /\ (~submitted => exportClicks = 0)

\* The export comes after the refresh of the filtered page, and PRISMA has
\* answered it when something is accepted.
FilteredFirst ==
  /\ pc \in Exporting \cup {"directory", "unwind", "downloaded"} => filtered
  /\ pc \in {"await", "confirmation", "awaitConfirmed", "save", "verify"} => offer \in Offers

\* Before the return an accepted source is complete and in its place.
AcceptedIsWhole ==
  \/ pc \in {"unwind", "cleanup"} /\ error = "none"
  \/ pc = "downloaded"
  \/ outcome = "source"
  => filtered /\ offer \in {"direct", "equal"} /\ directory = "final"

\* The directory exists from the download to its finally clause, and later
\* only if no attempt follows.
DirectoryOwned ==
  \/ pc \in Exporting \cup {"unwind", "downloaded", "done"}
  \/ pc = "raised" /\ error \in {"cancelled", "lifecycle", "download"}
  \/ pc = "cleanup" /\ error \notin {"startup", "timeout"}
  \/ directory = "none"

\* What is open and has not refused to close belongs to the attempt under way.
OpenIsCurrent ==
  \A k \in 1..MaxAttempts : \A r \in Objects :
    <<k, r>> \in resources \ refused => k = attempt /\ pc \notin {"attempt", "done"}

SessionInv ==
  /\ ErrorsPending /\ MarkedFirst /\ FilteredFirst /\ AcceptedIsWhole /\ DirectoryOwned
  /\ OpenIsCurrent

-----------------------------------------------------------------------------
(* Types.                                                                  *)

LEMMA InitType == Init => TypeOK
  <1> SUFFICES ASSUME Init PROVE TypeOK
    OBVIOUS
  <1>1. attempt \in 1..MaxAttempts /\ polls \in 0..(MaxPolls - 1)
    BY MaxAttemptsAssumption, MaxPollsAssumption DEF Init
  <1>2. pc \in Places /\ error \in Kinds /\ outcome \in Raised \cup {"none", "source"}
    BY DEF Init, Places, Kinds
  <1>3. directory \in {"none", "staging", "final"} /\ offer \in Offers \cup {"none"}
    BY DEF Init, DownloadInit
  <1>4. cancel \in BOOLEAN /\ gone \in BOOLEAN /\ closed \in BOOLEAN
    BY DEF Init
  <1>5. captured \in BOOLEAN /\ submitted \in BOOLEAN
        /\ filterSubmitted \in BOOLEAN /\ filtered \in BOOLEAN
    BY DEF Init, DownloadInit
  <1>6. exportClicks \in Nat /\ filterClicks \in Nat
    BY DEF Init, DownloadInit
  <1>7. resources \subseteq (1..MaxAttempts) \X Objects /\ refused \subseteq resources
    BY DEF Init
  <1>8. QED
    BY <1>1, <1>2, <1>3, <1>4, <1>5, <1>6, <1>7 DEF TypeOK

\* Needs the invariant: only a translated exception ends the session.
LEMMA NextType ==
  ASSUME TypeOK, ErrorsPending, [Next]_vars
  PROVE  TypeOK'
  <1> USE MaxAttemptsAssumption, MaxPollsAssumption
      DEF TypeOK, progressVars, downloadVars, filterVars, resourceVars, attemptVars,
          Places, Kinds, Raised, ErrorsPending
  <1>1. CASE BeginAttempt
    <2>1. gone' \in BOOLEAN /\ closed' \in BOOLEAN /\ filtered' \in BOOLEAN
      BY <1>1 DEF BeginAttempt
    <2>2. pc' \in Places /\ polls' \in 0..(MaxPolls - 1) /\ error' \in Kinds
          /\ outcome' \in Raised \cup {"none", "source"}
      BY <1>1 DEF BeginAttempt, Finish, Goto
    <2>3. UNCHANGED <<cancel, downloadVars, attempt, resourceVars, filterSubmitted, filterClicks>>
      BY <1>1 DEF BeginAttempt
    <2>4. QED
      BY <2>1, <2>2, <2>3
  <1>2. CASE OpenResource
    <2> DEFINE Same == UNCHANGED <<cancel, gone, downloadVars, attempt, closed, refused, outcome, filterVars>>
    <2>1. Same
      BY <1>2 DEF OpenResource
    <2>2. ASSUME NEW kind \in Kinds, Raise(kind), UNCHANGED resources
          PROVE  TypeOK'
      BY <2>1, <2>2 DEF Raise
    <2>3. ASSUME resources' = resources \cup {<<attempt, Opens[pc]>>}, Goto(After[pc]), pc \in DOMAIN Opens
          PROVE  TypeOK'
      <3>1. pc \in {"driver", "launch", "context", "page"}
        BY <2>3, Zenon DEF Opens
      <3>2. pc' \in Places
        BY <2>3, <3>1 DEF After, Goto
      <3>3. Opens[pc] \in Objects
        BY <3>1 DEF Opens, Objects
      <3>4. polls' = 0 /\ error' = error
        BY <2>3 DEF Goto
      <3>5. resources' \subseteq (1..MaxAttempts) \X Objects /\ refused \subseteq resources'
        BY <2>3, <3>3
      <3>6. QED
        BY <2>1, <3>2, <3>4, <3>5
    <2>4. QED
      BY <1>2, <2>2, <2>3 DEF OpenResource, CallErrors
  <1>3. CASE Navigate
    BY <1>3 DEF Navigate, Raise, Goto, CheckLifecycle, CallErrors
  <1>4. CASE ProbeReadiness
    BY <1>4 DEF ProbeReadiness, Raise, Goto, CheckLifecycle, CallErrors
  <1>5. CASE FillDates
    BY <1>5 DEF FillDates, FilterWait, Goto, Raise, Poll
  <1>6. CASE ApplyOnce
    <2>1. UNCHANGED <<cancel, gone, downloadVars, attemptVars, filtered>>
      BY <1>6 DEF ApplyOnce
    <2>2. pc' \in Places /\ polls' = 0 /\ error' \in Kinds
      BY <1>6 DEF ApplyOnce, Goto, Raise
    <2>3. filterSubmitted' \in BOOLEAN
      BY <1>6, Zenon DEF ApplyOnce
    <2>4. filterClicks' \in Nat
      BY <1>6 DEF ApplyOnce
    <2>5. QED
      BY <2>1, <2>2, <2>3, <2>4
  <1>7. CASE AwaitConfirmation
    BY <1>7 DEF AwaitConfirmation, FilterWait, Goto, Raise, Poll
  <1>8. CASE AwaitRefresh
    BY <1>8 DEF AwaitRefresh, FilterWait, Goto, Raise, Poll
  <1>9. CASE ReturnSource
    BY <1>9 DEF ReturnSource, CheckLifecycle, Raise, Goto
  <1>10. CASE TranslateError
    BY <1>10 DEF TranslateError, AttemptError
  <1>11. CASE LeaveAttempt
    BY <1>11 DEF LeaveAttempt, NextAttempt, EndSession, Retryable, Finish
  <1>27. CASE CloseResource
    <2>1. PICK r \in ToClose :
            \/ resources' = resources \ {<<attempt, r>>} /\ UNCHANGED refused
            \/ refused' = refused \cup {<<attempt, r>>} /\ UNCHANGED resources
      BY <1>27 DEF CloseResource
    <2>2. resources' \subseteq (1..MaxAttempts) \X Objects /\ refused' \subseteq resources'
      BY <2>1 DEF ToClose
    <2>3. UNCHANGED <<progressVars, cancel, gone, downloadVars, attempt, closed, outcome, filterVars>>
      BY <1>27 DEF CloseResource
    <2>4. QED
      BY <2>2, <2>3
  <1>12. CASE RequestCancel
    BY <1>12 DEF RequestCancel
  <1>13. CASE BrowserGoes
    BY <1>13 DEF BrowserGoes
  <1>14. CASE OnClosed
    BY <1>14 DEF OnClosed
  <1>15. CASE CreateDirectory /\ UNCHANGED <<cancel, gone, attemptVars, filterVars>>
    BY <1>15 DEF CreateDirectory, Goto, Raise
  <1>16. CASE LocateExport /\ UNCHANGED <<cancel, gone, attemptVars, filterVars>>
    BY <1>16 DEF LocateExport, WaitFor, KeepWaiting, Goto, Unwind, Poll
  <1>17. CASE SubmitOnce /\ UNCHANGED <<cancel, gone, attemptVars, filterVars>>
    <2>1. UNCHANGED <<cancel, gone, attemptVars, filterVars, directory, captured>>
      BY <1>17 DEF SubmitOnce
    <2>2. pc' \in Places /\ polls' = 0 /\ error' \in Kinds /\ offer' \in Offers \cup {"none"}
      BY <1>17 DEF SubmitOnce, Goto, Unwind
    <2>3. submitted' \in BOOLEAN
      BY <1>17, Zenon DEF SubmitOnce
    <2>4. exportClicks' \in Nat
      BY <1>17 DEF SubmitOnce
    <2>5. QED
      BY <2>1, <2>2, <2>3, <2>4
  <1>18. CASE AwaitDownloadOrDialog /\ UNCHANGED <<cancel, gone, attemptVars, filterVars>>
    BY <1>18 DEF AwaitDownloadOrDialog, WaitFor, KeepWaiting, TakeCaptured, Goto, Unwind, Poll
  <1>19. CASE ConfirmDialog /\ UNCHANGED <<cancel, gone, attemptVars, filterVars>>
    BY <1>19 DEF ConfirmDialog, WaitFor, KeepWaiting, Goto, Unwind, Poll
  <1>20. CASE AwaitDownload /\ UNCHANGED <<cancel, gone, attemptVars, filterVars>>
    BY <1>20 DEF AwaitDownload, KeepWaiting, TakeCaptured, Goto, Unwind, Poll
  <1>21. CASE SaveDownload /\ UNCHANGED <<cancel, gone, attemptVars, filterVars>>
    BY <1>21 DEF SaveDownload, Goto, Unwind
  <1>22. CASE VerifyFile /\ UNCHANGED <<cancel, gone, attemptVars, filterVars>>
    BY <1>22 DEF VerifyFile, Unwind
  <1>23. CASE LeaveDownload /\ UNCHANGED <<cancel, gone, attemptVars, filterVars>>
    BY <1>23 DEF LeaveDownload, RemoveRejected, KeepAccepted, Goto, Raise
  <1>24. CASE DownloadStarts /\ UNCHANGED <<attemptVars, filterVars>>
    BY <1>24 DEF DownloadStarts
  <1>25. CASE UNCHANGED vars
    BY <1>25 DEF vars
  <1>26. QED
    BY <1>1, <1>2, <1>3, <1>4, <1>5, <1>6, <1>7, <1>8, <1>9, <1>10, <1>11, <1>12, <1>13, <1>14, <1>15, <1>16, <1>17, <1>18, <1>19, <1>20, <1>21, <1>22, <1>23, <1>24, <1>25, <1>27
    DEF Next, Worker, Environment, Open, Filter, Export, End, Download

-----------------------------------------------------------------------------
(* The invariant.                                                          *)

LEMMA InitInv == Init => SessionInv
  BY DEF Init, DownloadInit, SessionInv, ErrorsPending, MarkedFirst, FilteredFirst,
         AcceptedIsWhole, DirectoryOwned, OpenIsCurrent, Exporting

LEMMA NextOpen ==
  ASSUME TypeOK, OpenIsCurrent, [Next]_vars
  PROVE  OpenIsCurrent'
  <1>1. ASSUME UNCHANGED <<attempt, resourceVars>>,
               pc' \in {"attempt", "done"} => pc \in {"attempt", "done"}
        PROVE  OpenIsCurrent'
    BY <1>1 DEF OpenIsCurrent, resourceVars
  <1>2. CASE OpenResource
    <2>1. pc \in {"driver", "launch", "context", "page"}
      BY <1>2, Zenon DEF OpenResource, Opens
    <2>2. pc' = "raised" \/ pc' = After[pc]
      BY <1>2 DEF OpenResource, Raise, Goto
    <2>3. pc' \notin {"attempt", "done"}
      BY <2>1, <2>2 DEF After
    <2>4. UNCHANGED <<attempt, refused>>
          /\ (resources' = resources \/ resources' = resources \cup {<<attempt, Opens[pc]>>})
      BY <1>2 DEF OpenResource
    <2>5. QED
      BY <2>3, <2>4 DEF OpenIsCurrent
  <1>3. CASE CloseResource
    <2>1. PICK r \in ToClose :
            \/ resources' = resources \ {<<attempt, r>>} /\ UNCHANGED refused
            \/ refused' = refused \cup {<<attempt, r>>} /\ UNCHANGED resources
      BY <1>3 DEF CloseResource
    <2>2. UNCHANGED <<attempt, pc>>
      BY <1>3 DEF CloseResource, progressVars
    <2>3. QED
      BY <2>1, <2>2 DEF OpenIsCurrent
  <1>4. CASE LeaveAttempt
    BY <1>4 DEF LeaveAttempt, OpenIsCurrent, ToClose, resourceVars
  <1>5. CASE BeginAttempt
    BY <1>1, <1>5 DEF BeginAttempt
  <1>6. CASE Navigate \/ ProbeReadiness \/ ReturnSource \/ TranslateError
    BY <1>1, <1>6 DEF Navigate, ProbeReadiness, ReturnSource, TranslateError, CheckLifecycle,
       Goto, Raise, attemptVars
  <1>7. CASE Filter
    BY <1>1, <1>7 DEF Filter, FillDates, ApplyOnce, AwaitConfirmation, AwaitRefresh, FilterWait,
       Goto, Raise, Poll, attemptVars
  <1>8. CASE Export
    <2>1. UNCHANGED <<attempt, resourceVars>>
      BY <1>8 DEF Export, attemptVars
    <2>2. pc' \notin {"attempt", "done"}
      BY <1>8 DEF Export, Download, CreateDirectory, LocateExport, SubmitOnce,
         AwaitDownloadOrDialog, ConfirmDialog, AwaitDownload, SaveDownload, VerifyFile,
         LeaveDownload, RemoveRejected, KeepAccepted, WaitFor, KeepWaiting, TakeCaptured,
         Goto, Raise, Unwind, Poll
    <2>3. QED
      BY <1>1, <2>1, <2>2
  <1>9. CASE Environment
    BY <1>1, <1>9 DEF Environment, RequestCancel, BrowserGoes, OnClosed, DownloadStarts,
       attemptVars, progressVars
  <1>10. CASE UNCHANGED vars
    BY <1>1, <1>10 DEF vars, attemptVars, progressVars
  <1>11. QED
    BY <1>2, <1>3, <1>4, <1>5, <1>6, <1>7, <1>8, <1>9, <1>10 DEF Next, Worker, Open, End

LEMMA NextInv ==
  ASSUME TypeOK, SessionInv, [Next]_vars
  PROVE  SessionInv'
  <1> SUFFICES (ErrorsPending /\ MarkedFirst /\ FilteredFirst /\ AcceptedIsWhole /\ DirectoryOwned)'
    BY NextOpen DEF SessionInv
  <1> USE DEF TypeOK, Places, Kinds, progressVars, downloadVars, filterVars, attemptVars, SessionInv,
              ErrorsPending, MarkedFirst, FilteredFirst, AcceptedIsWhole, DirectoryOwned, Exporting, Offers
  <1>1. CASE BeginAttempt
    BY <1>1 DEF BeginAttempt, Finish, Goto
  <1>2. CASE OpenResource
    BY <1>2 DEF OpenResource, Raise, Goto, Opens, After, CallErrors
  <1>3. CASE Navigate
    BY <1>3 DEF Navigate, Raise, Goto, CheckLifecycle, CallErrors
  <1>4. CASE ProbeReadiness
    BY <1>4 DEF ProbeReadiness, Raise, Goto, CheckLifecycle, CallErrors
  <1>5. CASE FillDates
    BY <1>5 DEF FillDates, FilterWait, Goto, Raise, Poll
  <1>6. CASE ApplyOnce
    BY <1>6 DEF ApplyOnce, Goto, Raise
  <1>7. CASE AwaitConfirmation
    BY <1>7 DEF AwaitConfirmation, FilterWait, Goto, Raise, Poll
  <1>8. CASE AwaitRefresh
    BY <1>8 DEF AwaitRefresh, FilterWait, Goto, Raise, Poll
  <1>9. CASE ReturnSource
    BY <1>9 DEF ReturnSource, CheckLifecycle, Raise, Goto
  <1>10. CASE TranslateError
    BY <1>10 DEF TranslateError, AttemptError
  <1>11. CASE LeaveAttempt
    BY <1>11 DEF LeaveAttempt, NextAttempt, EndSession, Retryable, Finish
  <1>27. CASE CloseResource
    BY <1>27 DEF CloseResource
  <1>12. CASE RequestCancel
    BY <1>12 DEF RequestCancel
  <1>13. CASE BrowserGoes
    BY <1>13 DEF BrowserGoes
  <1>14. CASE OnClosed
    BY <1>14 DEF OnClosed
  <1>15. CASE CreateDirectory /\ UNCHANGED <<cancel, gone, attemptVars, filterVars>>
    BY <1>15 DEF CreateDirectory, Goto, Raise
  <1>16. CASE LocateExport /\ UNCHANGED <<cancel, gone, attemptVars, filterVars>>
    BY <1>16 DEF LocateExport, WaitFor, KeepWaiting, Goto, Unwind, Poll
  <1>17. CASE SubmitOnce /\ UNCHANGED <<cancel, gone, attemptVars, filterVars>>
    BY <1>17 DEF SubmitOnce, Goto, Unwind, Offers
  <1>18. CASE AwaitDownloadOrDialog /\ UNCHANGED <<cancel, gone, attemptVars, filterVars>>
    BY <1>18 DEF AwaitDownloadOrDialog, WaitFor, KeepWaiting, TakeCaptured, Goto, Unwind, Poll
  <1>19. CASE ConfirmDialog /\ UNCHANGED <<cancel, gone, attemptVars, filterVars>>
    BY <1>19 DEF ConfirmDialog, WaitFor, KeepWaiting, Goto, Unwind, Poll
  <1>20. CASE AwaitDownload /\ UNCHANGED <<cancel, gone, attemptVars, filterVars>>
    BY <1>20 DEF AwaitDownload, KeepWaiting, TakeCaptured, Goto, Unwind, Poll
  <1>21. CASE SaveDownload /\ UNCHANGED <<cancel, gone, attemptVars, filterVars>>
    BY <1>21 DEF SaveDownload, Goto, Unwind
  <1>22. CASE VerifyFile /\ UNCHANGED <<cancel, gone, attemptVars, filterVars>>
    BY <1>22 DEF VerifyFile, Unwind
  <1>23. CASE LeaveDownload /\ UNCHANGED <<cancel, gone, attemptVars, filterVars>>
    BY <1>23 DEF LeaveDownload, RemoveRejected, KeepAccepted, Goto, Raise
  <1>24. CASE DownloadStarts /\ UNCHANGED <<attemptVars, filterVars>>
    BY <1>24 DEF DownloadStarts
  <1>25. CASE UNCHANGED vars
    BY <1>25 DEF vars
  <1>26. QED
    BY <1>1, <1>2, <1>3, <1>4, <1>5, <1>6, <1>7, <1>8, <1>9, <1>10, <1>11, <1>12, <1>13, <1>14, <1>15, <1>16, <1>17, <1>18, <1>19, <1>20, <1>21, <1>22, <1>23, <1>24, <1>25, <1>27
    DEF Next, Worker, Environment, Open, Filter, Export, End, Download

-----------------------------------------------------------------------------
(* The promise to the workflow.                                            *)

LEMMA DeliveryInit == Init => Delivery!Init
  BY DEF Init, DownloadInit, Delivery!Init

LEMMA WorkerDelivers ==
  ASSUME TypeOK, SessionInv, Worker
  PROVE  \/ UNCHANGED <<outcome, cancel>> /\ (outcome = "none" \/ UNCHANGED directory)
         \/ Delivery!Deliver
         \/ Delivery!Fail
  <1> USE DEF SessionInv, ErrorsPending, downloadVars, attemptVars, filterVars
  <1>1. CASE LeaveAttempt
    <2>1. UNCHANGED <<cancel, directory>> /\ pc = "cleanup" /\ outcome = "none"
      BY <1>1 DEF LeaveAttempt
    <2>2. CASE Retryable
      BY <1>1, <2>1, <2>2 DEF LeaveAttempt, NextAttempt, EndSession
    <2>3. CASE ~Retryable /\ error = "none"
      <3>1. outcome' = "source" /\ directory = "final"
        BY <1>1, <2>1, <2>3 DEF LeaveAttempt, NextAttempt, EndSession, Finish, AcceptedIsWhole
      <3>2. QED
        BY <2>1, <3>1 DEF Delivery!Deliver
    <2>4. CASE ~Retryable /\ error # "none"
      <3>1. outcome' = error /\ error \in Kinds
        BY <1>1, <2>4 DEF LeaveAttempt, NextAttempt, EndSession, Finish, TypeOK
      <3>2. outcome' \notin {"none", "source"} /\ (outcome' = "cancelled" => cancel)
        BY <2>4, <3>1 DEF Kinds
      <3>3. QED
        BY <2>1, <3>2 DEF Delivery!Fail
    <2>5. QED
      BY <2>2, <2>3, <2>4
  <1>2. CASE BeginAttempt
    <2>1. UNCHANGED <<cancel, directory>> /\ pc = "attempt" /\ outcome = "none"
      BY <1>2 DEF BeginAttempt
    <2>2. outcome' = outcome \/ (cancel /\ outcome' = "cancelled")
      BY <1>2 DEF BeginAttempt, Finish
    <2>3. QED
      BY <2>1, <2>2 DEF Delivery!Fail
  <1>3. CASE Export
    <2>1. outcome' = outcome /\ cancel' = cancel
      BY <1>3 DEF Export
    <2>2. outcome = "none"
      BY <1>3 DEF Export, Download, CreateDirectory, LocateExport, SubmitOnce,
             AwaitDownloadOrDialog, ConfirmDialog, AwaitDownload, SaveDownload, VerifyFile,
             LeaveDownload
    <2>3. QED
      BY <2>1, <2>2
  <1>4. CASE OpenResource \/ Navigate \/ ProbeReadiness \/ Filter \/ ReturnSource \/ TranslateError
    BY <1>4 DEF OpenResource, Navigate, ProbeReadiness, Filter, FillDates, ApplyOnce,
           AwaitConfirmation, AwaitRefresh, ReturnSource, TranslateError
  <1>6. CASE CloseResource
    BY <1>6 DEF CloseResource
  <1>5. QED
    BY <1>1, <1>2, <1>3, <1>4, <1>6 DEF Worker, Open, End

LEMMA DeliveryNext ==
  ASSUME TypeOK, SessionInv, [Next]_vars
  PROVE  [Delivery!Request \/ Delivery!Work \/ Delivery!Deliver \/ Delivery!Fail]_
           <<IF outcome \in {"none", "source", "cancelled"} THEN outcome ELSE "error",
             directory # "none", cancel>>
  <1>1. CASE Worker
    BY <1>1, WorkerDelivers DEF Delivery!Work
  <1>2. CASE RequestCancel
    BY <1>2 DEF RequestCancel, downloadVars, attemptVars, Delivery!Request
  <1>3. CASE BrowserGoes \/ OnClosed \/ (DownloadStarts /\ UNCHANGED <<attemptVars, filterVars>>)
    BY <1>3 DEF BrowserGoes, OnClosed, DownloadStarts, downloadVars, attemptVars
  <1>4. CASE UNCHANGED vars
    BY <1>4 DEF vars, downloadVars, attemptVars
  <1>5. QED
    BY <1>1, <1>2, <1>3, <1>4 DEF Next, Environment

-----------------------------------------------------------------------------
(* The theorems.                                                           *)

\* The inductive invariant of a session, whatever PRISMA, the browser and the
\* user do (mini_browser.py, mini_download.py).
THEOREM SessionInvariant == Spec => [](TypeOK /\ SessionInv)
  <1>1. Init => TypeOK /\ SessionInv
    BY InitType, InitInv
  <1>2. TypeOK /\ SessionInv /\ [Next]_vars => (TypeOK /\ SessionInv)'
    BY NextType, NextInv DEF SessionInv
  <1>3. QED
    BY <1>1, <1>2, PTL DEF Spec

\* Every variable of the session keeps its type; the attempt stays bounded.
THEOREM TypeCorrect == Spec => []TypeOK
  BY SessionInvariant, PTL

\* Apply and the main CSV action are clicked once at most in all attempts.
THEOREM SubmissionIsOnce == Spec => []SubmittedOnce
  <1>1. SessionInv => SubmittedOnce
    BY DEF SessionInv, MarkedFirst, SubmittedOnce
  <1>2. QED
    BY <1>1, SessionInvariant, PTL

\* download_csv returns only a complete export of the requested range.
THEOREM SourceIsAccepted == Spec => []SourceIsWhole
  <1>1. SessionInv => SourceIsWhole
    BY DEF SessionInv, AcceptedIsWhole, SourceIsWhole
  <1>2. QED
    BY <1>1, SessionInvariant, PTL

\* The finally clause of an attempt tries to close everything it opened, whatever
\* refuses, and a repeated attempt finds no directory of the last one.
THEOREM RetryIsTidy == Spec => []RetryIsClean
  <1>1. TypeOK /\ OpenIsCurrent /\ pc \in {"attempt", "done"} => resources \subseteq refused
    <2> SUFFICES ASSUME TypeOK, OpenIsCurrent, pc \in {"attempt", "done"}, NEW x \in resources
                 PROVE  x \in refused
      OBVIOUS
    <2>1. PICK k \in 1..MaxAttempts, r \in Objects : x = <<k, r>>
      BY DEF TypeOK
    <2>2. QED
      BY <2>1 DEF OpenIsCurrent
  <1>2. TypeOK /\ SessionInv => RetryIsClean
    BY <1>1 DEF SessionInv, DirectoryOwned, ErrorsPending, Exporting, RetryIsClean
  <1>3. QED
    BY <1>2, SessionInvariant, PTL

\* What the workflow relies on is what the session does: every step of it
\* cancels, works on the directory, delivers a directory that exists, or fails.
THEOREM DeliveryIsImplemented == Spec => ImplementsDelivery
  <1>1. TypeOK /\ SessionInv /\ [Next]_vars =>
          [Delivery!Request \/ Delivery!Work \/ Delivery!Deliver \/ Delivery!Fail]_
            <<IF outcome \in {"none", "source", "cancelled"} THEN outcome ELSE "error",
              directory # "none", cancel>>
    BY DeliveryNext
  <1>2. QED
    BY <1>1, DeliveryInit, SessionInvariant, PTL DEF Spec, ImplementsDelivery, Delivery!Spec

-----------------------------------------------------------------------------
(* The course of a session.                                                *)

\* The places of an attempt in the order in which they are reached.
Order ==
  [attempt |-> 0, driver |-> 1, launch |-> 2, context |-> 3, page |-> 4, goto |-> 5,
   probe |-> 6, fill |-> 7, apply |-> 8, confirm |-> 9, refresh |-> 10, directory |-> 11,
   locate |-> 12, submit |-> 13, await |-> 14, confirmation |-> 15, awaitConfirmed |-> 16,
   save |-> 17, verify |-> 18, unwind |-> 19, downloaded |-> 20, raised |-> 21,
   cleanup |-> 22, done |-> 23]

Later ==
  \/ attempt' = attempt + 1
  \/ attempt' = attempt /\ Order[pc'] > Order[pc]
  \/ attempt' = attempt /\ pc' = pc /\ polls' = polls + 1
  \/ attempt' = attempt /\ pc' = pc /\ ToClose' \subseteq ToClose /\ ToClose' # ToClose

LEMMA WorkerAdvances ==
  ASSUME TypeOK, Worker
  PROVE  Later
  <1> USE DEF Later, Order, attemptVars, Goto, Raise, Unwind, Poll
  <1>1. CASE BeginAttempt
    BY <1>1 DEF BeginAttempt, Finish
  <1>2. CASE OpenResource
    <2>1. attempt' = attempt /\ pc \in {"driver", "launch", "context", "page"}
      BY <1>2, Zenon DEF OpenResource, Opens
    <2>2. pc' = "raised" \/ pc' = After[pc]
      BY <1>2 DEF OpenResource
    <2> QED BY <2>1, <2>2 DEF After
  <1>3. CASE Navigate \/ ProbeReadiness \/ ReturnSource
    BY <1>3 DEF Navigate, ProbeReadiness, ReturnSource, CheckLifecycle
  <1>4. CASE Filter
    BY <1>4 DEF Filter, FillDates, ApplyOnce, AwaitConfirmation, AwaitRefresh, FilterWait
  <1>5. CASE TranslateError \/ LeaveAttempt
    BY <1>5 DEF TranslateError, LeaveAttempt, NextAttempt, EndSession, Finish
  <1>7. CASE CloseResource
    <2>1. PICK r \in ToClose :
            \/ resources' = resources \ {<<attempt, r>>} /\ UNCHANGED refused
            \/ refused' = refused \cup {<<attempt, r>>} /\ UNCHANGED resources
      BY <1>7 DEF CloseResource
    <2>2. attempt' = attempt /\ pc' = pc
      BY <1>7 DEF CloseResource, progressVars
    <2>3. ToClose' = ToClose \ {r}
      BY <2>1, <2>2 DEF ToClose
    <2>4. QED
      BY <2>1, <2>2, <2>3
  <1>6. CASE Export
    <2>1. attempt' = attempt
      BY <1>6 DEF Export
    <2>2. CASE CreateDirectory \/ SubmitOnce \/ SaveDownload \/ VerifyFile \/ LeaveDownload
      BY <2>1, <2>2 DEF CreateDirectory, SubmitOnce, SaveDownload, VerifyFile, LeaveDownload,
         RemoveRejected, KeepAccepted
    <2>3. CASE LocateExport \/ AwaitDownloadOrDialog \/ ConfirmDialog \/ AwaitDownload
      BY <2>1, <2>3 DEF LocateExport, AwaitDownloadOrDialog, ConfirmDialog, AwaitDownload,
         WaitFor, KeepWaiting, TakeCaptured
    <2> QED BY <1>6, <2>2, <2>3 DEF Export, Download
  <1> QED BY <1>1, <1>2, <1>3, <1>4, <1>5, <1>6, <1>7 DEF Worker, Open, End

\* Every step of the worker leads to a later attempt, a later place of the same
\* attempt, a later poll of the same wait, or one object less to close, and nothing
\* else moves it: with the bounds of all four a session takes finitely many steps, whatever PRISMA,
\* the browser and the user do, and after its return nothing is left to do.
THEOREM SessionAdvances ==
  Spec => [][/\ attempt \in 1..MaxAttempts /\ polls \in 0..(MaxPolls - 1)
             /\ Worker => pc # "done" /\ Later
             /\ ~Worker => UNCHANGED <<attempt, pc, polls, outcome>>]_vars
  <1>1. TypeOK /\ SessionInv /\ [Next]_vars =>
          [/\ attempt \in 1..MaxAttempts /\ polls \in 0..(MaxPolls - 1)
           /\ Worker => pc # "done" /\ Later
           /\ ~Worker => UNCHANGED <<attempt, pc, polls, outcome>>]_vars
    <2> SUFFICES ASSUME TypeOK, SessionInv, Next
                 PROVE  /\ attempt \in 1..MaxAttempts /\ polls \in 0..(MaxPolls - 1)
                        /\ Worker => pc # "done" /\ Later
                        /\ ~Worker => UNCHANGED <<attempt, pc, polls, outcome>>
      OBVIOUS
    <2>1. attempt \in 1..MaxAttempts /\ polls \in 0..(MaxPolls - 1) /\ pc \in Places
      BY DEF TypeOK
    <2>2. ASSUME Worker PROVE pc # "done"
      BY <2>2 DEF Worker, Open, BeginAttempt, OpenResource, Opens, Navigate, ProbeReadiness,
         Filter, FillDates, ApplyOnce, AwaitConfirmation, AwaitRefresh, Export, Download,
         CreateDirectory, LocateExport, SubmitOnce, AwaitDownloadOrDialog, ConfirmDialog,
         AwaitDownload, SaveDownload, VerifyFile, LeaveDownload, End, ReturnSource,
         TranslateError, CloseResource, LeaveAttempt
    <2>3. ASSUME Environment PROVE UNCHANGED <<attempt, pc, polls, outcome>>
      BY <2>3 DEF Environment, RequestCancel, BrowserGoes, OnClosed, DownloadStarts,
         progressVars, attemptVars
    <2> QED BY <2>1, <2>2, <2>3, WorkerAdvances DEF Next
  <1> QED BY <1>1, SessionInvariant, PTL DEF Spec

=============================================================================
