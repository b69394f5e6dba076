---------------------------- MODULE MiniSession -----------------------------
(***************************************************************************)
(* MiniPrismaSession.download_csv (mini_browser.py): attempts to open the   *)
(* page in a managed browser, the date filter, and the download.  The      *)
(* filter and the downloader are shared by the attempts, the page is not.  *)
(*                                                                         *)
(* The worker owns every Playwright object.  Only the cancel event, PRISMA *)
(* and the browser itself act beside it; events of the browser are         *)
(* dispatched while the worker waits in a Playwright call.                 *)
(***************************************************************************)
EXTENDS MiniDownload

CONSTANT MaxAttempts  \* MiniBrowserPolicy.max_attempts

ASSUME MaxAttemptsAssumption == MaxAttempts \in {1, 2}

VARIABLES
  attempt,
  closed,           \* unexpectedly_closed of this attempt
  resources,        \* Playwright objects that are open, with their attempt
  refused,          \* those of them whose close() or stop() has failed
  filterSubmitted,  \* MiniPrismaDateFilter._submitted
  filterClicks,     \* clicks of Apply
  filtered,         \* the page of this attempt shows the requested range
  outcome           \* what download_csv returns or raises, "none" before

filterVars  == <<filterSubmitted, filterClicks, filtered>>
resourceVars == <<resources, refused>>
attemptVars == <<attempt, closed, resourceVars, outcome>>
vars == <<progressVars, cancel, gone, downloadVars, attemptVars, filterVars>>

Init ==
  /\ pc = "attempt" /\ polls = 0 /\ error = "none"
  /\ cancel = FALSE /\ gone = FALSE
  /\ DownloadInit
  /\ attempt = 1 /\ closed = FALSE /\ outcome = "none"
  /\ resources = {} /\ refused = {}
  /\ filterSubmitted = FALSE /\ filterClicks = 0 /\ filtered = FALSE

Finish(o) == outcome' = o /\ pc' = "done" /\ UNCHANGED <<polls, error>>

-----------------------------------------------------------------------------
(* Opening the page.                                                       *)

BeginAttempt ==
  /\ pc = "attempt"
  /\ \/ cancel /\ Finish("cancelled")
     \/ ~cancel /\ Goto("driver") /\ UNCHANGED outcome
  /\ gone' = FALSE /\ closed' = FALSE /\ filtered' = FALSE
  /\ UNCHANGED <<cancel, downloadVars, attempt, resourceVars, filterSubmitted, filterClicks>>

Objects == {"playwright", "browser", "context", "page"}

\* What each stage opens, and the stage after it.
Opens == [driver |-> "playwright", launch |-> "browser", context |-> "context",
          page |-> "page"]
After == [driver |-> "launch", launch |-> "context", context |-> "page",
          page |-> "goto"]

\* What a Playwright call raises; one on a page that is gone does not time out.
CallErrors == IF gone THEN {"other"} ELSE {"rawTimeout", "other"}

OpenResource ==
  /\ pc \in DOMAIN Opens
  /\ \/ pc \in {"driver", "context"} /\ cancel /\ Raise("cancelled") /\ UNCHANGED resources
     \/ /\ ~(pc \in {"driver", "context"} /\ cancel) /\ ~gone
        /\ resources' = resources \cup {<<attempt, Opens[pc]>>} /\ Goto(After[pc])
     \/ \E kind \in CallErrors : Raise(kind) /\ UNCHANGED resources
  /\ UNCHANGED <<cancel, gone, downloadVars, attempt, closed, refused, outcome, filterVars>>

CheckLifecycle(next) ==
  IF cancel THEN Raise("cancelled")
  ELSE IF closed THEN Raise("lifecycle")
  ELSE Goto(next)

Navigate ==
  /\ pc = "goto"
  /\ \/ ~gone /\ CheckLifecycle("probe")
     \/ \E kind \in CallErrors : Raise(kind)
  /\ UNCHANGED <<cancel, gone, downloadVars, attemptVars, filterVars>>

\* PrismaSessionValidator turns a page that goes away into an invalid session.
ProbeReadiness ==
  /\ pc = "probe"
  /\ \/ ~gone /\ CheckLifecycle("fill")
     \/ \E kind \in CallErrors \cup {"authentication", "invalidSession"} : Raise(kind)
  /\ UNCHANGED <<cancel, gone, downloadVars, attemptVars, filterVars>>

-----------------------------------------------------------------------------
(* The date filter.  A MiniDateFilterError is "filter".                     *)

FilterWait(found) ==
  \/ cancel /\ Raise("cancelled")
  \/ ~cancel /\ ~gone /\ found
  \/ ~cancel /\ Poll
  \/ ~cancel /\ \E kind \in {"filter", "authentication"} : Raise(kind)

\* Both dates are filled in and read back; Apply is located.
FillDates ==
  /\ pc = "fill"
  /\ FilterWait(Goto("apply"))
  /\ UNCHANGED <<cancel, gone, downloadVars, attemptVars, filterVars>>

\* Mutant: the flag is not asked.
ApplyEachTime ==
  /\ pc = "apply"
  /\ \/ cancel /\ Raise("cancelled") /\ UNCHANGED <<filterSubmitted, filterClicks>>
     \/ /\ ~cancel
        /\ filterSubmitted' = TRUE /\ filterClicks' = filterClicks + 1
        /\ \/ ~gone /\ Goto("confirm")
           \/ \E kind \in {"filter", "authentication"} : Raise(kind)
  /\ UNCHANGED <<cancel, gone, downloadVars, attemptVars, filtered>>

\* The submission is marked before the click, whose timeout is uncertain.
ApplyOnce ==
  /\ pc = "apply"
  /\ \/ cancel /\ Raise("cancelled") /\ UNCHANGED <<filterSubmitted, filterClicks>>
     \/ ~cancel /\ filterSubmitted /\ Raise("filter")
        /\ UNCHANGED <<filterSubmitted, filterClicks>>
     \/ /\ ~cancel /\ ~filterSubmitted
        /\ filterSubmitted' = TRUE /\ filterClicks' = filterClicks + 1
        /\ \/ ~gone /\ Goto("confirm")
           \/ \E kind \in {"filter", "authentication"} : Raise(kind)
  /\ UNCHANGED <<cancel, gone, downloadVars, attemptVars, filtered>>

AwaitConfirmation ==
  /\ pc = "confirm"
  /\ FilterWait(Goto("refresh"))
  /\ UNCHANGED <<cancel, gone, downloadVars, attemptVars, filterVars>>

AwaitRefresh ==
  /\ pc = "refresh"
  /\ FilterWait(Goto("directory"))
  /\ filtered' = (pc' = "directory")
  /\ UNCHANGED <<cancel, gone, downloadVars, attemptVars, filterSubmitted, filterClicks>>

-----------------------------------------------------------------------------
(* The end of an attempt.                                                  *)

ReturnSource ==
  /\ pc = "downloaded"
  /\ CheckLifecycle("cleanup")
  /\ UNCHANGED <<cancel, gone, downloadVars, attemptVars, filterVars>>

\* Mutant: every exception of a call is taken for a cancellation.
AttemptErrorCancelled(kind) == IF kind = "other" THEN "cancelled" ELSE kind

\* The except clauses of _run_attempt.
AttemptError(kind) ==
  CASE kind = "invalidSession"                             -> "startup"
    [] kind \in {"rawTimeout", "other"} /\ cancel           -> "cancelled"
    [] kind = "rawTimeout" /\ ~cancel                       -> "timeout"
    [] kind = "other" /\ ~cancel                            -> IF closed THEN "lifecycle" ELSE "startup"
    [] kind \notin {"invalidSession", "rawTimeout", "other"} -> kind

TranslateError ==
  /\ pc = "raised"
  /\ error' = AttemptError(error) /\ pc' = "cleanup"
  /\ UNCHANGED <<polls, cancel, gone, downloadVars, attemptVars, filterVars>>

Retryable == error \in {"startup", "timeout"} /\ attempt < MaxAttempts

\* What the finally clause has still to close, and in which order.
ToClose == {r \in Objects : <<attempt, r>> \in resources \ refused}
CloseOrder == [page |-> 1, context |-> 2, browser |-> 3, playwright |-> 4]

\* Each object gets its call.  A failure is logged, and the object stays open.
CloseResource ==
  /\ pc = "cleanup"
  /\ \E r \in ToClose :
       /\ \A s \in ToClose : CloseOrder[r] <= CloseOrder[s]
       /\ \/ resources' = resources \ {<<attempt, r>>} /\ UNCHANGED refused
          \/ refused' = refused \cup {<<attempt, r>>} /\ UNCHANGED resources
  /\ UNCHANGED <<progressVars, cancel, gone, downloadVars, attempt, closed, outcome, filterVars>>

\* The loop of run.
NextAttempt ==
  /\ Retryable
  /\ attempt' = attempt + 1 /\ pc' = "attempt" /\ error' = "none"
  /\ UNCHANGED <<polls, outcome>>

EndSession ==
  /\ ~Retryable
  /\ Finish(IF error = "none" THEN "source" ELSE error)
  /\ UNCHANGED attempt

\* Mutant: the first failure ends the finally clause.
LeaveAfterRefusal ==
  /\ pc = "cleanup" /\ (ToClose = {} \/ \E r \in Objects : <<attempt, r>> \in refused)
  /\ NextAttempt \/ EndSession
  /\ UNCHANGED <<cancel, gone, closed, resourceVars, downloadVars, filterVars>>

LeaveAttempt ==
  /\ pc = "cleanup" /\ ToClose = {}
  /\ NextAttempt \/ EndSession
  /\ UNCHANGED <<cancel, gone, closed, resourceVars, downloadVars, filterVars>>

-----------------------------------------------------------------------------
(* Beside the worker.                                                      *)

RequestCancel ==
  /\ outcome = "none"
  /\ cancel' = TRUE
  /\ UNCHANGED <<progressVars, gone, downloadVars, attemptVars, filterVars>>

\* The browser, the context or the page is closed or crashes.
BrowserGoes ==
  /\ <<attempt, "browser">> \in resources
  /\ gone' = TRUE
  /\ UNCHANGED <<progressVars, cancel, downloadVars, attemptVars, filterVars>>

\* Where the worker is inside a Playwright call that dispatches events.
InCall == pc \in {"context", "page", "goto", "probe", "fill", "apply", "confirm", "refresh",
                  "locate", "submit", "await", "confirmation", "awaitConfirmed", "save"}

\* on_closed.
OnClosed ==
  /\ gone /\ InCall /\ ~cancel
  /\ closed' = TRUE
  /\ UNCHANGED <<progressVars, cancel, gone, downloadVars, attempt, resourceVars, outcome, filterVars>>

-----------------------------------------------------------------------------
Open   == BeginAttempt \/ OpenResource \/ Navigate \/ ProbeReadiness
Filter == FillDates \/ ApplyOnce \/ AwaitConfirmation \/ AwaitRefresh
Export == Download /\ UNCHANGED <<cancel, gone, attemptVars, filterVars>>
End    == ReturnSource \/ TranslateError \/ CloseResource \/ LeaveAttempt

Worker      == Open \/ Filter \/ Export \/ End
Environment == RequestCancel \/ BrowserGoes \/ OnClosed
               \/ (DownloadStarts /\ UNCHANGED <<attemptVars, filterVars>>)

Next == Worker \/ Environment

Spec == Init /\ [][Next]_vars

\* The worker is scheduled, and its calls return: each has a timeout, except
\* the transfer of a download that has started, which is assumed to end.
FairSpec == Spec /\ WF_vars(Worker)

-----------------------------------------------------------------------------
(* Properties.                                                             *)

Kinds == {"none", "cancelled", "download", "other", "rawTimeout", "authentication",
          "invalidSession", "filter", "lifecycle", "startup", "timeout"}
Raised == Kinds \ {"none", "other", "rawTimeout", "invalidSession"}
Places == {"attempt", "driver", "launch", "context", "page", "goto", "probe", "fill", "apply",
           "confirm", "refresh", "directory", "locate", "submit", "await", "confirmation",
           "awaitConfirmed", "save", "verify", "unwind", "downloaded", "raised", "cleanup",
           "done"}

TypeOK ==
  /\ pc \in Places
  /\ polls \in 0..(MaxPolls - 1)
  /\ error \in Kinds
  /\ cancel \in BOOLEAN /\ gone \in BOOLEAN /\ closed \in BOOLEAN
  /\ directory \in {"none", "staging", "final"}
  /\ captured \in BOOLEAN /\ submitted \in BOOLEAN /\ offer \in Offers \cup {"none"}
  /\ exportClicks \in Nat /\ filterClicks \in Nat
  /\ attempt \in 1..MaxAttempts
  /\ resources \subseteq (1..MaxAttempts) \X Objects /\ refused \subseteq resources
  /\ filterSubmitted \in BOOLEAN /\ filtered \in BOOLEAN
  /\ outcome \in Raised \cup {"none", "source"}

\* FR-002, FR-003: neither the filter nor the export is submitted twice, also
\* when an attempt is repeated after an uncertain click.
SubmittedOnce == filterClicks <= 1 /\ exportClicks <= 1

\* A source is a complete export of the range requested: it comes from a page
\* that shows the range, is not limited, and is in its place.
SourceIsWhole ==
  outcome = "source" => filtered /\ offer \in {"direct", "equal"} /\ directory = "final"

\* However an attempt ends, each object it opened got its own close() or stop(),
\* also after another one failed: what is open when the next attempt begins, or
\* when the session ends, refused it.  An attempt is repeated only when the last
\* one left no directory.
RetryIsClean ==
  /\ pc \in {"attempt", "done"} => resources \subseteq refused
  /\ pc = "attempt" => directory = "none" /\ error = "none"

\* A session comes to an end, whatever PRISMA and the browser do.
SessionEnds == <>(pc = "done")

\* The session delivers what the workflow relies on.
Delivery == INSTANCE SourceDelivery WITH
  outcome <- IF outcome \in {"none", "source", "cancelled"} THEN outcome ELSE "error",
  directory <- directory # "none"

ImplementsDelivery == Delivery!Spec

=============================================================================
