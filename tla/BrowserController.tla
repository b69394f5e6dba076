-------------------------- MODULE BrowserController --------------------------
(***************************************************************************)
(* BrowserController (browser.py): the generations of the managed browser, *)
(* the worker thread of the current one, and threads that ask it for the   *)
(* status of an auction.                                                   *)
(*                                                                         *)
(* open() needs the state IDLE, which only the worker of the current       *)
(* generation sets, as the last thing it does: there is one worker at most *)
(* and its generation is the current one.  A caller may be left behind by  *)
(* it: its request then belongs to an older generation.                    *)
(***************************************************************************)
EXTENDS Naturals, Sequences, FiniteSets

CONSTANTS
  Caller,        \* threads that call read_live_auction_status
  Status,        \* statuses PRISMA shows
  None,          \* no caller
  MaxGeneration, \* bound: browser launches
  MaxTables,     \* bound: tables of a page
  MaxRows        \* bound: rows of a table

ASSUME CallerAssumption == None \notin Caller
ASSUME BoundAssumption == {MaxGeneration, MaxTables, MaxRows} \subseteq Nat
ASSUME StatusAssumption == Status \cap {"notFound", "error", "unavailable", "timeout", "none"} = {}

VARIABLES
  state,        \* BrowserState
  generation,
  cancelled,    \* the cancel event of the generation is set
  results,      \* kinds of the LaunchResults of the generation
  worker,       \* where the worker thread is
  browser,      \* its browser: none, open, or gone (closed, crashed)
  failure,      \* lifecycle_failure
  launchError,
  queue,        \* requests of the generation, each by its caller
  serving,      \* the caller whose request the worker is reading
  call,         \* where each caller is
  request,      \* its last request; it is completed once it has an answer
  causes        \* history: who has stopped the generation, "user" or "failure"

lifeVars == <<state, generation, cancelled, results>>
workerVars == <<worker, browser, failure, launchError>>
requestVars == <<queue, serving, call, request>>
controllerVars == <<lifeVars, workerVars, requestVars, causes>>

Answer == Status \cup {"notFound", "error", "unavailable"}
Generation == 0..MaxGeneration
Place == {"none", "launch", "prepare", "loop", "serve", "validate", "read",
          "cleanup", "drain", "end"}

\* No request: the last one is completed, and its caller has gone.
Forgotten == [generation |-> 0, abandoned |-> FALSE, answer |-> "none"]

Init ==
  /\ state = "idle" /\ generation = 0 /\ cancelled = FALSE /\ results = {}
  /\ worker = "none" /\ browser = "none" /\ failure = FALSE /\ launchError = FALSE
  /\ queue = << >> /\ serving = None
  /\ call = [c \in Caller |-> "free"]
  /\ request = [c \in Caller |-> Forgotten]
  /\ causes = {}

-----------------------------------------------------------------------------
(* What read_status makes of a page: a page is a sequence of tables.       *)

\* A malformed row lacks a cell, its id or its status.
TableRow == [auction: {"asked", "other"}, status: Status \cup {"unsupported", "malformed"}]

UpTo(n, S) == UNION {[1..k -> S] : k \in 0..n}

Table ==
  [kind: {"foreign", "unreadable"}, rows: {<< >>}]
    \cup [kind: {"auctions"}, rows: UpTo(MaxRows, TableRow)]

\* parse_auction_rows refuses the table for one malformed row, wherever it is;
\* a status is normalized only in the row that matches.
LookUp(rows) ==
  LET matches == {n \in DOMAIN rows : rows[n].auction = "asked"}
      shown == rows[CHOOSE n \in matches : TRUE].status
  IN IF \E n \in DOMAIN rows : rows[n].status = "malformed" THEN "error"
     ELSE IF matches = {} THEN "notFound"
     ELSE IF Cardinality(matches) > 1 \/ shown = "unsupported" THEN "error"
     ELSE shown

\* The first table whose headers are the required ones, or that cannot be read.
ReadPage(page) ==
  LET candidates == {n \in DOMAIN page : page[n].kind # "foreign"}
      first == page[CHOOSE n \in candidates : \A k \in candidates : n <= k]
  IN IF candidates = {} THEN "error"
     ELSE IF first.kind = "unreadable" THEN "unavailable"
     ELSE LookUp(first.rows)

PageAnswers == {ReadPage(page) : page \in UpTo(MaxTables, Table)}

-----------------------------------------------------------------------------
(* The UI thread. *)

Open ==
  /\ state = "idle" /\ generation < MaxGeneration
  /\ state' = "starting"
  /\ generation' = generation + 1
  /\ cancelled' = FALSE /\ results' = {} /\ causes' = {}
  /\ queue' = << >>
  /\ worker' = "launch" /\ failure' = FALSE /\ launchError' = FALSE
  /\ UNCHANGED <<browser, serving, call, request>>

Stop ==
  /\ state # "idle"
  /\ state' = "stopping" /\ cancelled' = TRUE
  /\ causes' = causes \cup {"user"}
  /\ UNCHANGED <<generation, results, workerVars, requestVars>>

\* Mutant: any generation stops the current one.
StopAnyGeneration(g) ==
  IF state = "idle"
  THEN UNCHANGED <<state, cancelled>>
  ELSE state' = "stopping" /\ cancelled' = TRUE

\* _stop_generation.
StopGeneration(g) ==
  IF g # generation \/ state = "idle"
  THEN UNCHANGED <<state, cancelled>>
  ELSE state' = "stopping" /\ cancelled' = TRUE

BlameGeneration(g) ==
  causes' = IF g = generation THEN causes \cup {"failure"} ELSE causes

-----------------------------------------------------------------------------
(* The worker thread: _run. *)

GoOnUnlessCancelled(place) == worker' = IF cancelled THEN "cleanup" ELSE place

\* The cancel event is asked when Playwright has started.
LaunchCancelled ==
  /\ worker = "launch" /\ cancelled
  /\ worker' = "cleanup"
  /\ UNCHANGED <<lifeVars, browser, failure, launchError, requestVars, causes>>

LaunchBrowser ==
  /\ worker = "launch"
  /\ browser' = "open"
  /\ GoOnUnlessCancelled("prepare")
  /\ UNCHANGED <<lifeVars, failure, launchError, requestVars, causes>>

LaunchFails ==
  /\ worker \in {"launch", "prepare"}
  /\ launchError' = TRUE
  /\ worker' = "cleanup"
  /\ UNCHANGED <<lifeVars, browser, failure, requestVars, causes>>

\* The page has been opened, validated and filtered: the state and the event
\* are asked again under the lock that Stop takes.
Announce ==
  /\ worker = "prepare" /\ browser = "open"
  /\ IF state = "starting" /\ ~cancelled
     THEN /\ state' = "running"
          /\ results' = results \cup {"launched"}
          /\ worker' = "loop"
     ELSE worker' = "cleanup" /\ UNCHANGED <<state, results>>
  /\ UNCHANGED <<generation, cancelled, browser, failure, launchError, requestVars, causes>>

\* Mutant: the cancel event is not asked again.
PollForever ==
  /\ worker = "loop"
  /\ worker' = "serve"
  /\ UNCHANGED <<lifeVars, browser, failure, launchError, requestVars, causes>>

Poll ==
  /\ worker = "loop"
  /\ GoOnUnlessCancelled("serve")
  /\ UNCHANGED <<lifeVars, browser, failure, launchError, requestVars, causes>>

\* _process_page_requests takes a request; nobody waits for an abandoned one.
TakeRequest ==
  /\ worker = "serve" /\ queue # << >>
  /\ queue' = Tail(queue)
  /\ IF request[Head(queue)].abandoned
     THEN /\ request' = [request EXCEPT ![Head(queue)] = Forgotten]
          /\ UNCHANGED <<serving, worker>>
     ELSE serving' = Head(queue) /\ worker' = "validate" /\ UNCHANGED request
  /\ UNCHANGED <<lifeVars, browser, failure, launchError, call, causes>>

QueueEmpty ==
  /\ worker = "serve" /\ queue = << >>
  /\ worker' = "loop"
  /\ UNCHANGED <<lifeVars, browser, failure, launchError, requestVars, causes>>

Complete(c, answer) ==
  request' = [request EXCEPT ![c] = IF @.abandoned THEN Forgotten ELSE [@ EXCEPT !.answer = answer]]

\* The session validator finds the auctions page.
SessionValid ==
  /\ worker = "validate" /\ browser = "open"
  /\ worker' = "read"
  /\ UNCHANGED <<lifeVars, browser, failure, launchError, requestVars, causes>>

\* A login page, another page, or a page that goes while it is validated.
SessionInvalid ==
  /\ worker = "validate"
  /\ Complete(serving, "error")
  /\ serving' = None /\ worker' = "serve"
  /\ UNCHANGED <<lifeVars, browser, failure, launchError, queue, call, causes>>

ReadStatus ==
  /\ worker = "read" /\ browser = "open"
  /\ \E answer \in PageAnswers \ {"unavailable"} : Complete(serving, answer)
  /\ serving' = None /\ worker' = "serve"
  /\ UNCHANGED <<lifeVars, browser, failure, launchError, queue, call, causes>>

\* PrismaPageUnavailableError, and every exception nobody expects.
PageUnavailable ==
  /\ worker \in {"validate", "read"}
  /\ Complete(serving, "unavailable")
  /\ StopGeneration(request[serving].generation)
  /\ BlameGeneration(request[serving].generation)
  /\ serving' = None /\ worker' = "serve"
  /\ UNCHANGED <<generation, results, browser, failure, launchError, queue, call>>

\* The user closes the window, or the browser or the page crashes.
BrowserGone ==
  /\ browser = "open"
  /\ browser' = "gone"
  /\ UNCHANGED <<lifeVars, worker, failure, launchError, requestVars, causes>>

\* A listener's callback.  Playwright's synchronous API runs it on the worker
\* thread, inside one of its calls; in a generation that is being stopped it
\* only writes to the log.
ClosureSeen ==
  /\ worker \in {"prepare", "validate", "read"} /\ browser = "gone"
  /\ ~failure /\ ~cancelled
  /\ failure' = TRUE
  /\ StopGeneration(generation)
  /\ BlameGeneration(generation)
  /\ UNCHANGED <<generation, results, worker, browser, launchError, requestVars>>

\* Mutant: the requests still queued are forgotten with the queue.
ForgetRequests ==
  /\ worker = "cleanup"
  /\ queue' = << >>
  /\ worker' = "drain"
  /\ UNCHANGED <<lifeVars, browser, failure, launchError, serving, call, request, causes>>

\* _fail_pending_page_requests takes the queue off the table, then empties it.
\* No request can find the table without it: the state is not running any more.
RetireQueue ==
  /\ worker = "cleanup"
  /\ worker' = "drain"
  /\ UNCHANGED <<lifeVars, browser, failure, launchError, requestVars, causes>>

FailRequest ==
  /\ worker = "drain" /\ queue # << >>
  /\ Complete(Head(queue), "unavailable")
  /\ queue' = Tail(queue)
  /\ UNCHANGED <<lifeVars, workerVars, serving, call, causes>>

CloseBrowser ==
  /\ worker = "drain" /\ queue = << >>
  /\ browser' = "none"
  /\ worker' = "end"
  /\ UNCHANGED <<lifeVars, failure, launchError, requestVars, causes>>

\* Mutant: a failed launch is reported although the user has cancelled it.
ReportRegardless ==
  IF launchError /\ "launched" \notin results THEN {"failed"}
  ELSE IF failure THEN {"closed"} ELSE {}

\* What the worker has to report when it ends: nothing after a launch that was
\* broken off, be it because a listener has seen the page close.
Report ==
  IF launchError /\ ~cancelled /\ state # "stopping" /\ "launched" \notin results
  THEN {"failed"}
  ELSE IF failure /\ "launched" \in results THEN {"closed"} ELSE {}

EndGeneration ==
  /\ worker = "end"
  /\ state' = "idle"
  /\ results' = results \cup Report
  /\ worker' = "none"
  /\ UNCHANGED <<generation, cancelled, browser, failure, launchError, requestVars, causes>>

-----------------------------------------------------------------------------
(* A caller: read_live_auction_status. *)

Refuse(c) ==
  /\ call[c] = "free" /\ state # "running"
  /\ call' = [call EXCEPT ![c] = "refused"]
  /\ UNCHANGED <<lifeVars, workerVars, queue, serving, request, causes>>

\* The check of the state and the put are one step under the lock.
Ask(c) ==
  /\ call[c] = "free" /\ state = "running"
  /\ request' = [request EXCEPT ![c] = [generation |-> generation, abandoned |-> FALSE,
                                        answer |-> "none"]]
  /\ queue' = Append(queue, c)
  /\ call' = [call EXCEPT ![c] = "waiting"]
  /\ UNCHANGED <<lifeVars, workerVars, serving, causes>>

Answered(c) ==
  /\ call[c] = "waiting" /\ request[c].answer # "none"
  /\ call' = [call EXCEPT ![c] = "returned"]
  /\ UNCHANGED <<lifeVars, workerVars, queue, serving, request, causes>>

\* The wait ends without the event, which may be set right after.
Expire(c) ==
  /\ call[c] = "waiting" /\ request[c].answer = "none"
  /\ call' = [call EXCEPT ![c] = "expired"]
  /\ UNCHANGED <<lifeVars, workerVars, queue, serving, request, causes>>

GiveUp(c) ==
  /\ call[c] = "expired"
  /\ request' = [request EXCEPT ![c] = IF @.answer # "none" THEN Forgotten
                                      ELSE [@ EXCEPT !.abandoned = TRUE]]
  /\ StopGeneration(request[c].generation)
  /\ BlameGeneration(request[c].generation)
  /\ call' = [call EXCEPT ![c] = "timedOut"]
  /\ UNCHANGED <<generation, results, workerVars, queue, serving>>

\* What the call gives its caller: late answers are never looked at.
Outcome(c) ==
  CASE call[c] = "returned" -> request[c].answer
    [] call[c] = "refused"  -> "unavailable"
    [] call[c] = "timedOut" -> "timeout"

Over(c) == call[c] \in {"returned", "refused", "timedOut"}

\* The caller uses what the call has returned or raised.
Return(c) ==
  /\ Over(c)
  /\ call' = [call EXCEPT ![c] = "free"]
  /\ request' = IF call[c] = "returned" THEN [request EXCEPT ![c] = Forgotten] ELSE request
  /\ UNCHANGED <<lifeVars, workerVars, queue, serving, causes>>

-----------------------------------------------------------------------------
Work ==
  \/ LaunchCancelled \/ LaunchBrowser \/ LaunchFails \/ Announce
  \/ Poll \/ TakeRequest \/ QueueEmpty
  \/ SessionValid \/ SessionInvalid \/ ReadStatus \/ PageUnavailable
  \/ RetireQueue \/ FailRequest \/ CloseBrowser \/ EndGeneration

CallStep(c) == Refuse(c) \/ Ask(c) \/ Answered(c) \/ Expire(c) \/ GiveUp(c)

World == Open \/ Stop \/ BrowserGone \/ ClosureSeen

-----------------------------------------------------------------------------
ControllerTypeOK ==
  /\ state \in {"idle", "starting", "running", "stopping"}
  /\ generation \in Generation
  /\ cancelled \in BOOLEAN
  /\ results \subseteq {"launched", "failed", "closed"}
  /\ worker \in Place
  /\ browser \in {"none", "open", "gone"}
  /\ failure \in BOOLEAN /\ launchError \in BOOLEAN
  /\ queue \in Seq(Caller)
  /\ serving \in Caller \cup {None}
  /\ call \in [Caller -> {"free", "waiting", "expired", "returned", "refused", "timedOut"}]
  /\ request \in [Caller -> [generation: Generation, abandoned: BOOLEAN,
                             answer: Answer \cup {"none"}]]
  /\ causes \subseteq {"user", "failure"}

Queued(c) == \E n \in 1..Len(queue) : queue[n] = c

\* A caller never waits for a request that nobody will complete: it is queued
\* or being read by the worker of its own generation, and the worker has not
\* passed the place where it empties the queue, although requests, stops,
\* timeouts and cleanup interleave in any way.
WaitingIsServed ==
  \A c \in Caller : call[c] = "waiting" /\ request[c].answer = "none" =>
    /\ Queued(c) \/ serving = c
    /\ worker \in {"loop", "serve", "validate", "read", "cleanup", "drain"}
    /\ request[c].generation = generation

\* A generation is stopped by the user or by a failure of its own, never by a
\* lookup of an earlier generation that times out after the browser was reopened.
StoppedForCause == state = "stopping" => causes # {}

\* A generation reports that it was launched or that it failed to, never both;
\* a launch the user has cancelled is not reported as failed; and once the worker
\* has ended, an unexpected closure was reported exactly if the browser had been
\* announced, whoever else was stopping it.
ReportsAreConsistent ==
  /\ ~({"failed", "launched"} \subseteq results)
  /\ "failed" \in results => "user" \notin causes
  /\ worker = "none" => ("closed" \in results <=> failure /\ "launched" \in results)
  /\ state = "running" => "launched" \in results

\* A browser that is starting or stopping gets to be usable or idle again.
Settles == (state \in {"starting", "stopping"}) ~> (state \in {"running", "idle"})

=============================================================================
