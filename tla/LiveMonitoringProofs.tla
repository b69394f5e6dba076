------------------------- MODULE LiveMonitoringProofs -------------------------
(***************************************************************************)
(* Proofs about BrowserController and LiveMonitoring, for any callers,     *)
(* statuses and pages, and any number of generations and checks.           *)
(***************************************************************************)
EXTENDS LiveMonitoring, WellFoundedInduction, TLAPS

-----------------------------------------------------------------------------
(* What a page can be read as.                                             *)

\* A table of auctions gives a status PRISMA shows, or one of two failures.
LEMMA LookUpType ==
  ASSUME NEW n \in Nat, NEW rows \in [1..n -> TableRow]
  PROVE  LookUp(rows) \in Status \cup {"notFound", "error"}
<1> DEFINE matches == {k \in DOMAIN rows : rows[k].auction = "asked"}
           chosen == CHOOSE k \in matches : TRUE
<1>1. CASE matches # {} /\ ~(\E k \in DOMAIN rows : rows[k].status = "malformed")
  <2>1. chosen \in 1..n
    BY <1>1
  <2>2. rows[chosen].status \in Status \cup {"unsupported"}
    BY <1>1, <2>1 DEF TableRow
  <2> QED BY <1>1, <2>2 DEF LookUp
<1>2. CASE matches = {} \/ \E k \in DOMAIN rows : rows[k].status = "malformed"
  BY <1>2 DEF LookUp
<1> QED BY <1>1, <1>2

LEMMA LeastNumber ==
  ASSUME NEW S, S \subseteq Nat, S # {}
  PROVE  \E n \in S : \A k \in S : n <= k
<1> DEFINE less == {pair \in Nat \X Nat : pair[1] < pair[2]}
<1>1. IsWellFoundedOn(less, Nat)
  BY NatLessThanWellFounded DEF OpToRel
<1> HIDE DEF less
<1>2. \E n \in S : \A k \in S : ~(<<k, n>> \in less)
  BY <1>1, WFMin
<1>3. PICK n \in S : \A k \in S : ~(<<k, n>> \in less)
  BY <1>2
<1>4. ASSUME NEW k \in S PROVE n <= k
  <2>1. k \in Nat /\ n \in Nat /\ ~(<<k, n>> \in less)
    BY <1>3
  <2>2. <<k, n>> \in less <=> k < n
    BY <2>1 DEF less
  <2> QED BY <2>1, <2>2
<1> QED BY <1>4

LEMMA ReadPageType ==
  ASSUME NEW page \in UpTo(MaxTables, Table)
  PROVE  ReadPage(page) \in Answer
<1> DEFINE candidates == {n \in DOMAIN page : page[n].kind # "foreign"}
           first == CHOOSE n \in candidates : \A k \in candidates : n <= k
<1>1. PICK length \in 0..MaxTables : page \in [1..length -> Table]
  BY DEF UpTo
<1>2. CASE candidates = {}
  BY <1>2 DEF ReadPage, Answer
<1>3. CASE candidates # {}
  <2>1. candidates \subseteq Nat
    BY <1>1, BoundAssumption
  <2>2. \E n \in candidates : \A k \in candidates : n <= k
    BY <1>3, <2>1, LeastNumber
  <2>3. first \in candidates
    BY <2>2
  <2>4. page[first] \in Table /\ page[first].kind # "foreign"
    BY <1>1, <2>3
  <2>5. CASE page[first].kind = "unreadable"
    BY <1>3, <2>5 DEF ReadPage, Answer
  <2>6. CASE page[first].kind # "unreadable"
    <3>1. page[first].rows \in UpTo(MaxRows, TableRow)
      BY <2>4, <2>6 DEF Table
    <3>2. PICK size \in 0..MaxRows : page[first].rows \in [1..size -> TableRow]
      BY <3>1 DEF UpTo
    <3>3. LookUp(page[first].rows) \in Answer
      BY <3>2, LookUpType, BoundAssumption DEF Answer
    <3> QED BY <1>3, <2>6, <3>3 DEF ReadPage
  <2> QED BY <2>5, <2>6
<1> QED BY <1>2, <1>3

-----------------------------------------------------------------------------
(* The queue of requests.                                                  *)

Distinct == \A m, n \in 1..Len(queue) : queue[m] = queue[n] => m = n

LEMMA QueueUnchanged ==
  ASSUME queue' = queue
  PROVE  /\ Distinct => Distinct'
         /\ \A c \in Caller : Queued(c)' <=> Queued(c)
BY DEF Distinct, Queued

LEMMA QueueEmptied ==
  ASSUME queue' = << >>
  PROVE  Distinct' /\ \A c \in Caller : ~Queued(c)'
BY DEF Distinct, Queued

LEMMA QueueShortened ==
  ASSUME queue \in Seq(Caller), queue # << >>, Distinct, queue' = Tail(queue)
  PROVE  /\ Distinct' /\ Head(queue) \in Caller /\ Queued(Head(queue))
         /\ \A c \in Caller : Queued(c)' <=> Queued(c) /\ c # Head(queue)
<1>1. /\ Len(queue) \in Nat /\ Len(queue) >= 1 /\ Head(queue) = queue[1]
      /\ Head(queue) \in Caller
      /\ Len(queue') = Len(queue) - 1
      /\ \A n \in 1..(Len(queue) - 1) : queue'[n] = queue[n + 1]
  OBVIOUS
<1>2. Distinct'
  <2> SUFFICES ASSUME NEW m \in 1..(Len(queue) - 1), NEW n \in 1..(Len(queue) - 1),
                      queue'[m] = queue'[n]
               PROVE  m = n
    BY <1>1 DEF Distinct
  <2>1. m + 1 \in 1..Len(queue) /\ n + 1 \in 1..Len(queue) /\ queue[m + 1] = queue[n + 1]
    BY <1>1
  <2> QED BY <1>1, <2>1 DEF Distinct
<1>3. Queued(Head(queue))
  BY <1>1 DEF Queued
<1>4. ASSUME NEW c \in Caller, Queued(c)' PROVE Queued(c) /\ c # Head(queue)
  <2>1. PICK n \in 1..(Len(queue) - 1) : queue'[n] = c
    BY <1>1, <1>4 DEF Queued
  <2>2. n + 1 \in 1..Len(queue) /\ queue[n + 1] = c /\ n + 1 # 1 /\ 1 \in 1..Len(queue)
    BY <1>1, <2>1
  <2> QED BY <1>1, <2>2 DEF Queued, Distinct
<1>5. ASSUME NEW c \in Caller, Queued(c), c # Head(queue) PROVE Queued(c)'
  <2>1. PICK n \in 1..Len(queue) : queue[n] = c
    BY <1>5 DEF Queued
  <2>2. n - 1 \in 1..(Len(queue) - 1) /\ queue'[n - 1] = c
    BY <1>1, <1>5, <2>1
  <2> QED BY <1>1, <2>2 DEF Queued
<1> QED BY <1>1, <1>2, <1>3, <1>4, <1>5

LEMMA QueueExtended ==
  ASSUME queue \in Seq(Caller), Distinct, NEW c \in Caller, ~Queued(c),
         queue' = Append(queue, c)
  PROVE  Distinct' /\ \A d \in Caller : Queued(d)' <=> Queued(d) \/ d = c
<1>1. /\ Len(queue) \in Nat /\ Len(queue') = Len(queue) + 1
      /\ \A n \in 1..Len(queue) : queue'[n] = queue[n]
      /\ queue'[Len(queue) + 1] = c
  OBVIOUS
<1>2. Distinct'
  BY <1>1 DEF Distinct, Queued
<1>3. ASSUME NEW d \in Caller PROVE Queued(d)' <=> Queued(d) \/ d = c
  BY <1>1 DEF Queued
<1> QED BY <1>2, <1>3

LEMMA EmptyQueue == ASSUME queue = << >>, NEW c PROVE ~Queued(c)
BY DEF Queued

-----------------------------------------------------------------------------
(* Types.                                                                  *)

\* What a step of LiveMonitoring is for the controller.
ControllerStep ==
  \/ Work \/ World
  \/ \E c \in Caller : CallStep(c) \/ Return(c)

LEMMA StepOfController ==
  ASSUME [Next]_vars PROVE [ControllerStep]_controllerVars
<1>1. CASE UNCHANGED vars
  BY <1>1 DEF vars
<1>2. CASE (Work \/ World) /\ UNCHANGED <<runVars, storedVars>>
  BY <1>2 DEF ControllerStep
<1>3. CASE OtherPersists
  BY <1>3 DEF OtherPersists
<1>4. ASSUME NEW c \in Caller, RunStep(c) \/ StartRun(c) \/ StopRun(c)
      PROVE  CallStep(c) \/ Return(c) \/ UNCHANGED controllerVars
  BY <1>4 DEF RunStep, Skip, CheckRecord, LookupStep, RecordCheck, RecordFailure,
     PersistFails, LeaveLookup, Interval, StartRun, StopRun
<1> QED BY <1>1, <1>2, <1>3, <1>4 DEF Next, ControllerStep

Request == [generation: Generation, abandoned: BOOLEAN, answer: Answer \cup {"none"}]

\* No status has the name of an answer that is none.
LEMMA AnswerFacts ==
  /\ "none" \notin Answer
  /\ Forgotten \in Request
  /\ \A r \in Request, answer \in Answer : [r EXCEPT !.answer = answer] \in Request
<1>1. "none" \notin Answer
  BY StatusAssumption DEF Answer
<1>2. Forgotten \in Request
  BY BoundAssumption DEF Forgotten, Request, Generation
<1> QED BY <1>1, <1>2 DEF Request

LEMMA CompleteType ==
  ASSUME request \in [Caller -> Request], NEW c, NEW answer \in Answer, Complete(c, answer)
  PROVE  request' \in [Caller -> Request]
BY AnswerFacts DEF Complete

LEMMA StopType ==
  ASSUME ControllerTypeOK, NEW g, StopGeneration(g), BlameGeneration(g)
  PROVE  /\ state' \in {"idle", "starting", "running", "stopping"}
         /\ cancelled' \in BOOLEAN
         /\ causes' \subseteq {"user", "failure"}
BY DEF ControllerTypeOK, StopGeneration, BlameGeneration

LEMMA WorkType ==
  ASSUME ControllerTypeOK, Work PROVE ControllerTypeOK'
<1> USE DEF ControllerTypeOK, lifeVars, requestVars, Place, GoOnUnlessCancelled
<1>0. request \in [Caller -> Request]
  BY DEF Request
<1>1. CASE LaunchCancelled \/ LaunchBrowser \/ LaunchFails \/ Poll \/ QueueEmpty
           \/ SessionValid \/ RetireQueue \/ CloseBrowser
  BY ZenonT(60), <1>1 DEF LaunchCancelled, LaunchBrowser, LaunchFails, Poll, QueueEmpty, SessionValid,
     RetireQueue, CloseBrowser
<1>2. CASE Announce
  BY <1>2 DEF Announce
<1>3. CASE EndGeneration
  BY <1>3 DEF EndGeneration, Report
<1>4. CASE TakeRequest
  <2>1. queue' \in Seq(Caller) /\ Head(queue) \in Caller
    BY <1>4 DEF TakeRequest
  <2>2. request' \in [Caller -> Request]
    BY <1>0, <1>4, AnswerFacts DEF TakeRequest
  <2> QED BY <1>4, <2>1, <2>2 DEF TakeRequest, Request
<1>5. CASE SessionInvalid
  <2>1. request' \in [Caller -> Request]
    BY <1>0, <1>5, CompleteType DEF SessionInvalid, Answer
  <2> QED BY <1>5, <2>1 DEF SessionInvalid, Request
<1>6. CASE ReadStatus
  <2>1. PICK page \in UpTo(MaxTables, Table) : Complete(serving, ReadPage(page))
    BY <1>6 DEF ReadStatus, PageAnswers
  <2>2. request' \in [Caller -> Request]
    BY <1>0, <2>1, CompleteType, ReadPageType
  <2> QED BY <1>6, <2>2 DEF ReadStatus, Request
<1>7. CASE PageUnavailable
  <2>1. request' \in [Caller -> Request]
    BY <1>0, <1>7, CompleteType DEF PageUnavailable, Answer
  <2>2. /\ state' \in {"idle", "starting", "running", "stopping"}
        /\ cancelled' \in BOOLEAN
        /\ causes' \subseteq {"user", "failure"}
    BY <1>7, StopType DEF PageUnavailable
  <2> QED BY <1>7, <2>1, <2>2 DEF PageUnavailable, Request
<1>8. CASE FailRequest
  <2>1. request' \in [Caller -> Request]
    BY <1>0, <1>8, CompleteType DEF FailRequest, Answer
  <2>2. queue' \in Seq(Caller)
    BY <1>8 DEF FailRequest
  <2> QED BY <1>8, <2>1, <2>2 DEF FailRequest, Request, workerVars
<1> QED BY <1>1, <1>2, <1>3, <1>4, <1>5, <1>6, <1>7, <1>8 DEF Work

LEMMA WorldType ==
  ASSUME ControllerTypeOK, World PROVE ControllerTypeOK'
<1> USE DEF ControllerTypeOK, lifeVars, workerVars, requestVars, Place
<1>1. CASE Open
  <2>1. generation' \in Generation
    BY <1>1, BoundAssumption DEF Open, Generation
  <2>2. queue' \in Seq(Caller)
    BY <1>1 DEF Open
  <2> QED BY <1>1, <2>1, <2>2 DEF Open
<1>2. CASE Stop
  BY <1>2 DEF Stop
<1>3. CASE BrowserGone
  BY <1>3 DEF BrowserGone
<1>4. CASE ClosureSeen
  BY <1>4, StopType DEF ClosureSeen
<1> QED BY <1>1, <1>2, <1>3, <1>4 DEF World

LEMMA CallType ==
  ASSUME ControllerTypeOK, NEW c \in Caller, CallStep(c) \/ Return(c)
  PROVE  ControllerTypeOK'
<1> USE DEF ControllerTypeOK, lifeVars, workerVars
<1>0. request \in [Caller -> Request]
  BY DEF Request
<1>1. CASE Refuse(c) \/ Answered(c) \/ Expire(c)
  BY <1>1 DEF Refuse, Answered, Expire
<1>2. CASE Ask(c)
  <2>1. queue' \in Seq(Caller)
    BY <1>2 DEF Ask
  <2>2. request' \in [Caller -> Request]
    BY <1>0, <1>2 DEF Ask, Request
  <2> QED BY <1>2, <2>1, <2>2 DEF Ask, Request
<1>3. CASE GiveUp(c)
  <2>1. request' \in [Caller -> Request]
    BY ZenonT(60), <1>0, <1>3, AnswerFacts DEF GiveUp, Request
  <2> QED BY <1>3, <2>1, StopType DEF GiveUp, Request
<1>4. CASE Return(c)
  <2>1. request' \in [Caller -> Request]
    BY <1>0, <1>4, AnswerFacts DEF Return
  <2> QED BY <1>4, <2>1 DEF Return, Request
<1> QED BY <1>1, <1>2, <1>3, <1>4 DEF CallStep

LEMMA ControllerType ==
  ASSUME ControllerTypeOK, [ControllerStep]_controllerVars PROVE ControllerTypeOK'
<1>1. CASE UNCHANGED controllerVars
  BY <1>1 DEF controllerVars, lifeVars, workerVars, requestVars, ControllerTypeOK
<1> QED BY <1>1, WorkType, WorldType, CallType DEF ControllerStep

-----------------------------------------------------------------------------
(* The life of a generation.                                               *)

InLoop == {"loop", "serve", "validate", "read"}

\* The worker is at work exactly while the state is not idle; a generation that
\* is usable has not been cancelled, and one that is stopping has a cause; its
\* end is reported by the last step of its worker.
LifeInv ==
  /\ state = "idle" <=> worker = "none"
  /\ state = "running" => worker \in InLoop /\ "launched" \in results
  /\ state = "starting" => worker \notin InLoop
  /\ state \in {"starting", "running"} => ~cancelled
  /\ state = "stopping" => cancelled /\ causes # {}
  /\ worker # "none" =>
       /\ "failed" \notin results /\ "closed" \notin results
       /\ "user" \in causes => cancelled
  /\ ~("failed" \in results /\ "launched" \in results)
  /\ "failed" \in results => "user" \notin causes
  /\ worker = "none" => ("closed" \in results <=> failure /\ "launched" \in results)

\* A failure stops its own generation, with itself as a cause, or none.
LEMMA StopLife ==
  ASSUME ControllerTypeOK, LifeInv, NEW g, StopGeneration(g), BlameGeneration(g),
         worker' = worker \/ (worker \in InLoop /\ worker' \in InLoop), results' = results,
         failure' = failure \/ worker # "none"
  PROVE  LifeInv'
<1> USE DEF InLoop
<1>1. CASE g # generation \/ state = "idle"
  BY <1>1 DEF LifeInv, ControllerTypeOK, StopGeneration, BlameGeneration
<1>2. CASE g = generation /\ state # "idle"
  BY <1>2 DEF LifeInv, ControllerTypeOK, StopGeneration, BlameGeneration
<1> QED BY <1>1, <1>2

LEMMA WorkLife ==
  ASSUME ControllerTypeOK, LifeInv, Work PROVE LifeInv'
<1> USE DEF lifeVars, GoOnUnlessCancelled, InLoop
<1>0. state \in {"idle", "starting", "running", "stopping"}
  BY DEF ControllerTypeOK
<1>1. CASE LaunchCancelled \/ LaunchBrowser \/ LaunchFails \/ Poll \/ QueueEmpty
           \/ SessionValid \/ RetireQueue \/ CloseBrowser
  <2>1. UNCHANGED <<lifeVars, failure, causes>>
    BY <1>1 DEF LaunchCancelled, LaunchBrowser, LaunchFails, Poll, QueueEmpty, SessionValid,
       RetireQueue, CloseBrowser
  <2>2. worker # "none" /\ worker' # "none"
    BY <1>1 DEF LaunchCancelled, LaunchBrowser, LaunchFails, Poll, QueueEmpty, SessionValid,
       RetireQueue, CloseBrowser
  <2>3. IF cancelled THEN worker' \in InLoop => worker \in InLoop
                     ELSE worker' \in InLoop <=> worker \in InLoop
    BY <1>1 DEF LaunchCancelled, LaunchBrowser, LaunchFails, Poll, QueueEmpty, SessionValid,
       RetireQueue, CloseBrowser
  <2> HIDE DEF InLoop
  <2> QED BY <1>0, <2>1, <2>2, <2>3 DEF LifeInv
<1>2. CASE Announce
  <2>1. CASE state = "starting" /\ ~cancelled
    <3>1. /\ state' = "running" /\ worker' = "loop" /\ results' = results \cup {"launched"}
          /\ UNCHANGED <<cancelled, failure, causes>> /\ worker = "prepare"
      BY <1>2, <2>1 DEF Announce
    <3>2. /\ "launched" \in results' /\ "failed" \notin results'
          /\ "closed" \notin results'
      BY <3>1 DEF LifeInv
    <3> QED BY <2>1, <3>1, <3>2 DEF LifeInv
  <2>2. CASE ~(state = "starting" /\ ~cancelled)
    BY <1>0, <1>2, <2>2 DEF Announce, LifeInv
  <2> QED BY <2>1, <2>2
<1>3. CASE EndGeneration
  <2>1. /\ state' = "idle" /\ worker' = "none" /\ worker = "end"
        /\ UNCHANGED <<cancelled, failure, causes>>
        /\ results' = results \cup Report
    BY <1>3 DEF EndGeneration
  <2>2. "user" \in causes => cancelled
    BY <2>1 DEF LifeInv
  <2>3. "failed" \notin results /\ "closed" \notin results
    BY <2>1 DEF LifeInv
  <2>4. CASE launchError /\ ~cancelled /\ state # "stopping" /\ "launched" \notin results
    <3>1. results' = results \cup {"failed"}
      BY <2>1, <2>4 DEF Report
    <3>2. "launched" \notin results' /\ "closed" \notin results' /\ "user" \notin causes'
      BY <2>1, <2>2, <2>3, <2>4, <3>1
    <3> QED BY <2>1, <3>2 DEF LifeInv
  <2>5. CASE ~(launchError /\ ~cancelled /\ state # "stopping" /\ "launched" \notin results)
    <3>1. results' = results \cup (IF failure /\ "launched" \in results THEN {"closed"} ELSE {})
      BY <2>1, <2>5, Zenon DEF Report
    <3>2. /\ "failed" \notin results'
          /\ "launched" \in results' <=> "launched" \in results
          /\ "closed" \in results' <=> failure /\ "launched" \in results
      BY <2>3, <3>1
    <3> QED BY <2>1, <3>2 DEF LifeInv
  <2> QED BY <2>4, <2>5
<1>4. CASE TakeRequest
  BY <1>4 DEF TakeRequest, LifeInv
<1>5. CASE SessionInvalid
  BY <1>5 DEF SessionInvalid, LifeInv
<1>6. CASE ReadStatus
  BY <1>6 DEF ReadStatus, LifeInv
<1>7. CASE PageUnavailable
  BY <1>7, StopLife DEF PageUnavailable
<1>8. CASE FailRequest
  BY <1>8 DEF FailRequest, workerVars, LifeInv
<1> QED BY <1>1, <1>2, <1>3, <1>4, <1>5, <1>6, <1>7, <1>8 DEF Work

LEMMA LifeStep ==
  ASSUME ControllerTypeOK, LifeInv, [ControllerStep]_controllerVars PROVE LifeInv'
<1> USE DEF lifeVars, workerVars
<1>1. CASE UNCHANGED controllerVars
  BY <1>1 DEF controllerVars, LifeInv
<1>2. CASE Open
  BY <1>2 DEF Open, LifeInv, InLoop
<1>3. CASE Stop
  BY <1>3 DEF Stop, LifeInv
<1>4. CASE BrowserGone
  BY <1>4 DEF BrowserGone, LifeInv
<1>5. CASE ClosureSeen
  BY <1>5, StopLife DEF ClosureSeen
<1>6. ASSUME NEW c \in Caller, CallStep(c) \/ Return(c) PROVE LifeInv'
  <2>1. CASE Refuse(c) \/ Ask(c) \/ Answered(c) \/ Expire(c) \/ Return(c)
    BY <2>1 DEF Refuse, Ask, Answered, Expire, Return, LifeInv
  <2>2. CASE GiveUp(c)
    BY <2>2, StopLife DEF GiveUp
  <2> QED BY <1>6, <2>1, <2>2 DEF CallStep
<1> QED BY <1>1, <1>2, <1>3, <1>4, <1>5, <1>6, WorkLife DEF ControllerStep, World

-----------------------------------------------------------------------------
(* The requests of a generation.                                           *)

Held(c) == Queued(c) \/ serving = c

\* A request that is queued or being read is of the current generation and has
\* no answer; its caller waits for it, or has abandoned it and so stopped the
\* generation.  A caller that waits without an answer has such a request.
ServiceInv ==
  /\ Distinct
  /\ \A c \in Caller : ~(Queued(c) /\ serving = c)
  /\ \A c \in Caller : serving = c => worker \in {"validate", "read"}
  /\ worker \in {"validate", "read"} => serving # None
  /\ \A c \in Caller : Queued(c) => worker \in InLoop \cup {"cleanup", "drain"}
  /\ \A c \in Caller : Held(c) =>
       /\ request[c].generation = generation /\ request[c].answer = "none"
       /\ IF request[c].abandoned
          THEN call[c] \in {"timedOut", "free", "refused"} /\ state = "stopping"
          ELSE call[c] \in {"waiting", "expired"}
  /\ \A c \in Caller : call[c] \in {"waiting", "expired"} =>
       ~request[c].abandoned /\ (request[c].answer = "none" => Held(c))

\* The worker goes on, and the queue and the callers stay as they are.
LEMMA WorkerMoves ==
  ASSUME ServiceInv, UNCHANGED <<generation, queue, serving, call, request>>,
         state = "stopping" => state' = "stopping",
         worker' = worker
           \/ (worker \notin {"validate", "read"} /\ worker' \in InLoop \ {"validate", "read"})
           \/ (worker \notin {"validate", "read"} /\ worker' \in {"cleanup", "drain"})
           \/ (worker \in {"validate", "read"} /\ worker' \in {"validate", "read"})
           \/ ((\A c \in Caller : ~Queued(c)) /\ worker \notin {"validate", "read"}
                 /\ worker' \notin {"validate", "read"})
  PROVE  ServiceInv'
BY QueueUnchanged DEF ServiceInv, Held, InLoop

\* A request that is not queued and being read no more gets its answer.
LEMMA RequestCompleted ==
  ASSUME ControllerTypeOK, ServiceInv, NEW c \in Caller, NEW answer \in Answer,
         Held(c), Complete(c, answer), UNCHANGED <<generation, call>>,
         state = "stopping" => state' = "stopping",
         Distinct', \A d \in Caller : Held(d)' <=> Held(d) /\ d # c,
         \A d \in Caller : Queued(d)' => Queued(d),
         serving' = None, worker' \in {"serve", "drain"}
  PROVE  ServiceInv'
<1>1. \A d \in Caller : d # c => request'[d] = request[d]
  BY DEF Complete, ControllerTypeOK
<1>2. request'[c] = IF request[c].abandoned THEN Forgotten
                    ELSE [request[c] EXCEPT !.answer = answer]
  BY DEF Complete, ControllerTypeOK
<1>3. request[c] \in Request
  BY DEF ControllerTypeOK, Request
<1>4. call[c] \in {"waiting", "expired"} =>
        ~request'[c].abandoned /\ request'[c].answer # "none"
  BY <1>2, <1>3, AnswerFacts DEF ServiceInv, Request
<1>5. \A d \in Caller : serving' # d
  BY CallerAssumption
<1> QED BY <1>1, <1>4, <1>5 DEF ServiceInv, InLoop

LEMMA WorkService ==
  ASSUME ControllerTypeOK, ControllerTypeOK', LifeInv, ServiceInv, Work PROVE ServiceInv'
<1> USE DEF lifeVars, GoOnUnlessCancelled, InLoop
<1>0. /\ queue \in Seq(Caller) /\ serving \in Caller \cup {None}
      /\ request \in [Caller -> Request]
      /\ Distinct
  BY DEF ControllerTypeOK, Request, ServiceInv
<1>1. CASE LaunchCancelled \/ LaunchBrowser \/ LaunchFails \/ Poll \/ QueueEmpty
           \/ SessionValid \/ RetireQueue
  <2>1. UNCHANGED <<generation, state, queue, serving, call, request>>
    BY <1>1 DEF LaunchCancelled, LaunchBrowser, LaunchFails, Poll, QueueEmpty, SessionValid,
       RetireQueue, requestVars
  <2>2. CASE LaunchBrowser
    <3>1. \A c \in Caller : ~Queued(c)
      BY <2>2 DEF LaunchBrowser, ServiceInv
    <3> QED BY <2>1, <2>2, <3>1, WorkerMoves DEF LaunchBrowser
  <2>3. CASE ~LaunchBrowser
    BY <1>1, <2>1, <2>3, WorkerMoves DEF LaunchCancelled, LaunchFails, Poll, QueueEmpty,
       SessionValid, RetireQueue
  <2> QED BY <2>2, <2>3
<1>2. CASE Announce \/ CloseBrowser \/ EndGeneration
  <2>1. UNCHANGED <<generation, queue, serving, call, request>>
    BY <1>2 DEF Announce, CloseBrowser, EndGeneration, requestVars
  <2>2. \A c \in Caller : ~Queued(c)
    BY <1>2, EmptyQueue DEF Announce, CloseBrowser, EndGeneration, ServiceInv
  <2>3. worker \notin {"validate", "read"} /\ worker' \notin {"validate", "read"}
    BY <1>2 DEF Announce, CloseBrowser, EndGeneration
  <2>4. \A c \in Caller : ~Held(c)
    BY <2>2, <2>3 DEF ServiceInv, Held
  <2>5. \A c \in Caller : ~Held(c)' /\ ~Queued(c)' /\ serving' # c
    BY <2>1, <2>2, <2>4, QueueUnchanged DEF Held
  <2>6. Distinct'
    BY <1>0, <2>1, QueueUnchanged
  <2> QED BY <2>1, <2>3, <2>4, <2>5, <2>6 DEF ServiceInv
<1>3. CASE TakeRequest
  <2> DEFINE c == Head(queue)
  <2>1. /\ Distinct' /\ c \in Caller /\ Queued(c)
        /\ \A d \in Caller : Queued(d)' <=> Queued(d) /\ d # c
    BY <1>0, <1>3, QueueShortened DEF TakeRequest
  <2>2. serving = None
    BY <1>0, <1>3 DEF TakeRequest, ServiceInv
  <2>3. UNCHANGED <<generation, state, call>> /\ worker = "serve"
    BY <1>3 DEF TakeRequest
  <2> HIDE DEF c
  <2>4. CASE request[c].abandoned
    <3>1. request' = [request EXCEPT ![c] = Forgotten] /\ UNCHANGED <<serving, worker>>
      BY <1>3, <2>4 DEF TakeRequest, c
    <3>2. call[c] \notin {"waiting", "expired"}
      BY <2>1, <2>4 DEF ServiceInv, Held
    <3>3. \A d \in Caller : d # c => request'[d] = request[d]
      BY <1>0, <3>1
    <3>4. \A d \in Caller : serving' # d /\ (Held(d)' <=> Held(d) /\ d # c)
      BY <2>1, <2>2, <3>1, CallerAssumption DEF Held
    <3> QED BY <2>1, <2>2, <2>3, <3>1, <3>2, <3>3, <3>4 DEF ServiceInv
  <2>5. CASE ~request[c].abandoned
    <3>1. serving' = c /\ worker' = "validate" /\ UNCHANGED request
      BY <1>3, <2>5 DEF TakeRequest, c
    <3>2. \A d \in Caller : Held(d)' <=> Held(d)
      BY <2>1, <2>2, <3>1, CallerAssumption DEF Held
    <3>3. serving' # None
      BY <2>1, <3>1, CallerAssumption
    <3> QED BY <2>1, <2>3, <3>1, <3>2, <3>3 DEF ServiceInv
  <2> QED BY <2>4, <2>5
<1>4. CASE SessionInvalid \/ ReadStatus \/ PageUnavailable
  <2>1. PICK answer \in Answer : Complete(serving, answer)
    <3>1. CASE SessionInvalid
      BY <3>1 DEF SessionInvalid, Answer
    <3>2. CASE ReadStatus
      BY <3>2, ReadPageType DEF ReadStatus, PageAnswers
    <3>3. CASE PageUnavailable
      BY <3>3 DEF PageUnavailable, Answer
    <3> QED BY <1>4, <3>1, <3>2, <3>3
  <2>2. /\ serving' = None /\ worker' = "serve" /\ worker \in {"validate", "read"}
        /\ UNCHANGED <<generation, queue, call>>
    BY <1>4 DEF SessionInvalid, ReadStatus, PageUnavailable
  <2>3. state = "stopping" => state' = "stopping"
    BY <1>4 DEF SessionInvalid, ReadStatus, PageUnavailable, StopGeneration
  <2>4. serving \in Caller
    BY <1>0, <2>2 DEF ServiceInv
  <2>5. \A d \in Caller : serving' # d
    BY <2>2, CallerAssumption
  <2>6. \A d \in Caller : Queued(d)' <=> Queued(d)
    BY <2>2, QueueUnchanged
  <2>7. \A d \in Caller : Held(d)' <=> Held(d) /\ d # serving
    BY <2>4, <2>5, <2>6 DEF Held, ServiceInv
  <2>8. Distinct'
    BY <1>0, <2>2, QueueUnchanged
  <2> QED BY <2>1, <2>2, <2>3, <2>4, <2>6, <2>7, <2>8, RequestCompleted DEF Held
<1>5. CASE FailRequest
  <2> DEFINE c == Head(queue)
  <2>1. /\ Distinct' /\ c \in Caller /\ Queued(c)
        /\ \A d \in Caller : Queued(d)' <=> Queued(d) /\ d # c
    BY <1>0, <1>5, QueueShortened DEF FailRequest
  <2>2. /\ UNCHANGED <<generation, state, serving, call, worker>> /\ worker = "drain"
        /\ Complete(c, "unavailable")
    BY <1>5 DEF FailRequest, workerVars
  <2> HIDE DEF c
  <2>3. serving = None
    BY <1>0, <2>2 DEF ServiceInv
  <2>4. \A d \in Caller : serving' # d /\ (Held(d)' <=> Held(d) /\ d # c)
    BY <2>1, <2>2, <2>3, CallerAssumption DEF Held
  <2>5. Held(c) /\ "unavailable" \in Answer /\ serving' = None
    BY <2>1, <2>2, <2>3 DEF Held, Answer
  <2> QED BY <2>1, <2>2, <2>4, <2>5, RequestCompleted
<1> QED BY <1>1, <1>2, <1>3, <1>4, <1>5 DEF Work

LEMMA WorldService ==
  ASSUME ControllerTypeOK, LifeInv, ServiceInv, World PROVE ServiceInv'
<1> USE DEF lifeVars, workerVars, requestVars
<1>1. CASE Open
  <2>1. /\ worker = "none" /\ worker' = "launch" /\ queue' = << >>
        /\ UNCHANGED <<serving, call, request>>
    BY <1>1 DEF Open, LifeInv
  <2>2. \A c \in Caller : ~Queued(c) /\ serving # c
    BY <2>1 DEF ServiceInv, InLoop
  <2>3. \A c \in Caller : ~Held(c)
    BY <2>2 DEF Held
  <2>4. \A c \in Caller : ~Held(c)' /\ ~Queued(c)' /\ serving' # c
    BY <2>1, <2>2, QueueEmptied DEF Held
  <2>5. Distinct'
    BY <2>1, QueueEmptied
  <2> QED BY <2>1, <2>3, <2>4, <2>5 DEF ServiceInv
<1>2. CASE Stop \/ BrowserGone \/ ClosureSeen
  <2>1. UNCHANGED <<generation, worker, queue, serving, call, request>>
    BY <1>2 DEF Stop, BrowserGone, ClosureSeen
  <2>2. state = "stopping" => state' = "stopping"
    BY <1>2 DEF Stop, BrowserGone, ClosureSeen, StopGeneration
  <2> QED BY <2>1, <2>2, WorkerMoves
<1> QED BY <1>1, <1>2 DEF World

LEMMA CallService ==
  ASSUME ControllerTypeOK, LifeInv, ServiceInv, NEW c \in Caller, CallStep(c) \/ Return(c)
  PROVE  ServiceInv'
<1> USE DEF lifeVars, workerVars
<1>0. /\ queue \in Seq(Caller) /\ Distinct
      /\ request \in [Caller -> Request]
      /\ call \in [Caller -> {"free", "waiting", "expired", "returned", "refused", "timedOut"}]
  BY DEF ControllerTypeOK, Request, ServiceInv
<1>1. CASE Refuse(c) \/ Answered(c) \/ Expire(c) \/ GiveUp(c) \/ Return(c)
  <2>1. /\ UNCHANGED <<generation, worker, queue, serving>>
        /\ \A d \in Caller : d # c => call'[d] = call[d] /\ request'[d] = request[d]
    BY <1>0, <1>1 DEF Refuse, Answered, Expire, GiveUp, Return
  <2>2. Distinct' /\ \A d \in Caller : Queued(d)' <=> Queued(d)
    BY <1>0, <2>1, QueueUnchanged
  <2>3. \A d \in Caller : Held(d)' <=> Held(d)
    BY <2>1, <2>2 DEF Held
  <2>4. state = "stopping" => state' = "stopping"
    BY <1>1 DEF Refuse, Answered, Expire, GiveUp, Return, StopGeneration
  <2>5. Held(c) =>
          /\ request'[c].generation = generation /\ request'[c].answer = "none"
          /\ IF request'[c].abandoned
             THEN call'[c] \in {"timedOut", "free", "refused"} /\ state' = "stopping"
             ELSE call'[c] \in {"waiting", "expired"}
    <3> SUFFICES ASSUME Held(c)
                 PROVE  /\ request'[c].generation = generation /\ request'[c].answer = "none"
                        /\ IF request'[c].abandoned
                           THEN call'[c] \in {"timedOut", "free", "refused"} /\ state' = "stopping"
                           ELSE call'[c] \in {"waiting", "expired"}
      OBVIOUS
    <3>1. /\ request[c] \in Request /\ worker # "none" /\ state # "idle"
          /\ request[c].generation = generation /\ request[c].answer = "none"
          /\ IF request[c].abandoned
             THEN call[c] \in {"timedOut", "free", "refused"} /\ state = "stopping"
             ELSE call[c] \in {"waiting", "expired"}
      BY <1>0 DEF ServiceInv, Held, InLoop, LifeInv
    <3>2. CASE Refuse(c) \/ Answered(c) \/ Expire(c)
      BY <1>0, <2>4, <3>1, <3>2 DEF Refuse, Answered, Expire
    <3>3. CASE GiveUp(c)
      BY <1>0, <3>1, <3>3 DEF GiveUp, StopGeneration, Request
    <3>4. CASE Return(c)
      BY <1>0, <2>4, <3>1, <3>4 DEF Return, Over
    <3> QED BY <1>1, <3>2, <3>3, <3>4
  <2>6. call'[c] \in {"waiting", "expired"} =>
          ~request'[c].abandoned /\ (request'[c].answer = "none" => Held(c))
    BY <1>0, <1>1 DEF Refuse, Answered, Expire, GiveUp, Return, ServiceInv
  <2> QED BY <2>1, <2>2, <2>3, <2>4, <2>5, <2>6 DEF ServiceInv
<1>2. CASE Ask(c)
  <2>1. /\ state = "running" /\ call[c] = "free"
        /\ queue' = Append(queue, c)
        /\ UNCHANGED <<state, generation, worker, serving>>
        /\ \A d \in Caller : d # c => call'[d] = call[d] /\ request'[d] = request[d]
        /\ call'[c] = "waiting"
        /\ request'[c] = [generation |-> generation, abandoned |-> FALSE, answer |-> "none"]
    BY <1>0, <1>2 DEF Ask
  <2>2. worker \in InLoop
    BY <2>1 DEF LifeInv
  <2>3. ~Held(c)
    BY <2>1 DEF ServiceInv
  <2>4. Distinct' /\ \A d \in Caller : Queued(d)' <=> Queued(d) \/ d = c
    BY <1>0, <2>1, <2>3, QueueExtended DEF Held
  <2>5. \A d \in Caller : Held(d)' <=> Held(d) \/ d = c
    BY <2>1, <2>4 DEF Held
  <2> QED BY <2>1, <2>2, <2>3, <2>4, <2>5 DEF ServiceInv, Held
<1> QED BY <1>1, <1>2 DEF CallStep

LEMMA ServiceStep ==
  ASSUME ControllerTypeOK, ControllerTypeOK', LifeInv, ServiceInv,
         [ControllerStep]_controllerVars
  PROVE  ServiceInv'
<1>1. CASE UNCHANGED controllerVars
  <2>1. UNCHANGED <<state, generation, worker, queue, serving, call, request>>
    BY <1>1 DEF controllerVars, lifeVars, workerVars, requestVars
  <2> QED BY <2>1, WorkerMoves
<1> QED BY <1>1, WorkService, WorldService, CallService DEF ControllerStep

-----------------------------------------------------------------------------
(* The controller, whatever the monitoring runs do.                        *)

ControllerInv == ControllerTypeOK /\ LifeInv /\ ServiceInv

\* The inductive invariant of the browser controller.
THEOREM ControllerInvariant == Spec => []ControllerInv
<1>1. MInit => ControllerInv
  <2> SUFFICES ASSUME MInit PROVE ControllerInv
    OBVIOUS
  <2>1. /\ queue = << >> /\ queue \in Seq(Caller)
        /\ generation \in Generation
        /\ request \in [Caller -> Request]
    BY AnswerFacts, BoundAssumption DEF MInit, Init, Generation
  <2>2. ControllerTypeOK
    BY <2>1 DEF MInit, Init, ControllerTypeOK, Place, Request
  <2>3. LifeInv
    BY DEF MInit, Init, LifeInv
  <2>4. ServiceInv
    <3>1. Distinct
      BY <2>1 DEF Distinct
    <3>2. \A c \in Caller : ~Queued(c) /\ serving # c
      BY <2>1, EmptyQueue, CallerAssumption DEF MInit, Init
    <3> QED BY <3>1, <3>2 DEF MInit, Init, ServiceInv, Held
  <2> QED BY <2>2, <2>3, <2>4 DEF ControllerInv
<1>2. ControllerInv /\ [Next]_vars => ControllerInv'
  BY StepOfController, ControllerType, LifeStep, ServiceStep DEF ControllerInv
<1> QED BY <1>1, <1>2, PTL DEF Spec

\* No caller waits for a request that the worker has left behind.
THEOREM WaitingCallerIsServed == Spec => []WaitingIsServed
<1>1. ControllerInv => WaitingIsServed
  BY DEF ControllerInv, ServiceInv, Held, InLoop, WaitingIsServed
<1> QED BY <1>1, ControllerInvariant, PTL

\* A timeout of an earlier generation never stops a later one.
THEOREM StopHasCause == Spec => []StoppedForCause
<1>1. ControllerInv => StoppedForCause
  BY DEF ControllerInv, LifeInv, StoppedForCause
<1> QED BY <1>1, ControllerInvariant, PTL

\* What the UI is told of a generation fits together and is complete.
THEOREM ReportIsConsistent == Spec => []ReportsAreConsistent
<1>1. ControllerInv => ReportsAreConsistent
  BY DEF ControllerInv, LifeInv, ReportsAreConsistent
<1> QED BY <1>1, ControllerInvariant, PTL

-----------------------------------------------------------------------------
(* The stored history.                                                     *)

Transition == [check: Nat \ {0}, previous: Status, current: Status]

StoredTypeOK ==
  /\ checks \in Seq(Check)
  /\ transitions \in Seq(Transition)
  /\ latest \in Status \cup {None}

RunTypeOK ==
  /\ run \in [Caller -> {"off", "check", "lookup", "wait"}]
  /\ stopAsked \in [Caller -> BOOLEAN]
  /\ baseline \in [Caller -> Status]

\* A step that writes to the database is one of the two transactions.
StoreStep ==
  \E given \in Status : \/ PersistError(given)
                        \/ \E status \in Status : PersistStatus(given, status)

LEMMA StepOfStore ==
  ASSUME RunTypeOK, [Next]_vars PROVE [StoreStep]_storedVars
<1>1. CASE UNCHANGED vars
  BY <1>1 DEF vars, storedVars
<1>2. CASE (Work \/ World) /\ UNCHANGED <<runVars, storedVars>>
  BY <1>2
<1>3. ASSUME NEW given \in Status, NEW answer, Persist(given, answer) PROVE StoreStep
  BY <1>3 DEF Persist, StoreStep
<1>4. CASE OtherPersists
  BY <1>3, <1>4 DEF OtherPersists
<1>5. ASSUME NEW c \in Caller, RunStep(c) \/ StartRun(c) \/ StopRun(c)
      PROVE  StoreStep \/ UNCHANGED storedVars
  <2>1. baseline[c] \in Status
    BY DEF RunTypeOK
  <2>2. CASE RecordCheck(c) \/ RecordFailure(c)
    BY <1>3, <2>1, <2>2 DEF RecordCheck, RecordFailure
  <2>3. CASE ~(RecordCheck(c) \/ RecordFailure(c))
    BY <1>5, <2>3 DEF RunStep, Skip, CheckRecord, LookupStep, PersistFails, Interval,
       StartRun, StopRun
  <2> QED BY <2>2, <2>3
<1> QED BY <1>1, <1>2, <1>4, <1>5 DEF Next

LEMMA RunType ==
  ASSUME RunTypeOK, [Next]_vars PROVE RunTypeOK'
<1> USE DEF RunTypeOK, runVars
<1>1. CASE UNCHANGED vars
  BY <1>1 DEF vars
<1>2. CASE (Work \/ World) /\ UNCHANGED <<runVars, storedVars>>
  BY <1>2
<1>3. CASE OtherPersists
  BY <1>3 DEF OtherPersists
<1>4. ASSUME NEW c \in Caller, RunStep(c) \/ StopRun(c) PROVE RunTypeOK'
  BY <1>4 DEF RunStep, Skip, CheckRecord, LookupStep, RecordCheck, RecordFailure,
     PersistFails, LeaveLookup, Interval, StopRun
<1>5. ASSUME NEW c \in Caller, StartRun(c) PROVE RunTypeOK'
  BY <1>5 DEF StartRun
<1> QED BY <1>1, <1>2, <1>3, <1>4, <1>5 DEF Next

\* The row that a transaction adds to the checks.
LEMMA CheckAppended ==
  ASSUME StoredTypeOK, NEW check \in Check, checks' = Append(checks, check)
  PROVE  /\ checks' \in Seq(Check)
         /\ Len(checks) \in Nat /\ Len(checks') = Len(checks) + 1
         /\ DOMAIN checks = 1..Len(checks) /\ DOMAIN checks' = 1..(Len(checks) + 1)
         /\ \A n \in 1..Len(checks) : checks'[n] = checks[n] /\ checks[n] \in Check
         /\ checks'[Len(checks) + 1] = check
BY DEF StoredTypeOK

LEMMA StoredType ==
  ASSUME StoredTypeOK, [StoreStep]_storedVars PROVE StoredTypeOK'
<1>1. CASE UNCHANGED storedVars
  BY <1>1 DEF storedVars, StoredTypeOK
<1>2. ASSUME NEW given \in Status PROVE Effective(given) \in Status
  BY DEF Effective, StoredTypeOK
<1>3. ASSUME NEW given \in Status, PersistError(given) PROVE StoredTypeOK'
  <2>1. [previous |-> Effective(given), current |-> Effective(given), result |-> "Error"] \in Check
    BY <1>2 DEF Check
  <2> QED BY <1>3, <2>1, CheckAppended DEF PersistError, StoredTypeOK
<1>4. ASSUME NEW given \in Status, NEW status \in Status, PersistStatus(given, status)
      PROVE  StoredTypeOK'
  <2> DEFINE previous == Effective(given)
             check == [previous |-> previous, current |-> status,
                       result |-> IF previous # status THEN "Changed" ELSE "Success"]
             transition == [check |-> Len(checks) + 1, previous |-> previous, current |-> status]
  <2>1. check \in Check /\ checks' = Append(checks, check)
    BY <1>2, <1>4 DEF Check, PersistStatus
  <2>2. checks' \in Seq(Check) /\ Len(checks) \in Nat
    BY <2>1, CheckAppended
  <2>3. transition \in Transition
    BY <1>2, <2>2 DEF Transition
  <2>4. transitions' = Append(transitions, transition) \/ transitions' = transitions
    BY <1>4 DEF PersistStatus
  <2>5. transitions' \in Seq(Transition)
    BY <2>3, <2>4 DEF StoredTypeOK
  <2> QED BY <1>4, <2>2, <2>5 DEF PersistStatus, StoredTypeOK
<1> QED BY <1>1, <1>3, <1>4 DEF StoreStep

\* Every variable of the controller, the runs and the database keeps its type.
THEOREM TypeCorrect == Spec => []TypeOK
<1>1. MInit => RunTypeOK /\ StoredTypeOK
  BY DEF MInit, RunTypeOK, StoredTypeOK
<1>2. RunTypeOK /\ StoredTypeOK /\ [Next]_vars => RunTypeOK' /\ StoredTypeOK'
  BY StepOfStore, RunType, StoredType
<1>3. ControllerInv /\ RunTypeOK /\ StoredTypeOK => TypeOK
  BY DEF ControllerInv, RunTypeOK, StoredTypeOK, Transition, TypeOK
<1> QED BY <1>1, <1>2, <1>3, ControllerInvariant, PTL DEF Spec

\* A transaction extends the chain by a check that starts where it ended.
LEMMA ChainExtended ==
  ASSUME StoredTypeOK, ChecksChain, NEW check \in Check, checks' = Append(checks, check),
         latest # None => check.previous = latest,
         latest' = IF check.result = "Error" THEN latest ELSE check.current,
         check.result = "Error" => check.current = check.previous
  PROVE  ChecksChain'
<1>1. PICK length \in Nat :
        /\ length = Len(checks) /\ Len(checks') = length + 1
        /\ \A n \in 1..length : checks'[n] = checks[n] /\ checks[n] \in Check
        /\ checks'[length + 1] = check
  BY CheckAppended
<1> DEFINE SeenNext(n) == \E k \in 1..n : checks'[k].result # "Error"
<1>2. \A n \in 0..length : SeenNext(n) <=> Seen(n)
  BY <1>1 DEF Seen
<1>3. SeenNext(length + 1) <=> Seen(length) \/ check.result # "Error"
  BY <1>1 DEF Seen
<1>4. latest = IF Seen(length) THEN checks[length].current ELSE None
  BY <1>1 DEF ChecksChain
<1>5. Seen(length) => length \in 1..length /\ latest # None
  BY <1>1, <1>4, ChecksAssumption DEF Seen, Check
<1> HIDE DEF SeenNext
<1>6. ASSUME NEW n \in 2..(length + 1), SeenNext(n - 1)
      PROVE  checks'[n].previous = checks'[n - 1].current
  <2>1. n - 1 \in 0..length /\ n - 1 \in 1..length /\ Seen(n - 1)
    BY <1>1, <1>2, <1>6
  <2>2. CASE n <= length
    <3>1. checks[n].previous = checks[n - 1].current
      BY <1>1, <2>1, <2>2 DEF ChecksChain
    <3> QED BY <1>1, <2>1, <2>2, <3>1
  <2>3. CASE n = length + 1
    BY <1>1, <1>4, <1>5, <2>1, <2>3
  <2> QED BY <1>1, <2>2, <2>3
<1>7. latest' = IF SeenNext(length + 1) THEN checks'[length + 1].current ELSE None
  <2>1. CASE check.result = "Error"
    <3>1. CASE Seen(length)
      <4>1. latest # None /\ latest' = latest /\ check.current = latest
        BY <1>5, <2>1, <3>1
      <4> QED BY <1>1, <1>3, <3>1, <4>1
    <3>2. CASE ~Seen(length)
      BY <1>3, <1>4, <2>1, <3>2
    <3> QED BY <3>1, <3>2
  <2>2. CASE check.result # "Error"
    BY <1>1, <1>3, <2>2
  <2> QED BY <2>1, <2>2
<1>8. /\ \A n \in 2..Len(checks') : SeenNext(n - 1) => checks'[n].previous = checks'[n - 1].current
      /\ latest' = IF SeenNext(Len(checks')) THEN checks'[Len(checks')].current ELSE None
  BY <1>1, <1>6, <1>7
<1> QED BY <1>8 DEF ChecksChain, Seen, SeenNext

\* A transaction that changes the status adds its transition, another none.
LEMMA TransitionsExtended ==
  ASSUME StoredTypeOK, TransitionsAreChanges, NEW check \in Check,
         checks' = Append(checks, check),
         transitions' = IF check.previous # check.current
                        THEN Append(transitions, [check |-> Len(checks) + 1,
                                                  previous |-> check.previous,
                                                  current |-> check.current])
                        ELSE transitions
  PROVE  TransitionsAreChanges'
<1> DEFINE length == Len(checks)
           Changes == {k \in DOMAIN checks : checks[k].previous # checks[k].current}
<1>1. /\ length \in Nat
      /\ DOMAIN checks = 1..length /\ DOMAIN checks' = 1..(length + 1)
      /\ \A n \in 1..length : checks'[n] = checks[n]
      /\ checks'[length + 1] = check
  BY CheckAppended
<1>2. Changes' = Changes \cup (IF check.previous # check.current THEN {length + 1} ELSE {})
  BY <1>1
<1>3. {transitions[n].check : n \in DOMAIN transitions} = Changes
  BY DEF TransitionsAreChanges
<1>4. \A n \in DOMAIN transitions :
        /\ transitions[n].check \in 1..length
        /\ transitions[n].previous = checks[transitions[n].check].previous
        /\ transitions[n].current = checks[transitions[n].check].current
        /\ \A i \in 1..(n - 1) : transitions[i].check < transitions[n].check
  BY <1>1, <1>3 DEF TransitionsAreChanges
<1>5. CASE check.previous = check.current
  <2>1. transitions' = transitions /\ Changes' = Changes
    BY <1>2, <1>5
  <2>2. \A n \in DOMAIN transitions' :
          /\ transitions'[n].previous = checks'[transitions'[n].check].previous
          /\ transitions'[n].current = checks'[transitions'[n].check].current
          /\ \A i \in 1..(n - 1) : transitions'[i].check < transitions'[n].check
    BY <1>1, <1>4, <2>1
  <2> QED BY <1>3, <2>1, <2>2 DEF TransitionsAreChanges
<1>6. CASE check.previous # check.current
  <2> DEFINE last == Len(transitions) + 1
             added == [check |-> length + 1, previous |-> check.previous,
                       current |-> check.current]
  <2>1. /\ Len(transitions) \in Nat
        /\ DOMAIN transitions = 1..Len(transitions) /\ DOMAIN transitions' = 1..last
        /\ \A n \in 1..Len(transitions) : transitions'[n] = transitions[n]
        /\ transitions'[last] = added
    BY <1>6 DEF StoredTypeOK
  <2>2. {transitions'[n].check : n \in DOMAIN transitions'} = Changes'
    <3>1. {transitions'[n].check : n \in DOMAIN transitions'}
            = {transitions[n].check : n \in DOMAIN transitions} \cup {length + 1}
      BY <2>1
    <3> QED BY <1>2, <1>3, <1>6, <3>1
  <2>3. ASSUME NEW n \in DOMAIN transitions'
        PROVE  /\ transitions'[n].previous = checks'[transitions'[n].check].previous
               /\ transitions'[n].current = checks'[transitions'[n].check].current
               /\ \A i \in 1..(n - 1) : transitions'[i].check < transitions'[n].check
    <3>1. CASE n \in DOMAIN transitions
      BY <1>1, <1>4, <2>1, <3>1
    <3>2. CASE n = last
      <4>1. /\ transitions'[n].check = length + 1
            /\ transitions'[n].previous = check.previous
            /\ transitions'[n].current = check.current
        BY <2>1, <3>2
      <4>2. ASSUME NEW i \in 1..(n - 1) PROVE transitions'[i].check < length + 1
        <5>1. i \in DOMAIN transitions /\ transitions'[i] = transitions[i]
          BY <2>1, <3>2
        <5> QED BY <1>1, <1>4, <5>1
      <4>3. checks'[transitions'[n].check] = check
        BY <1>1, <4>1
      <4>4. \A i \in 1..(n - 1) : transitions'[i].check < transitions'[n].check
        BY <4>1, <4>2
      <4> QED BY <4>1, <4>3, <4>4
    <3>3. n \in DOMAIN transitions \/ n = last
      BY <2>1
    <3> QED BY <3>1, <3>2, <3>3
  <2> QED BY <2>2, <2>3 DEF TransitionsAreChanges
<1> QED BY <1>5, <1>6

\* Checks, transitions and latest status tell one history, for any runs and any
\* other writers, in whatever order their transactions come.
THEOREM HistoryIsOne == Spec => []StatusHistory
<1>1. MInit => StatusHistory
  <2> SUFFICES ASSUME MInit PROVE StatusHistory
    OBVIOUS
  <2>1. /\ checks = << >> /\ Len(checks) = 0 /\ DOMAIN checks = {}
        /\ transitions = << >> /\ DOMAIN transitions = {} /\ latest = None
    BY DEF MInit
  <2>2. ChecksChain
    BY <2>1 DEF ChecksChain, Seen
  <2>3. TransitionsAreChanges
    BY <2>1 DEF TransitionsAreChanges
  <2> QED BY <2>2, <2>3 DEF StatusHistory
<1>2. TypeOK /\ StatusHistory /\ [Next]_vars => StatusHistory'
  <2> SUFFICES ASSUME TypeOK, StatusHistory, [Next]_vars PROVE StatusHistory'
    OBVIOUS
  <2>1. StoredTypeOK /\ RunTypeOK /\ ChecksChain /\ TransitionsAreChanges
    BY DEF TypeOK, StoredTypeOK, RunTypeOK, Transition, StatusHistory
  <2>2. CASE UNCHANGED storedVars
    <3>1. ChecksChain'
      BY <2>1, <2>2 DEF storedVars, ChecksChain, Seen
    <3>2. TransitionsAreChanges'
      BY <2>1, <2>2 DEF storedVars, TransitionsAreChanges
    <3> QED BY <3>1, <3>2 DEF StatusHistory
  <2>3. ASSUME NEW given \in Status
        PROVE  Effective(given) \in Status /\ (latest # None => Effective(given) = latest)
    BY <2>1 DEF Effective, StoredTypeOK
  <2>4. ASSUME NEW given \in Status, PersistError(given) PROVE StatusHistory'
    <3> DEFINE check == [previous |-> Effective(given), current |-> Effective(given),
                         result |-> "Error"]
    <3>1. /\ check \in Check /\ checks' = Append(checks, check)
          /\ latest' = latest /\ transitions' = transitions
      BY <2>3, <2>4 DEF Check, PersistError
    <3>2. /\ latest # None => check.previous = latest
          /\ check.result = "Error" /\ check.current = check.previous
      BY <2>3
    <3> HIDE DEF check
    <3> QED BY <2>1, <3>1, <3>2, ChainExtended, TransitionsExtended DEF StatusHistory
  <2>5. ASSUME NEW given \in Status, NEW status \in Status, PersistStatus(given, status)
        PROVE  StatusHistory'
    <3> DEFINE check == [previous |-> Effective(given), current |-> status,
                         result |-> IF Effective(given) # status THEN "Changed" ELSE "Success"]
    <3>1. /\ check \in Check /\ checks' = Append(checks, check) /\ latest' = status
          /\ transitions' = IF Effective(given) # status
                            THEN Append(transitions, [check |-> Len(checks) + 1,
                                                      previous |-> Effective(given),
                                                      current |-> status])
                            ELSE transitions
      BY <2>3, <2>5 DEF Check, PersistStatus
    <3>2. /\ latest # None => check.previous = latest
          /\ check.result # "Error" /\ check.current = status
          /\ check.previous = Effective(given)
      BY <2>3
    <3> HIDE DEF check
    <3>3. ChecksChain'
      BY <2>1, <3>1, <3>2, ChainExtended
    <3>4. TransitionsAreChanges'
      BY <2>1, <3>1, <3>2, TransitionsExtended
    <3> QED BY <3>3, <3>4 DEF StatusHistory
  <2> QED BY <2>1, <2>2, <2>4, <2>5, StepOfStore DEF StoreStep
<1> QED BY <1>1, <1>2, TypeCorrect, PTL DEF Spec

=============================================================================
