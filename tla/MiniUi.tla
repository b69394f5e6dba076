------------------------------- MODULE MiniUi -------------------------------
(***************************************************************************)
(* MiniMainWindow (app.py, mini_ui.py): the window, the worker thread of   *)
(* each operation, and the queued signals between them.                    *)
(*                                                                         *)
(* A handler of the window runs to its end in the Qt thread, so it is one  *)
(* action.  A signal emitted by a worker is posted to the window's event   *)
(* queue and handled later, in order.  The generation of an operation also *)
(* names its thread and its cancel event.  The thread is the workflow as   *)
(* the window sees it: the progress it reports, whether it has stored its  *)
(* result, and how it ends.                                                *)
(***************************************************************************)
EXTENDS Naturals, Sequences

CONSTANT MaxStarts  \* bound: operations started in a behaviour

ASSUME MaxStartsAssumption == MaxStarts \in Nat

VARIABLES
  state,       \* MiniUiStateModel.state
  generation,  \* _generation
  worker,      \* the generation of the thread in _worker, 0 for None
  event,       \* the generation of the event in _cancel_event, 0 for None
  shutdown,    \* _shutdown_requested, while it is set the timer runs
  window,      \* whether the window accepts events
  queue,       \* posted signals
  polling,     \* outcomes whose singleShot timer is running
  thread,      \* where the thread of each operation is
  cancelled,   \* operations whose cancel event is set
  stored       \* operations that have committed and published

windowVars == <<state, generation, worker, event, shutdown, window>>
threadVars == <<thread, stored>>
vars == <<windowVars, queue, polling, threadVars, cancelled>>

Operations == 1..MaxStarts

\* worker_progress_states and ACTIVE_STATES.  Validating never outlives start_work.
Progressing == {"OpeningPrisma", "Downloading", "Processing", "Publishing"}
Active      == Progressing \cup {"Validating", "Cancelling"}
UiState     == Active \cup {"Idle", "Completed", "Error"}

Running == {"opening", "downloading", "processing", "publishing", "storing", "stored"}
Place   == Running \cup {"unstarted", "reported", "dead"}

Alive(g) == thread[g] \in Running \cup {"reported"}

Progress(g, s) == [kind |-> "progress", generation |-> g, value |-> s]
Finished(g, o) == [kind |-> "finished", generation |-> g, value |-> o]
Outcome == [kind : {"finished"}, generation : Operations,
            value : {"completed", "cancelled", "failed"}]
Signal  == [kind : {"progress"}, generation : Operations, value : Progressing]
           \cup Outcome

Init ==
  /\ state = "Idle" /\ generation = 0 /\ worker = 0 /\ event = 0
  /\ shutdown = FALSE /\ window = "open"
  /\ queue = <<>> /\ polling = {}
  /\ thread = [g \in Operations |-> "unstarted"]
  /\ cancelled = {} /\ stored = {}

-----------------------------------------------------------------------------
(* The buttons.                                                            *)

IsActive == state \in Active

\* A valid range: the thread starts.
StartWork ==
  /\ window = "open" /\ ~IsActive /\ generation < MaxStarts
  /\ generation' = generation + 1
  /\ worker' = generation' /\ event' = generation'
  /\ thread' = [thread EXCEPT ![generation'] = "opening"]
  /\ state' = "OpeningPrisma"
  /\ UNCHANGED <<shutdown, window, queue, polling, stored, cancelled>>

\* The range is refused before the generation changes.
StartRefused ==
  /\ window = "open" /\ ~IsActive
  /\ state' = "Error"
  /\ UNCHANGED <<generation, worker, event, shutdown, window, queue, polling,
                 threadVars, cancelled>>

\* worker.start() raises.
StartFails ==
  /\ window = "open" /\ ~IsActive /\ generation < MaxStarts
  /\ generation' = generation + 1
  /\ worker' = 0 /\ event' = 0
  /\ state' = "Error"
  /\ UNCHANGED <<shutdown, window, queue, polling, threadVars, cancelled>>

\* Mutant: the window is ready again at once.
CancelAtOnce ==
  /\ window = "open" /\ IsActive /\ state # "Cancelling"
  /\ cancelled' = cancelled \cup ({event} \ {0})
  /\ state' = "Idle"
  /\ UNCHANGED <<generation, worker, event, shutdown, window, queue, polling,
                 threadVars>>

CancelWork ==
  /\ window = "open" /\ IsActive /\ state # "Cancelling"
  /\ cancelled' = cancelled \cup ({event} \ {0})
  /\ state' = "Cancelling"
  /\ UNCHANGED <<generation, worker, event, shutdown, window, queue, polling,
                 threadVars>>

\* open_result of a file that is gone or does not open; else it changes nothing.
OpenResultFails ==
  /\ window = "open" /\ ~IsActive
  /\ state' = "Error"
  /\ UNCHANGED <<generation, worker, event, shutdown, window, queue, polling,
                 threadVars, cancelled>>

-----------------------------------------------------------------------------
(* closeEvent, of the user or of the shutdown timer.                       *)

\* Mutant: the second request is granted whatever runs.
MayCloseAgain(w) == IF w = 0 THEN TRUE ELSE shutdown \/ ~Alive(w)

\* Mutant: the displayed state is asked instead of the thread.
MayCloseWhenIdle(w) == ~IsActive

MayClose(w) == IF w = 0 THEN TRUE ELSE ~Alive(w)

AcceptClose ==
  /\ MayClose(worker)
  /\ window' = "closed"
  /\ UNCHANGED <<state, generation, worker, event, shutdown, cancelled>>

RefuseClose ==
  /\ ~MayClose(worker)
  /\ shutdown' = TRUE
  /\ cancelled' = cancelled \cup ({event} \ {0})
  /\ state' = "Cancelling"
  /\ UNCHANGED <<generation, worker, event, window>>

Close ==
  /\ window = "open"
  /\ AcceptClose \/ RefuseClose
  /\ UNCHANGED <<queue, polling, threadVars>>

ShutdownTimer == shutdown /\ Close

-----------------------------------------------------------------------------
(* The signals of the worker.                                              *)

Deliver(kind) ==
  /\ window = "open" /\ queue # <<>> /\ Head(queue).kind = kind
  /\ queue' = Tail(queue)

OnProgress ==
  LET m == Head(queue)
  IN  /\ Deliver("progress")
      /\ state' = IF m.generation # generation \/ shutdown \/ state = "Cancelling"
                  THEN state ELSE m.value
      /\ UNCHANGED <<generation, worker, event, shutdown, window, polling,
                     threadVars, cancelled>>

\* What the window shows at the end; the result file may have disappeared.
Shown(outcome) ==
  CASE outcome = "cancelled" -> {"Idle"}
    [] outcome = "failed"    -> {"Error"}
    [] outcome = "completed" -> {"Completed", "Error"}

ShowOutcome(m) == state' \in Shown(m.value)

\* The operation is over: the window shows its outcome, or closes at last.
Conclude(m) ==
  /\ worker' = 0 /\ event' = 0
  /\ IF shutdown
     THEN UNCHANGED state /\ (IF MayClose(0) THEN window' = "closed" ELSE UNCHANGED window)
     ELSE ShowOutcome(m) /\ UNCHANGED window

\* Mutant: the thread is not awaited.
HandleFinishedAtOnce(m, others) ==
  /\ polling' = others
  /\ Conclude(m)
  /\ UNCHANGED <<generation, shutdown, threadVars, cancelled>>

\* Mutant: the outcome of a thread that is still alive is dropped.
HandleFinishedOnce(m, others) ==
  /\ polling' = others
  /\ IF m.generation # generation \/ (worker # 0 /\ Alive(worker))
     THEN UNCHANGED <<state, worker, event, window>>
     ELSE Conclude(m)
  /\ UNCHANGED <<generation, shutdown, threadVars, cancelled>>

\* _on_finished; `others' are the other outcomes being polled.
HandleFinished(m, others) ==
  /\ IF m.generation # generation
     THEN polling' = others /\ UNCHANGED <<state, worker, event, window>>
     ELSE IF worker # 0 /\ Alive(worker)
     THEN polling' = others \cup {m} /\ UNCHANGED <<state, worker, event, window>>
     ELSE polling' = others /\ Conclude(m)
  /\ UNCHANGED <<generation, shutdown, threadVars, cancelled>>

OnFinished ==
  /\ Deliver("finished")
  /\ HandleFinished(Head(queue), polling)

PollFinished ==
  /\ window = "open"
  /\ \E m \in polling : HandleFinished(m, polling \ {m})
  /\ UNCHANGED queue

-----------------------------------------------------------------------------
(* The thread: _run_worker around the workflow.                            *)

Move(g, from, to) == thread[g] = from /\ thread' = [thread EXCEPT ![g] = to]

\* A cancellation check of run, then the next stage and its signal.
ReportProgress(g) ==
  /\ g \notin cancelled
  /\ \/ Move(g, "opening", "downloading") /\ queue' = Append(queue, Progress(g, "Downloading"))
     \/ Move(g, "downloading", "processing") /\ queue' = Append(queue, Progress(g, "Processing"))
     \/ Move(g, "processing", "publishing") /\ queue' = Append(queue, Progress(g, "Publishing"))
  /\ UNCHANGED <<windowVars, polling, stored, cancelled>>

\* The last cancellation check.
BeginStoring(g) ==
  /\ g \notin cancelled
  /\ Move(g, "publishing", "storing")
  /\ UNCHANGED <<windowVars, queue, polling, stored, cancelled>>

Store(g) ==
  /\ Move(g, "storing", "stored")
  /\ stored' = stored \cup {g}
  /\ UNCHANGED <<windowVars, queue, polling, cancelled>>

Emit(g, outcome) ==
  /\ thread' = [thread EXCEPT ![g] = "reported"]
  /\ queue' = Append(queue, Finished(g, outcome))
  /\ UNCHANGED <<windowVars, polling, stored, cancelled>>

\* Mutant: a cancelled workflow returns the result path instead of raising.
WorkStopsQuietly(g) ==
  /\ thread[g] \in Running \ {"storing", "stored"} /\ g \in cancelled
  /\ Emit(g, "completed")

\* MiniWorkCancelled.
WorkCancelled(g) ==
  /\ thread[g] \in Running \ {"storing", "stored"} /\ g \in cancelled
  /\ Emit(g, "cancelled")

\* Any other exception: until the commit everything can fail.
WorkFails(g) ==
  /\ thread[g] \in Running \ {"stored"}
  /\ Emit(g, "failed")

\* The workflow returned; the cancel event is asked once more.
WorkReturns(g) ==
  /\ thread[g] = "stored"
  /\ Emit(g, IF g \in cancelled THEN "cancelled" ELSE "completed")

ThreadEnds(g) ==
  /\ Move(g, "reported", "dead")
  /\ UNCHANGED <<windowVars, queue, polling, stored, cancelled>>

-----------------------------------------------------------------------------
Thread(g) == ReportProgress(g) \/ BeginStoring(g) \/ Store(g) \/ WorkCancelled(g)
             \/ WorkFails(g) \/ WorkReturns(g) \/ ThreadEnds(g)

EventLoop == OnProgress \/ OnFinished

User == StartWork \/ StartRefused \/ StartFails \/ CancelWork \/ OpenResultFails \/ Close

Next == User \/ ShutdownTimer \/ EventLoop \/ PollFinished \/ \E g \in Operations : Thread(g)

Spec == Init /\ [][Next]_vars

\* Threads are scheduled and their waits time out; Qt runs its timers and its
\* posted events.  The user owes nothing.
FairSpec ==
  /\ Spec
  /\ WF_vars(EventLoop) /\ WF_vars(PollFinished) /\ WF_vars(ShutdownTimer)
  /\ \A g \in Operations : WF_vars(Thread(g))

-----------------------------------------------------------------------------
(* Properties.                                                             *)

TypeOK ==
  /\ state \in UiState
  /\ generation \in 0..MaxStarts
  /\ worker \in 0..MaxStarts /\ event \in 0..MaxStarts
  /\ shutdown \in BOOLEAN /\ window \in {"open", "closed"}
  /\ queue \in Seq(Signal)
  /\ polling \subseteq Outcome
  /\ thread \in [Operations -> Place]
  /\ cancelled \subseteq Operations /\ stored \subseteq Operations

\* Two operations never run at once, although the guard of start_work knows
\* only the displayed state: while a thread lives it is the thread in
\* _worker, and the displayed state keeps Start disabled.
OneOperation ==
  \A g \in Operations : Alive(g) => g = worker /\ g = generation /\ state \in Active

\* Every signal that is still to be handled is about the current operation:
\* no late one can reach the next.
SignalsAreCurrent ==
  /\ \A n \in DOMAIN queue : queue[n].generation = generation
  /\ \A m \in polling : m.generation = generation

\* Completed is shown only for an operation that committed and published.
CompletedMeansStored == state = "Completed" => generation \in stored

\* After Cancel or a refused close, no late progress is displayed: Cancelling
\* lasts until the operation is over.
CancellingLasts ==
  [][state = "Cancelling" /\ state' # state =>
       state' \notin Progressing /\ ~Alive(generation)]_vars

\* Section 6: a closed window has waited for its non-daemon worker.
ClosedWaits == window = "closed" => \A g \in Operations : ~Alive(g)

\* The window does not stay busy: an operation is eventually over for it.
WorkEnds == state \in Active ~> (state \notin Active \/ window = "closed")

\* A refused close is carried out once the worker has stopped.
CloseEnds == shutdown ~> window = "closed"

\* TECHNICAL_SPECIFICATION.md:62, mini_ui.py:62: the status is truthful.  The
\* window says Cancelled (and is idle again) only of an operation that has
\* not stored anything.
CancelledMeansNotStored == state = "Idle" => generation \notin stored

=============================================================================
