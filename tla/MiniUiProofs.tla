---------------------------- MODULE MiniUiProofs ----------------------------
(***************************************************************************)
(* Proofs about MiniUi, for every number of operations started.            *)
(***************************************************************************)
EXTENDS MiniUi, SequenceTheorems, TLAPS

-----------------------------------------------------------------------------
(* The inductive invariant.                                                *)

\* A living thread is the one in _worker, of the current generation.
OneThread == \A g \in Operations : Alive(g) => g = worker /\ g = generation

\* A thread that still works has posted progress only.
RunningSendsProgress ==
  \A g \in Operations : thread[g] \in Running =>
    polling = {} /\ \A n \in DOMAIN queue : queue[n].kind = "progress"

\* The outcome is the last signal, and one timer at most polls it.
OutcomeIsLast ==
  /\ \A n \in DOMAIN queue : queue[n].kind = "finished" => n = Len(queue) /\ polling = {}
  /\ polling # {} => queue = <<>>
  /\ \A m \in polling : polling = {m}

\* A window that is ready for the next operation waits for nothing.
ReadyIsQuiet ==
  state \notin Active =>
    queue = <<>> /\ polling = {} /\ \A g \in Operations : ~Alive(g)

\* Only what was stored is reported as completed.
CompletedIsStored ==
  /\ \A g \in Operations : thread[g] = "stored" => g \in stored
  /\ \A n \in DOMAIN queue : queue[n].value = "completed" => queue[n].generation \in stored
  /\ \A m \in polling : m.value = "completed" => m.generation \in stored

UiInv ==
  /\ OneThread /\ RunningSendsProgress /\ OutcomeIsLast /\ ReadyIsQuiet
  /\ SignalsAreCurrent /\ CompletedIsStored /\ CompletedMeansStored /\ ClosedWaits

-----------------------------------------------------------------------------
(* Types.                                                                  *)

\* What Deliver takes from the queue, and what it leaves there.
LEMMA DeliverFacts ==
  ASSUME queue \in Seq(Signal), NEW kind, Deliver(kind)
  PROVE  /\ Head(queue) \in Signal /\ Head(queue).kind = kind
         /\ Len(queue) \in Nat /\ Len(queue) > 0
         /\ DOMAIN queue = 1..Len(queue) /\ Head(queue) = queue[1]
         /\ queue' \in Seq(Signal)
         /\ Len(queue') = Len(queue) - 1 /\ DOMAIN queue' = 1..(Len(queue) - 1)
         /\ \A n \in DOMAIN queue' : n + 1 \in DOMAIN queue /\ queue'[n] = queue[n + 1]
  <1>1. queue # <<>> /\ queue' = Tail(queue) /\ Head(queue).kind = kind
    BY DEF Deliver
  <1>2. /\ Head(queue) \in Signal /\ queue' \in Seq(Signal)
        /\ Len(queue') = Len(queue) - 1
        /\ \A i \in 1..Len(queue') : queue'[i] = queue[i + 1]
    BY <1>1, HeadTailProperties
  <1>3. Len(queue) \in Nat \ {0} /\ DOMAIN queue = 1..Len(queue)
    BY <1>1, EmptySeq, LenProperties
  <1>4. DOMAIN queue' = 1..Len(queue')
    BY <1>2, LenProperties
  <1>5. Head(queue) = queue[1]
    BY <1>1
  <1>6. QED
    BY <1>1, <1>2, <1>3, <1>4, <1>5

\* What a thread that posts m makes of the queue.
LEMMA PostFacts ==
  ASSUME queue \in Seq(Signal), NEW m \in Signal, queue' = Append(queue, m)
  PROVE  /\ queue' \in Seq(Signal)
         /\ Len(queue) \in Nat /\ DOMAIN queue = 1..Len(queue)
         /\ Len(queue') = Len(queue) + 1
         /\ DOMAIN queue' = 1..(Len(queue) + 1)
         /\ \A n \in DOMAIN queue : queue'[n] = queue[n]
         /\ queue'[Len(queue) + 1] = m
  <1>1. queue' \in Seq(Signal)
    BY DEF Signal
  <1>2. Len(queue) \in Nat /\ DOMAIN queue = 1..Len(queue) /\ DOMAIN queue' = 1..Len(queue')
    BY <1>1, LenProperties
  <1>3. /\ Len(queue') = Len(queue) + 1
        /\ \A n \in 1..Len(queue) : queue'[n] = queue[n]
        /\ queue'[Len(queue) + 1] = m
    BY <1>2
  <1>4. QED
    BY <1>1, <1>2, <1>3

\* What a signal is.
LEMMA SignalTypes ==
  /\ \A g \in Operations : \A s \in Progressing : Progress(g, s) \in Signal
  /\ \A g \in Operations : \A o \in {"completed", "cancelled", "failed"} :
       Finished(g, o) \in Outcome
  /\ Outcome \subseteq Signal
  /\ \A m \in Signal : /\ m.kind \in {"progress", "finished"}
                       /\ m.generation \in Operations
                       /\ m.kind = "progress" => m.value \in Progressing
                       /\ m.kind = "finished" => m \in Outcome
                       /\ m.value = "completed" => m.kind = "finished"
  /\ \A m \in Outcome : /\ m \in Signal /\ m.kind = "finished"
                        /\ m.generation \in Operations
                        /\ m.value \in {"completed", "cancelled", "failed"}
  BY DEF Signal, Outcome, Progress, Finished, Progressing

LEMMA InitType == Init => TypeOK
  <1> SUFFICES ASSUME Init PROVE TypeOK
    OBVIOUS
  <1>1. queue \in Seq(Signal)
    BY EmptySeq DEF Init
  <1>2. thread \in [Operations -> Place]
    BY DEF Init, Place
  <1>3. generation \in 0..MaxStarts /\ worker \in 0..MaxStarts /\ event \in 0..MaxStarts
    BY MaxStartsAssumption DEF Init
  <1>4. shutdown \in BOOLEAN
    BY DEF Init
  <1>5. polling \subseteq Outcome /\ cancelled \subseteq Operations /\ stored \subseteq Operations
    BY DEF Init
  <1>6. state \in UiState /\ window \in {"open", "closed"}
    BY DEF Init, UiState
  <1>7. QED
    BY <1>1, <1>2, <1>3, <1>4, <1>5, <1>6 DEF TypeOK

\* A click and a close request change the queue and the signals in no way.
LEMMA UserType ==
  ASSUME TypeOK, User \/ ShutdownTimer
  PROVE  TypeOK'
  <1> USE MaxStartsAssumption DEF TypeOK, windowVars, threadVars, UiState, Active
  <1>1. CASE StartWork
    <2>1. generation' \in Operations
      BY <1>1 DEF StartWork, Operations
    <2>2. thread' \in [Operations -> Place]
      BY <1>1, <2>1 DEF StartWork, Place, Running
    <2>3. QED
      BY <1>1, <2>1, <2>2 DEF StartWork, Operations, Progressing
  <1>2. CASE StartRefused
    BY <1>2 DEF StartRefused
  <1>3. CASE StartFails
    BY <1>3 DEF StartFails
  <1>4. CASE CancelWork
    BY <1>4 DEF CancelWork, Operations
  <1>5. CASE OpenResultFails
    BY <1>5 DEF OpenResultFails
  <1>6. CASE Close
    <2>1. CASE AcceptClose
      BY <1>6, <2>1 DEF Close, AcceptClose
    <2>2. CASE RefuseClose
      BY <1>6, <2>2 DEF Close, RefuseClose, Operations
    <2>3. QED
      BY <1>6, <2>1, <2>2 DEF Close
  <1>7. QED
    BY <1>1, <1>2, <1>3, <1>4, <1>5, <1>6 DEF User, ShutdownTimer

\* The handler of an outcome shows a state, whatever it decides.
LEMMA HandleFinishedType ==
  ASSUME TypeOK, NEW m \in Outcome, NEW others,
         others \subseteq Outcome, HandleFinished(m, others), queue' \in Seq(Signal)
  PROVE  TypeOK'
  <1> USE DEF TypeOK, threadVars
  <1>1. polling' \subseteq Outcome
    BY DEF HandleFinished
  <1>2. CASE UNCHANGED <<state, worker, event, window>>
    BY <1>1, <1>2 DEF HandleFinished
  <1>3. CASE Conclude(m)
    <2>1. Shown(m.value) \subseteq UiState
      BY SignalTypes DEF Shown, UiState
    <2>2. state' \in UiState /\ window' \in {"open", "closed"}
      BY <1>3, <2>1 DEF Conclude, ShowOutcome
    <2>3. worker' \in 0..MaxStarts /\ event' \in 0..MaxStarts
      BY <1>3, MaxStartsAssumption DEF Conclude
    <2>4. QED
      BY <1>1, <2>2, <2>3 DEF HandleFinished
  <1>4. QED
    BY <1>2, <1>3 DEF HandleFinished

LEMMA SignalsType ==
  ASSUME TypeOK, EventLoop \/ PollFinished
  PROVE  TypeOK'
  <1>1. CASE OnProgress
    <2>1. queue' \in Seq(Signal) /\ Head(queue).value \in Progressing
      BY <1>1, DeliverFacts, SignalTypes DEF OnProgress, TypeOK
    <2>2. QED
      BY <1>1, <2>1 DEF OnProgress, TypeOK, UiState, Active, threadVars
  <1>2. CASE OnFinished
    <2>1. /\ queue' \in Seq(Signal)
          /\ Head(queue) \in Outcome
      BY <1>2, DeliverFacts, SignalTypes DEF OnFinished, TypeOK
    <2>2. QED
      BY <1>2, <2>1, HandleFinishedType DEF OnFinished, TypeOK
  <1>3. CASE PollFinished
    <2>1. PICK m \in polling : HandleFinished(m, polling \ {m})
      BY <1>3 DEF PollFinished
    <2>2. queue' = queue
      BY <1>3 DEF PollFinished
    <2>3. QED
      BY <2>1, <2>2, HandleFinishedType DEF TypeOK
  <1>4. QED
    BY <1>1, <1>2, <1>3 DEF EventLoop

LEMMA ThreadType ==
  ASSUME TypeOK, NEW g \in Operations, Thread(g)
  PROVE  TypeOK'
  <1> USE DEF windowVars
  <1>1. thread' \in [Operations -> Place]
    BY DEF Thread, TypeOK, Place, Running, ReportProgress, BeginStoring, Store,
           WorkCancelled, WorkFails, WorkReturns, Emit, ThreadEnds, Move
  <1>2. stored' \subseteq Operations
    BY DEF Thread, TypeOK, ReportProgress, BeginStoring, Store,
           WorkCancelled, WorkFails, WorkReturns, Emit, ThreadEnds
  <1>3. queue' \in Seq(Signal)
    <2>1. CASE UNCHANGED queue
      BY <2>1 DEF TypeOK
    <2>2. ASSUME NEW m \in Signal, queue' = Append(queue, m)
          PROVE  queue' \in Seq(Signal)
      BY <2>2, PostFacts DEF TypeOK
    <2>3. ASSUME NEW s \in Progressing, queue' = Append(queue, Progress(g, s))
          PROVE  queue' \in Seq(Signal)
      BY <2>2, <2>3, SignalTypes
    <2>4. ASSUME NEW o \in {"completed", "cancelled", "failed"},
                 queue' = Append(queue, Finished(g, o))
          PROVE  queue' \in Seq(Signal)
      BY <2>2, <2>4, SignalTypes
    <2>5. CASE ReportProgress(g)
      BY <2>5, <2>3 DEF ReportProgress, Progressing
    <2>6. CASE BeginStoring(g) \/ Store(g) \/ ThreadEnds(g)
      BY <2>1, <2>6 DEF BeginStoring, Store, ThreadEnds
    <2>7. CASE WorkCancelled(g) \/ WorkFails(g) \/ WorkReturns(g)
      BY <2>4, <2>7 DEF WorkCancelled, WorkFails, WorkReturns, Emit
    <2>8. QED
      BY <2>5, <2>6, <2>7 DEF Thread
  <1>4. UNCHANGED <<windowVars, polling, cancelled>>
    BY DEF Thread, ReportProgress, BeginStoring, Store,
           WorkCancelled, WorkFails, WorkReturns, Emit, ThreadEnds
  <1>5. QED
    BY <1>1, <1>2, <1>3, <1>4 DEF TypeOK

LEMMA NextType == TypeOK /\ [Next]_vars => TypeOK'
  <1> SUFFICES ASSUME TypeOK, [Next]_vars PROVE TypeOK'
    OBVIOUS
  <1>1. CASE UNCHANGED vars
    BY <1>1 DEF TypeOK, vars, windowVars, threadVars
  <1>2. CASE Next
    BY <1>2, UserType, SignalsType, ThreadType DEF Next
  <1>3. QED
    BY <1>1, <1>2

\* Every variable of the window, the threads and the signals between them
\* keeps its type, however many operations are started.
THEOREM TypeCorrect == Spec => []TypeOK
  BY InitType, NextType, PTL DEF Spec

-----------------------------------------------------------------------------
(* The invariant of the window, the threads and the signals.               *)

\* Nothing is posted and polled in an empty queue.
LEMMA EmptyFacts == DOMAIN <<>> = {} /\ <<>> \in Seq(Signal)
  <1>1. <<>> \in Seq(Signal) /\ Len(<<>>) = 0
    BY EmptySeq
  <1>2. DOMAIN <<>> = 1..0
    BY <1>1, LenProperties
  <1>3. QED
    BY <1>1, <1>2

LEMMA InitInv == Init => UiInv
  <1> SUFFICES ASSUME Init PROVE UiInv
    OBVIOUS
  <1>1. \A g \in Operations : thread[g] = "unstarted" /\ ~Alive(g) /\ thread[g] \notin Running
    BY DEF Init, Alive, Running
  <1>2. DOMAIN queue = {} /\ queue = <<>> /\ polling = {}
    BY EmptyFacts DEF Init
  <1>3. OneThread /\ RunningSendsProgress /\ OutcomeIsLast /\ ReadyIsQuiet
    BY <1>1, <1>2 DEF OneThread, RunningSendsProgress, OutcomeIsLast, ReadyIsQuiet
  <1>4. SignalsAreCurrent /\ CompletedIsStored
    BY <1>1, <1>2 DEF SignalsAreCurrent, CompletedIsStored
  <1>5. CompletedMeansStored /\ ClosedWaits
    BY DEF Init, CompletedMeansStored, ClosedWaits
  <1>6. QED
    BY <1>3, <1>4, <1>5 DEF UiInv

\* A start finds nothing posted, polled or alive.
LEMMA StartInv ==
  ASSUME TypeOK, UiInv, StartWork
  PROVE  UiInv'
  <1>1. /\ queue' = <<>> /\ polling' = {} /\ DOMAIN queue' = {}
        /\ \A g \in Operations : ~Alive(g)
    BY EmptyFacts DEF UiInv, ReadyIsQuiet, StartWork, IsActive
  <1>2. \A g \in Operations : Alive(g)' => g = generation'
    BY <1>1 DEF StartWork, TypeOK, Alive
  <1>3. state' \in Active /\ state' # "Completed" /\ worker' = generation' /\ window' = "open"
    BY DEF StartWork, Active, Progressing
  <1>4. \A g \in Operations : thread'[g] = "stored" => g \in stored'
    BY DEF StartWork, TypeOK, UiInv, CompletedIsStored
  <1>5. OneThread' /\ RunningSendsProgress' /\ OutcomeIsLast' /\ ReadyIsQuiet'
    BY <1>1, <1>2, <1>3 DEF OneThread, RunningSendsProgress, OutcomeIsLast, ReadyIsQuiet
  <1>6. SignalsAreCurrent' /\ CompletedIsStored'
    BY <1>1, <1>4 DEF SignalsAreCurrent, CompletedIsStored
  <1>7. CompletedMeansStored' /\ ClosedWaits'
    BY <1>3 DEF CompletedMeansStored, ClosedWaits
  <1>8. QED
    BY <1>5, <1>6, <1>7 DEF UiInv

\* A click that ends in Error leaves the window ready and quiet.
LEMMA ErrorInv ==
  ASSUME UiInv, StartRefused \/ StartFails \/ OpenResultFails
  PROVE  UiInv'
  <1> USE DEF threadVars
  <1>1. /\ ~IsActive /\ window = "open" /\ state' = "Error"
        /\ UNCHANGED <<window, queue, polling, thread, stored>>
    BY DEF StartRefused, StartFails, OpenResultFails
  <1>2. /\ queue' = <<>> /\ polling' = {} /\ DOMAIN queue' = {}
        /\ \A g \in Operations : ~Alive(g)'
    BY <1>1, EmptyFacts DEF UiInv, ReadyIsQuiet, IsActive, Alive
  <1>3. \A g \in Operations : thread'[g] \notin Running
    BY <1>2 DEF Alive
  <1>4. OneThread' /\ RunningSendsProgress' /\ OutcomeIsLast' /\ ReadyIsQuiet'
    BY <1>2, <1>3 DEF OneThread, RunningSendsProgress, OutcomeIsLast, ReadyIsQuiet
  <1>5. SignalsAreCurrent' /\ CompletedIsStored'
    BY <1>1, <1>2 DEF SignalsAreCurrent, CompletedIsStored, UiInv
  <1>6. CompletedMeansStored' /\ ClosedWaits'
    BY <1>1, <1>2 DEF CompletedMeansStored, ClosedWaits
  <1>7. QED
    BY <1>4, <1>5, <1>6 DEF UiInv

\* A cancellation and a refused close only show Cancelling.
LEMMA CancelInv ==
  ASSUME UiInv, CancelWork \/ (Close /\ RefuseClose)
  PROVE  UiInv'
  <1> USE DEF threadVars
  <1>1. /\ state' = "Cancelling"
        /\ UNCHANGED <<generation, worker, window, queue, polling, thread, stored>>
    BY DEF CancelWork, Close, RefuseClose
  <1>2. \A g \in Operations : Alive(g)' <=> Alive(g)
    BY <1>1 DEF Alive
  <1>3. OneThread' /\ RunningSendsProgress' /\ OutcomeIsLast' /\ ReadyIsQuiet'
    BY <1>1, <1>2
    DEF UiInv, OneThread, RunningSendsProgress, OutcomeIsLast, ReadyIsQuiet, Active
  <1>4. SignalsAreCurrent' /\ CompletedIsStored'
    BY <1>1 DEF UiInv, SignalsAreCurrent, CompletedIsStored
  <1>5. CompletedMeansStored' /\ ClosedWaits'
    BY <1>1, <1>2 DEF UiInv, CompletedMeansStored, ClosedWaits
  <1>6. QED
    BY <1>3, <1>4, <1>5 DEF UiInv

\* The window closes when its thread, hence every thread, has ended.
LEMMA CloseInv ==
  ASSUME UiInv, Close, AcceptClose
  PROVE  UiInv'
  <1> USE DEF threadVars
  <1>1. UNCHANGED <<state, generation, worker, queue, polling, thread, stored>>
    BY DEF Close, AcceptClose
  <1>2. \A g \in Operations : Alive(g)' <=> Alive(g)
    BY <1>1 DEF Alive
  <1>3. \A g \in Operations : ~Alive(g)
    BY DEF UiInv, OneThread, AcceptClose, MayClose, Operations
  <1>4. OneThread' /\ RunningSendsProgress' /\ OutcomeIsLast' /\ ReadyIsQuiet'
    BY <1>1, <1>2
    DEF UiInv, OneThread, RunningSendsProgress, OutcomeIsLast, ReadyIsQuiet
  <1>5. SignalsAreCurrent' /\ CompletedIsStored'
    BY <1>1 DEF UiInv, SignalsAreCurrent, CompletedIsStored
  <1>6. CompletedMeansStored' /\ ClosedWaits'
    BY <1>1, <1>2, <1>3 DEF UiInv, CompletedMeansStored, ClosedWaits
  <1>7. QED
    BY <1>4, <1>5, <1>6 DEF UiInv

\* Progress is displayed only while the window is busy.
LEMMA ProgressInv ==
  ASSUME TypeOK, UiInv, OnProgress
  PROVE  UiInv'
  <1> USE DEF threadVars
  <1>1. /\ UNCHANGED <<generation, worker, window, polling, thread, stored>>
        /\ Deliver("progress") /\ (state' = state \/ state' = Head(queue).value)
    BY DEF OnProgress
  <1>2. /\ Len(queue) \in Nat /\ DOMAIN queue = 1..Len(queue) /\ queue # <<>>
        /\ Head(queue) \in Signal /\ Head(queue).kind = "progress"
        /\ Len(queue') = Len(queue) - 1
        /\ \A n \in DOMAIN queue' : n + 1 \in DOMAIN queue /\ queue'[n] = queue[n + 1]
        /\ DOMAIN queue' = 1..(Len(queue) - 1)
    BY <1>1, DeliverFacts DEF TypeOK, Deliver
  <1>3. state \in Active /\ state' \in Active /\ state' # "Completed" /\ polling = {}
    <2>1. state \in Active /\ polling = {}
      BY <1>2 DEF UiInv, ReadyIsQuiet, OutcomeIsLast
    <2>2. Head(queue).value \in Active
      BY <1>2, SignalTypes DEF Active
    <2>3. "Completed" \notin Active
      BY DEF Active, Progressing
    <2>4. QED
      BY <1>1, <2>1, <2>2, <2>3
  <1>4. \A g \in Operations : Alive(g)' <=> Alive(g)
    BY <1>1 DEF Alive
  <1>5. OneThread' /\ RunningSendsProgress' /\ ReadyIsQuiet'
    BY <1>1, <1>2, <1>3, <1>4 DEF UiInv, OneThread, RunningSendsProgress, ReadyIsQuiet
  <1>6. OutcomeIsLast'
    <2>1. \A n \in DOMAIN queue' : queue'[n].kind = "finished" => n = Len(queue')
      <3> SUFFICES ASSUME NEW n \in DOMAIN queue', queue'[n].kind = "finished"
                   PROVE  n = Len(queue')
        OBVIOUS
      <3>1. n + 1 = Len(queue)
        BY <1>2 DEF UiInv, OutcomeIsLast
      <3>2. QED
        BY <1>2, <3>1
    <2>2. QED
      BY <1>1, <1>3, <2>1 DEF OutcomeIsLast
  <1>7. SignalsAreCurrent' /\ CompletedIsStored'
    BY <1>1, <1>2 DEF UiInv, SignalsAreCurrent, CompletedIsStored
  <1>8. CompletedMeansStored' /\ ClosedWaits'
    BY <1>1, <1>3, <1>4 DEF UiInv, CompletedMeansStored, ClosedWaits
  <1>9. QED
    BY <1>5, <1>6, <1>7, <1>8 DEF UiInv

\* The outcome of the current operation, the last signal, is polled while its
\* thread lives; then the operation is over.
LEMMA OutcomeInv ==
  ASSUME TypeOK, UiInv, NEW m \in Outcome, HandleFinished(m, {}),
         m.generation = generation,
         m.value = "completed" => generation \in stored,
         queue' = <<>>,
         \A g \in Operations : thread[g] \notin Running
  PROVE  UiInv'
  <1> USE DEF threadVars
  <1>1. DOMAIN queue' = {}
    BY EmptyFacts
  <1>2. UNCHANGED <<generation, thread, stored>>
    BY DEF HandleFinished
  <1>3. \A g \in Operations : (Alive(g)' <=> Alive(g)) /\ thread'[g] \notin Running
    BY <1>2 DEF Alive
  <1>4. CompletedIsStored' /\ SignalsAreCurrent'
    <2>1. polling' \subseteq {m}
      BY DEF HandleFinished
    <2>2. QED
      BY <1>1, <1>2, <2>1 DEF UiInv, CompletedIsStored, SignalsAreCurrent
  <1>5. CASE worker # 0 /\ Alive(worker)
    <2>1. polling' = {m} /\ UNCHANGED <<state, worker, event, window>>
      BY <1>5 DEF HandleFinished
    <2>2. worker \in Operations
      BY <1>5, MaxStartsAssumption DEF TypeOK, Operations
    <2>3. state \in Active
      BY <1>5, <2>2 DEF UiInv, ReadyIsQuiet
    <2>4. OneThread' /\ RunningSendsProgress' /\ OutcomeIsLast' /\ ReadyIsQuiet'
      BY <1>1, <1>2, <1>3, <2>1, <2>3
      DEF UiInv, OneThread, RunningSendsProgress, OutcomeIsLast, ReadyIsQuiet
    <2>5. CompletedMeansStored' /\ ClosedWaits'
      BY <1>2, <1>3, <2>1 DEF UiInv, CompletedMeansStored, ClosedWaits
    <2>6. QED
      BY <1>4, <2>4, <2>5 DEF UiInv
  <1>6. CASE ~(worker # 0 /\ Alive(worker))
    <2>1. polling' = {} /\ Conclude(m)
      BY <1>6 DEF HandleFinished
    <2>2. \A g \in Operations : ~Alive(g)'
      BY <1>3, <1>6 DEF UiInv, OneThread, Operations
    <2>3. state' = "Completed" => generation' \in stored'
      BY <1>2, <2>1, SignalTypes
      DEF Conclude, ShowOutcome, Shown, UiInv, CompletedMeansStored
    <2>4. OneThread' /\ RunningSendsProgress' /\ OutcomeIsLast' /\ ReadyIsQuiet'
      BY <1>1, <1>3, <2>1, <2>2
      DEF OneThread, RunningSendsProgress, OutcomeIsLast, ReadyIsQuiet
    <2>5. CompletedMeansStored' /\ ClosedWaits'
      BY <2>2, <2>3 DEF CompletedMeansStored, ClosedWaits
    <2>6. QED
      BY <1>4, <2>4, <2>5 DEF UiInv
  <1>7. QED
    BY <1>5, <1>6

\* Both ways an outcome reaches its handler meet the conditions of OutcomeInv.
LEMMA FinishedFacts ==
  ASSUME TypeOK, UiInv, OnFinished
  PROVE  /\ Head(queue) \in Outcome /\ Head(queue).generation = generation
         /\ Head(queue).value = "completed" => generation \in stored
         /\ HandleFinished(Head(queue), {}) /\ queue' = <<>>
         /\ \A g \in Operations : thread[g] \notin Running
  <1>1. Deliver("finished") /\ HandleFinished(Head(queue), polling)
    BY DEF OnFinished
  <1>2. /\ Len(queue) \in Nat /\ 1 \in DOMAIN queue /\ Head(queue) = queue[1]
        /\ Head(queue) \in Signal /\ Head(queue).kind = "finished"
        /\ queue' \in Seq(Signal) /\ Len(queue') = Len(queue) - 1
    BY <1>1, DeliverFacts DEF TypeOK
  <1>3. Len(queue) = 1 /\ polling = {}
    BY <1>2 DEF UiInv, OutcomeIsLast
  <1>4. queue' = <<>>
    BY <1>2, <1>3, EmptySeq
  <1>5. Head(queue) \in Outcome
    BY <1>2, SignalTypes
  <1>6. /\ Head(queue).generation = generation
        /\ Head(queue).value = "completed" => generation \in stored
    BY <1>2 DEF UiInv, SignalsAreCurrent, CompletedIsStored
  <1>7. \A g \in Operations : thread[g] \notin Running
    BY <1>2 DEF UiInv, RunningSendsProgress
  <1>8. QED
    BY <1>1, <1>3, <1>4, <1>5, <1>6, <1>7

LEMMA PolledFacts ==
  ASSUME TypeOK, UiInv, NEW m \in polling, HandleFinished(m, polling \ {m}),
         UNCHANGED queue
  PROVE  /\ m \in Outcome /\ m.generation = generation
         /\ m.value = "completed" => generation \in stored
         /\ HandleFinished(m, {}) /\ queue' = <<>>
         /\ \A g \in Operations : thread[g] \notin Running
  <1>1. polling \ {m} = {} /\ queue' = <<>>
    BY DEF UiInv, OutcomeIsLast
  <1>2. m \in Outcome
    BY DEF TypeOK
  <1>3. m.generation = generation /\ (m.value = "completed" => generation \in stored)
    BY DEF UiInv, SignalsAreCurrent, CompletedIsStored
  <1>4. \A g \in Operations : thread[g] \notin Running
    BY DEF UiInv, RunningSendsProgress
  <1>5. HandleFinished(m, {})
    BY <1>1
  <1>6. QED
    BY <1>1, <1>2, <1>3, <1>4, <1>5

\* A thread that takes a step is the one the window is busy with, and no
\* other thread lives.
LEMMA ThreadFacts ==
  ASSUME TypeOK, UiInv, NEW g \in Operations, Thread(g)
  PROVE  /\ Alive(g) /\ g = worker /\ g = generation
         /\ state \in Active /\ state # "Completed" /\ window # "closed"
         /\ UNCHANGED <<windowVars, polling>>
         /\ \A h \in Operations : h # g => thread'[h] = thread[h] /\ ~Alive(h)
  <1>1. Alive(g)
    BY DEF Thread, Alive, Running, ReportProgress, BeginStoring, Store,
           WorkCancelled, WorkFails, WorkReturns, ThreadEnds, Move
  <1>2. g = worker /\ g = generation /\ state \in Active /\ window # "closed"
    BY <1>1 DEF UiInv, OneThread, ReadyIsQuiet, ClosedWaits
  <1>3. state # "Completed"
    BY <1>2 DEF Active, Progressing
  <1>4. UNCHANGED <<windowVars, polling>>
    BY DEF Thread, ReportProgress, BeginStoring, Store,
           WorkCancelled, WorkFails, WorkReturns, Emit, ThreadEnds
  <1>5. \A h \in Operations : h # g => thread'[h] = thread[h]
    BY DEF TypeOK, Thread, ReportProgress, BeginStoring, Store,
           WorkCancelled, WorkFails, WorkReturns, Emit, ThreadEnds, Move
  <1>6. \A h \in Operations : h # g => ~Alive(h)
    BY <1>2 DEF UiInv, OneThread
  <1>7. QED
    BY <1>1, <1>2, <1>3, <1>4, <1>5, <1>6

\* The parts of the invariant about the window hold after any such step.
LEMMA ThreadWindowInv ==
  ASSUME TypeOK, UiInv, NEW g \in Operations, Thread(g)
  PROVE  OneThread' /\ ReadyIsQuiet' /\ CompletedMeansStored' /\ ClosedWaits'
  <1>1. \A h \in Operations : Alive(h)' => h = g
    BY ThreadFacts DEF Alive
  <1>2. QED
    BY <1>1, ThreadFacts
    DEF windowVars, OneThread, ReadyIsQuiet, CompletedMeansStored, ClosedWaits

LEMMA ReportInv ==
  ASSUME TypeOK, UiInv, NEW g \in Operations, ReportProgress(g)
  PROVE  UiInv'
  <1> DEFINE posted(s) == queue' = Append(queue, Progress(g, s))
  <1>1. PICK s \in Progressing : posted(s)
    BY DEF ReportProgress, Progressing
  <1>2. Progress(g, s) \in Signal /\ Progress(g, s).kind = "progress"
        /\ Progress(g, s).generation = g /\ Progress(g, s).value # "completed"
    BY SignalTypes DEF Progress, Progressing
  <1>3. /\ Len(queue) \in Nat /\ DOMAIN queue = 1..Len(queue)
        /\ DOMAIN queue' = 1..(Len(queue) + 1)
        /\ \A n \in DOMAIN queue : queue'[n] = queue[n]
        /\ queue'[Len(queue) + 1] = Progress(g, s)
    BY <1>1, <1>2, PostFacts DEF TypeOK
  <1>4. \A n \in DOMAIN queue' : n \in DOMAIN queue \/ queue'[n] = Progress(g, s)
    BY <1>3
  <1>5. /\ thread[g] \in Running /\ stored' = stored
        /\ thread' \in [Operations -> Place] /\ thread'[g] # "stored"
    BY DEF ReportProgress, Move, Running, Place, TypeOK
  <1>6. /\ UNCHANGED <<windowVars, polling>> /\ g = generation
        /\ \A h \in Operations : h # g => thread'[h] = thread[h] /\ thread[h] \notin Running
    BY ThreadFacts DEF Thread, Alive
  <1>7. polling = {} /\ \A n \in DOMAIN queue' : queue'[n].kind = "progress"
    BY <1>2, <1>3, <1>4, <1>5 DEF UiInv, RunningSendsProgress
  <1>8. RunningSendsProgress' /\ OutcomeIsLast'
    BY <1>6, <1>7 DEF RunningSendsProgress, OutcomeIsLast
  <1>9. SignalsAreCurrent' /\ CompletedIsStored'
    BY <1>2, <1>3, <1>4, <1>5, <1>6, <1>7
    DEF UiInv, SignalsAreCurrent, CompletedIsStored, windowVars
  <1>10. QED
    BY <1>8, <1>9, ThreadWindowInv DEF Thread, UiInv

\* The steps that post nothing.
LEMMA SilentInv ==
  ASSUME TypeOK, UiInv, NEW g \in Operations,
         BeginStoring(g) \/ Store(g) \/ ThreadEnds(g)
  PROVE  UiInv'
  <1>1. UNCHANGED queue /\ stored \subseteq stored' /\ thread' \in [Operations -> Place]
    BY DEF BeginStoring, Store, ThreadEnds, Move, TypeOK, Place, Running
  <1>2. /\ UNCHANGED <<windowVars, polling>>
        /\ \A h \in Operations : h # g => thread'[h] = thread[h]
    BY ThreadFacts DEF Thread
  <1>3. thread'[g] \in Running => thread[g] \in Running
    BY DEF BeginStoring, Store, ThreadEnds, Move, TypeOK, Running
  <1>4. thread'[g] = "stored" => g \in stored'
    BY DEF BeginStoring, Store, ThreadEnds, Move, TypeOK
  <1>5. RunningSendsProgress' /\ OutcomeIsLast'
    BY <1>1, <1>2, <1>3 DEF UiInv, RunningSendsProgress, OutcomeIsLast
  <1>6. SignalsAreCurrent' /\ CompletedIsStored'
    BY <1>1, <1>2, <1>4 DEF UiInv, SignalsAreCurrent, CompletedIsStored, windowVars
  <1>7. QED
    BY <1>5, <1>6, ThreadWindowInv DEF Thread, UiInv

\* The outcome is posted behind progress only, by the last thread that works.
LEMMA EmitInv ==
  ASSUME TypeOK, UiInv, NEW g \in Operations,
         WorkCancelled(g) \/ WorkFails(g) \/ WorkReturns(g)
  PROVE  UiInv'
  <1>1. thread[g] \in Running
    BY DEF WorkCancelled, WorkFails, WorkReturns, Running
  <1>2. PICK o \in {"completed", "cancelled", "failed"} :
          Emit(g, o) /\ (o = "completed" => thread[g] = "stored")
    BY DEF WorkCancelled, WorkFails, WorkReturns
  <1>3. /\ Finished(g, o) \in Signal /\ Finished(g, o).generation = g
        /\ Finished(g, o).value = o
    BY SignalTypes DEF Finished
  <1>4. /\ Len(queue) \in Nat /\ DOMAIN queue = 1..Len(queue)
        /\ Len(queue') = Len(queue) + 1 /\ DOMAIN queue' = 1..(Len(queue) + 1)
        /\ \A n \in DOMAIN queue : queue'[n] = queue[n]
        /\ queue'[Len(queue) + 1] = Finished(g, o)
    BY <1>2, <1>3, PostFacts DEF TypeOK, Emit
  <1>5. \A n \in DOMAIN queue' :
          \/ n \in DOMAIN queue /\ queue'[n] = queue[n]
          \/ n = Len(queue') /\ queue'[n] = Finished(g, o)
    BY <1>4
  <1>6. polling = {} /\ \A n \in DOMAIN queue : queue[n].kind = "progress"
    BY <1>1 DEF UiInv, RunningSendsProgress
  <1>7. /\ UNCHANGED <<windowVars, polling>> /\ g = generation
        /\ \A h \in Operations : h # g => thread'[h] = thread[h] /\ thread[h] \notin Running
    BY ThreadFacts DEF Thread, Alive
  <1>8. thread'[g] = "reported" /\ stored' = stored
    BY <1>2 DEF Emit, TypeOK
  <1>9. RunningSendsProgress'
    BY <1>7, <1>8 DEF RunningSendsProgress, Running
  <1>10. OutcomeIsLast'
    <2>1. \A n \in DOMAIN queue' : queue'[n].kind = "finished" => n = Len(queue')
      BY <1>5, <1>6
    <2>2. QED
      BY <1>6, <1>7, <2>1 DEF OutcomeIsLast
  <1>11. SignalsAreCurrent'
    BY <1>3, <1>5, <1>6, <1>7 DEF UiInv, SignalsAreCurrent, windowVars
  <1>12. CompletedIsStored'
    <2>1. o = "completed" => g \in stored
      BY <1>2 DEF UiInv, CompletedIsStored
    <2>2. QED
      BY <1>3, <1>5, <1>6, <1>7, <1>8, <2>1 DEF UiInv, CompletedIsStored
  <1>13. QED
    BY <1>9, <1>10, <1>11, <1>12, ThreadWindowInv DEF Thread, UiInv

LEMMA NextInv == TypeOK /\ UiInv /\ [Next]_vars => UiInv'
  <1> SUFFICES ASSUME TypeOK, UiInv, [Next]_vars PROVE UiInv'
    OBVIOUS
  <1>1. CASE UNCHANGED vars
    BY <1>1 DEF vars, windowVars, threadVars, UiInv, OneThread, RunningSendsProgress,
                OutcomeIsLast, ReadyIsQuiet, SignalsAreCurrent, CompletedIsStored,
                CompletedMeansStored, ClosedWaits, Alive
  <1>2. CASE User \/ ShutdownTimer
    <2>1. CASE Close
      BY <2>1, CancelInv, CloseInv DEF Close
    <2>2. QED
      BY <1>2, <2>1, StartInv, ErrorInv, CancelInv DEF User, ShutdownTimer
  <1>3. CASE OnProgress
    BY <1>3, ProgressInv
  <1>4. CASE OnFinished
    BY <1>4, FinishedFacts, OutcomeInv
  <1>5. CASE PollFinished
    BY <1>5, PolledFacts, OutcomeInv DEF PollFinished
  <1>6. CASE \E g \in Operations : Thread(g)
    BY <1>6, ReportInv, SilentInv, EmitInv DEF Thread
  <1>7. QED
    BY <1>1, <1>2, <1>3, <1>4, <1>5, <1>6 DEF Next, EventLoop

-----------------------------------------------------------------------------
(* The theorems.                                                           *)

\* The invariant of the window, its threads, and the signals between them.
THEOREM UiInvariant == Spec => []UiInv
  BY InitInv, NextInv, InitType, NextType, PTL DEF Spec

\* Two operations never run at once: the displayed state, which is all that
\* start_work asks, is active as long as the thread in _worker lives.
THEOREM OperationIsAlone == Spec => []OneOperation
  <1>1. UiInv => OneOperation
    BY DEF UiInv, OneThread, ReadyIsQuiet, OneOperation
  <1>2. QED
    BY <1>1, UiInvariant, PTL

\* No signal reaches the window in a later operation than its own.
THEOREM SignalIsCurrent == Spec => []SignalsAreCurrent
  <1>1. UiInv => SignalsAreCurrent
    BY DEF UiInv
  <1>2. QED
    BY <1>1, UiInvariant, PTL

\* Completed is displayed only of an operation that committed and published.
THEOREM CompletedIsTrue == Spec => []CompletedMeansStored
  <1>1. UiInv => CompletedMeansStored
    BY DEF UiInv
  <1>2. QED
    BY <1>1, UiInvariant, PTL

\* The window never closes over a living worker.
THEOREM ClosingWaits == Spec => []ClosedWaits
  <1>1. UiInv => ClosedWaits
    BY DEF UiInv
  <1>2. QED
    BY <1>1, UiInvariant, PTL

\* Once Cancelling is displayed no progress is, and the display changes only
\* when the thread of the operation has ended.
THEOREM CancellationIsShown == Spec => CancellingLasts
  <1> DEFINE Lasts == state = "Cancelling" /\ state' # state =>
                        state' \notin Progressing /\ ~Alive(generation)
  <1>1. TypeOK /\ UiInv /\ [Next]_vars => [Lasts]_vars
    <2> SUFFICES ASSUME TypeOK, UiInv, Next, state = "Cancelling", state' # state
                 PROVE  state' \notin Progressing /\ ~Alive(generation)
      BY DEF vars, windowVars
    <2> USE DEF threadVars, windowVars
    <2>1. IsActive
      BY DEF IsActive, Active
    <2>2. ~User /\ ~ShutdownTimer
      BY <2>1 DEF User, ShutdownTimer, StartWork, StartRefused, StartFails, CancelWork,
                  OpenResultFails, Close, AcceptClose, RefuseClose
    <2>3. ~OnProgress
      BY DEF OnProgress
    <2>4. ~\E g \in Operations : Thread(g)
      BY ThreadFacts
    <2>5. PICK m \in Outcome : HandleFinished(m, {}) /\ m.generation = generation
      BY <2>2, <2>3, <2>4, FinishedFacts, PolledFacts DEF Next, EventLoop, PollFinished
    <2>6. Conclude(m) /\ ~(worker # 0 /\ Alive(worker))
      BY <2>5 DEF HandleFinished
    <2>7. state' \notin Progressing
      BY <2>6, SignalTypes DEF Conclude, ShowOutcome, Shown, Progressing
    <2>8. \A g \in Operations : ~Alive(g)
      BY <2>6 DEF UiInv, OneThread, Operations
    <2>9. generation \in Operations
      BY <2>5, SignalTypes
    <2>10. QED
      BY <2>7, <2>8, <2>9
  <1>2. QED
    BY <1>1, UiInvariant, TypeCorrect, PTL DEF Spec, CancellingLasts

-----------------------------------------------------------------------------
(* What is reported as cancelled.                                          *)

\* A window that is idle again has reported a cancellation of its user.
CancelledIsAsked == state = "Idle" => generation = 0 \/ generation \in cancelled

\* So has every outcome that says so, wherever it is on its way.
Asked ==
  /\ CancelledIsAsked
  /\ \A n \in DOMAIN queue : queue[n].value = "cancelled" => queue[n].generation \in cancelled
  /\ \A m \in polling : m.value = "cancelled" => m.generation \in cancelled

\* An outcome that reaches its handler.
LEMMA HandledAsked ==
  ASSUME Asked, NEW m, HandleFinished(m, {}), queue' = <<>>,
         m.generation = generation, m \in Outcome,
         m.value = "cancelled" => m.generation \in cancelled
  PROVE  Asked'
  <1>1. DOMAIN queue' = {} /\ cancelled' = cancelled /\ generation' = generation
    BY EmptyFacts DEF HandleFinished
  <1>2. polling' \subseteq {m}
    BY DEF HandleFinished
  <1>3. state' = state \/ state' \in Shown(m.value)
    BY DEF HandleFinished, Conclude, ShowOutcome
  <1>4. state' = "Idle" => state = "Idle" \/ m.value = "cancelled"
    BY <1>3 DEF Shown, Outcome
  <1> QED BY <1>1, <1>2, <1>4 DEF Asked, CancelledIsAsked

LEMMA ThreadAsked ==
  ASSUME TypeOK, UiInv, Asked, NEW g \in Operations, Thread(g)
  PROVE  Asked'
  <1>1. /\ UNCHANGED <<windowVars, polling, cancelled>> /\ state \in Active
    BY ThreadFacts DEF Thread, ReportProgress, BeginStoring, Store, WorkCancelled, WorkFails,
       WorkReturns, Emit, ThreadEnds
  <1>2. \/ queue' = queue
        \/ \E m \in Signal : /\ queue' = Append(queue, m) /\ m.generation = g
                             /\ m.value = "cancelled" => g \in cancelled
    <2>1. CASE BeginStoring(g) \/ Store(g) \/ ThreadEnds(g)
      BY <2>1 DEF BeginStoring, Store, ThreadEnds
    <2>2. CASE ReportProgress(g)
      <3>1. PICK s \in Progressing : queue' = Append(queue, Progress(g, s))
        BY <2>2 DEF ReportProgress, Progressing
      <3>2. /\ Progress(g, s) \in Signal /\ Progress(g, s).generation = g
            /\ Progress(g, s).value # "cancelled"
        BY SignalTypes DEF Progress, Progressing
      <3> QED BY <3>1, <3>2
    <2>3. CASE WorkCancelled(g) \/ WorkFails(g) \/ WorkReturns(g)
      <3>1. PICK o \in {"completed", "cancelled", "failed"} :
              Emit(g, o) /\ (o = "cancelled" => g \in cancelled)
        BY <2>3 DEF WorkCancelled, WorkFails, WorkReturns
      <3>2. /\ Finished(g, o) \in Signal /\ Finished(g, o).generation = g
            /\ Finished(g, o).value = o
        BY SignalTypes DEF Finished
      <3> QED BY <3>1, <3>2 DEF Emit
    <2> QED BY <2>1, <2>2, <2>3 DEF Thread
  <1>3. \A n \in DOMAIN queue' :
          queue'[n].value = "cancelled" => queue'[n].generation \in cancelled
    <2>1. CASE queue' = queue
      BY <2>1 DEF Asked
    <2>2. CASE queue' # queue
      <3>1. PICK m \in Signal : /\ queue' = Append(queue, m) /\ m.generation = g
                                /\ m.value = "cancelled" => g \in cancelled
        BY <1>2, <2>2
      <3>2. /\ Len(queue) \in Nat /\ DOMAIN queue = 1..Len(queue)
            /\ DOMAIN queue' = 1..(Len(queue) + 1)
            /\ \A n \in DOMAIN queue : queue'[n] = queue[n]
            /\ queue'[Len(queue) + 1] = m
        BY <3>1, PostFacts DEF TypeOK
      <3>3. \A n \in DOMAIN queue' : n \in DOMAIN queue \/ n = Len(queue) + 1
        BY <3>2
      <3> QED BY <3>1, <3>2, <3>3 DEF Asked
    <2> QED BY <2>1, <2>2
  <1> QED BY <1>1, <1>3 DEF Asked, CancelledIsAsked, windowVars

LEMMA NextAsked == ASSUME TypeOK, UiInv, Asked, [Next]_vars PROVE Asked'
  <1> USE DEF threadVars
  <1>1. CASE UNCHANGED vars
    BY <1>1 DEF vars, windowVars, Asked, CancelledIsAsked
  <1>2. CASE User \/ ShutdownTimer
    <2>1. UNCHANGED <<queue, polling>> /\ cancelled \subseteq cancelled'
      BY <1>2 DEF User, ShutdownTimer, StartWork, StartRefused, StartFails, CancelWork,
         OpenResultFails, Close, AcceptClose, RefuseClose
    <2>2. state' = "Idle" => state = "Idle" /\ generation' = generation
      BY <1>2 DEF User, ShutdownTimer, StartWork, StartRefused, StartFails, CancelWork,
         OpenResultFails, Close, AcceptClose, RefuseClose
    <2> QED BY <2>1, <2>2 DEF Asked, CancelledIsAsked
  <1>3. CASE OnProgress
    <2>1. /\ Deliver("progress") /\ UNCHANGED <<generation, polling, cancelled>>
          /\ state' \in {state, Head(queue).value}
      BY <1>3 DEF OnProgress
    <2>2. /\ Head(queue) \in Signal /\ Head(queue).kind = "progress"
          /\ \A n \in DOMAIN queue' : n + 1 \in DOMAIN queue /\ queue'[n] = queue[n + 1]
      BY <2>1, DeliverFacts DEF TypeOK
    <2>3. state' = "Idle" => state = "Idle"
      BY <2>1, <2>2, SignalTypes DEF Progressing
    <2> QED BY <2>1, <2>2, <2>3 DEF Asked, CancelledIsAsked
  <1>4. CASE OnFinished
    <2>1. Head(queue).value = "cancelled" => Head(queue).generation \in cancelled
      <3>1. 1 \in DOMAIN queue /\ Head(queue) = queue[1]
        BY <1>4, DeliverFacts DEF OnFinished, TypeOK
      <3> QED BY <3>1 DEF Asked
    <2> QED BY <1>4, <2>1, FinishedFacts, HandledAsked
  <1>5. CASE PollFinished
    <2>1. PICK m \in polling : HandleFinished(m, polling \ {m}) /\ UNCHANGED queue
      BY <1>5 DEF PollFinished
    <2>2. m.value = "cancelled" => m.generation \in cancelled
      BY DEF Asked
    <2> QED BY <2>1, <2>2, PolledFacts, HandledAsked
  <1>6. CASE \E g \in Operations : Thread(g)
    BY <1>6, ThreadAsked
  <1> QED BY <1>1, <1>2, <1>3, <1>4, <1>5, <1>6 DEF Next, EventLoop

\* The window says Cancelled only of an operation whose Cancel was clicked or
\* whose close was requested: no failure and no completion is reported so.  It
\* bounds what CancelledMeansNotStored gets wrong: the click was there.
THEOREM CancellationIsAsked == Spec => []CancelledIsAsked
  <1>1. Init => Asked
    BY EmptyFacts DEF Init, Asked, CancelledIsAsked
  <1>2. Asked => CancelledIsAsked
    BY DEF Asked
  <1> QED BY <1>1, <1>2, NextAsked, UiInvariant, TypeCorrect, PTL DEF Spec

=============================================================================
