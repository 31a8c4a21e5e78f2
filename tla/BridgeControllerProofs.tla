------------------------- MODULE BridgeControllerProofs -------------------------
(***************************************************************************)
(* Proofs about BridgeController, for every Backlog.                       *)
(***************************************************************************)
EXTENDS BridgeController, TLAPS

USE BacklogAssumption

LEMMA InitInv == Init => Inv
<1> SUFFICES ASSUME Init PROVE Inv
  OBVIOUS
<1>1. queue \in Seq(Signals)
  BY DEF Init
<1>2. TypeOK
  BY <1>1 DEF Init, TypeOK, UiSteps, Threads
<1>3. SharedInv /\ RequestInv /\ SignalInv
  BY DEF Init, SharedInv, RequestInv, SignalInv, NotUp, LoopOpen
<1> QED
  BY <1>2, <1>3 DEF Inv

\* Emitting a signal keeps the queue well-formed and makes the signal its last one.
LEMMA Emitted ==
  ASSUME NEW q \in Seq(Signals), NEW s \in Signals
  PROVE  /\ Append(q, s) \in Seq(Signals)
         /\ Append(q, s) # <<>>
         /\ Append(q, s)[Len(Append(q, s))] = s
OBVIOUS

\* Handling a signal leaves the last one last.
LEMMA Handled ==
  ASSUME NEW q \in Seq(Signals), q # <<>>
  PROVE  /\ Tail(q) \in Seq(Signals)
         /\ Tail(q) = <<>> => Head(q) = q[Len(q)]
         /\ Tail(q) # <<>> => Tail(q)[Len(Tail(q))] = q[Len(q)]
OBVIOUS

\* What the user does, and the steps of stop() and shutdown().
LEMMA UserStep ==
  ASSUME Inv, User \/ ReadLoop \/ ReadEvent \/ CallSoon \/ JoinEnds \/ JoinTimesOut
  PROVE  Inv'
<1> USE DEF Inv, window, shared, asyncio
<1>1. CASE ClickStart
  <2>1. TypeOK'
    BY <1>1 DEF ClickStart, IsRunning, TypeOK, Threads
  <2>2. SharedInv' /\ RequestInv'
    BY <1>1 DEF ClickStart, IsRunning, SharedInv, RequestInv, LoopOpen, TypeOK
  <2>3. SignalInv'
    BY <1>1 DEF ClickStart, IsRunning, SignalInv, NotUp
  <2> QED
    BY <2>1, <2>2, <2>3
<1>2. CASE ClickStop
  <2>1. TypeOK'
    BY <1>2 DEF ClickStop, IsRunning, TypeOK, UiSteps
  <2>2. SharedInv' /\ RequestInv'
    BY <1>2 DEF ClickStop, IsRunning, SharedInv, RequestInv, LoopOpen, TypeOK
  <2>3. SignalInv'
    BY <1>2 DEF ClickStop, IsRunning, SignalInv, NotUp
  <2> QED
    BY <2>1, <2>2, <2>3
<1>3. CASE Quit
  <2>1. TypeOK'
    BY <1>3 DEF Quit, TypeOK, UiSteps
  <2>2. SharedInv' /\ RequestInv'
    BY <1>3 DEF Quit, SharedInv, RequestInv, LoopOpen, TypeOK
  <2>3. SignalInv'
    BY <1>3 DEF Quit, SignalInv, NotUp
  <2> QED
    BY <2>1, <2>2, <2>3
<1>4. CASE ReadLoop
  <2>1. TypeOK'
    BY <1>4 DEF ReadLoop, TypeOK, UiSteps
  <2>2. SharedInv' /\ RequestInv'
    BY <1>4 DEF ReadLoop, SharedInv, RequestInv, LoopOpen, TypeOK
  <2>3. SignalInv'
    BY <1>4 DEF ReadLoop, SignalInv, NotUp
  <2> QED
    BY <2>1, <2>2, <2>3
<1>5. CASE ReadEvent
  <2>1. TypeOK'
    BY <1>5 DEF ReadEvent, StopReturns, TypeOK, UiSteps
  <2>2. SharedInv' /\ RequestInv'
    BY <1>5 DEF ReadEvent, StopReturns, SharedInv, RequestInv, LoopOpen, TypeOK
  <2>3. SignalInv'
    BY <1>5 DEF ReadEvent, StopReturns, SignalInv, NotUp
  <2> QED
    BY <2>1, <2>2, <2>3
<1>6. CASE CallSoon
  <2>1. TypeOK'
    BY <1>6 DEF CallSoon, StopReturns, TypeOK, UiSteps
  <2>2. SharedInv' /\ RequestInv'
    BY <1>6 DEF CallSoon, StopReturns, SharedInv, RequestInv, LoopOpen, TypeOK
  <2>3. SignalInv'
    BY <1>6 DEF CallSoon, StopReturns, SignalInv, NotUp
  <2> QED
    BY <2>1, <2>2, <2>3
<1>7. CASE JoinEnds
  <2>1. TypeOK'
    BY <1>7 DEF JoinEnds, TypeOK, UiSteps
  <2>2. SharedInv' /\ RequestInv'
    BY <1>7 DEF JoinEnds, SharedInv, RequestInv, LoopOpen, TypeOK
  <2>3. SignalInv'
    BY <1>7 DEF JoinEnds, SignalInv, NotUp
  <2> QED
    BY <2>1, <2>2, <2>3
<1>8. CASE JoinTimesOut
  <2>1. TypeOK'
    BY <1>8 DEF JoinTimesOut, TypeOK, UiSteps
  <2>2. SharedInv' /\ RequestInv'
    BY <1>8 DEF JoinTimesOut, SharedInv, RequestInv, LoopOpen, TypeOK
  <2>3. SignalInv'
    BY <1>8 DEF JoinTimesOut, SignalInv, NotUp
  <2> QED
    BY <2>1, <2>2, <2>3
<1> QED
  BY <1>1, <1>2, <1>3, <1>4, <1>5, <1>6, <1>7, <1>8 DEF User

\* The slots on the bridge's signals.
LEMMA SignalStep == Inv /\ HandleSignal => Inv'
<1> SUFFICES ASSUME Inv, HandleSignal PROVE Inv'
  OBVIOUS
<1>1. queue \in Seq(Signals) /\ queue # <<>>
  BY DEF Inv, TypeOK, HandleSignal
<1>2. TypeOK' /\ SharedInv' /\ RequestInv'
  BY <1>1, Handled DEF Inv, TypeOK, SharedInv, RequestInv, HandleSignal, OnStarted, OnStopped,
                      OnError, LoopOpen, shared, asyncio
<1>3. SignalInv'
  <2>1. CASE queue' = <<>>
    BY <1>1, <2>1, Handled DEF Inv, SignalInv, NotUp, HandleSignal, OnStarted, OnStopped, OnError
  <2>2. CASE queue' # <<>>
    BY <1>1, <2>2, Handled DEF Inv, SignalInv, NotUp, HandleSignal, OnStarted, OnStopped, OnError
  <2> QED
    BY <2>1, <2>2
<1> QED
  BY <1>2, <1>3 DEF Inv

\* The steps of the bridge thread that emit a signal.
LEMMA EmitStep == Inv /\ (Crash \/ Startup \/ EmitStopped) => Inv'
<1> SUFFICES ASSUME Inv, Crash \/ Startup \/ EmitStopped PROVE Inv'
  OBVIOUS
<1>1. queue \in Seq(Signals)
  BY DEF Inv, TypeOK
<1>2. PICK s \in Signals : queue' = Append(queue, s) /\ (thread' = "emitted" => s = "stopped")
  BY DEF Crash, Startup, StartupSucceeds, StartupFails, EmitStopped, Signals
<1>3. queue' \in Seq(Signals) /\ queue' # <<>> /\ queue'[Len(queue')] = s
  BY <1>1, <1>2, Emitted
<1>4. TypeOK'
  BY <1>3 DEF Inv, TypeOK, Crash, Startup, StartupSucceeds, StartupFails, EmitStopped, Threads,
              window, shared, asyncio
<1>5. SharedInv' /\ RequestInv'
  <2>1. CASE Crash
    BY <2>1 DEF Inv, SharedInv, RequestInv, Crash, LoopOpen, shared, asyncio
  <2>2. CASE StartupSucceeds
    BY <2>2 DEF Inv, SharedInv, RequestInv, StartupSucceeds, LoopOpen, shared, asyncio
  <2>3. CASE StartupFails
    BY <2>3 DEF Inv, SharedInv, RequestInv, StartupFails, LoopOpen, shared, asyncio
  <2>4. CASE EmitStopped
    BY <2>4 DEF Inv, SharedInv, RequestInv, EmitStopped, LoopOpen, shared, asyncio
  <2> QED
    BY <2>1, <2>2, <2>3, <2>4 DEF Startup
<1>6. SignalInv'
  BY <1>2, <1>3 DEF Inv, SignalInv, NotUp, Crash, Startup, StartupSucceeds, StartupFails, EmitStopped
<1> QED
  BY <1>4, <1>5, <1>6 DEF Inv

\* Its other steps.
LEMMA QuietStep ==
  ASSUME Inv, \/ PublishLoop \/ PublishEvent \/ CheckRequested \/ LoopRunsCallback
         \/ StopSeen \/ LoopCloses \/ ClearLoop \/ ClearEvent \/ ThreadDies
  PROVE  Inv'
<1> USE DEF Inv, window, shared, asyncio
<1>1. CASE PublishLoop
  <2>1. TypeOK'
    BY <1>1 DEF PublishLoop, TypeOK, Threads
  <2>2. SharedInv' /\ RequestInv'
    BY <1>1 DEF PublishLoop, SharedInv, RequestInv, LoopOpen, TypeOK
  <2>3. SignalInv'
    BY <1>1 DEF PublishLoop, SignalInv, NotUp
  <2> QED
    BY <2>1, <2>2, <2>3
<1>2. CASE PublishEvent
  <2>1. TypeOK'
    BY <1>2 DEF PublishEvent, TypeOK, Threads
  <2>2. SharedInv' /\ RequestInv'
    BY <1>2 DEF PublishEvent, SharedInv, RequestInv, LoopOpen, TypeOK
  <2>3. SignalInv'
    BY <1>2 DEF PublishEvent, SignalInv, NotUp
  <2> QED
    BY <2>1, <2>2, <2>3
<1>3. CASE CheckRequested
  <2>1. TypeOK'
    BY <1>3 DEF CheckRequested, TypeOK, Threads
  <2>2. SharedInv' /\ RequestInv'
    BY <1>3 DEF CheckRequested, SharedInv, RequestInv, LoopOpen, TypeOK
  <2>3. SignalInv'
    BY <1>3 DEF CheckRequested, SignalInv, NotUp
  <2> QED
    BY <2>1, <2>2, <2>3
<1>4. CASE LoopRunsCallback
  <2>1. TypeOK'
    BY <1>4 DEF LoopRunsCallback, TypeOK, Threads
  <2>2. SharedInv' /\ RequestInv'
    BY <1>4 DEF LoopRunsCallback, SharedInv, RequestInv, LoopOpen, TypeOK
  <2>3. SignalInv'
    BY <1>4 DEF LoopRunsCallback, SignalInv, NotUp
  <2> QED
    BY <2>1, <2>2, <2>3
<1>5. CASE StopSeen
  <2>1. TypeOK'
    BY <1>5 DEF StopSeen, TypeOK, Threads
  <2>2. SharedInv' /\ RequestInv'
    BY <1>5 DEF StopSeen, SharedInv, RequestInv, LoopOpen, TypeOK
  <2>3. SignalInv'
    BY <1>5 DEF StopSeen, SignalInv, NotUp
  <2> QED
    BY <2>1, <2>2, <2>3
<1>6. CASE LoopCloses
  <2>1. TypeOK'
    BY <1>6 DEF LoopCloses, TypeOK, Threads
  <2>2. SharedInv' /\ RequestInv'
    BY <1>6 DEF LoopCloses, SharedInv, RequestInv, LoopOpen, TypeOK
  <2>3. SignalInv'
    BY <1>6 DEF LoopCloses, SignalInv, NotUp
  <2> QED
    BY <2>1, <2>2, <2>3
<1>7. CASE ClearLoop
  <2>1. TypeOK'
    BY <1>7 DEF ClearLoop, TypeOK, Threads
  <2>2. SharedInv' /\ RequestInv'
    BY <1>7 DEF ClearLoop, SharedInv, RequestInv, LoopOpen, TypeOK
  <2>3. SignalInv'
    BY <1>7 DEF ClearLoop, SignalInv, NotUp
  <2> QED
    BY <2>1, <2>2, <2>3
<1>8. CASE ClearEvent
  <2>1. TypeOK'
    BY <1>8 DEF ClearEvent, TypeOK, Threads
  <2>2. SharedInv' /\ RequestInv'
    BY <1>8 DEF ClearEvent, SharedInv, RequestInv, LoopOpen, TypeOK
  <2>3. SignalInv'
    BY <1>8 DEF ClearEvent, SignalInv, NotUp
  <2> QED
    BY <2>1, <2>2, <2>3
<1>9. CASE ThreadDies
  <2>1. TypeOK'
    BY <1>9 DEF ThreadDies, TypeOK, Threads
  <2>2. SharedInv' /\ RequestInv'
    BY <1>9 DEF ThreadDies, SharedInv, RequestInv, LoopOpen, TypeOK
  <2>3. SignalInv'
    BY <1>9 DEF ThreadDies, SignalInv, NotUp
  <2> QED
    BY <2>1, <2>2, <2>3
<1> QED
  BY <1>1, <1>2, <1>3, <1>4, <1>5, <1>6, <1>7, <1>8, <1>9

LEMMA InductiveStep == Inv /\ [Next]_vars => Inv'
<1>1. ASSUME Inv, UNCHANGED vars PROVE Inv'
  <2>1. TypeOK'
    BY <1>1 DEF Inv, TypeOK, vars
  <2>2. SharedInv' /\ RequestInv' /\ SignalInv'
    BY <1>1 DEF Inv, SharedInv, RequestInv, SignalInv, NotUp, LoopOpen, vars
  <2> QED
    BY <2>1, <2>2 DEF Inv
<1> QED
  BY <1>1, UserStep, SignalStep, EmitStep, QuietStep DEF Next, Qt, BridgeThread

\* Inv holds throughout: what the two threads share, a request on its way and the
\* signals in the queue are always as the comments of its parts say.
THEOREM Invariance == Spec => []Inv
BY InitInv, InductiveStep, PTL DEF Spec

\* A stop() that has returned is known to its run, wherever the two threads were
\* (stop() against _run_asyncio() and _bridge_main()).
THEOREM StopNeverLostHolds == Spec => []StopNeverLost
<1>1. Inv => StopNeverLost
  BY DEF Inv, RequestInv, StopNeverLost
<1> QED
  BY <1>1, Invariance, PTL

\* Before a bridge has come up, and once it has said it is gone, a button that says Stop is
\* about to be reset by a waiting `stopped`.
THEOREM StopTextMeansRunningHolds == Spec => []StopTextMeansRunning
<1>1. Inv => StopTextMeansRunning
  <2> SUFFICES ASSUME Inv, text = "Stop", thread \in NotUp
               PROVE  Announced("stopped")
    BY DEF StopTextMeansRunning
  <2>1. queue \in Seq(Signals) /\ queue # <<>> /\ queue[Len(queue)] = "stopped"
    BY DEF Inv, TypeOK, SignalInv, NotUp
  <2>2. Len(queue) \in 1 .. Len(queue)
    BY <2>1
  <2> QED
    BY <2>1, <2>2 DEF Announced
<1> QED
  BY <1>1, Invariance, PTL

\* When a run is over and its signals are handled, the rows can be edited.
THEOREM RowsUnlockedWhenOverHolds == Spec => []RowsUnlockedWhenOver
<1>1. Inv => RowsUnlockedWhenOver
  BY DEF Inv, SignalInv, NotUp, RowsUnlockedWhenOver
<1> QED
  BY <1>1, Invariance, PTL

=============================================================================
