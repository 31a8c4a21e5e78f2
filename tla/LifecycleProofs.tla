-------------------------- MODULE LifecycleProofs --------------------------
(***************************************************************************)
(* What TLAPS proves of Lifecycle, for any number of servers and any of    *)
(* them probes: Inv is inductive, and with it main() ends with nothing     *)
(* left running, stops in reverse order only what has been started, and    *)
(* tells a failed startup by its exit code.                                *)
(***************************************************************************)
EXTENDS Lifecycle, TLAPS

USE NAssumption, ProbesAssumption
    DEF Servers, process, MainSteps, StartupSteps, SrvStates, Ended, Alive, Running

\* Nothing has been started, and the first start() is being awaited.
LEMMA InitInv == Init => Inv
<1> SUFFICES ASSUME Init PROVE Inv
  OBVIOUS
<1>1. TypeOK
  BY DEF Init, TypeOK
<1>2. StartupInv
  BY DEF Init, StartupInv
<1>3. MainInv
  BY DEF Init, MainInv
<1>4. StoppingInv
  BY DEF Init, StoppingInv
<1>5. ChildInv
  BY DEF Init, ChildInv
<1> QED BY <1>1, <1>2, <1>3, <1>4, <1>5 DEF Inv

\* The main task and the signals preserve the invariant.
LEMMA MainStep ==
  ASSUME Inv, Main \/ FirstSignal \/ SecondSignal
  PROVE  Inv'
<1> USE DEF Inv
<1>1. CASE StartupReturns
  BY <1>1 DEF StartupReturns, TypeOK, StartupInv, MainInv, StoppingInv, ChildInv
<1>2. CASE StartupRaises
  BY <1>2 DEF StartupRaises, TypeOK, StartupInv, MainInv, StoppingInv, ChildInv
<1>3. CASE Abandon
  BY <1>3 DEF Abandon, TypeOK, StartupInv, MainInv, StoppingInv, ChildInv
<1>4. CASE Abandoned
  BY <1>4 DEF Abandoned, TypeOK, StartupInv, MainInv, StoppingInv, ChildInv
<1>5. CASE StopRequested
  BY <1>5 DEF StopRequested, TypeOK, StartupInv, MainInv, StoppingInv, ChildInv
<1>6. CASE Exit
  BY <1>6 DEF Exit, TypeOK, StartupInv, MainInv, StoppingInv, ChildInv
<1>9. CASE ExitCancelled
  BY <1>9 DEF ExitCancelled, TypeOK, StartupInv, MainInv, StoppingInv, ChildInv
<1>7. CASE FirstSignal
  BY <1>7 DEF FirstSignal, TypeOK, StartupInv, MainInv, StoppingInv, ChildInv
<1>8. CASE SecondSignal
  <2>1. TypeOK'
    BY <1>8 DEF SecondSignal, TypeOK, StartupInv, MainInv, StoppingInv,
       ChildInv
  <2>2. StartupInv'
    BY <1>8 DEF SecondSignal, TypeOK, StartupInv, MainInv, StoppingInv,
       ChildInv
  <2>3. MainInv'
    BY <1>8 DEF SecondSignal, TypeOK, StartupInv, MainInv, StoppingInv,
       ChildInv
  <2>4. StoppingInv'
    BY <1>8 DEF SecondSignal, TypeOK, StartupInv, MainInv, StoppingInv,
       ChildInv
  <2>5. ChildInv'
    BY <1>8 DEF SecondSignal, TypeOK, StartupInv, MainInv, StoppingInv,
       ChildInv
  <2> QED BY <2>1, <2>2, <2>3, <2>4, <2>5
<1> QED BY <1>1, <1>2, <1>3, <1>4, <1>5, <1>6, <1>7, <1>8, <1>9 DEF Main

\* The startup task preserves the invariant.
LEMMA StartupStep ==
  ASSUME Inv, NEW i \in Servers, Startup(i)
  PROVE  Inv'
<1> USE DEF Inv
<1>1. CASE LaunchTool(i)
  <2>1. TypeOK'
    BY <1>1 DEF LaunchTool, TypeOK, StartupInv, MainInv, StoppingInv, ChildInv
  <2>2. StartupInv'
    BY <1>1 DEF LaunchTool, TypeOK, StartupInv, MainInv, StoppingInv, ChildInv
  <2>3. MainInv'
    BY <1>1 DEF LaunchTool, TypeOK, StartupInv, MainInv, StoppingInv, ChildInv
  <2>4. StoppingInv'
    BY <1>1 DEF LaunchTool, TypeOK, StartupInv, MainInv, StoppingInv, ChildInv
  <2>5. ChildInv'
    BY <1>1 DEF LaunchTool, TypeOK, StartupInv, MainInv, StoppingInv, ChildInv
  <2> QED BY <2>1, <2>2, <2>3, <2>4, <2>5
<1>2. CASE AdoptTool(i)
  <2>1. TypeOK'
    BY <1>2 DEF AdoptTool, TypeOK, StartupInv, MainInv, StoppingInv, ChildInv
  <2>2. StartupInv'
    BY <1>2 DEF AdoptTool, TypeOK, StartupInv, MainInv, StoppingInv, ChildInv
  <2>3. MainInv'
    BY <1>2 DEF AdoptTool, TypeOK, StartupInv, MainInv, StoppingInv, ChildInv
  <2>4. StoppingInv'
    BY <1>2 DEF AdoptTool, TypeOK, StartupInv, MainInv, StoppingInv, ChildInv
  <2>5. ChildInv'
    BY <1>2 DEF AdoptTool, TypeOK, StartupInv, MainInv, StoppingInv, ChildInv
  <2> QED BY <2>1, <2>2, <2>3, <2>4, <2>5
<1>3. CASE StartReturns(i)
  <2>1. TypeOK'
    BY <1>3 DEF StartReturns, TypeOK, StartupInv, MainInv, StoppingInv,
       ChildInv
  <2>2. StartupInv'
    BY <1>3 DEF StartReturns, TypeOK, StartupInv, MainInv, StoppingInv,
       ChildInv
  <2>3. MainInv'
    BY <1>3 DEF StartReturns, TypeOK, StartupInv, MainInv, StoppingInv,
       ChildInv
  <2>4. StoppingInv'
    BY <1>3 DEF StartReturns, TypeOK, StartupInv, MainInv, StoppingInv,
       ChildInv
  <2>5. ChildInv'
    BY <1>3 DEF StartReturns, TypeOK, StartupInv, MainInv, StoppingInv,
       ChildInv
  <2> QED BY <2>1, <2>2, <2>3, <2>4, <2>5
<1>4. CASE StartRaises(i)
  <2>1. TypeOK'
    BY <1>4 DEF StartRaises, Reap, TypeOK, StartupInv, MainInv, StoppingInv,
       ChildInv
  <2>2. StartupInv'
    BY <1>4 DEF StartRaises, Reap, TypeOK, StartupInv, MainInv, StoppingInv,
       ChildInv
  <2>3. MainInv'
    BY <1>4 DEF StartRaises, Reap, TypeOK, StartupInv, MainInv, StoppingInv,
       ChildInv
  <2>4. StoppingInv'
    BY <1>4 DEF StartRaises, Reap, TypeOK, StartupInv, MainInv, StoppingInv,
       ChildInv
  <2>5. ChildInv'
    BY <1>4 DEF StartRaises, Reap, TypeOK, StartupInv, MainInv, StoppingInv,
       ChildInv
  <2> QED BY <2>1, <2>2, <2>3, <2>4, <2>5
<1>5. CASE StartCancelled(i)
  <2>1. TypeOK'
    BY <1>5 DEF StartCancelled, Reap, TypeOK, StartupInv, MainInv,
       StoppingInv, ChildInv
  <2>2. StartupInv'
    BY <1>5 DEF StartCancelled, Reap, TypeOK, StartupInv, MainInv,
       StoppingInv, ChildInv
  <2>3. MainInv'
    BY <1>5 DEF StartCancelled, Reap, TypeOK, StartupInv, MainInv,
       StoppingInv, ChildInv
  <2>4. StoppingInv'
    BY <1>5 DEF StartCancelled, Reap, TypeOK, StartupInv, MainInv,
       StoppingInv, ChildInv
  <2>5. ChildInv'
    BY <1>5 DEF StartCancelled, Reap, TypeOK, StartupInv, MainInv,
       StoppingInv, ChildInv
  <2> QED BY <2>1, <2>2, <2>3, <2>4, <2>5
<1> QED BY <1>1, <1>2, <1>3, <1>4, <1>5 DEF Startup

\* stop_servers() preserves the invariant.
LEMMA StoppingStep ==
  ASSUME Inv, NEW i \in Servers, Stopping(i)
  PROVE  Inv'
<1> USE DEF Inv
<1>1. CASE BeginStop(i)
  <2>1. TypeOK'
    BY <1>1 DEF BeginStop, TypeOK, StartupInv, MainInv, StoppingInv, ChildInv
  <2>2. StartupInv'
    BY <1>1 DEF BeginStop, TypeOK, StartupInv, MainInv, StoppingInv, ChildInv
  <2>3. MainInv'
    BY <1>1 DEF BeginStop, TypeOK, StartupInv, MainInv, StoppingInv, ChildInv
  <2>4. StoppingInv'
    BY <1>1 DEF BeginStop, TypeOK, StartupInv, MainInv, StoppingInv, ChildInv
  <2>5. ChildInv'
    BY <1>1 DEF BeginStop, TypeOK, StartupInv, MainInv, StoppingInv, ChildInv
  <2> QED BY <2>1, <2>2, <2>3, <2>4, <2>5
<1>2. CASE StopReturns(i)
  <2>1. TypeOK'
    BY <1>2 DEF StopReturns, Reap, TypeOK, StartupInv, MainInv, StoppingInv,
       ChildInv
  <2>2. StartupInv'
    BY <1>2 DEF StopReturns, Reap, TypeOK, StartupInv, MainInv, StoppingInv,
       ChildInv
  <2>3. MainInv'
    BY <1>2 DEF StopReturns, Reap, TypeOK, StartupInv, MainInv, StoppingInv,
       ChildInv
  <2>4. StoppingInv'
    BY <1>2 DEF StopReturns, Reap, TypeOK, StartupInv, MainInv, StoppingInv,
       ChildInv
  <2>5. ChildInv'
    BY <1>2 DEF StopReturns, Reap, TypeOK, StartupInv, MainInv, StoppingInv,
       ChildInv
  <2> QED BY <2>1, <2>2, <2>3, <2>4, <2>5
<1>3. CASE StopCancelled(i)
  <2>1. TypeOK'
    BY <1>3 DEF StopCancelled, Reap, TypeOK, StartupInv, MainInv, StoppingInv,
       ChildInv
  <2>2. StartupInv'
    BY <1>3 DEF StopCancelled, Reap, TypeOK, StartupInv, MainInv, StoppingInv,
       ChildInv
  <2>3. MainInv'
    BY <1>3 DEF StopCancelled, Reap, TypeOK, StartupInv, MainInv, StoppingInv,
       ChildInv
  <2>4. StoppingInv'
    BY <1>3 DEF StopCancelled, Reap, TypeOK, StartupInv, MainInv, StoppingInv,
       ChildInv
  <2>5. ChildInv'
    BY <1>3 DEF StopCancelled, Reap, TypeOK, StartupInv, MainInv, StoppingInv,
       ChildInv
  <2> QED BY <2>1, <2>2, <2>3, <2>4, <2>5
<1> QED BY <1>1, <1>2, <1>3 DEF Stopping

\* Inv is inductive.
LEMMA InductiveStep == Inv /\ [Next]_vars => Inv'
<1> SUFFICES ASSUME Inv, [Next]_vars
             PROVE  Inv'
  OBVIOUS
<1>1. CASE Main \/ FirstSignal \/ SecondSignal
  BY <1>1, MainStep
<1>2. ASSUME NEW i \in Servers, Startup(i) \/ Stopping(i) PROVE Inv'
  BY <1>2, StartupStep, StoppingStep
<1>3. CASE UNCHANGED vars
  BY <1>3 DEF vars, Inv, TypeOK, StartupInv, MainInv, StoppingInv, ChildInv
<1> QED BY <1>1, <1>2, <1>3 DEF Next

\* The inductive invariant holds in every reachable state.
THEOREM Invariance == Spec => []Inv
  BY InitInv, InductiveStep, PTL DEF Spec

\* main() ends by itself only with every server stopped and every child gone.
THEOREM CleanExitHolds == Spec => []CleanExit
<1>1. Inv => CleanExit
  <2> SUFFICES ASSUME Inv, Ended
               PROVE  children = {} /\ \A i \in Servers : ~Running(i)
    BY DEF CleanExit
  <2>1. \A i \in Servers : ~Running(i)
    BY DEF Inv, TypeOK, StartupInv, MainInv, StoppingInv
  <2>2. children = {}
    BY <2>1 DEF Inv, TypeOK, ChildInv
  <2> QED BY <2>1, <2>2
<1> QED BY <1>1, Invariance, PTL

\* Servers are stopped in the reverse of their start order.
THEOREM ReverseOrderHolds == Spec => []ReverseOrder
<1>1. Inv => ReverseOrder
  BY DEF Inv, TypeOK, StartupInv, StoppingInv, ReverseOrder
<1> QED BY <1>1, Invariance, PTL

\* The second signal kills every child process that process_guard knows.
THEOREM KilledSparesOnlyLaunchingHolds == Spec => []KilledSparesOnlyLaunching
<1>1. Inv => KilledSparesOnlyLaunching
  BY DEF Inv, ChildInv, KilledSparesOnlyLaunching
<1> QED BY <1>1, Invariance, PTL

\* The program ends with status 1 exactly if startup failed or the shutdown was cancelled.
THEOREM ExitCodeHolds == Spec => []ExitCodeTellsFailure
<1>1. Inv => ExitCodeTellsFailure
  BY DEF Inv, TypeOK, MainInv, Status, ExitCodeTellsFailure
<1> QED BY <1>1, Invariance, PTL

\* Each server is used as the contract of ManagedTool asks, stop() on exactly those whose
\* start() has returned, and behaves as it promises, at every step of the program.
THEOREM ComposesContractsHolds == Spec => ComposesContracts
<1> DEFINE Kept == \A i \in Servers : [Server(i)!Next]_(Server(i)!vars)
<1>1. Init => \A i \in Servers : Server(i)!Init
  BY DEF Init, Server!Init
<1>2. Inv /\ [Next]_vars => [Kept]_vars
  <2> SUFFICES ASSUME Inv, Next, NEW i \in Servers
               PROVE [Server(i)!Next]_(Server(i)!vars)
    OBVIOUS
  <2> USE DEF Inv, TypeOK
  <2>1. CASE Main \/ FirstSignal
    BY <2>1 DEF Main, StartupReturns, StartupRaises, Abandon, Abandoned, StopRequested, Exit,
                ExitCancelled,
                FirstSignal, process, Server!vars
  <2>2. CASE SecondSignal
    <3>1. UNCHANGED srv
      BY <2>2 DEF SecondSignal
    <3>2. (i \in children') = (i \in children) \/ (i \in children') = FALSE
      BY <2>2 DEF SecondSignal
    <3>3. Server(i)!Gone
      BY <3>1, <3>2, Zenon DEF Server!Gone
    <3> QED BY <3>3 DEF Server!Next
  <2>3. ASSUME NEW k \in Servers, LaunchTool(k) PROVE [Server(i)!Next]_(Server(i)!vars)
    BY <2>3 DEF LaunchTool, Server!vars, Server!Next, Server!Launch
  <2>4. ASSUME NEW k \in Servers, AdoptTool(k) PROVE [Server(i)!Next]_(Server(i)!vars)
    BY <2>4 DEF AdoptTool, Server!vars
  <2>5. ASSUME NEW k \in Servers, StartReturns(k) PROVE [Server(i)!Next]_(Server(i)!vars)
    <3>1. CASE i = k
      BY <2>5, <3>1 DEF StartReturns, process, Server!Next, Server!Return
    <3>2. CASE i = k + 1
      BY <2>5, <3>2 DEF StartReturns, process, StartupInv, Servers, Server!Next, Server!Begin
    <3>3. CASE i # k /\ i # k + 1
      BY <2>5, <3>3 DEF StartReturns, process, Server!vars
    <3> QED BY <3>1, <3>2, <3>3
  <2>6. ASSUME NEW k \in Servers, StartRaises(k) \/ StartCancelled(k)
        PROVE [Server(i)!Next]_(Server(i)!vars)
    BY <2>6 DEF StartRaises, StartCancelled, Reap, Server!vars, Server!Next, Server!Fail
  <2>7. ASSUME NEW k \in Servers, BeginStop(k) PROVE [Server(i)!Next]_(Server(i)!vars)
    BY <2>7 DEF BeginStop, process, MainInv, StoppingInv, Server!vars, Server!Next, Server!Stop
  <2>8. ASSUME NEW k \in Servers, StopReturns(k) \/ StopCancelled(k)
        PROVE [Server(i)!Next]_(Server(i)!vars)
    BY <2>8 DEF StopReturns, StopCancelled, Reap, Server!vars, Server!Next, Server!Stopped
  <2> QED BY <2>1, <2>2, <2>3, <2>4, <2>5, <2>6, <2>7, <2>8 DEF Next, Startup, Stopping
<1> QED BY <1>1, <1>2, Invariance, PTL DEF Spec, ComposesContracts

=============================================================================
