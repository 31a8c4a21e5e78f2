------------------------------ MODULE Lifecycle ------------------------------
(***************************************************************************)
(* What the command line does with the servers of a configuration:         *)
(* main() and _start_servers() of src/portbridge/bridge_server.py with     *)
(* run_startup() and stop_servers() of src/portbridge/lifecycle.py.        *)
(* (The GUI's _bridge_main() is the same sequence, without the signals.)   *)
(*                                                                         *)
(* Three parties share one event loop: the main task, the startup task it  *)
(* creates, and the signal handler.  A server is what ExclusiveBridge and  *)
(* ManagedTool promise: a start() that fails or is cancelled has released  *)
(* everything, and so has a stop() that returns, raises or is cancelled.   *)
(***************************************************************************)
EXTENDS Integers

CONSTANTS N,        \* how many servers are configured, numbered as they start
          Probes    \* the ones that own a child process

ASSUME NAssumption == N \in Nat \ {0}
ASSUME ProbesAssumption == Probes \subseteq 1 .. N

Servers == 1 .. N

VARIABLES
  main,       \* the await that main() is at, or how it has ended
  startup,    \* the startup task
  srv,        \* [Servers -> state of the server]
  started,    \* the list `servers`, which is in start order
  todo,       \* what stop_servers() has not stopped yet
  stopEvent,  \* stop_event is set
  exitCode,
  cancelled,  \* stop_servers() has remembered a CancelledError
  children,   \* the servers whose child process is alive
  adopted     \* the children that process_guard knows

process == <<children, adopted>>
vars == <<main, startup, srv, started, todo, stopEvent, exitCode, cancelled, children,
          adopted>>

MainSteps    == {"startup", "abandoning", "serving", "stopping", "exited", "raised", "killed"}
StartupSteps == {"running", "cancelling", "ok", "raised", "cancelled"}
SrvStates    == {"new", "starting", "up", "failed", "stopping", "down"}

TypeOK ==
  /\ main \in MainSteps
  /\ startup \in StartupSteps
  /\ srv \in [Servers -> SrvStates]
  /\ started \in SUBSET Servers
  /\ todo \in SUBSET Servers
  /\ stopEvent \in BOOLEAN
  /\ exitCode \in {0, 1}
  /\ cancelled \in BOOLEAN
  /\ children \in SUBSET Probes
  /\ adopted \in SUBSET children

\* run_startup() has created both tasks and waits; the first start() is called.
\* (The configuration is valid and not empty: main() exits before otherwise.)
Init ==
  /\ main = "startup"
  /\ startup = "running"
  /\ srv = [i \in Servers |-> IF i = 1 THEN "starting" ELSE "new"]
  /\ started = {}
  /\ todo = {}
  /\ stopEvent = FALSE
  /\ exitCode = 0
  /\ cancelled = FALSE
  /\ children = {}
  /\ adopted = {}

\* main() has ended by itself: "exited" past sys.exit(exit_code), "raised" by the
\* CancelledError of stop_servers().
Ended == main \in {"exited", "raised"}

Alive == ~Ended /\ main # "killed"

----------------------------------------------------------------------------
(* The startup task: _start_servers()                                      *)

\* The child of a server is gone, and process_guard has released it.
Reap(i) == /\ children' = children \ {i}
           /\ adopted' = adopted \ {i}

\* A probe server's start() creates its child process, and goes on waiting for
\* asyncio to connect the child's pipes.
LaunchTool(i) ==
  /\ Alive
  /\ startup = "running"
  /\ srv[i] = "starting"
  /\ i \in Probes \ children
  /\ children' = children \union {i}
  /\ UNCHANGED <<main, startup, srv, started, todo, stopEvent, exitCode, cancelled, adopted>>

\* The process is handed to start(), which has process_guard adopt it.
AdoptTool(i) ==
  /\ Alive
  /\ startup = "running"
  /\ srv[i] = "starting"
  /\ i \in children \ adopted
  /\ adopted' = adopted \union {i}
  /\ UNCHANGED <<main, startup, srv, started, todo, stopEvent, exitCode, cancelled, children>>

\* start() returns; the server is appended and the next one's start() is called,
\* with no await between.
StartReturns(i) ==
  /\ Alive
  /\ startup = "running"
  /\ srv[i] = "starting"
  /\ i \in Probes => i \in adopted
  /\ started' = started \union {i}
  /\ srv' = [j \in Servers |-> CASE j = i     -> "up"
                                 [] j = i + 1 -> "starting"
                                 [] OTHER     -> srv[j]]
  /\ startup' = IF i = N THEN "ok" ELSE "running"
  /\ UNCHANGED <<main, todo, stopEvent, exitCode, cancelled, process>>

\* Mutant: the server is appended before its start() is awaited.
StartRaisesListed(i) ==
  /\ Alive
  /\ startup = "running"
  /\ srv[i] = "starting"
  /\ startup' = "raised"
  /\ srv' = [srv EXCEPT ![i] = "failed"]
  /\ started' = started \union {i}
  /\ Reap(i)
  /\ UNCHANGED <<main, todo, stopEvent, exitCode, cancelled>>

StartRaises(i) ==
  /\ Alive
  /\ startup = "running"
  /\ srv[i] = "starting"
  /\ startup' = "raised"
  /\ srv' = [srv EXCEPT ![i] = "failed"]
  /\ Reap(i)
  /\ UNCHANGED <<main, started, todo, stopEvent, exitCode, cancelled>>

\* The CancelledError reaches the start() that is being awaited; it cleans up.
StartCancelled(i) ==
  /\ Alive
  /\ startup = "cancelling"
  /\ srv[i] = "starting"
  /\ startup' = "cancelled"
  /\ srv' = [srv EXCEPT ![i] = "failed"]
  /\ Reap(i)
  /\ UNCHANGED <<main, started, todo, stopEvent, exitCode, cancelled>>

----------------------------------------------------------------------------
(* The main task: run_startup(), the wait for a signal, stop_servers()     *)

\* Mutant: the stop event is cleared once the servers are up.
StartupReturnsForgetful ==
  /\ main = "startup"
  /\ startup = "ok"
  /\ main' = "serving"
  /\ stopEvent' = FALSE
  /\ UNCHANGED <<startup, srv, started, todo, exitCode, cancelled, process>>

\* run_startup() looks at the startup task first: a startup that has completed
\* counts, even if the stop event is set by now.
StartupReturns ==
  /\ main = "startup"
  /\ startup = "ok"
  /\ main' = "serving"
  /\ UNCHANGED <<startup, srv, started, todo, stopEvent, exitCode, cancelled, process>>

\* Mutants: the failure is logged and main() goes on, or forgets the exit code.
StartupRaisesIgnored ==
  /\ main = "startup"
  /\ startup = "raised"
  /\ main' = "serving"
  /\ UNCHANGED <<startup, srv, started, todo, stopEvent, exitCode, cancelled, process>>

StartupRaisesQuietly ==
  /\ main = "startup"
  /\ startup = "raised"
  /\ main' = "stopping"
  /\ todo' = started
  /\ UNCHANGED <<startup, srv, started, stopEvent, exitCode, cancelled, process>>

StartupRaises ==
  /\ main = "startup"
  /\ startup = "raised"
  /\ main' = "stopping"
  /\ exitCode' = 1
  /\ todo' = started
  /\ UNCHANGED <<startup, srv, started, stopEvent, cancelled, process>>

\* Mutant: the cancelled startup is not awaited.
AbandonUnawaited ==
  /\ main = "startup"
  /\ startup = "running"
  /\ stopEvent
  /\ main' = "stopping"
  /\ startup' = "cancelling"
  /\ todo' = started
  /\ UNCHANGED <<srv, started, stopEvent, exitCode, cancelled, process>>

\* Only the stop event is done: cancel the startup and wait for it to end.
Abandon ==
  /\ main = "startup"
  /\ startup = "running"
  /\ stopEvent
  /\ main' = "abandoning"
  /\ startup' = "cancelling"
  /\ UNCHANGED <<srv, started, todo, stopEvent, exitCode, cancelled, process>>

Abandoned ==
  /\ main = "abandoning"
  /\ startup = "cancelled"
  /\ main' = "stopping"
  /\ todo' = started
  /\ UNCHANGED <<startup, srv, started, stopEvent, exitCode, cancelled, process>>

StopRequested ==
  /\ main = "serving"
  /\ stopEvent
  /\ main' = "stopping"
  /\ todo' = started
  /\ UNCHANGED <<startup, srv, started, stopEvent, exitCode, cancelled, process>>

\* Mutant: the list is walked from its beginning.
BeginStopInStartOrder(i) ==
  /\ main = "stopping"
  /\ i \in todo
  /\ srv[i] # "stopping"
  /\ \A j \in todo : i <= j
  /\ srv' = [srv EXCEPT ![i] = "stopping"]
  /\ UNCHANGED <<main, startup, started, todo, stopEvent, exitCode, cancelled, process>>

\* reversed(servers): the last one of the list that is left.
BeginStop(i) ==
  /\ main = "stopping"
  /\ i \in todo
  /\ srv[i] # "stopping"
  /\ \A j \in todo : j <= i
  /\ srv' = [srv EXCEPT ![i] = "stopping"]
  /\ UNCHANGED <<main, startup, started, todo, stopEvent, exitCode, cancelled, process>>

\* stop() returns, or raises what is only logged.
StopReturns(i) ==
  /\ main = "stopping"
  /\ srv[i] = "stopping"
  /\ srv' = [srv EXCEPT ![i] = "down"]
  /\ todo' = todo \ {i}
  /\ Reap(i)
  /\ UNCHANGED <<main, startup, started, stopEvent, exitCode, cancelled>>

\* Mutant: the CancelledError leaves the loop at once.
StopCancelledAtOnce(i) ==
  /\ main = "stopping"
  /\ srv[i] = "stopping"
  /\ srv' = [srv EXCEPT ![i] = "down"]
  /\ todo' = {}
  /\ Reap(i)
  /\ cancelled' = TRUE
  /\ UNCHANGED <<main, startup, started, stopEvent, exitCode>>

\* The task is cancelled while it awaits stop(): remembered, and on to the next.
StopCancelled(i) ==
  /\ main = "stopping"
  /\ srv[i] = "stopping"
  /\ srv' = [srv EXCEPT ![i] = "down"]
  /\ todo' = todo \ {i}
  /\ Reap(i)
  /\ cancelled' = TRUE
  /\ UNCHANGED <<main, startup, started, stopEvent, exitCode>>

\* Everything is stopped and nothing was cancelled: main() ends with its exit code.
Exit ==
  /\ main = "stopping"
  /\ todo = {}
  /\ ~cancelled
  /\ main' = "exited"
  /\ UNCHANGED <<startup, srv, started, todo, stopEvent, exitCode, cancelled, process>>

\* Everything is stopped: stop_servers() raises the CancelledError it has remembered, and
\* main() ends with it, before it looks at its exit code.
ExitCancelled ==
  /\ main = "stopping"
  /\ todo = {}
  /\ cancelled
  /\ main' = "raised"
  /\ UNCHANGED <<startup, srv, started, todo, stopEvent, exitCode, cancelled, process>>

----------------------------------------------------------------------------
(* request_stop()                                                          *)

FirstSignal ==
  /\ Alive
  /\ ~stopEvent
  /\ stopEvent' = TRUE
  /\ UNCHANGED <<main, startup, srv, started, todo, exitCode, cancelled, process>>

\* Mutant: os._exit(1) alone, which skips every cleanup.
SecondSignalExitsOnly ==
  /\ Alive
  /\ stopEvent
  /\ main' = "killed"
  /\ exitCode' = 1
  /\ UNCHANGED <<startup, srv, started, todo, stopEvent, cancelled, process>>

\* process_guard.kill_all(), then os._exit(1).
SecondSignal ==
  /\ Alive
  /\ stopEvent
  /\ main' = "killed"
  /\ children' = children \ adopted
  /\ adopted' = {}
  /\ exitCode' = 1
  /\ UNCHANGED <<startup, srv, started, todo, stopEvent, cancelled>>

----------------------------------------------------------------------------
Startup(i) == LaunchTool(i) \/ AdoptTool(i) \/ StartReturns(i) \/ StartRaises(i)
                \/ StartCancelled(i)

Stopping(i) == BeginStop(i) \/ StopReturns(i) \/ StopCancelled(i)

Main == StartupReturns \/ StartupRaises \/ Abandon \/ Abandoned \/ StopRequested
          \/ Exit \/ ExitCancelled

Next == \/ Main \/ FirstSignal \/ SecondSignal
        \/ \E i \in Servers : Startup(i) \/ Stopping(i)

Spec == Init /\ [][Next]_vars

\* The event loop runs what is ready, and every start() and stop() ends (for the
\* stop() of a TCP bridge see SerialServer!StopReleasesHardware).  No signal is
\* ever certain.
FairSpec == /\ Spec
            /\ WF_vars(Main)
            /\ \A i \in Servers : WF_vars(Startup(i)) /\ WF_vars(Stopping(i))

----------------------------------------------------------------------------
(* What must hold                                                          *)

\* A server that has come up and not been stopped.
Running(i) == srv[i] \in {"starting", "up", "stopping"}

\* When main() ends by itself no server is left running and no child process is
\* left behind, wherever startup failed or was interrupted, and although a stop()
\* before may have raised or been cancelled.
CleanExit ==
  Ended => children = {} /\ \A i \in Servers : ~Running(i)

\* Servers are stopped in the reverse of the order they were started in, and never
\* while one of them is still coming up.
ReverseOrder ==
  \A i \in Servers : srv[i] = "stopping" =>
    \A j \in Servers : Running(j) => j <= i /\ srv[j] # "starting"

\* A server as ManagedTool, which ProbeServer implements, shows it.
Server(i) == INSTANCE ManagedTool WITH call <- srv[i], child <- i \in children,
                                       isRunning <- srv[i] \in {"up", "stopping"}

\* Every server is used as that contract asks, and behaves as it promises: start() is called
\* once, stop() once and exactly if start() has returned, and a child comes and goes with
\* them; so this program is one with servers in it that implement the contract.
ComposesContracts ==
  /\ \A i \in Servers : Server(i)!Init
  /\ [][\A i \in Servers : [Server(i)!Next]_(Server(i)!vars)]_vars

\* The second signal kills every child but one whose server is just launching it.
KilledSparesOnlyLaunching ==
  main = "killed" => \A i \in children : srv[i] = "starting"

\* (docs/architecture.md: "A second signal kills the child processes and exits
\* immediately.")  The second signal leaves no child process.
KilledLeavesNoChild == main = "killed" => children = {}

\* The status the program ends with: the code given to sys.exit(), or 1 for an exception
\* that nobody catches.
Status == IF main = "exited" THEN exitCode ELSE 1

\* It tells a server that could not be started, and a shutdown that was cancelled, from a
\* run that was as it should be: an interrupted startup is no failure, one that failed
\* before the signal was seen is, and no CancelledError turns a failure into a 0.
ExitCodeTellsFailure == Ended => (Status = 1 <=> startup = "raised" \/ cancelled)

\* A signal, or a failed startup, ends the program.
SignalEndsProgram == stopEvent ~> ~Alive
FailureEndsProgram == startup = "raised" ~> ~Alive

----------------------------------------------------------------------------
(* The inductive invariant                                                 *)

\* Servers come up in order, one at a time; a server is in the list exactly when
\* its start() has returned.
StartupInv ==
  /\ \A i \in Servers : i \in started <=> srv[i] \in {"up", "stopping", "down"}
  /\ \A i \in Servers : srv[i] = "starting" =>
       /\ startup \in {"running", "cancelling"}
       /\ \A j \in Servers : j < i => j \in started
       /\ \A j \in Servers : j > i => srv[j] = "new"
  /\ startup = "raised" => started # Servers

\* What main() has seen of the startup task, at each of its awaits.
MainInv ==
  /\ main = "startup" => startup \in {"running", "ok", "raised"}
  /\ main = "abandoning" => startup \in {"cancelling", "cancelled"}
  /\ main = "serving" => startup = "ok"
  /\ main \in {"stopping", "exited", "raised"} => startup \in {"ok", "raised", "cancelled"}
  /\ main \in {"startup", "abandoning", "serving"} => exitCode = 0
  /\ main \in {"stopping", "exited", "raised"} => (exitCode = 1 <=> startup = "raised")
  /\ main = "exited" => ~cancelled
  /\ main = "raised" => cancelled

\* stop_servers() has stopped the list from its end down to todo.
StoppingInv ==
  /\ main \in {"startup", "abandoning", "serving"} =>
       \A i \in Servers : srv[i] \notin {"stopping", "down"}
  /\ main \in {"stopping", "exited", "raised"} =>
       \A i \in Servers : i \in todo <=> srv[i] \in {"up", "stopping"}
  /\ Ended => todo = {}
  /\ \A i \in Servers : srv[i] = "stopping" =>
       /\ startup \in {"ok", "raised", "cancelled"}
       /\ \A j \in Servers : srv[j] \in {"up", "stopping"} => j <= i

\* A child process belongs to a server that is coming up, up or being stopped, and
\* only one that is coming up may still be unknown to process_guard.
ChildInv ==
  \A i \in children : /\ Running(i)
                      /\ srv[i] # "starting" /\ main # "killed" => i \in adopted
                      /\ main = "killed" => srv[i] = "starting"

Inv == TypeOK /\ StartupInv /\ MainInv /\ StoppingInv /\ ChildInv

=============================================================================
