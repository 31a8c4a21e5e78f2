----------------------------- MODULE ProbeServer -----------------------------
(***************************************************************************)
(* DebugProbeServer of src/portbridge/probe_server.py with the process     *)
(* registry of src/portbridge/process_guard.py: one GDB server, from       *)
(* start() to the end of stop().                                           *)
(*                                                                         *)
(* The event loop runs start(), stop() and the output pump; a thread of    *)
(* its executor runs the target verifier; the tool, the helper it may      *)
(* start and the verifier's tool are processes of their own; a second      *)
(* signal, the GUI's shutdown() and the exit hook come from outside.       *)
(* POSIX: a group of processes, signalled by killpg().                     *)
(***************************************************************************)
EXTENDS Naturals

CONSTANTS Verify,      \* an ST-LINK with a device: the target is checked first
          HasTelnet,   \* the tool has a telnet port, which is polled
          MaxCancels   \* how often a task awaiting start() or stop() is cancelled

ASSUME ProbeAssumption == /\ Verify \in BOOLEAN
                          /\ HasTelnet \in BOOLEAN
                          /\ MaxCancels \in Nat

VARIABLES
  pc,        \* the await that start() or stop() is at
  stopping,  \* stop() has been called (self._stopping)
  running,   \* self._running
  done,      \* what _wait_until_ready() returns
  ready,     \* the event self._ready
  exited,    \* the event self._exited
  guard,     \* self._guard is not None
  pump,      \* the task _pump_output()
  leader,    \* the tool's process
  helper,    \* a process the tool has started
  reaped,    \* proc.returncode is not None
  thread,    \* run_tracked(), in the executor's thread
  checker,   \* the verifier's process
  live,      \* process_guard._live
  hook,      \* _reap_at_exit()
  cancels    \* how many cancellations have been requested

loop     == <<pc, stopping, running, done>>
events   == <<ready, exited, pump, guard>>
tool     == <<leader, helper, reaped>>
verifier == <<thread, checker>>
vars == <<loop, events, tool, verifier, live, hook, cancels>>

\* The awaits of start(), then those it shares with stop() through _terminate().
StartAwaits == {"ports", "verifying", "connecting", "closing", "waiting", "settling",
                "collecting"}
TermAwaits  == {"asked", "forced", "sweeping"}
Ended       == {"failed", "stopped"}

\* A process that is doomed has been sent SIGKILL; one that is away has left the group.
Processes == {"none", "run", "doomed", "gone"}

FlagsOK ==
  /\ stopping \in BOOLEAN /\ running \in BOOLEAN /\ done \in BOOLEAN
  /\ ready \in BOOLEAN /\ exited \in BOOLEAN /\ guard \in BOOLEAN /\ reaped \in BOOLEAN

ValuesOK ==
  /\ pc \in {"idle", "up"} \union StartAwaits \union TermAwaits \union Ended
  /\ pump \in {"none", "reading", "waiting", "done"}
  /\ leader \in Processes
  /\ helper \in Processes \union {"away"}
  /\ thread \in {"none", "queued", "looking", "spawned", "tracked", "cleaning", "ok", "bad"}
  /\ checker \in Processes
  /\ live \in SUBSET {"tool", "verifier"}
  /\ hook \in {"off", "grace", "done"}
  /\ cancels \in 0 .. MaxCancels

TypeOK == FlagsOK /\ ValuesOK

Init ==
  /\ pc = "idle" /\ stopping = FALSE /\ running = FALSE /\ done = FALSE
  /\ ready = FALSE /\ exited = FALSE /\ guard = FALSE /\ pump = "none"
  /\ leader = "none" /\ helper = "none" /\ reaped = FALSE
  /\ thread = "none" /\ checker = "none"
  /\ live = {} /\ hook = "off" /\ cancels = 0

----------------------------------------------------------------------------
(* process_guard                                                           *)

Sigkill(p) == IF p = "run" THEN "doomed" ELSE p

\* ChildGuard.kill(): the whole group.  SIGTERM needs no operator: a process may
\* exit at any time, and may ignore the signal.
KillGroup == leader' = Sigkill(leader) /\ helper' = Sigkill(helper)

\* ChildGuard.kill() of the guards in the set G.
KillGuards(G) ==
  /\ IF "tool" \in G THEN KillGroup ELSE UNCHANGED <<leader, helper>>
  /\ checker' = IF "verifier" \in G THEN Sigkill(checker) ELSE checker

\* kill_all(), from the second signal or from the GUI's shutdown(): nothing is
\* released, and the event loop goes on (in the GUI) as long as the process does.
KillAll == /\ live # {}
           /\ KillGuards(live)
           /\ UNCHANGED <<loop, events, reaped, thread, live, hook, cancels>>

\* _reap_at_exit(): the children are asked to exit ...  (Python has waited for the
\* executor's threads before; the GUI's bridge thread is not waited for.)
HookAsks == /\ hook = "off"
            /\ live # {}
            /\ thread \in {"none", "ok", "bad"}
            /\ hook' = "grace"
            /\ UNCHANGED <<loop, events, tool, verifier, live, cancels>>

\* ... and, after the grace period, killed and released.
HookKills == /\ hook = "grace"
             /\ hook' = "done"
             /\ KillGroup
             /\ live' = live \ {"tool"}
             /\ UNCHANGED <<loop, events, reaped, verifier, cancels>>

----------------------------------------------------------------------------
(* start(), until the tool runs                                            *)

Quiet == UNCHANGED <<events, hook, cancels>>

\* create_subprocess_exec() forks at once, or raises OSError, and then waits until
\* asyncio has connected the tool's pipes.
Launch == \/ pc' = "connecting" /\ leader' = "run"
          \/ pc' = "failed" /\ leader' = leader

\* The tool is not found or the configuration is rejected; or the ports are probed.
Start == /\ pc = "idle"
         /\ pc' \in {"ports", "failed"}
         /\ UNCHANGED <<stopping, running, done, tool, verifier, live>> /\ Quiet

PortInUse == /\ pc = "ports"
             /\ pc' = "failed"
             /\ UNCHANGED <<stopping, running, done, tool, verifier, live>> /\ Quiet

PortsFree ==
  /\ pc = "ports"
  /\ IF Verify THEN pc' = "verifying" /\ thread' = "queued" /\ UNCHANGED leader
               ELSE Launch /\ UNCHANGED thread
  /\ UNCHANGED <<stopping, running, done, helper, reaped, checker, live>> /\ Quiet

Verified == /\ pc = "verifying"
            /\ thread = "ok"
            /\ Launch
            /\ UNCHANGED <<stopping, running, done, helper, reaped, verifier, live>> /\ Quiet

\* kill_all("verifier") finds nothing: run_tracked() has released its guard.
Refused == /\ pc = "verifying"
           /\ thread = "bad"
           /\ pc' = "failed"
           /\ UNCHANGED <<stopping, running, done, tool, verifier, live>> /\ Quiet

\* Mutant: the process is handed on, and its output read, without being adopted.
ConnectedUnadopted ==
  /\ pc = "connecting"
  /\ pc' = "waiting"
  /\ pump' = "reading"
  /\ guard' = TRUE
  /\ UNCHANGED <<stopping, running, done, ready, exited, tool, verifier, live, hook, cancels>>

\* The process is handed to start(), which adopts it and starts the pump.
Connected ==
  /\ pc = "connecting"
  /\ pc' = "waiting"
  /\ pump' = "reading"
  /\ guard' = TRUE
  /\ live' = live \union {"tool"}
  /\ UNCHANGED <<stopping, running, done, ready, exited, tool, verifier, hook, cancels>>

----------------------------------------------------------------------------
(* run_tracked(), in the executor's thread                                 *)

ThreadOnly == UNCHANGED <<loop, events, tool, hook, cancels>>

ThreadStarts == /\ thread = "queued"
                /\ thread' = "looking"
                /\ UNCHANGED <<checker, live>> /\ ThreadOnly

\* STM32CubeProgrammer is looked for, and launched; or either fails.
Popen == /\ thread = "looking"
         /\ \/ thread' = "spawned" /\ checker' = "run"
            \/ thread' = "bad" /\ UNCHANGED checker
         /\ UNCHANGED live /\ ThreadOnly

Adopt == /\ thread = "spawned"
         /\ thread' = "tracked"
         /\ live' = live \union {"verifier"}
         /\ UNCHANGED checker /\ ThreadOnly

\* communicate() returns; the exit code and the reported device decide.
Communicated == /\ thread = "tracked"
                /\ checker = "gone"
                /\ thread' \in {"ok", "bad"}
                /\ live' = live \ {"verifier"}
                /\ UNCHANGED checker /\ ThreadOnly

\* Mutant: the timeout is reported, the process is left to end by itself.
TimesOutOnly == /\ thread = "tracked"
                /\ thread' = "bad"
                /\ live' = live \ {"verifier"}
                /\ UNCHANGED checker /\ ThreadOnly

\* communicate() times out after 30 s: kill the group, then wait for its end.
TimesOut == /\ thread = "tracked"
            /\ thread' = "cleaning"
            /\ checker' = Sigkill(checker)
            /\ UNCHANGED live /\ ThreadOnly

Cleaned == /\ thread = "cleaning"
           /\ checker = "gone"
           /\ thread' = "bad"
           /\ live' = live \ {"verifier"}
           /\ UNCHANGED checker /\ ThreadOnly

RunTracked == ThreadStarts \/ Popen \/ Adopt \/ Communicated \/ TimesOut \/ Cleaned

----------------------------------------------------------------------------
(* _pump_output()                                                          *)

\* A line of the tool's matches the ready pattern of its kind.
PumpReady == /\ pump = "reading"
             /\ ~ready
             /\ ready' = TRUE
             /\ UNCHANGED <<loop, exited, pump, guard, tool, verifier, live, hook, cancels>>

\* Nobody holds the tool's stdout any more; proc.wait() is next.
PumpEof == /\ pump = "reading"
           /\ leader = "gone"
           /\ helper \in {"none", "gone"}
           /\ pump' = "waiting"
           /\ UNCHANGED <<loop, ready, exited, guard, tool, verifier, live, hook, cancels>>

\* _release_guard(): sweep the group, then forget it.
Swept(p) == IF guard THEN Sigkill(p) ELSE p

ReleaseGuard == /\ guard' = FALSE
                /\ leader' = Swept(leader)
                /\ helper' = Swept(helper)
                /\ live' = IF guard THEN live \ {"tool"} ELSE live

\* Mutant: is_running is left to stop().
PumpEndsSilently ==
  /\ pump = "waiting"
  /\ reaped
  /\ pump' = "done"
  /\ ReleaseGuard
  /\ UNCHANGED <<loop, ready, exited, reaped, verifier, hook, cancels>>

\* proc.wait() returns: exited is set, the guard released, and an exit that nobody
\* asked for is logged and clears _running.
PumpEnds ==
  /\ pump = "waiting"
  /\ reaped
  /\ pump' = "done"
  /\ exited' = TRUE
  /\ ReleaseGuard
  /\ running' = (running /\ stopping)
  /\ UNCHANGED <<pc, stopping, done, ready, reaped, verifier, hook, cancels>>

----------------------------------------------------------------------------
(* _wait_until_ready() and the rest of start()                             *)

\* One of the waiters is done: the ready line, the exit or (if there is one) the
\* telnet port, which any program may have opened meanwhile.
Signalled == /\ pc = "waiting"
             /\ ready \/ exited \/ HasTelnet
             /\ pc' = "settling"
             /\ done' = TRUE
             /\ UNCHANGED <<stopping, running, tool, verifier, live>> /\ Quiet

\* The startup timeout: a waiter may still become done in the same moment.
StartupTimeout == /\ pc = "waiting"
                  /\ pc' = "settling"
                  /\ done' = FALSE
                  /\ UNCHANGED <<stopping, running, tool, verifier, live>> /\ Quiet

\* _finish_pump() and the public call are over: start() raises, or stop() returns or
\* raises; its `finally` clears _running.
Leave == /\ pc' = IF stopping THEN "stopped" ELSE "failed"
         /\ running' = (running /\ ~stopping)

\* _terminate(), as far as its first await.
Terminate ==
  /\ IF reaped THEN pc' = "sweeping" /\ ReleaseGuard
               ELSE pc' = "asked" /\ UNCHANGED <<guard, leader, helper, live>>
  /\ UNCHANGED <<running, done, ready, exited, pump, reaped, verifier, hook>>

\* The waiters are cancelled and gathered; the tool has exited meanwhile.
SettledExited == /\ pc = "settling"
                 /\ exited
                 /\ pc' = "collecting"
                 /\ UNCHANGED <<stopping, running, done, tool, verifier, live>> /\ Quiet

SettledTimeout == /\ pc = "settling"
                  /\ ~exited
                  /\ ~done
                  /\ Terminate
                  /\ UNCHANGED <<stopping, cancels>>

\* Mutant: what the wait has returned decides, not whether the tool has exited.
SettledDone == /\ pc = "settling"
               /\ done
               /\ pc' = "up"
               /\ running' = TRUE
               /\ UNCHANGED <<stopping, done, tool, verifier, live>> /\ Quiet

Settled == /\ pc = "settling"
           /\ ~exited
           /\ done
           /\ pc' = "up"
           /\ running' = TRUE
           /\ UNCHANGED <<stopping, done, tool, verifier, live>> /\ Quiet

\* _finish_pump() of a tool that has exited: its pump is done.
Collected == /\ pc = "collecting"
             /\ Leave
             /\ UNCHANGED <<stopping, done, tool, verifier, live>> /\ Quiet

----------------------------------------------------------------------------
(* stop() and _terminate()                                                 *)

Stop == /\ pc = "up"
        /\ stopping' = TRUE
        /\ Terminate
        /\ UNCHANGED cancels

\* self._signal(proc, graceful=False): the group, or the tool if it has no guard.
KillTool == leader' = Sigkill(leader) /\ helper' = Swept(helper)

\* The tool has not exited in time.  (It may be reaped in the same moment.)
ForceKill == /\ pc = "asked"
         /\ pc' = "forced"
         /\ KillTool
         /\ UNCHANGED <<stopping, running, done, events, reaped, verifier, live, hook,
                        cancels>>

\* The `finally` of _terminate(): what is left of the group is killed and forgotten.
SweepGroup ==
  /\ guard' = FALSE
  /\ leader' = IF guard \/ ~reaped THEN Sigkill(leader) ELSE leader
  /\ helper' = Swept(helper)
  /\ live' = IF guard THEN live \ {"tool"} ELSE live

\* Mutant: the guard is only released, as the tool itself has exited.
WaitEndsUnswept ==
  /\ pc \in {"asked", "forced"}
  /\ reaped \/ pc = "forced"
  /\ pc' = "sweeping"
  /\ guard' = FALSE
  /\ live' = live \ {"tool"}
  /\ UNCHANGED <<stopping, running, done, ready, exited, pump, tool, verifier, hook, cancels>>

\* The tool has exited, or has not even after SIGKILL, which is logged.
WaitEnds ==
  /\ pc \in {"asked", "forced"}
  /\ reaped \/ pc = "forced"
  /\ pc' = "sweeping"
  /\ SweepGroup
  /\ UNCHANGED <<stopping, running, done, ready, exited, pump, reaped, verifier, hook, cancels>>

\* _finish_pump(): the pump has ended.
PumpFinished == /\ pc = "sweeping"
                /\ pump = "done"
                /\ Leave
                /\ UNCHANGED <<stopping, done, tool, verifier, live>> /\ Quiet

\* Mutant: the pump is waited for without a timeout.
PumpAwaited == PumpFinished

\* _finish_pump(): after a second the pump is cancelled, and gathered.
PumpCancelled == /\ pc = "sweeping"
                 /\ pump # "done"
                 /\ pump' = "done"
                 /\ exited' = TRUE
                 /\ ReleaseGuard
                 /\ Leave
                 /\ UNCHANGED <<stopping, done, ready, reaped, verifier, hook, cancels>>

----------------------------------------------------------------------------
(* The task that awaits start() or stop() is cancelled                     *)

Cancelled == cancels < MaxCancels /\ cancels' = cancels + 1

\* Nothing runs yet, or what there was has already been swept.
CancelPlain == /\ Cancelled
               /\ pc \in {"ports", "closing", "collecting", "sweeping"}
               /\ Leave
               /\ UNCHANGED <<stopping, done, events, tool, verifier, live, hook>>

\* The executor's job is dropped if no thread has taken it; the child is killed if
\* it is registered.  The thread goes on.
CancelVerifying ==
  /\ Cancelled
  /\ pc = "verifying"
  /\ pc' = "failed"
  /\ thread' = IF thread = "queued" THEN "none" ELSE thread
  /\ KillGuards(live \intersect {"verifier"})
  /\ UNCHANGED <<stopping, running, done, events, reaped, live, hook>>

\* asyncio kills the process it was connecting (not its group), and waits for it.
CancelConnecting ==
  /\ Cancelled
  /\ pc = "connecting"
  /\ pc' = "closing"
  /\ leader' = Sigkill(leader)
  /\ UNCHANGED <<stopping, running, done, events, helper, reaped, verifier, live, hook>>

Closed == /\ pc = "closing"
          /\ reaped
          /\ pc' = "failed"
          /\ UNCHANGED <<stopping, running, done, tool, verifier, live>> /\ Quiet

\* start() terminates the tool before it raises the CancelledError.
CancelWaiting ==
  /\ Cancelled
  /\ pc \in {"waiting", "settling"}
  /\ Terminate
  /\ UNCHANGED stopping

\* Mutant: the clean-up is skipped when a wait of _terminate() is cancelled.
CancelTerminateBare ==
  /\ Cancelled
  /\ pc \in {"asked", "forced"}
  /\ Leave
  /\ UNCHANGED <<stopping, done, events, tool, verifier, live, hook>>

\* Cancelled while it waits for the tool: the `finally` alone, then the error.
CancelTerminate ==
  /\ Cancelled
  /\ pc \in {"asked", "forced"}
  /\ SweepGroup
  /\ Leave
  /\ UNCHANGED <<stopping, done, ready, exited, pump, reaped, verifier, hook>>

----------------------------------------------------------------------------
(* The processes                                                           *)

ProcessOnly == UNCHANGED <<loop, events, thread, live, hook, cancels>>

\* The tool exits, asked to or not; SIGKILL is carried out.
LeaderExits == /\ leader = "run"
               /\ leader' = "gone"
               /\ UNCHANGED <<helper, reaped, checker>> /\ ProcessOnly

LeaderDies == /\ leader = "doomed"
              /\ leader' = "gone"
              /\ UNCHANGED <<helper, reaped, checker>> /\ ProcessOnly

\* A wrapper script starts its helper, in its group or in one of its own.
HelperStarts == /\ leader = "run"
                /\ helper = "none"
                /\ helper' \in {"run", "away"}
                /\ UNCHANGED <<leader, reaped, checker>> /\ ProcessOnly

HelperExits == /\ helper \in {"run", "away"}
               /\ helper' = "gone"
               /\ UNCHANGED <<leader, reaped, checker>> /\ ProcessOnly

HelperDies == /\ helper = "doomed"
              /\ helper' = "gone"
              /\ UNCHANGED <<leader, reaped, checker>> /\ ProcessOnly

\* asyncio's child watcher: returncode is set, proc.wait() is woken.
Reaped == /\ leader = "gone"
          /\ ~reaped
          /\ reaped' = TRUE
          /\ UNCHANGED <<leader, helper, checker>> /\ ProcessOnly

CheckerExits == /\ checker = "run"
                /\ checker' = "gone"
                /\ UNCHANGED tool /\ ProcessOnly

CheckerDies == /\ checker = "doomed"
               /\ checker' = "gone"
               /\ UNCHANGED tool /\ ProcessOnly

----------------------------------------------------------------------------
Call == \/ Start \/ PortInUse \/ PortsFree \/ Verified \/ Refused \/ Connected \/ Closed
        \/ Signalled \/ StartupTimeout \/ SettledExited \/ SettledTimeout \/ Settled
        \/ Collected \/ ForceKill \/ WaitEnds \/ PumpFinished \/ PumpCancelled

Pump == PumpEof \/ PumpEnds

Cancel == \/ CancelPlain \/ CancelVerifying \/ CancelConnecting \/ CancelWaiting
          \/ CancelTerminate

Killed == LeaderDies \/ HelperDies \/ CheckerDies

Outside == KillAll \/ HookAsks \/ HookKills \/ LeaderExits \/ HelperStarts \/ HelperExits
             \/ CheckerExits

Next == Call \/ Stop \/ Pump \/ PumpReady \/ RunTracked \/ Cancel \/ Killed \/ Reaped
          \/ Outside

Spec == Init /\ [][Next]_vars

\* The event loop runs what is ready and its timers fire; the executor's thread runs
\* and its timeout fires; the kernel carries out SIGKILL and asyncio notices an exit.
\* Nobody is certain to call stop(), and no process to exit by itself.
FairSpec == /\ Spec
            /\ WF_vars(Call) /\ WF_vars(Pump) /\ WF_vars(RunTracked)
            /\ WF_vars(LeaderDies) /\ WF_vars(HelperDies) /\ WF_vars(CheckerDies)
            /\ WF_vars(Reaped)

----------------------------------------------------------------------------
(* What must hold                                                          *)

\* The property is_running.
IsRunning == running /\ ~exited

\* start() that fails and stop() that ends, by whatever timeout or cancellation, leave
\* no tool behind, and (but for a start() interrupted while asyncio connects the
\* pipes) no helper in its group: all of it has exited or has been sent SIGKILL.
NothingLeft ==
  pc \in Ended => leader # "run" /\ (pump # "none" => helper # "run")

\* What still runs can be reached by kill_all() and by the exit hook: the group of a
\* tool that start() has been handed, and the verifier once it is adopted.
Registered ==
  /\ pump # "none" /\ "run" \in {leader, helper} => "tool" \in live
  /\ checker = "run" /\ thread # "spawned" => "verifier" \in live

\* What the server shows of itself: ManagedTool, which Lifecycle relies on.
Progress == CASE pc = "idle" -> "new"
              [] pc = "stopped" -> "down"
              [] pc \in {"up", "failed"} -> pc
              [] OTHER -> IF stopping THEN "stopping" ELSE "starting"

Contract == INSTANCE ManagedTool WITH call <- Progress, child <- leader = "run",
                                      isRunning <- IsRunning

\* The server implements ManagedTool, however the ready line, the open port, the tool's
\* exit, the timeouts, the cancellations and the exit hook fall together: no tool
\* outlives a start() that fails or a stop(), and start() returns only for a tool whose
\* exit has not been seen, so that is_running is then true.
ImplementsContract == Contract!Spec

\* start() and stop() end, whatever the tool, its helper and the verifier do.
CallEnds == pc \in StartAwaits \union TermAwaits ~> pc \in Ended \union {"up"}

\* A tool that exits, with whatever held its output, is noticed: is_running is false.
ExitNoticed ==
  pc = "up" /\ leader = "gone" /\ helper \in {"none", "gone"} ~> ~IsRunning

\* The verifier ends, although the start() that asked for it may have been cancelled.
VerifierEnds == checker = "run" ~> checker # "run"

----------------------------------------------------------------------------
(* The inductive invariant                                                 *)

\* Until start() has been handed the tool there is no pump and no guard; and a start()
\* that ends before that leaves no tool.
BeforeInv ==
  /\ pc \in {"idle", "ports", "verifying", "connecting", "closing"} => pump = "none"
  /\ pc \in {"idle", "ports", "verifying"} => leader = "none"
  /\ pc \in {"idle", "ports"} => thread = "none"
  /\ pc \in {"closing", "failed"} /\ pump = "none" => leader # "run"
  /\ pc \in {"waiting", "settling", "collecting", "up", "stopped"} \union TermAwaits => pump # "none"
  /\ pump = "none" => ~guard

\* From then on the group runs only as long as it is guarded and registered; whoever
\* drops the guard, start(), stop() or the pump, has killed the group.
GuardInv ==
  /\ pump # "none" /\ (leader = "run" \/ helper = "run") => guard /\ "tool" \in live
  /\ pc \in {"collecting", "sweeping", "failed", "stopped"} => ~guard
  /\ pc = "collecting" => exited
  /\ pump = "done" => ~guard
  /\ exited <=> pump = "done"
  /\ reaped => leader = "gone"

\* The verifier runs only while run_tracked() does, registered once it is adopted.
VerifierInv ==
  /\ checker = "run" => thread \in {"spawned", "tracked"}
  /\ thread \in {"none", "queued", "looking"} => checker = "none"
  /\ thread = "tracked" => "verifier" \in live

\* is_running needs a start() that has returned, and no stop() that has ended.
CallInv ==
  /\ stopping => pc \in TermAwaits \union {"stopped"}
  /\ pc = "stopped" => stopping
  /\ running => pc \in {"up"} \union TermAwaits
  /\ running /\ pc # "up" => stopping

Inv == TypeOK /\ BeforeInv /\ GuardInv /\ VerifierInv /\ CallInv

=============================================================================
