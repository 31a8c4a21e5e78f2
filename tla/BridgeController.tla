---------------------------- MODULE BridgeController ----------------------------
(***************************************************************************)
(* The GUI's Start / Stop button and the bridge it controls:               *)
(* BridgeController (src/portbridge/gui/bridge_controller.py) and the      *)
(* slots of MainWindow (src/portbridge/gui/main_window.py) on its signals. *)
(*                                                                         *)
(* Two threads share _loop, _stop_event and _stop_requested without a lock:*)
(* the Qt thread, which handles one event at a time, and the bridge thread *)
(* of the current run, which runs the asyncio loop.  A signal emitted by   *)
(* the bridge thread is queued for the Qt thread.  An action is what one   *)
(* of them does up to its next access to what they share.                  *)
(*                                                                         *)
(* Abstracted: what starts and stops inside the bridge (module Lifecycle); *)
(* clicks that end in a message box; the log records and their timer; the  *)
(* status dots and _running_config, which are set where `editing` is.      *)
(***************************************************************************)
EXTENDS Naturals, Sequences

CONSTANT Backlog   \* bound: Start is clicked with at most so many signals waiting

ASSUME BacklogAssumption == Backlog \in Nat

VARIABLES
  ui,            \* where the Qt thread is: in its event loop, stop() or shutdown()
  seenLoop,      \* stop() has read a self._loop that was not None
  quitting,      \* aboutToQuit has been emitted
  text,          \* of the button
  enabled,       \* the button
  editing,       \* the rows and the general settings
  queue,         \* signals waiting for the Qt thread
  thread,        \* how far the bridge thread has come; "none" is not alive
  loop,          \* self._loop is not None
  event,         \* self._stop_event is not None
  stopRequested, \* self._stop_requested is set
  pending,       \* the loop has stop_event.set among its callbacks
  stopEvent      \* the asyncio event of the run is set

window == <<text, enabled, editing>>
shared == <<loop, event, stopRequested>>
asyncio == <<pending, stopEvent>>
vars == <<ui, seenLoop, quitting, text, enabled, editing, queue, thread, loop, event,
          stopRequested, pending, stopEvent>>

UiSteps == {"idle", "read loop", "read event", "call", "join", "quit"}
Threads == {"none", "spawned", "loop set", "event set", "starting", "up", "stopping",
            "closed", "loop cleared", "cleared", "emitted"}
Signals == {"started", "stopped", "error"}

TypeOK ==
  /\ ui \in UiSteps
  /\ seenLoop \in BOOLEAN
  /\ quitting \in BOOLEAN
  /\ text \in {"Start", "Stop"}
  /\ enabled \in BOOLEAN
  /\ editing \in BOOLEAN
  /\ queue \in Seq(Signals)
  /\ thread \in Threads
  /\ loop \in BOOLEAN
  /\ event \in BOOLEAN
  /\ stopRequested \in BOOLEAN
  /\ pending \in BOOLEAN
  /\ stopEvent \in BOOLEAN

Init ==
  /\ ui = "idle"
  /\ seenLoop = FALSE
  /\ quitting = FALSE
  /\ text = "Start"
  /\ enabled = TRUE
  /\ editing = TRUE
  /\ queue = <<>>
  /\ thread = "none"
  /\ loop = FALSE
  /\ event = FALSE
  /\ stopRequested = FALSE
  /\ pending = FALSE
  /\ stopEvent = FALSE

IsRunning == thread # "none"
LoopOpen  == thread \in {"loop set", "event set", "starting", "up", "stopping"}

----------------------------------------------------------------------------
(* The Qt thread                                                           *)

\* _toggle_bridge() with valid settings and no bridge: controller.start().
ClickStart ==
  /\ ui = "idle"
  /\ enabled
  /\ ~IsRunning
  /\ Len(queue) <= Backlog
  /\ stopRequested' = FALSE
  /\ thread' = "spawned"
  /\ editing' = FALSE
  /\ enabled' = FALSE
  /\ UNCHANGED <<ui, seenLoop, quitting, text, queue, loop, event, asyncio>>

\* _toggle_bridge() with a bridge, whatever the button says: controller.stop().
ClickStop ==
  /\ ui = "idle"
  /\ enabled
  /\ IsRunning
  /\ stopRequested' = TRUE
  /\ ui' = "read loop"
  /\ UNCHANGED <<seenLoop, quitting, window, queue, thread, loop, event, asyncio>>

\* shutdown() calls stop() first, running or not.
Quit ==
  /\ ui = "idle"
  /\ quitting' = TRUE
  /\ stopRequested' = TRUE
  /\ ui' = "read loop"
  /\ UNCHANGED <<seenLoop, window, queue, thread, loop, event, asyncio>>

ReadLoop ==
  /\ ui = "read loop"
  /\ seenLoop' = loop
  /\ ui' = "read event"
  /\ UNCHANGED <<quitting, window, queue, thread, shared, asyncio>>

\* stop() returns to the slot, which disables the button, or to shutdown().
StopReturns ==
  /\ ui' = IF quitting THEN "join" ELSE "idle"
  /\ enabled' = (quitting /\ enabled)

ReadEvent ==
  /\ ui = "read event"
  /\ IF seenLoop /\ event
     THEN ui' = "call" /\ UNCHANGED enabled
     ELSE StopReturns
  /\ UNCHANGED <<seenLoop, quitting, text, editing, queue, thread, shared, asyncio>>

\* call_soon_threadsafe(stop_event.set); a closed loop raises RuntimeError, which
\* is ignored.
CallSoon ==
  /\ ui = "call"
  /\ pending' = (pending \/ LoopOpen)
  /\ StopReturns
  /\ UNCHANGED <<seenLoop, quitting, text, editing, queue, thread, shared, stopEvent>>

\* thread.join(timeout) returns, and shutdown() with it.
JoinEnds ==
  /\ ui = "join"
  /\ ~IsRunning
  /\ ui' = "quit"
  /\ UNCHANGED <<seenLoop, quitting, window, queue, thread, shared, asyncio>>

JoinTimesOut ==
  /\ ui = "join"
  /\ IsRunning
  /\ ui' = "quit"
  /\ UNCHANGED <<seenLoop, quitting, window, queue, thread, shared, asyncio>>

\* _on_started()
OnStarted ==
  /\ Head(queue) = "started"
  /\ text' = "Stop"
  /\ enabled' = TRUE
  /\ UNCHANGED editing

\* Mutant: only a failure unlocks the rows.
OnStoppedLocked ==
  /\ Head(queue) = "stopped"
  /\ text' = "Start"
  /\ enabled' = TRUE
  /\ UNCHANGED editing

\* _on_stopped()
OnStopped ==
  /\ Head(queue) = "stopped"
  /\ text' = "Start"
  /\ enabled' = TRUE
  /\ editing' = TRUE

\* _on_error()
OnError ==
  /\ Head(queue) = "error"
  /\ text' = "Start"
  /\ enabled' = TRUE
  /\ editing' = TRUE

HandleSignal ==
  /\ ui = "idle"
  /\ queue # <<>>
  /\ queue' = Tail(queue)
  /\ OnStarted \/ OnStopped \/ OnError
  /\ UNCHANGED <<ui, seenLoop, quitting, thread, shared, asyncio>>

----------------------------------------------------------------------------
(* The bridge thread: _run_asyncio() and _bridge_main()                    *)

\* asyncio.run() raises before the bridge has published its loop (an import
\* fails): the error is emitted, and there is nothing to take back.
Crash ==
  /\ thread = "spawned"
  /\ thread' = "cleared"
  /\ queue' = Append(queue, "error")
  /\ UNCHANGED <<ui, seenLoop, quitting, window, shared, asyncio>>

PublishLoop ==
  /\ thread = "spawned"
  /\ thread' = "loop set"
  /\ loop' = TRUE
  /\ UNCHANGED <<ui, seenLoop, quitting, window, queue, event, stopRequested, asyncio>>

PublishEvent ==
  /\ thread = "loop set"
  /\ thread' = "event set"
  /\ event' = TRUE
  /\ stopEvent' = FALSE
  /\ UNCHANGED <<ui, seenLoop, quitting, window, queue, loop, stopRequested, pending>>

\* Mutant: the request made before the loop was there is not looked at.
IgnoreRequest ==
  /\ thread = "event set"
  /\ thread' = "starting"
  /\ UNCHANGED <<ui, seenLoop, quitting, window, queue, shared, asyncio>>

\* A stop() that came before the event was there has left its request.
CheckRequested ==
  /\ thread = "event set"
  /\ thread' = "starting"
  /\ stopEvent' = stopRequested
  /\ UNCHANGED <<ui, seenLoop, quitting, window, queue, shared, pending>>

LoopRunsCallback ==
  /\ pending
  /\ thread \in {"starting", "up", "stopping"}
  /\ pending' = FALSE
  /\ stopEvent' = TRUE
  /\ UNCHANGED <<ui, seenLoop, quitting, window, queue, thread, shared>>

StartupSucceeds ==
  /\ thread = "starting"
  /\ thread' = "up"
  /\ queue' = Append(queue, "started")
  /\ UNCHANGED <<ui, seenLoop, quitting, window, shared, asyncio>>

StartupFails ==
  /\ thread = "starting"
  /\ thread' = "stopping"
  /\ queue' = Append(queue, "error")
  /\ UNCHANGED <<ui, seenLoop, quitting, window, shared, asyncio>>

\* Mutant: startup is awaited without the stop event.
StopSeenOnceUp ==
  /\ thread = "up"
  /\ stopEvent
  /\ thread' = "stopping"
  /\ UNCHANGED <<ui, seenLoop, quitting, window, queue, shared, asyncio>>

\* run_startup() returns False, or the wait for the stop event is over.
StopSeen ==
  /\ thread \in {"starting", "up"}
  /\ stopEvent
  /\ thread' = "stopping"
  /\ UNCHANGED <<ui, seenLoop, quitting, window, queue, shared, asyncio>>

\* stop_servers() has returned and asyncio.run() closes the loop.
LoopCloses ==
  /\ thread = "stopping"
  /\ thread' = "closed"
  /\ pending' = FALSE
  /\ UNCHANGED <<ui, seenLoop, quitting, window, queue, shared, stopEvent>>

\* Mutant: the reference to the closed loop is kept.
ClearLoopNot ==
  /\ thread = "closed"
  /\ thread' = "loop cleared"
  /\ UNCHANGED <<ui, seenLoop, quitting, window, queue, shared, asyncio>>

ClearLoop ==
  /\ thread = "closed"
  /\ thread' = "loop cleared"
  /\ loop' = FALSE
  /\ UNCHANGED <<ui, seenLoop, quitting, window, queue, event, stopRequested, asyncio>>

ClearEvent ==
  /\ thread = "loop cleared"
  /\ thread' = "cleared"
  /\ event' = FALSE
  /\ UNCHANGED <<ui, seenLoop, quitting, window, queue, loop, stopRequested, asyncio>>

\* Mutant: only a bridge that ends unasked says so.
EmitStoppedIfUnasked ==
  /\ thread = "cleared"
  /\ thread' = "emitted"
  /\ queue' = IF stopRequested THEN queue ELSE Append(queue, "stopped")
  /\ UNCHANGED <<ui, seenLoop, quitting, window, shared, asyncio>>

EmitStopped ==
  /\ thread = "cleared"
  /\ thread' = "emitted"
  /\ queue' = Append(queue, "stopped")
  /\ UNCHANGED <<ui, seenLoop, quitting, window, shared, asyncio>>

ThreadDies ==
  /\ thread = "emitted"
  /\ thread' = "none"
  /\ UNCHANGED <<ui, seenLoop, quitting, window, queue, shared, asyncio>>

----------------------------------------------------------------------------
User == ClickStart \/ ClickStop \/ Quit

Qt == ReadLoop \/ ReadEvent \/ CallSoon \/ JoinEnds \/ HandleSignal

Startup == StartupSucceeds \/ StartupFails

BridgeThread == \/ Crash \/ PublishLoop \/ PublishEvent \/ CheckRequested \/ StopSeen
                \/ LoopCloses \/ ClearLoop \/ ClearEvent \/ EmitStopped \/ ThreadDies

\* The bridge is a daemon thread: it goes with the process when shutdown() is over.
Next == \/ User \/ Qt \/ JoinTimesOut
        \/ ui # "quit" /\ (BridgeThread \/ Startup \/ LoopRunsCallback)

Spec == Init /\ [][Next]_vars

\* Both threads run, and stop_servers() ends.  Nothing makes the user click, and a
\* startup may take forever unless it is told to stop.
FairSpec == /\ Spec
            /\ WF_vars(Qt)
            /\ WF_vars(ui # "quit" /\ BridgeThread)
            /\ WF_vars(ui # "quit" /\ LoopRunsCallback)

----------------------------------------------------------------------------
(* What must hold                                                          *)

\* A stop() that has returned is known to the run it was meant for, however far
\* that run had come: the event is set or will be by the loop's next iteration.
StopNeverLost ==
  ui \in {"idle", "join"} /\ stopRequested /\ thread \in {"starting", "up"} =>
    pending \/ stopEvent

\* While the bridge of the current run has still to come up (from its thread's first
\* step to the end of run_startup()), and once it has said that it is gone, the button
\* says Stop only until a `stopped` that is waiting is handled: a `started` of an earlier
\* run that is handled late does not make the new one look up.
Announced(s) == \E i \in 1 .. Len(queue) : queue[i] = s

NotUp == {"none", "spawned", "loop set", "event set", "starting", "emitted"}

StopTextMeansRunning ==
  text = "Stop" /\ thread \in NotUp => Announced("stopped")

\* When a run is over and its signals are handled the rows can be edited, whether
\* it was stopped, failed or crashed.
RowsUnlockedWhenOver ==
  thread = "none" /\ queue = <<>> => editing /\ text = "Start"

\* (docs/architecture.md: "the rows are locked while the bridge runs".)
RowsLockedWhileUp == thread = "up" /\ queue = <<>> /\ ui = "idle" => ~editing

\* Clicking Stop, or quitting, ends the bridge, even one that never comes up.
StopEnds == stopRequested /\ IsRunning ~> ~IsRunning \/ ui = "quit"

\* The button a click has disabled comes back if a signal is still to come: one waits to
\* be handled, or startup is over and the thread has not emitted its last.  Without one it
\* need not: a startup may take forever, and a Start clicked when the last `stopped` has
\* been handled but the thread still lives (thread = "emitted") is taken for a stop and
\* leaves the button disabled for good.
SignalToCome == queue # <<>> \/ thread \notin NotUp

ButtonComesBack == ~enabled /\ SignalToCome ~> enabled \/ quitting

----------------------------------------------------------------------------
(* The inductive invariant                                                 *)

\* What the bridge thread has published, and not yet taken back.
SharedInv ==
  /\ loop <=> LoopOpen \/ thread = "closed"
  /\ event <=> thread \in {"event set", "starting", "up", "stopping", "closed",
                           "loop cleared"}

\* A request that the event does not know of yet is on its way: stop() has still
\* to look at the loop, or has found it.
RequestInv ==
  stopRequested /\ thread \in {"starting", "up"} =>
    pending \/ stopEvent \/ ui \in {"read loop", "call"} \/ (ui = "read event" /\ seenLoop)

\* The last signal of a run is `stopped`, handling it resets the window, and the next run
\* emits nothing before it is up.
SignalInv ==
  /\ thread \in NotUp =>
       IF queue = <<>> THEN text = "Start" ELSE queue[Len(queue)] = "stopped"
  /\ thread \in {"none", "emitted"} /\ queue = <<>> => editing

Inv == TypeOK /\ SharedInv /\ RequestInv /\ SignalInv

=============================================================================
