----------------------------- MODULE ManagedTool -----------------------------
(***************************************************************************)
(* What start(), stop() and is_running of DebugProbeServer                 *)
(* (src/portbridge/probe_server.py) promise the program that calls them:   *)
(* the tool runs only between a start() that has begun and the end of the  *)
(* start() that fails or of the stop(), cancelled or not; and is_running   *)
(* becomes true when start() returns, then only ever false.  The owner     *)
(* calls start() once, and stop() once if start() has returned.            *)
(* ProbeServer implements it; Lifecycle is composed of servers that keep   *)
(* to it.                                                                  *)
(***************************************************************************)
VARIABLES call,      \* how far the owner has come
          child,     \* the tool is running, and has not been sent SIGKILL
          isRunning  \* what is_running says

vars == <<call, child, isRunning>>

\* start() has not been called, or only just.
Init == call \in {"new", "starting"} /\ child = FALSE /\ isRunning = FALSE

\* start() fails at once, or goes on.
Begin == /\ call = "new"
         /\ call' \in {"starting", "failed"}
         /\ UNCHANGED <<child, isRunning>>

Launch == /\ call = "starting"
          /\ child' = TRUE
          /\ UNCHANGED <<call, isRunning>>

Return == /\ call = "starting"
          /\ call' = "up"
          /\ isRunning' = TRUE
          /\ UNCHANGED child

Fail == /\ call = "starting"
        /\ call' = "failed"
        /\ child' = FALSE
        /\ UNCHANGED isRunning

\* The tool has exited or is killed, and at some time the exit is noticed.
Gone == /\ child' \in {child, FALSE}
        /\ isRunning' \in {isRunning, FALSE}
        /\ UNCHANGED call

Stop == /\ call = "up"
        /\ call' = "stopping"
        /\ child' \in {child, FALSE}
        /\ UNCHANGED isRunning

Stopped == /\ call = "stopping"
           /\ call' = "down"
           /\ child' = FALSE
           /\ isRunning' = FALSE

Next == Begin \/ Launch \/ Return \/ Fail \/ Gone \/ Stop \/ Stopped

Spec == Init /\ [][Next]_vars
=============================================================================
