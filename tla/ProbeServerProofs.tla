-------------------------- MODULE ProbeServerProofs --------------------------
(***************************************************************************)
(* What TLAPS proves of ProbeServer, with or without a verifier and a      *)
(* telnet port and for any number of cancellations: Inv is inductive, so   *)
(* nothing outlives start() and stop(), everything that runs is registered *)
(* with process_guard, and the server implements ManagedTool.              *)
(***************************************************************************)
EXTENDS ProbeServer, TLAPS

USE ProbeAssumption
    DEF loop, events, tool, verifier, StartAwaits, TermAwaits, Ended, Processes

\* Nothing has been started.
LEMMA InitInv == Init => Inv
<1> SUFFICES ASSUME Init PROVE Inv
  OBVIOUS
<1>1. FlagsOK
  BY DEF Init, FlagsOK
<1>2. ValuesOK
  BY DEF Init, ValuesOK
<1>3. BeforeInv
  BY DEF Init, BeforeInv
<1>4. GuardInv
  BY DEF Init, GuardInv
<1>5. VerifierInv
  BY DEF Init, VerifierInv
<1>6. CallInv
  BY DEF Init, CallInv
<1> QED BY <1>1, <1>2, <1>3, <1>4, <1>5, <1>6 DEF Inv, TypeOK

\* The beginning of _terminate() keeps the types.
LEMMA Terminating ==
  ASSUME ValuesOK, Terminate
  PROVE  /\ pc' \in TermAwaits
         /\ leader' \in Processes /\ helper' \in Processes \union {"away"}
         /\ live' \in SUBSET {"tool", "verifier"}
         /\ UNCHANGED <<pump, thread, checker, hook>>
<1>1. CASE reaped
  <2>1. CASE guard
    BY <1>1, <2>1 DEF Terminate, ReleaseGuard, Swept, Sigkill, ValuesOK
  <2>2. CASE ~guard
    BY <1>1, <2>2 DEF Terminate, ReleaseGuard, Swept, Sigkill, ValuesOK
  <2> QED BY <2>1, <2>2
<1>2. CASE ~reaped
  BY <1>2 DEF Terminate, ValuesOK
<1> QED BY <1>1, <1>2

\* start() and stop() preserve the invariant.
LEMMA CallStep ==
  ASSUME Inv, Call
  PROVE  Inv'
<1> USE DEF Inv, TypeOK
<1>1. CASE Start
  <2>1. FlagsOK'
    BY <1>1 DEF Start, Quiet, FlagsOK
  <2>2. ValuesOK'
    BY <1>1 DEF Start, Quiet, ValuesOK
  <2>3. BeforeInv'
    BY <1>1 DEF Start, Quiet, BeforeInv
  <2>4. GuardInv'
    BY <1>1 DEF Start, Quiet, FlagsOK, ValuesOK, BeforeInv, GuardInv, CallInv
  <2>5. VerifierInv'
    BY <1>1 DEF Start, Quiet, VerifierInv
  <2>6. CallInv'
    BY <1>1 DEF Start, Quiet, CallInv
  <2> QED BY <2>1, <2>2, <2>3, <2>4, <2>5, <2>6
<1>2. CASE PortInUse
  <2>1. FlagsOK'
    BY <1>2 DEF PortInUse, Quiet, FlagsOK
  <2>2. ValuesOK'
    BY <1>2 DEF PortInUse, Quiet, ValuesOK
  <2>3. BeforeInv'
    BY <1>2 DEF PortInUse, Quiet, BeforeInv
  <2>4. GuardInv'
    BY <1>2 DEF PortInUse, Quiet, FlagsOK, ValuesOK, BeforeInv, GuardInv, CallInv
  <2>5. VerifierInv'
    BY <1>2 DEF PortInUse, Quiet, VerifierInv
  <2>6. CallInv'
    BY <1>2 DEF PortInUse, Quiet, CallInv
  <2> QED BY <2>1, <2>2, <2>3, <2>4, <2>5, <2>6
<1>3. CASE PortsFree
  <2>1. FlagsOK'
    BY <1>3 DEF PortsFree, Launch, Quiet, FlagsOK
  <2>2. ValuesOK'
    BY <1>3 DEF PortsFree, Launch, Quiet, ValuesOK
  <2>3. BeforeInv'
    BY <1>3 DEF PortsFree, Launch, Quiet, BeforeInv
  <2>4. GuardInv'
    BY <1>3 DEF PortsFree, Launch, Quiet, FlagsOK, ValuesOK, BeforeInv, GuardInv, CallInv
  <2>5. VerifierInv'
    BY <1>3 DEF PortsFree, Launch, Quiet, FlagsOK, ValuesOK, BeforeInv, GuardInv,
       VerifierInv, CallInv
  <2>6. CallInv'
    BY <1>3 DEF PortsFree, Launch, Quiet, CallInv
  <2> QED BY <2>1, <2>2, <2>3, <2>4, <2>5, <2>6
<1>4. CASE Verified
  <2>1. FlagsOK'
    BY <1>4 DEF Verified, Launch, Quiet, FlagsOK
  <2>2. ValuesOK'
    BY <1>4 DEF Verified, Launch, Quiet, ValuesOK
  <2>3. BeforeInv'
    BY <1>4 DEF Verified, Launch, Quiet, BeforeInv
  <2>4. GuardInv'
    BY <1>4 DEF Verified, Launch, Quiet, FlagsOK, ValuesOK, BeforeInv, GuardInv, CallInv
  <2>5. VerifierInv'
    BY <1>4 DEF Verified, Launch, Quiet, VerifierInv
  <2>6. CallInv'
    BY <1>4 DEF Verified, Launch, Quiet, CallInv
  <2> QED BY <2>1, <2>2, <2>3, <2>4, <2>5, <2>6
<1>5. CASE Refused
  <2>1. FlagsOK'
    BY <1>5 DEF Refused, Quiet, FlagsOK
  <2>2. ValuesOK'
    BY <1>5 DEF Refused, Quiet, ValuesOK
  <2>3. BeforeInv'
    BY <1>5 DEF Refused, Quiet, BeforeInv
  <2>4. GuardInv'
    BY <1>5 DEF Refused, Quiet, FlagsOK, ValuesOK, BeforeInv, GuardInv, CallInv
  <2>5. VerifierInv'
    BY <1>5 DEF Refused, Quiet, VerifierInv
  <2>6. CallInv'
    BY <1>5 DEF Refused, Quiet, CallInv
  <2> QED BY <2>1, <2>2, <2>3, <2>4, <2>5, <2>6
<1>6. CASE Connected
  <2>1. FlagsOK'
    BY <1>6 DEF Connected, FlagsOK
  <2>2. ValuesOK'
    BY <1>6 DEF Connected, ValuesOK
  <2>3. BeforeInv'
    BY <1>6 DEF Connected, BeforeInv
  <2>4. GuardInv'
    BY <1>6 DEF Connected, FlagsOK, ValuesOK, BeforeInv, GuardInv, CallInv
  <2>5. VerifierInv'
    BY <1>6 DEF Connected, VerifierInv
  <2>6. CallInv'
    BY <1>6 DEF Connected, CallInv
  <2> QED BY <2>1, <2>2, <2>3, <2>4, <2>5, <2>6
<1>7. CASE Closed
  <2>1. FlagsOK'
    BY <1>7 DEF Closed, Quiet, FlagsOK
  <2>2. ValuesOK'
    BY <1>7 DEF Closed, Quiet, ValuesOK
  <2>3. BeforeInv'
    BY <1>7 DEF Closed, Quiet, BeforeInv
  <2>4. GuardInv'
    BY <1>7 DEF Closed, Quiet, FlagsOK, ValuesOK, BeforeInv, GuardInv, CallInv
  <2>5. VerifierInv'
    BY <1>7 DEF Closed, Quiet, VerifierInv
  <2>6. CallInv'
    BY <1>7 DEF Closed, Quiet, CallInv
  <2> QED BY <2>1, <2>2, <2>3, <2>4, <2>5, <2>6
<1>8. CASE Signalled
  <2>1. FlagsOK'
    BY <1>8 DEF Signalled, Quiet, FlagsOK
  <2>2. ValuesOK'
    BY <1>8 DEF Signalled, Quiet, ValuesOK
  <2>3. BeforeInv'
    BY <1>8 DEF Signalled, Quiet, BeforeInv
  <2>4. GuardInv'
    BY <1>8 DEF Signalled, Quiet, GuardInv
  <2>5. VerifierInv'
    BY <1>8 DEF Signalled, Quiet, VerifierInv
  <2>6. CallInv'
    BY <1>8 DEF Signalled, Quiet, CallInv
  <2> QED BY <2>1, <2>2, <2>3, <2>4, <2>5, <2>6
<1>9. CASE StartupTimeout
  <2>1. FlagsOK'
    BY <1>9 DEF StartupTimeout, Quiet, FlagsOK
  <2>2. ValuesOK'
    BY <1>9 DEF StartupTimeout, Quiet, ValuesOK
  <2>3. BeforeInv'
    BY <1>9 DEF StartupTimeout, Quiet, BeforeInv
  <2>4. GuardInv'
    BY <1>9 DEF StartupTimeout, Quiet, GuardInv
  <2>5. VerifierInv'
    BY <1>9 DEF StartupTimeout, Quiet, VerifierInv
  <2>6. CallInv'
    BY <1>9 DEF StartupTimeout, Quiet, CallInv
  <2> QED BY <2>1, <2>2, <2>3, <2>4, <2>5, <2>6
<1>10. CASE SettledExited
  <2>1. FlagsOK'
    BY <1>10 DEF SettledExited, Quiet, FlagsOK
  <2>2. ValuesOK'
    BY <1>10 DEF SettledExited, Quiet, ValuesOK
  <2>3. BeforeInv'
    BY <1>10 DEF SettledExited, Quiet, BeforeInv
  <2>4. GuardInv'
    BY <1>10 DEF SettledExited, Quiet, GuardInv
  <2>5. VerifierInv'
    BY <1>10 DEF SettledExited, Quiet, VerifierInv
  <2>6. CallInv'
    BY <1>10 DEF SettledExited, Quiet, CallInv
  <2> QED BY <2>1, <2>2, <2>3, <2>4, <2>5, <2>6
<1>11. CASE SettledTimeout
  <2>1. FlagsOK'
    BY <1>11 DEF SettledTimeout, Terminate, ReleaseGuard, Swept, Sigkill, FlagsOK
  <2>2. ValuesOK'
    BY <1>11, Terminating DEF SettledTimeout, ValuesOK
  <2>3. BeforeInv'
    BY <1>11 DEF SettledTimeout, Terminate, ReleaseGuard, Swept, Sigkill, BeforeInv
  <2>4. GuardInv'
    BY <1>11 DEF SettledTimeout, Terminate, ReleaseGuard, Swept, Sigkill, GuardInv
  <2>5. VerifierInv'
    BY <1>11 DEF SettledTimeout, Terminate, ReleaseGuard, Swept, Sigkill, VerifierInv
  <2>6. CallInv'
    BY <1>11 DEF SettledTimeout, Terminate, ReleaseGuard, Swept, Sigkill, CallInv
  <2> QED BY <2>1, <2>2, <2>3, <2>4, <2>5, <2>6
<1>12. CASE Settled
  <2>1. FlagsOK'
    BY <1>12 DEF Settled, Quiet, FlagsOK
  <2>2. ValuesOK'
    BY <1>12 DEF Settled, Quiet, ValuesOK
  <2>3. BeforeInv'
    BY <1>12 DEF Settled, Quiet, BeforeInv
  <2>4. GuardInv'
    BY <1>12 DEF Settled, Quiet, GuardInv
  <2>5. VerifierInv'
    BY <1>12 DEF Settled, Quiet, VerifierInv
  <2>6. CallInv'
    BY <1>12 DEF Settled, Quiet, CallInv
  <2> QED BY <2>1, <2>2, <2>3, <2>4, <2>5, <2>6
<1>13. CASE Collected
  <2>1. FlagsOK'
    BY <1>13 DEF Collected, Leave, Quiet, FlagsOK
  <2>2. ValuesOK'
    BY <1>13 DEF Collected, Leave, Quiet, ValuesOK
  <2>3. BeforeInv'
    BY <1>13 DEF Collected, Leave, Quiet, BeforeInv
  <2>4. GuardInv'
    BY <1>13 DEF Collected, Leave, Quiet, GuardInv
  <2>5. VerifierInv'
    BY <1>13 DEF Collected, Leave, Quiet, VerifierInv
  <2>6. CallInv'
    BY <1>13 DEF Collected, Leave, Quiet, CallInv
  <2> QED BY <2>1, <2>2, <2>3, <2>4, <2>5, <2>6
<1>14. CASE ForceKill
  <2>1. FlagsOK'
    BY <1>14 DEF ForceKill, KillTool, Swept, Sigkill, FlagsOK
  <2>2. ValuesOK'
    BY <1>14 DEF ForceKill, KillTool, Swept, Sigkill, ValuesOK
  <2>3. BeforeInv'
    BY <1>14 DEF ForceKill, KillTool, Swept, Sigkill, BeforeInv
  <2>4. GuardInv'
    BY <1>14 DEF ForceKill, KillTool, Swept, Sigkill, GuardInv
  <2>5. VerifierInv'
    BY <1>14 DEF ForceKill, KillTool, Swept, Sigkill, VerifierInv
  <2>6. CallInv'
    BY <1>14 DEF ForceKill, KillTool, Swept, Sigkill, CallInv
  <2> QED BY <2>1, <2>2, <2>3, <2>4, <2>5, <2>6
<1>15. CASE WaitEnds
  <2>1. FlagsOK'
    BY <1>15 DEF WaitEnds, SweepGroup, Swept, Sigkill, FlagsOK
  <2>2. ValuesOK'
    BY <1>15 DEF WaitEnds, SweepGroup, Swept, Sigkill, ValuesOK
  <2>3. BeforeInv'
    BY <1>15 DEF WaitEnds, SweepGroup, Swept, Sigkill, BeforeInv
  <2>4. GuardInv'
    BY <1>15 DEF WaitEnds, SweepGroup, Swept, Sigkill, GuardInv
  <2>5. VerifierInv'
    BY <1>15 DEF WaitEnds, SweepGroup, Swept, Sigkill, VerifierInv
  <2>6. CallInv'
    BY <1>15 DEF WaitEnds, SweepGroup, Swept, Sigkill, CallInv
  <2> QED BY <2>1, <2>2, <2>3, <2>4, <2>5, <2>6
<1>16. CASE PumpFinished
  <2>1. FlagsOK'
    BY <1>16 DEF PumpFinished, Leave, Quiet, FlagsOK
  <2>2. ValuesOK'
    BY <1>16 DEF PumpFinished, Leave, Quiet, ValuesOK
  <2>3. BeforeInv'
    BY <1>16 DEF PumpFinished, Leave, Quiet, BeforeInv
  <2>4. GuardInv'
    BY <1>16 DEF PumpFinished, Leave, Quiet, GuardInv
  <2>5. VerifierInv'
    BY <1>16 DEF PumpFinished, Leave, Quiet, VerifierInv
  <2>6. CallInv'
    BY <1>16 DEF PumpFinished, Leave, Quiet, CallInv
  <2> QED BY <2>1, <2>2, <2>3, <2>4, <2>5, <2>6
<1>17. CASE PumpCancelled
  <2>1. FlagsOK'
    BY <1>17 DEF PumpCancelled, ReleaseGuard, Swept, Sigkill, Leave, FlagsOK
  <2>2. ValuesOK'
    BY <1>17 DEF PumpCancelled, ReleaseGuard, Swept, Sigkill, Leave, ValuesOK
  <2>3. BeforeInv'
    BY <1>17 DEF PumpCancelled, ReleaseGuard, Swept, Sigkill, Leave, BeforeInv
  <2>4. GuardInv'
    BY <1>17 DEF PumpCancelled, ReleaseGuard, Swept, Sigkill, Leave, FlagsOK, ValuesOK,
       BeforeInv, GuardInv, CallInv
  <2>5. VerifierInv'
    BY <1>17 DEF PumpCancelled, ReleaseGuard, Swept, Sigkill, Leave, VerifierInv
  <2>6. CallInv'
    BY <1>17 DEF PumpCancelled, ReleaseGuard, Swept, Sigkill, Leave, CallInv
  <2> QED BY <2>1, <2>2, <2>3, <2>4, <2>5, <2>6
<1> QED BY <1>1, <1>2, <1>3, <1>4, <1>5, <1>6, <1>7, <1>8, <1>9, <1>10, <1>11, <1>12, <1>13,
   <1>14, <1>15, <1>16, <1>17 DEF Call

\* So does the cancellation of the task that awaits them.
LEMMA CancelStep ==
  ASSUME Inv, Cancel
  PROVE  Inv'
<1> USE DEF Inv, TypeOK
<1>1. CASE CancelPlain
  <2>1. FlagsOK'
    BY <1>1 DEF CancelPlain, Cancelled, Leave, FlagsOK
  <2>2. ValuesOK'
    BY <1>1 DEF CancelPlain, Cancelled, Leave, ValuesOK
  <2>3. BeforeInv'
    BY <1>1 DEF CancelPlain, Cancelled, Leave, FlagsOK, ValuesOK, BeforeInv, GuardInv,
       CallInv
  <2>4. GuardInv'
    BY <1>1 DEF CancelPlain, Cancelled, Leave, FlagsOK, ValuesOK, BeforeInv, GuardInv,
       CallInv
  <2>5. VerifierInv'
    BY <1>1 DEF CancelPlain, Cancelled, Leave, VerifierInv
  <2>6. CallInv'
    BY <1>1 DEF CancelPlain, Cancelled, Leave, CallInv
  <2> QED BY <2>1, <2>2, <2>3, <2>4, <2>5, <2>6
<1>2. CASE CancelVerifying
  <2>1. FlagsOK'
    BY <1>2 DEF CancelVerifying, Cancelled, KillGuards, KillGroup, Sigkill, FlagsOK
  <2>2. ValuesOK'
    BY <1>2 DEF CancelVerifying, Cancelled, KillGuards, KillGroup, Sigkill, ValuesOK
  <2>3. BeforeInv'
    BY <1>2 DEF CancelVerifying, Cancelled, KillGuards, KillGroup, Sigkill, BeforeInv
  <2>4. GuardInv'
    BY <1>2 DEF CancelVerifying, Cancelled, KillGuards, KillGroup, Sigkill, FlagsOK,
       ValuesOK, BeforeInv, GuardInv, CallInv
  <2>5. VerifierInv'
    BY <1>2 DEF CancelVerifying, Cancelled, KillGuards, KillGroup, Sigkill, VerifierInv
  <2>6. CallInv'
    BY <1>2 DEF CancelVerifying, Cancelled, KillGuards, KillGroup, Sigkill, CallInv
  <2> QED BY <2>1, <2>2, <2>3, <2>4, <2>5, <2>6
<1>3. CASE CancelConnecting
  <2>1. FlagsOK'
    BY <1>3 DEF CancelConnecting, Cancelled, Sigkill, FlagsOK
  <2>2. ValuesOK'
    BY <1>3 DEF CancelConnecting, Cancelled, Sigkill, ValuesOK
  <2>3. BeforeInv'
    BY <1>3 DEF CancelConnecting, Cancelled, Sigkill, BeforeInv
  <2>4. GuardInv'
    BY <1>3 DEF CancelConnecting, Cancelled, Sigkill, GuardInv
  <2>5. VerifierInv'
    BY <1>3 DEF CancelConnecting, Cancelled, Sigkill, VerifierInv
  <2>6. CallInv'
    BY <1>3 DEF CancelConnecting, Cancelled, Sigkill, CallInv
  <2> QED BY <2>1, <2>2, <2>3, <2>4, <2>5, <2>6
<1>4. CASE CancelWaiting
  <2>1. FlagsOK'
    BY <1>4 DEF CancelWaiting, Cancelled, Terminate, ReleaseGuard, Swept, Sigkill, FlagsOK
  <2>2. ValuesOK'
    BY <1>4, Terminating DEF CancelWaiting, Cancelled, ValuesOK
  <2>3. BeforeInv'
    BY <1>4 DEF CancelWaiting, Cancelled, Terminate, ReleaseGuard, Swept, Sigkill, BeforeInv
  <2>4. GuardInv'
    BY <1>4 DEF CancelWaiting, Cancelled, Terminate, ReleaseGuard, Swept, Sigkill, GuardInv
  <2>5. VerifierInv'
    BY <1>4 DEF CancelWaiting, Cancelled, Terminate, ReleaseGuard, Swept, Sigkill,
       VerifierInv
  <2>6. CallInv'
    BY <1>4 DEF CancelWaiting, Cancelled, Terminate, ReleaseGuard, Swept, Sigkill, CallInv
  <2> QED BY <2>1, <2>2, <2>3, <2>4, <2>5, <2>6
<1>5. CASE CancelTerminate
  <2>1. FlagsOK'
    BY <1>5 DEF CancelTerminate, Cancelled, SweepGroup, Swept, Sigkill, Leave, FlagsOK
  <2>2. ValuesOK'
    BY <1>5 DEF CancelTerminate, Cancelled, SweepGroup, Swept, Sigkill, Leave, ValuesOK
  <2>3. BeforeInv'
    BY <1>5 DEF CancelTerminate, Cancelled, SweepGroup, Swept, Sigkill, Leave, BeforeInv
  <2>4. GuardInv'
    BY <1>5 DEF CancelTerminate, Cancelled, SweepGroup, Swept, Sigkill, Leave, GuardInv
  <2>5. VerifierInv'
    BY <1>5 DEF CancelTerminate, Cancelled, SweepGroup, Swept, Sigkill, Leave, VerifierInv
  <2>6. CallInv'
    BY <1>5 DEF CancelTerminate, Cancelled, SweepGroup, Swept, Sigkill, Leave, CallInv
  <2> QED BY <2>1, <2>2, <2>3, <2>4, <2>5, <2>6
<1> QED BY <1>1, <1>2, <1>3, <1>4, <1>5 DEF Cancel

\* So does the verifier's thread.
LEMMA RunTrackedStep ==
  ASSUME Inv, RunTracked
  PROVE  Inv'
<1> USE DEF Inv, TypeOK
<1>1. CASE ThreadStarts
  <2>1. FlagsOK'
    BY <1>1 DEF ThreadStarts, ThreadOnly, FlagsOK
  <2>2. ValuesOK'
    BY <1>1 DEF ThreadStarts, ThreadOnly, ValuesOK
  <2>3. BeforeInv'
    BY <1>1 DEF ThreadStarts, ThreadOnly, BeforeInv
  <2>4. GuardInv'
    BY <1>1 DEF ThreadStarts, ThreadOnly, GuardInv
  <2>5. VerifierInv'
    BY <1>1 DEF ThreadStarts, ThreadOnly, VerifierInv
  <2>6. CallInv'
    BY <1>1 DEF ThreadStarts, ThreadOnly, CallInv
  <2> QED BY <2>1, <2>2, <2>3, <2>4, <2>5, <2>6
<1>2. CASE Popen
  <2>1. FlagsOK'
    BY <1>2 DEF Popen, ThreadOnly, FlagsOK
  <2>2. ValuesOK'
    BY <1>2 DEF Popen, ThreadOnly, ValuesOK
  <2>3. BeforeInv'
    BY <1>2 DEF Popen, ThreadOnly, BeforeInv
  <2>4. GuardInv'
    BY <1>2 DEF Popen, ThreadOnly, GuardInv
  <2>5. VerifierInv'
    BY <1>2 DEF Popen, ThreadOnly, VerifierInv
  <2>6. CallInv'
    BY <1>2 DEF Popen, ThreadOnly, CallInv
  <2> QED BY <2>1, <2>2, <2>3, <2>4, <2>5, <2>6
<1>3. CASE Adopt
  <2>1. FlagsOK'
    BY <1>3 DEF Adopt, ThreadOnly, FlagsOK
  <2>2. ValuesOK'
    BY <1>3 DEF Adopt, ThreadOnly, ValuesOK
  <2>3. BeforeInv'
    BY <1>3 DEF Adopt, ThreadOnly, BeforeInv
  <2>4. GuardInv'
    BY <1>3 DEF Adopt, ThreadOnly, GuardInv
  <2>5. VerifierInv'
    BY <1>3 DEF Adopt, ThreadOnly, VerifierInv
  <2>6. CallInv'
    BY <1>3 DEF Adopt, ThreadOnly, CallInv
  <2> QED BY <2>1, <2>2, <2>3, <2>4, <2>5, <2>6
<1>4. CASE Communicated
  <2>1. FlagsOK'
    BY <1>4 DEF Communicated, ThreadOnly, FlagsOK
  <2>2. ValuesOK'
    BY <1>4 DEF Communicated, ThreadOnly, ValuesOK
  <2>3. BeforeInv'
    BY <1>4 DEF Communicated, ThreadOnly, BeforeInv
  <2>4. GuardInv'
    BY <1>4 DEF Communicated, ThreadOnly, GuardInv
  <2>5. VerifierInv'
    BY <1>4 DEF Communicated, ThreadOnly, VerifierInv
  <2>6. CallInv'
    BY <1>4 DEF Communicated, ThreadOnly, CallInv
  <2> QED BY <2>1, <2>2, <2>3, <2>4, <2>5, <2>6
<1>5. CASE TimesOut
  <2>1. FlagsOK'
    BY <1>5 DEF TimesOut, ThreadOnly, Sigkill, FlagsOK
  <2>2. ValuesOK'
    BY <1>5 DEF TimesOut, ThreadOnly, Sigkill, ValuesOK
  <2>3. BeforeInv'
    BY <1>5 DEF TimesOut, ThreadOnly, Sigkill, BeforeInv
  <2>4. GuardInv'
    BY <1>5 DEF TimesOut, ThreadOnly, Sigkill, GuardInv
  <2>5. VerifierInv'
    BY <1>5 DEF TimesOut, ThreadOnly, Sigkill, VerifierInv
  <2>6. CallInv'
    BY <1>5 DEF TimesOut, ThreadOnly, Sigkill, CallInv
  <2> QED BY <2>1, <2>2, <2>3, <2>4, <2>5, <2>6
<1>6. CASE Cleaned
  <2>1. FlagsOK'
    BY <1>6 DEF Cleaned, ThreadOnly, FlagsOK
  <2>2. ValuesOK'
    BY <1>6 DEF Cleaned, ThreadOnly, ValuesOK
  <2>3. BeforeInv'
    BY <1>6 DEF Cleaned, ThreadOnly, BeforeInv
  <2>4. GuardInv'
    BY <1>6 DEF Cleaned, ThreadOnly, GuardInv
  <2>5. VerifierInv'
    BY <1>6 DEF Cleaned, ThreadOnly, VerifierInv
  <2>6. CallInv'
    BY <1>6 DEF Cleaned, ThreadOnly, CallInv
  <2> QED BY <2>1, <2>2, <2>3, <2>4, <2>5, <2>6
<1> QED BY <1>1, <1>2, <1>3, <1>4, <1>5, <1>6 DEF RunTracked

\* So do stop()'s beginning, the pump, the processes and whoever kills them from outside.
LEMMA OtherStep ==
  ASSUME Inv, Stop \/ Pump \/ PumpReady \/ Killed \/ Reaped \/ Outside
  PROVE  Inv'
<1> USE DEF Inv, TypeOK
<1>1. CASE Stop
  <2>1. FlagsOK'
    BY <1>1 DEF Stop, Terminate, ReleaseGuard, Swept, Sigkill, FlagsOK
  <2>2. ValuesOK'
    BY <1>1, Terminating DEF Stop, ValuesOK
  <2>3. BeforeInv'
    BY <1>1 DEF Stop, Terminate, ReleaseGuard, Swept, Sigkill, BeforeInv
  <2>4. GuardInv'
    BY <1>1 DEF Stop, Terminate, ReleaseGuard, Swept, Sigkill, GuardInv
  <2>5. VerifierInv'
    BY <1>1 DEF Stop, Terminate, ReleaseGuard, Swept, Sigkill, VerifierInv
  <2>6. CallInv'
    BY <1>1 DEF Stop, Terminate, ReleaseGuard, Swept, Sigkill, CallInv
  <2> QED BY <2>1, <2>2, <2>3, <2>4, <2>5, <2>6
<1>2. CASE PumpEof
  <2>1. FlagsOK'
    BY <1>2 DEF PumpEof, FlagsOK
  <2>2. ValuesOK'
    BY <1>2 DEF PumpEof, ValuesOK
  <2>3. BeforeInv'
    BY <1>2 DEF PumpEof, BeforeInv
  <2>4. GuardInv'
    BY <1>2 DEF PumpEof, GuardInv
  <2>5. VerifierInv'
    BY <1>2 DEF PumpEof, VerifierInv
  <2>6. CallInv'
    BY <1>2 DEF PumpEof, CallInv
  <2> QED BY <2>1, <2>2, <2>3, <2>4, <2>5, <2>6
<1>3. CASE PumpEnds
  <2>1. FlagsOK'
    BY <1>3 DEF PumpEnds, ReleaseGuard, Swept, Sigkill, FlagsOK
  <2>2. ValuesOK'
    BY <1>3 DEF PumpEnds, ReleaseGuard, Swept, Sigkill, ValuesOK
  <2>3. BeforeInv'
    BY <1>3 DEF PumpEnds, ReleaseGuard, Swept, Sigkill, BeforeInv
  <2>4. GuardInv'
    BY <1>3 DEF PumpEnds, ReleaseGuard, Swept, Sigkill, GuardInv
  <2>5. VerifierInv'
    BY <1>3 DEF PumpEnds, ReleaseGuard, Swept, Sigkill, VerifierInv
  <2>6. CallInv'
    BY <1>3 DEF PumpEnds, ReleaseGuard, Swept, Sigkill, CallInv
  <2> QED BY <2>1, <2>2, <2>3, <2>4, <2>5, <2>6
<1>4. CASE PumpReady
  <2>1. FlagsOK'
    BY <1>4 DEF PumpReady, FlagsOK
  <2>2. ValuesOK'
    BY <1>4 DEF PumpReady, ValuesOK
  <2>3. BeforeInv'
    BY <1>4 DEF PumpReady, BeforeInv
  <2>4. GuardInv'
    BY <1>4 DEF PumpReady, GuardInv
  <2>5. VerifierInv'
    BY <1>4 DEF PumpReady, VerifierInv
  <2>6. CallInv'
    BY <1>4 DEF PumpReady, CallInv
  <2> QED BY <2>1, <2>2, <2>3, <2>4, <2>5, <2>6
<1>5. CASE LeaderDies
  <2>1. FlagsOK'
    BY <1>5 DEF LeaderDies, ProcessOnly, FlagsOK
  <2>2. ValuesOK'
    BY <1>5 DEF LeaderDies, ProcessOnly, ValuesOK
  <2>3. BeforeInv'
    BY <1>5 DEF LeaderDies, ProcessOnly, BeforeInv
  <2>4. GuardInv'
    BY <1>5 DEF LeaderDies, ProcessOnly, GuardInv
  <2>5. VerifierInv'
    BY <1>5 DEF LeaderDies, ProcessOnly, VerifierInv
  <2>6. CallInv'
    BY <1>5 DEF LeaderDies, ProcessOnly, CallInv
  <2> QED BY <2>1, <2>2, <2>3, <2>4, <2>5, <2>6
<1>6. CASE HelperDies
  <2>1. FlagsOK'
    BY <1>6 DEF HelperDies, ProcessOnly, FlagsOK
  <2>2. ValuesOK'
    BY <1>6 DEF HelperDies, ProcessOnly, ValuesOK
  <2>3. BeforeInv'
    BY <1>6 DEF HelperDies, ProcessOnly, BeforeInv
  <2>4. GuardInv'
    BY <1>6 DEF HelperDies, ProcessOnly, GuardInv
  <2>5. VerifierInv'
    BY <1>6 DEF HelperDies, ProcessOnly, VerifierInv
  <2>6. CallInv'
    BY <1>6 DEF HelperDies, ProcessOnly, CallInv
  <2> QED BY <2>1, <2>2, <2>3, <2>4, <2>5, <2>6
<1>7. CASE CheckerDies
  <2>1. FlagsOK'
    BY <1>7 DEF CheckerDies, ProcessOnly, FlagsOK
  <2>2. ValuesOK'
    BY <1>7 DEF CheckerDies, ProcessOnly, ValuesOK
  <2>3. BeforeInv'
    BY <1>7 DEF CheckerDies, ProcessOnly, BeforeInv
  <2>4. GuardInv'
    BY <1>7 DEF CheckerDies, ProcessOnly, GuardInv
  <2>5. VerifierInv'
    BY <1>7 DEF CheckerDies, ProcessOnly, VerifierInv
  <2>6. CallInv'
    BY <1>7 DEF CheckerDies, ProcessOnly, CallInv
  <2> QED BY <2>1, <2>2, <2>3, <2>4, <2>5, <2>6
<1>8. CASE Reaped
  <2>1. FlagsOK'
    BY <1>8 DEF Reaped, ProcessOnly, FlagsOK
  <2>2. ValuesOK'
    BY <1>8 DEF Reaped, ProcessOnly, ValuesOK
  <2>3. BeforeInv'
    BY <1>8 DEF Reaped, ProcessOnly, BeforeInv
  <2>4. GuardInv'
    BY <1>8 DEF Reaped, ProcessOnly, GuardInv
  <2>5. VerifierInv'
    BY <1>8 DEF Reaped, ProcessOnly, VerifierInv
  <2>6. CallInv'
    BY <1>8 DEF Reaped, ProcessOnly, CallInv
  <2> QED BY <2>1, <2>2, <2>3, <2>4, <2>5, <2>6
<1>9. CASE KillAll
  <2>1. FlagsOK'
    BY <1>9 DEF KillAll, KillGuards, KillGroup, Sigkill, FlagsOK
  <2>2. ValuesOK'
    BY <1>9 DEF KillAll, KillGuards, KillGroup, Sigkill, ValuesOK
  <2>3. BeforeInv'
    BY <1>9 DEF KillAll, KillGuards, KillGroup, Sigkill, BeforeInv
  <2>4. GuardInv'
    BY <1>9 DEF KillAll, KillGuards, KillGroup, Sigkill, GuardInv
  <2>5. VerifierInv'
    BY <1>9 DEF KillAll, KillGuards, KillGroup, Sigkill, VerifierInv
  <2>6. CallInv'
    BY <1>9 DEF KillAll, KillGuards, KillGroup, Sigkill, CallInv
  <2> QED BY <2>1, <2>2, <2>3, <2>4, <2>5, <2>6
<1>10. CASE HookAsks
  <2>1. FlagsOK'
    BY <1>10 DEF HookAsks, FlagsOK
  <2>2. ValuesOK'
    BY <1>10 DEF HookAsks, ValuesOK
  <2>3. BeforeInv'
    BY <1>10 DEF HookAsks, BeforeInv
  <2>4. GuardInv'
    BY <1>10 DEF HookAsks, GuardInv
  <2>5. VerifierInv'
    BY <1>10 DEF HookAsks, VerifierInv
  <2>6. CallInv'
    BY <1>10 DEF HookAsks, CallInv
  <2> QED BY <2>1, <2>2, <2>3, <2>4, <2>5, <2>6
<1>11. CASE HookKills
  <2>1. FlagsOK'
    BY <1>11 DEF HookKills, KillGroup, Sigkill, FlagsOK
  <2>2. ValuesOK'
    BY <1>11 DEF HookKills, KillGroup, Sigkill, ValuesOK
  <2>3. BeforeInv'
    BY <1>11 DEF HookKills, KillGroup, Sigkill, BeforeInv
  <2>4. GuardInv'
    BY <1>11 DEF HookKills, KillGroup, Sigkill, GuardInv
  <2>5. VerifierInv'
    BY <1>11 DEF HookKills, KillGroup, Sigkill, VerifierInv
  <2>6. CallInv'
    BY <1>11 DEF HookKills, KillGroup, Sigkill, CallInv
  <2> QED BY <2>1, <2>2, <2>3, <2>4, <2>5, <2>6
<1>12. CASE LeaderExits
  <2>1. FlagsOK'
    BY <1>12 DEF LeaderExits, ProcessOnly, FlagsOK
  <2>2. ValuesOK'
    BY <1>12 DEF LeaderExits, ProcessOnly, ValuesOK
  <2>3. BeforeInv'
    BY <1>12 DEF LeaderExits, ProcessOnly, BeforeInv
  <2>4. GuardInv'
    BY <1>12 DEF LeaderExits, ProcessOnly, GuardInv
  <2>5. VerifierInv'
    BY <1>12 DEF LeaderExits, ProcessOnly, VerifierInv
  <2>6. CallInv'
    BY <1>12 DEF LeaderExits, ProcessOnly, CallInv
  <2> QED BY <2>1, <2>2, <2>3, <2>4, <2>5, <2>6
<1>13. CASE HelperStarts
  <2>1. FlagsOK'
    BY <1>13 DEF HelperStarts, ProcessOnly, FlagsOK
  <2>2. ValuesOK'
    BY <1>13 DEF HelperStarts, ProcessOnly, ValuesOK
  <2>3. BeforeInv'
    BY <1>13 DEF HelperStarts, ProcessOnly, BeforeInv
  <2>4. GuardInv'
    BY <1>13 DEF HelperStarts, ProcessOnly, GuardInv
  <2>5. VerifierInv'
    BY <1>13 DEF HelperStarts, ProcessOnly, VerifierInv
  <2>6. CallInv'
    BY <1>13 DEF HelperStarts, ProcessOnly, CallInv
  <2> QED BY <2>1, <2>2, <2>3, <2>4, <2>5, <2>6
<1>14. CASE HelperExits
  <2>1. FlagsOK'
    BY <1>14 DEF HelperExits, ProcessOnly, FlagsOK
  <2>2. ValuesOK'
    BY <1>14 DEF HelperExits, ProcessOnly, ValuesOK
  <2>3. BeforeInv'
    BY <1>14 DEF HelperExits, ProcessOnly, BeforeInv
  <2>4. GuardInv'
    BY <1>14 DEF HelperExits, ProcessOnly, GuardInv
  <2>5. VerifierInv'
    BY <1>14 DEF HelperExits, ProcessOnly, VerifierInv
  <2>6. CallInv'
    BY <1>14 DEF HelperExits, ProcessOnly, CallInv
  <2> QED BY <2>1, <2>2, <2>3, <2>4, <2>5, <2>6
<1>15. CASE CheckerExits
  <2>1. FlagsOK'
    BY <1>15 DEF CheckerExits, ProcessOnly, FlagsOK
  <2>2. ValuesOK'
    BY <1>15 DEF CheckerExits, ProcessOnly, ValuesOK
  <2>3. BeforeInv'
    BY <1>15 DEF CheckerExits, ProcessOnly, BeforeInv
  <2>4. GuardInv'
    BY <1>15 DEF CheckerExits, ProcessOnly, GuardInv
  <2>5. VerifierInv'
    BY <1>15 DEF CheckerExits, ProcessOnly, VerifierInv
  <2>6. CallInv'
    BY <1>15 DEF CheckerExits, ProcessOnly, CallInv
  <2> QED BY <2>1, <2>2, <2>3, <2>4, <2>5, <2>6
<1> QED BY <1>1, <1>2, <1>3, <1>4, <1>5, <1>6, <1>7, <1>8, <1>9, <1>10, <1>11, <1>12, <1>13,
   <1>14, <1>15 DEF Pump, Killed, Outside

\* Every step preserves the invariant.
THEOREM Invariance == Spec => []Inv
<1>1. Init => Inv
  BY InitInv
<1>2. Inv /\ [Next]_vars => Inv'
  <2> SUFFICES ASSUME Inv, [Next]_vars PROVE Inv'
    OBVIOUS
  <2>1. CASE UNCHANGED vars
    BY <2>1 DEF vars, Inv, TypeOK, FlagsOK, ValuesOK, BeforeInv, GuardInv, VerifierInv, CallInv
  <2>2. CASE Call
    BY <2>2, CallStep
  <2>3. CASE Cancel
    BY <2>3, CancelStep
  <2>4. CASE RunTracked
    BY <2>4, RunTrackedStep
  <2>5. CASE Stop \/ Pump \/ PumpReady \/ Killed \/ Reaped \/ Outside
    BY <2>5, OtherStep
  <2> QED BY <2>1, <2>2, <2>3, <2>4, <2>5 DEF Next
<1> QED BY <1>1, <1>2, PTL DEF Spec

\* The variables of ProbeServer keep their types.
THEOREM TypeCorrect == Spec => []TypeOK
<1>1. Inv => TypeOK
  BY DEF Inv
<1> QED BY <1>1, Invariance, PTL

\* No tool, and no helper in the group of a tool that start() was handed, outlives the
\* start() that fails or the stop() that ends, whatever is cancelled.
THEOREM NothingIsLeft == Spec => []NothingLeft
<1>1. Inv => NothingLeft
  BY DEF Inv, TypeOK, FlagsOK, ValuesOK, BeforeInv, GuardInv, NothingLeft
<1> QED BY <1>1, Invariance, PTL

\* kill_all() and the exit hook reach whatever runs: the tool's group from the moment
\* start() is handed the tool, the verifier from its adoption.
THEOREM RunningIsRegistered == Spec => []Registered
<1>1. Inv => Registered
  BY DEF Inv, TypeOK, FlagsOK, ValuesOK, GuardInv, VerifierInv, Registered
<1> QED BY <1>1, Invariance, PTL

----------------------------------------------------------------------------
(* The refinement                                                          *)

\* What the owner can see does not change, but for an exit or its being noticed.
LEMMA NothingNew ==
  ASSUME Progress' = Progress, leader' = "run" => leader = "run", IsRunning' => IsRunning
  PROVE  Contract!Next
<1>1. (leader = "run")' \in {leader = "run", FALSE}
  <2>1. (leader' = "run") = (leader = "run") \/ (leader' = "run") = FALSE
    OBVIOUS
  <2> QED BY <2>1, Zenon
<1>2. IsRunning' \in {IsRunning, FALSE}
  <2>1. IsRunning' = IsRunning \/ IsRunning' = FALSE
    BY DEF IsRunning
  <2> QED BY <2>1, Zenon
<1>3. Contract!Gone
  BY <1>1, <1>2, Zenon DEF Contract!Gone
<1> QED BY <1>3 DEF Contract!Next

\* A public call ends: start() fails, or stop() is over.
LEMMA Ending ==
  ASSUME Inv, Inv', pc \in StartAwaits \union TermAwaits,
         pc' = IF stopping THEN "stopped" ELSE "failed", stopping' <=> stopping
  PROVE  Contract!Next
<1>1. leader' # "run"
  BY DEF Inv, BeforeInv, GuardInv
<1>2. (leader = "run")' = FALSE
  BY <1>1
<1>3. CASE stopping
  <2>1. Progress = "stopping" /\ Progress' = "down"
    BY <1>3 DEF Progress, Inv, CallInv
  <2>2. ~running'
    BY <1>3 DEF Inv, CallInv
  <2>3. IsRunning' = FALSE
    BY <2>2 DEF IsRunning
  <2>4. Contract!Stopped
    BY <2>1, <1>2, <2>3, Zenon DEF Contract!Stopped
  <2> QED BY <2>4 DEF Contract!Next
<1>4. CASE ~stopping
  <2>1. Progress = "starting" /\ Progress' = "failed"
    BY <1>4 DEF Progress, Inv, CallInv
  <2>2. ~running /\ ~running'
    BY <1>4 DEF Inv, CallInv
  <2>3. IsRunning' = IsRunning
    BY <2>2 DEF IsRunning
  <2>4. Contract!Fail
    BY <2>1, <1>2, <2>3, Zenon DEF Contract!Fail
  <2> QED BY <2>4 DEF Contract!Next
<1> QED BY <1>3, <1>4

\* create_subprocess_exec() forks the tool, or start() fails.
LEMMA Launching ==
  ASSUME Inv, Inv', pc \in {"ports", "verifying"}, Launch, UNCHANGED <<stopping, running, exited>>
  PROVE  Contract!Next
<1>1. CASE pc' = "connecting" /\ leader' = "run"
  <2>1. Progress = "starting" /\ Progress' = "starting"
    BY <1>1 DEF Progress, Inv, CallInv
  <2>2. IsRunning' = IsRunning
    BY DEF IsRunning
  <2>3. (leader = "run")' = TRUE
    BY <1>1
  <2>4. Contract!Launch
    BY <2>1, <2>2, <2>3, Zenon DEF Contract!Launch
  <2> QED BY <2>4 DEF Contract!Next
<1>2. CASE pc' = "failed"
  <2>1. ~stopping
    BY DEF Inv, CallInv
  <2> QED BY <1>2, <2>1, Ending
<1> QED BY <1>1, <1>2 DEF Launch

\* start() begins, or fails at once.
LEMMA StartRefines == ASSUME Inv, Start PROVE Contract!Next
<1>1. Progress = "new" /\ Progress' \in {"starting", "failed"}
  BY DEF Start, Progress, Inv, CallInv
<1>2. (leader = "run")' = (leader = "run")
  BY DEF Start
<1>3. IsRunning' = IsRunning
  BY DEF Start, Quiet, IsRunning
<1>4. Contract!Begin
  BY <1>1, <1>2, <1>3, Zenon DEF Contract!Begin
<1> QED BY <1>4 DEF Contract!Next

\* start() returns: the exit event is not set, so is_running is true.
LEMMA SettledRefines == ASSUME Inv, Settled PROVE Contract!Next
<1>1. Progress = "starting" /\ Progress' = "up"
  BY DEF Settled, Progress, Inv, CallInv
<1>2. (leader = "run")' = (leader = "run")
  BY DEF Settled
<1>3. IsRunning' = TRUE
  <2>1. running' /\ ~exited'
    BY DEF Settled, Quiet
  <2> QED BY <2>1 DEF IsRunning
<1>4. Contract!Return
  BY <1>1, <1>2, <1>3, Zenon DEF Contract!Return
<1> QED BY <1>4 DEF Contract!Next

\* stop() begins.
LEMMA StopRefines == ASSUME Inv, Stop PROVE Contract!Next
<1>1. Progress = "up" /\ Progress' = "stopping"
  BY DEF Stop, Terminate, Progress
<1>2. (leader = "run")' \in {leader = "run", FALSE}
  <2>1. leader' = "run" => leader = "run"
    BY DEF Stop, Terminate, ReleaseGuard, Swept, Sigkill
  <2>2. (leader' = "run") = (leader = "run") \/ (leader' = "run") = FALSE
    BY <2>1
  <2> QED BY <2>2, Zenon
<1>3. IsRunning' = IsRunning
  BY DEF Stop, Terminate, IsRunning
<1>4. Contract!Stop
  BY <1>1, <1>2, <1>3, Zenon DEF Contract!Stop
<1> QED BY <1>4 DEF Contract!Next

\* The steps of start() and stop().
LEMMA CallRefines ==
  ASSUME Inv, Inv', Call
  PROVE  Contract!Next
<1>1. CASE Start
  BY <1>1, StartRefines
<1>2. CASE PortInUse
  <2>1. /\ pc \in StartAwaits \union TermAwaits
        /\ pc' = IF stopping THEN "stopped" ELSE "failed"
        /\ stopping' <=> stopping
    BY <1>2 DEF PortInUse, Quiet, Inv, CallInv
  <2> QED BY <2>1, Ending
<1>3. CASE PortsFree
  <2>1. CASE Verify
    <3>1. Progress' = Progress
      BY <1>3, <2>1 DEF PortsFree, Quiet, Progress
    <3>2. leader' = "run" => leader = "run"
      BY <1>3, <2>1 DEF PortsFree
    <3>3. IsRunning' => IsRunning
      BY <1>3 DEF PortsFree, Quiet, IsRunning
    <3> QED BY <3>1, <3>2, <3>3, NothingNew
  <2>2. CASE ~Verify
    BY <1>3, <2>2, Launching DEF PortsFree, Quiet
  <2> QED BY <2>1, <2>2
<1>4. CASE Verified
  BY <1>4, Launching DEF Verified, Quiet
<1>5. CASE Refused
  <2>1. /\ pc \in StartAwaits \union TermAwaits
        /\ pc' = IF stopping THEN "stopped" ELSE "failed"
        /\ stopping' <=> stopping
    BY <1>5 DEF Refused, Quiet, Inv, CallInv
  <2> QED BY <2>1, Ending
<1>6. CASE Connected
  <2>1. Progress' = Progress
    BY <1>6 DEF Connected, Progress, Inv, CallInv
  <2>2. leader' = "run" => leader = "run"
    BY <1>6 DEF Connected
  <2>3. IsRunning' => IsRunning
    BY <1>6 DEF Connected, IsRunning
  <2> QED BY <2>1, <2>2, <2>3, NothingNew
<1>7. CASE Closed
  <2>1. /\ pc \in StartAwaits \union TermAwaits
        /\ pc' = IF stopping THEN "stopped" ELSE "failed"
        /\ stopping' <=> stopping
    BY <1>7 DEF Closed, Quiet, Inv, CallInv
  <2> QED BY <2>1, Ending
<1>8. CASE Signalled
  <2>1. Progress' = Progress
    BY <1>8 DEF Signalled, Quiet, Progress, Inv, CallInv
  <2>2. leader' = "run" => leader = "run"
    BY <1>8 DEF Signalled, Quiet
  <2>3. IsRunning' => IsRunning
    BY <1>8 DEF Signalled, Quiet, IsRunning
  <2> QED BY <2>1, <2>2, <2>3, NothingNew
<1>9. CASE StartupTimeout
  <2>1. Progress' = Progress
    BY <1>9 DEF StartupTimeout, Quiet, Progress, Inv, CallInv
  <2>2. leader' = "run" => leader = "run"
    BY <1>9 DEF StartupTimeout, Quiet
  <2>3. IsRunning' => IsRunning
    BY <1>9 DEF StartupTimeout, Quiet, IsRunning
  <2> QED BY <2>1, <2>2, <2>3, NothingNew
<1>10. CASE SettledExited
  <2>1. Progress' = Progress
    BY <1>10 DEF SettledExited, Quiet, Progress, Inv, CallInv
  <2>2. leader' = "run" => leader = "run"
    BY <1>10 DEF SettledExited, Quiet
  <2>3. IsRunning' => IsRunning
    BY <1>10 DEF SettledExited, Quiet, IsRunning
  <2> QED BY <2>1, <2>2, <2>3, NothingNew
<1>11. CASE SettledTimeout
  <2>1. Progress' = Progress
    BY <1>11 DEF SettledTimeout, Terminate, ReleaseGuard, Swept, Sigkill, Progress, Inv,
       CallInv
  <2>2. leader' = "run" => leader = "run"
    BY <1>11 DEF SettledTimeout, Terminate, ReleaseGuard, Swept, Sigkill
  <2>3. IsRunning' => IsRunning
    BY <1>11 DEF SettledTimeout, Terminate, ReleaseGuard, Swept, Sigkill, IsRunning
  <2> QED BY <2>1, <2>2, <2>3, NothingNew
<1>12. CASE Settled
  BY <1>12, SettledRefines
<1>13. CASE Collected
  <2>1. /\ pc \in StartAwaits \union TermAwaits
        /\ pc' = IF stopping THEN "stopped" ELSE "failed"
        /\ stopping' <=> stopping
    BY <1>13 DEF Collected, Leave, Quiet, Inv, CallInv
  <2> QED BY <2>1, Ending
<1>14. CASE ForceKill
  <2>1. Progress' = Progress
    BY <1>14 DEF ForceKill, KillTool, Swept, Sigkill, Progress, Inv, CallInv
  <2>2. leader' = "run" => leader = "run"
    BY <1>14 DEF ForceKill, KillTool, Swept, Sigkill
  <2>3. IsRunning' => IsRunning
    BY <1>14 DEF ForceKill, KillTool, Swept, Sigkill, IsRunning
  <2> QED BY <2>1, <2>2, <2>3, NothingNew
<1>15. CASE WaitEnds
  <2>1. Progress' = Progress
    BY <1>15 DEF WaitEnds, SweepGroup, Swept, Sigkill, Progress, Inv, CallInv
  <2>2. leader' = "run" => leader = "run"
    BY <1>15 DEF WaitEnds, SweepGroup, Swept, Sigkill
  <2>3. IsRunning' => IsRunning
    BY <1>15 DEF WaitEnds, SweepGroup, Swept, Sigkill, IsRunning
  <2> QED BY <2>1, <2>2, <2>3, NothingNew
<1>16. CASE PumpFinished
  <2>1. /\ pc \in StartAwaits \union TermAwaits
        /\ pc' = IF stopping THEN "stopped" ELSE "failed"
        /\ stopping' <=> stopping
    BY <1>16 DEF PumpFinished, Leave, Quiet, Inv, CallInv
  <2> QED BY <2>1, Ending
<1>17. CASE PumpCancelled
  <2>1. /\ pc \in StartAwaits \union TermAwaits
        /\ pc' = IF stopping THEN "stopped" ELSE "failed"
        /\ stopping' <=> stopping
    BY <1>17 DEF PumpCancelled, Leave, Inv, CallInv
  <2> QED BY <2>1, Ending
<1> QED BY <1>1, <1>2, <1>3, <1>4, <1>5, <1>6, <1>7, <1>8, <1>9, <1>10, <1>11, <1>12, <1>13,
   <1>14, <1>15, <1>16, <1>17 DEF Call

\* The cancellations.
LEMMA CancelRefines ==
  ASSUME Inv, Inv', Cancel
  PROVE  Contract!Next
<1>1. CASE CancelPlain
  <2>1. /\ pc \in StartAwaits \union TermAwaits
        /\ pc' = IF stopping THEN "stopped" ELSE "failed"
        /\ stopping' <=> stopping
    BY <1>1 DEF CancelPlain, Leave, Inv, CallInv
  <2> QED BY <2>1, Ending
<1>2. CASE CancelVerifying
  <2>1. /\ pc \in StartAwaits \union TermAwaits
        /\ pc' = IF stopping THEN "stopped" ELSE "failed"
        /\ stopping' <=> stopping
    BY <1>2 DEF CancelVerifying, Inv, CallInv
  <2> QED BY <2>1, Ending
<1>3. CASE CancelConnecting
  <2>1. Progress' = Progress
    BY <1>3 DEF CancelConnecting, Cancelled, Sigkill, Progress, Inv, CallInv
  <2>2. leader' = "run" => leader = "run"
    BY <1>3 DEF CancelConnecting, Cancelled, Sigkill
  <2>3. IsRunning' => IsRunning
    BY <1>3 DEF CancelConnecting, Cancelled, Sigkill, IsRunning
  <2> QED BY <2>1, <2>2, <2>3, NothingNew
<1>4. CASE CancelWaiting
  <2>1. Progress' = Progress
    BY <1>4 DEF CancelWaiting, Cancelled, Terminate, ReleaseGuard, Swept, Sigkill, Progress,
       Inv, CallInv
  <2>2. leader' = "run" => leader = "run"
    BY <1>4 DEF CancelWaiting, Cancelled, Terminate, ReleaseGuard, Swept, Sigkill
  <2>3. IsRunning' => IsRunning
    BY <1>4 DEF CancelWaiting, Cancelled, Terminate, ReleaseGuard, Swept, Sigkill, IsRunning
  <2> QED BY <2>1, <2>2, <2>3, NothingNew
<1>5. CASE CancelTerminate
  <2>1. /\ pc \in StartAwaits \union TermAwaits
        /\ pc' = IF stopping THEN "stopped" ELSE "failed"
        /\ stopping' <=> stopping
    BY <1>5 DEF CancelTerminate, Leave, Inv, CallInv
  <2> QED BY <2>1, Ending
<1> QED BY <1>1, <1>2, <1>3, <1>4, <1>5 DEF Cancel

\* The verifier's thread.
LEMMA RunTrackedRefines ==
  ASSUME Inv, Inv', RunTracked
  PROVE  Contract!Next
<1>1. CASE ThreadStarts
  <2>1. Progress' = Progress
    BY <1>1 DEF ThreadStarts, ThreadOnly, Progress, Inv, CallInv
  <2>2. leader' = "run" => leader = "run"
    BY <1>1 DEF ThreadStarts, ThreadOnly
  <2>3. IsRunning' => IsRunning
    BY <1>1 DEF ThreadStarts, ThreadOnly, IsRunning
  <2> QED BY <2>1, <2>2, <2>3, NothingNew
<1>2. CASE Popen
  <2>1. Progress' = Progress
    BY <1>2 DEF Popen, ThreadOnly, Progress, Inv, CallInv
  <2>2. leader' = "run" => leader = "run"
    BY <1>2 DEF Popen, ThreadOnly
  <2>3. IsRunning' => IsRunning
    BY <1>2 DEF Popen, ThreadOnly, IsRunning
  <2> QED BY <2>1, <2>2, <2>3, NothingNew
<1>3. CASE Adopt
  <2>1. Progress' = Progress
    BY <1>3 DEF Adopt, ThreadOnly, Progress, Inv, CallInv
  <2>2. leader' = "run" => leader = "run"
    BY <1>3 DEF Adopt, ThreadOnly
  <2>3. IsRunning' => IsRunning
    BY <1>3 DEF Adopt, ThreadOnly, IsRunning
  <2> QED BY <2>1, <2>2, <2>3, NothingNew
<1>4. CASE Communicated
  <2>1. Progress' = Progress
    BY <1>4 DEF Communicated, ThreadOnly, Progress, Inv, CallInv
  <2>2. leader' = "run" => leader = "run"
    BY <1>4 DEF Communicated, ThreadOnly
  <2>3. IsRunning' => IsRunning
    BY <1>4 DEF Communicated, ThreadOnly, IsRunning
  <2> QED BY <2>1, <2>2, <2>3, NothingNew
<1>5. CASE TimesOut
  <2>1. Progress' = Progress
    BY <1>5 DEF TimesOut, ThreadOnly, Sigkill, Progress, Inv, CallInv
  <2>2. leader' = "run" => leader = "run"
    BY <1>5 DEF TimesOut, ThreadOnly, Sigkill
  <2>3. IsRunning' => IsRunning
    BY <1>5 DEF TimesOut, ThreadOnly, Sigkill, IsRunning
  <2> QED BY <2>1, <2>2, <2>3, NothingNew
<1>6. CASE Cleaned
  <2>1. Progress' = Progress
    BY <1>6 DEF Cleaned, ThreadOnly, Progress, Inv, CallInv
  <2>2. leader' = "run" => leader = "run"
    BY <1>6 DEF Cleaned, ThreadOnly
  <2>3. IsRunning' => IsRunning
    BY <1>6 DEF Cleaned, ThreadOnly, IsRunning
  <2> QED BY <2>1, <2>2, <2>3, NothingNew
<1> QED BY <1>1, <1>2, <1>3, <1>4, <1>5, <1>6 DEF RunTracked

\* The beginning of stop(), the pump, the processes and whoever kills them.
LEMMA OtherRefines ==
  ASSUME Inv, Inv', Stop \/ Pump \/ PumpReady \/ Killed \/ Reaped \/ Outside
  PROVE  Contract!Next
<1>1. CASE Stop
  BY <1>1, StopRefines
<1>2. CASE PumpEof
  <2>1. Progress' = Progress
    BY <1>2 DEF PumpEof, Progress, Inv, CallInv
  <2>2. leader' = "run" => leader = "run"
    BY <1>2 DEF PumpEof
  <2>3. IsRunning' => IsRunning
    BY <1>2 DEF PumpEof, IsRunning
  <2> QED BY <2>1, <2>2, <2>3, NothingNew
<1>3. CASE PumpEnds
  <2>1. Progress' = Progress
    BY <1>3 DEF PumpEnds, ReleaseGuard, Swept, Sigkill, Progress, Inv, CallInv
  <2>2. leader' = "run" => leader = "run"
    BY <1>3 DEF PumpEnds, ReleaseGuard, Swept, Sigkill
  <2>3. IsRunning' => IsRunning
    BY <1>3 DEF PumpEnds, ReleaseGuard, Swept, Sigkill, IsRunning
  <2> QED BY <2>1, <2>2, <2>3, NothingNew
<1>4. CASE PumpReady
  <2>1. Progress' = Progress
    BY <1>4 DEF PumpReady, Progress, Inv, CallInv
  <2>2. leader' = "run" => leader = "run"
    BY <1>4 DEF PumpReady
  <2>3. IsRunning' => IsRunning
    BY <1>4 DEF PumpReady, IsRunning
  <2> QED BY <2>1, <2>2, <2>3, NothingNew
<1>5. CASE LeaderDies
  <2>1. Progress' = Progress
    BY <1>5 DEF LeaderDies, ProcessOnly, Progress, Inv, CallInv
  <2>2. leader' = "run" => leader = "run"
    BY <1>5 DEF LeaderDies, ProcessOnly
  <2>3. IsRunning' => IsRunning
    BY <1>5 DEF LeaderDies, ProcessOnly, IsRunning
  <2> QED BY <2>1, <2>2, <2>3, NothingNew
<1>6. CASE HelperDies
  <2>1. Progress' = Progress
    BY <1>6 DEF HelperDies, ProcessOnly, Progress, Inv, CallInv
  <2>2. leader' = "run" => leader = "run"
    BY <1>6 DEF HelperDies, ProcessOnly
  <2>3. IsRunning' => IsRunning
    BY <1>6 DEF HelperDies, ProcessOnly, IsRunning
  <2> QED BY <2>1, <2>2, <2>3, NothingNew
<1>7. CASE CheckerDies
  <2>1. Progress' = Progress
    BY <1>7 DEF CheckerDies, ProcessOnly, Progress, Inv, CallInv
  <2>2. leader' = "run" => leader = "run"
    BY <1>7 DEF CheckerDies, ProcessOnly
  <2>3. IsRunning' => IsRunning
    BY <1>7 DEF CheckerDies, ProcessOnly, IsRunning
  <2> QED BY <2>1, <2>2, <2>3, NothingNew
<1>8. CASE Reaped
  <2>1. Progress' = Progress
    BY <1>8 DEF Reaped, ProcessOnly, Progress, Inv, CallInv
  <2>2. leader' = "run" => leader = "run"
    BY <1>8 DEF Reaped, ProcessOnly
  <2>3. IsRunning' => IsRunning
    BY <1>8 DEF Reaped, ProcessOnly, IsRunning
  <2> QED BY <2>1, <2>2, <2>3, NothingNew
<1>9. CASE KillAll
  <2>1. Progress' = Progress
    BY <1>9 DEF KillAll, KillGuards, KillGroup, Sigkill, Progress, Inv, CallInv
  <2>2. leader' = "run" => leader = "run"
    BY <1>9 DEF KillAll, KillGuards, KillGroup, Sigkill
  <2>3. IsRunning' => IsRunning
    BY <1>9 DEF KillAll, KillGuards, KillGroup, Sigkill, IsRunning
  <2> QED BY <2>1, <2>2, <2>3, NothingNew
<1>10. CASE HookAsks
  <2>1. Progress' = Progress
    BY <1>10 DEF HookAsks, Progress, Inv, CallInv
  <2>2. leader' = "run" => leader = "run"
    BY <1>10 DEF HookAsks
  <2>3. IsRunning' => IsRunning
    BY <1>10 DEF HookAsks, IsRunning
  <2> QED BY <2>1, <2>2, <2>3, NothingNew
<1>11. CASE HookKills
  <2>1. Progress' = Progress
    BY <1>11 DEF HookKills, KillGroup, Sigkill, Progress, Inv, CallInv
  <2>2. leader' = "run" => leader = "run"
    BY <1>11 DEF HookKills, KillGroup, Sigkill
  <2>3. IsRunning' => IsRunning
    BY <1>11 DEF HookKills, KillGroup, Sigkill, IsRunning
  <2> QED BY <2>1, <2>2, <2>3, NothingNew
<1>12. CASE LeaderExits
  <2>1. Progress' = Progress
    BY <1>12 DEF LeaderExits, ProcessOnly, Progress, Inv, CallInv
  <2>2. leader' = "run" => leader = "run"
    BY <1>12 DEF LeaderExits, ProcessOnly
  <2>3. IsRunning' => IsRunning
    BY <1>12 DEF LeaderExits, ProcessOnly, IsRunning
  <2> QED BY <2>1, <2>2, <2>3, NothingNew
<1>13. CASE HelperStarts
  <2>1. Progress' = Progress
    BY <1>13 DEF HelperStarts, ProcessOnly, Progress, Inv, CallInv
  <2>2. leader' = "run" => leader = "run"
    BY <1>13 DEF HelperStarts, ProcessOnly
  <2>3. IsRunning' => IsRunning
    BY <1>13 DEF HelperStarts, ProcessOnly, IsRunning
  <2> QED BY <2>1, <2>2, <2>3, NothingNew
<1>14. CASE HelperExits
  <2>1. Progress' = Progress
    BY <1>14 DEF HelperExits, ProcessOnly, Progress, Inv, CallInv
  <2>2. leader' = "run" => leader = "run"
    BY <1>14 DEF HelperExits, ProcessOnly
  <2>3. IsRunning' => IsRunning
    BY <1>14 DEF HelperExits, ProcessOnly, IsRunning
  <2> QED BY <2>1, <2>2, <2>3, NothingNew
<1>15. CASE CheckerExits
  <2>1. Progress' = Progress
    BY <1>15 DEF CheckerExits, ProcessOnly, Progress, Inv, CallInv
  <2>2. leader' = "run" => leader = "run"
    BY <1>15 DEF CheckerExits, ProcessOnly
  <2>3. IsRunning' => IsRunning
    BY <1>15 DEF CheckerExits, ProcessOnly, IsRunning
  <2> QED BY <2>1, <2>2, <2>3, NothingNew
<1> QED BY <1>1, <1>2, <1>3, <1>4, <1>5, <1>6, <1>7, <1>8, <1>9, <1>10, <1>11, <1>12, <1>13,
   <1>14, <1>15 DEF Pump, Killed, Outside

\* The server implements ManagedTool: whatever happens inside, its owner sees a tool that
\* runs only between start() and the end of the start() that fails or of the stop().
THEOREM Implementation == Spec => ImplementsContract
<1>1. Init => Contract!Init
  <2> SUFFICES ASSUME Init PROVE Contract!Init
    OBVIOUS
  <2>1. Progress = "new"
    BY DEF Init, Progress
  <2>2. (leader = "run") = FALSE
    BY DEF Init
  <2>3. IsRunning = FALSE
    BY DEF Init, IsRunning
  <2> QED BY <2>1, <2>2, <2>3, Zenon DEF Contract!Init
<1>2. Inv /\ Inv' /\ [Next]_vars => [Contract!Next]_(Contract!vars)
  <2> SUFFICES ASSUME Inv, Inv', [Next]_vars PROVE Contract!Next
    OBVIOUS
  <2>1. CASE UNCHANGED vars
    <3>1. Progress' = Progress /\ leader' = leader
      BY <2>1 DEF vars, Progress
    <3>2. IsRunning' => IsRunning
      BY <2>1 DEF vars, IsRunning
    <3> QED BY <3>1, <3>2, NothingNew
  <2>2. CASE Call
    BY <2>2, CallRefines
  <2>3. CASE Cancel
    BY <2>3, CancelRefines
  <2>4. CASE RunTracked
    BY <2>4, RunTrackedRefines
  <2>5. CASE Stop \/ Pump \/ PumpReady \/ Killed \/ Reaped \/ Outside
    BY <2>5, OtherRefines
  <2> QED BY <2>1, <2>2, <2>3, <2>4, <2>5 DEF Next
<1> QED BY <1>1, <1>2, Invariance, PTL DEF Spec, ImplementsContract, Contract!Spec

=============================================================================
