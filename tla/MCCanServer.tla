------------------------------ MODULE MCCanServer ------------------------------
EXTENDS CanServer

CONSTANTS c1, c2

\* One client sends three frames, the other one.
MCMaxBytes == (c1 :> 6) @@ (c2 :> 2)

\* Bound: what the sessions do when stop() has returned is not followed.  (FramesKept,
\* NoneHeldBack and StreamInv speak of the time before stop(); the sessions after it are
\* those of SerialServer.)
UntilStopped == stage # "stopped"

=============================================================================
