\* Frames of two bytes, the second of a client refused, and the third not.
CONSTANTS
  c1 = c1
  c2 = c2
  Clients = {c1, c2}
  None = None
  WaitsForClients = FALSE
  FrameSize = 2
  Refused = {3}
  MaxBytes <- MCMaxBytes
SPECIFICATION CanSpec
INVARIANTS
  CanInv
  FramesKept
  NoneHeldBack
CONSTRAINT UntilStopped
CHECK_DEADLOCK FALSE
