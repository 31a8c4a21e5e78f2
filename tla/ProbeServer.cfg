CONSTANTS
  Verify = TRUE
  HasTelnet = TRUE
  MaxCancels = 2
SPECIFICATION FairSpec
INVARIANTS
  Inv
  NothingLeft
  Registered
PROPERTIES
  ImplementsContract
  CallEnds
  ExitNoticed
  VerifierEnds
CHECK_DEADLOCK FALSE
