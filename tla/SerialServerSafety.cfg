\* Python 3.12.1 and later, two connections, no fairness.
CONSTANTS
  Clients = {c1, c2}
  None = None
  WaitsForClients = TRUE
SPECIFICATION Spec
INVARIANTS
  Inv
  SingleSession
  NoCrossTalk
  OrphanWriteOnlyAfterFailure
  HardwareFollowsServer
PROPERTY ImplementsBridge
SYMMETRY Symmetry
\* A stopped server and its finished handlers take no further step.
CHECK_DEADLOCK FALSE
