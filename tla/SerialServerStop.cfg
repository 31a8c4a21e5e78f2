\* Python 3.12.1 and later: a client whose handler has not run when stop() looks
\* for the active writer keeps stop() waiting.
CONSTANTS
  Clients = {c1}
  None = None
  WaitsForClients = TRUE
SPECIFICATION FairSpec
PROPERTY StopReleasesHardware
CHECK_DEADLOCK FALSE
