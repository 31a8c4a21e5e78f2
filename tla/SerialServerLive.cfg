\* Python before 3.12.1: the server's wait_closed() returns at once.
CONSTANTS
  Clients = {c1, c2}
  None = None
  WaitsForClients = FALSE
SPECIFICATION FairSpec
PROPERTIES
  SlotFreed
  StopReleasesHardware
  SessionsEndAfterStop
CHECK_DEADLOCK FALSE
