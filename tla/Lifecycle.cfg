\* Four servers, the last two probes (probes start after the TCP bridges).
CONSTANTS
  N = 4
  Probes <- MCProbes
SPECIFICATION FairSpec
INVARIANTS
  Inv
  CleanExit
  ReverseOrder
  KilledSparesOnlyLaunching
  ExitCodeTellsFailure
PROPERTIES
  ComposesContracts
  SignalEndsProgram
  FailureEndsProgram
\* The program ends.
CHECK_DEADLOCK FALSE
