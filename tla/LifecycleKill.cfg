\* A second signal while a probe's child process is being created.
CONSTANTS
  N = 4
  Probes <- MCProbes
SPECIFICATION Spec
INVARIANT KilledLeavesNoChild
CHECK_DEADLOCK FALSE
