\* Up to two serial rows, one CAN row, two probe rows.
CONSTANTS
  s1 = s1
  s2 = s2
  c1 = c1
  p1 = p1
  p2 = p2
  SerialRows = {s1, s2}
  CanRows = {c1}
  ProbeRows = {p1, p2}
  Devices = {"tty"}
  Adapters <- MCAdapters
  Detected <- MCDetected
  Numbers = {2341}
  Rates = {0}
  CommandLines <- MCCommandLines
  MaxEdits = 1
SPECIFICATION Spec
INVARIANTS
  RowsInv
  StartedSound
  RefusedUnsound
  PinnedApart
SYMMETRY Symmetry
\* A command line is parsed once.
CHECK_DEADLOCK FALSE
