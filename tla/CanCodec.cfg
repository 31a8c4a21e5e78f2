\* A DLC byte up to twice the size of the data.
CONSTANTS
  Ids = {a1, a2}
  Bytes = {0, 1}
  Zero = 0
  DataSize = 2
  MaxDlc = 4
SPECIFICATION Spec
INVARIANTS
  CodecInv
  ReplayIsExact
  DlcMatchesData
