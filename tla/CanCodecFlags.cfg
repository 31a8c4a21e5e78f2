\* The flags as the description of the wire format has them.
CONSTANTS
  Ids = {a1, a2}
  Bytes = {0, 1}
  Zero = 0
  DataSize = 2
  MaxDlc = 4
SPECIFICATION Spec
INVARIANT
  FlagsAsDocumented
