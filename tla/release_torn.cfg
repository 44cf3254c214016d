\* A frame of seven units, two frames after the last reset.
CONSTANTS
  P1 = P1
  P2 = P2
  Partitions = {P1, P2}
  None = None
  Table <- MCTable
  Frame = 7
  MaxLate = 1
  MaxTime = 17
  MaxGeneration = 2
  MaxReset = 4
SPECIFICATION Spec
INVARIANT ReleaseInWindow
