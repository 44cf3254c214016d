\* Two contents of two words; with a refresh period of one unit and a time of
\* two, messages become old.
CONSTANTS
  Messages = {m1, m2}
  NoMessage = NoMessage
  Words = 2
  Refresh = 1
  MaxTime = 2
SPECIFICATION Spec
SYMMETRY Symmetry
INVARIANT NeverTorn
PROPERTY RegisterSpec
