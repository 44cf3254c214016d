\* Three events (equal times, and one between two others), three instants, and
\* checks that let events out again after they were added by a callback.
CONSTANTS
  DelayedEvent = {e1, e2, e3}
  FirstCell = head
  Null = null
  MaxTimepoint = 3
  MaxFired = 4
SPECIFICATION ListSpec
SYMMETRY Symmetry
INVARIANT WellLinked
PROPERTY QueueSpec
