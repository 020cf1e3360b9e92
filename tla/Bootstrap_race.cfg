SPECIFICATION Spec
CONSTANTS
  Duration = 2
  MaxQueued = 2
  MaxTime = 3
INVARIANT
  NoShapeWhileMutating
\* The process may crash, and MainThread, the host and the clock come to an end.
CHECK_DEADLOCK FALSE
