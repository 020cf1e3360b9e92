SPECIFICATION FairSpec
CONSTANTS
  Duration = 2
  MaxQueued = 2
  MaxTime = 3
INVARIANTS
  LockBeforeHooks
  HiddenSfxNeverQueued
  NoCaptionAhead
  NothingAfterShutdown
PROPERTIES
  ShaperOutlivesUse
  ShutdownEnds
\* The process may crash, and MainThread, the host and the clock come to an end.
CHECK_DEADLOCK FALSE
