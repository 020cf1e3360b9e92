SPECIFICATION FairSpec
CONSTANTS
  Clicks <- MCAll
  Capacity = 1
  MaxQueued = 2
  MaxClosings = 2
INVARIANTS
  NoInvisibleCapture
  NoGhostPreview
PROPERTIES
  CloseServed
