SPECIFICATION Spec
CONSTANTS
  Clicks <- MCClosePreview
  Capacity = 2
  MaxQueued = 2
  MaxClosings = 1
INVARIANTS
  PreviewEndsWithPanel
