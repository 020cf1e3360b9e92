SPECIFICATION Spec
INVARIANTS
  LastRequestShown
  LabelCurrent
  NoToggleLost
