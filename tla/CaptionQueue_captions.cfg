SPECIFICATION Spec
CONSTANTS
  Texts <- MCTexts
  PreviewTexts <- MCPreviewsShort
  Looks <- MCLooks
  DefaultLook <- Plain
  TagInk = TagInk
  NoTexture = NoTexture
  Opaque = 2
  FadeInRate = 1
  FadeOutRate = 1
  Throttle = 2
  Extra = 1
  BuildOutcomes <- MCBuilds
  FontOutcomes <- MCBuilds
  MaxPushed = 2
  MaxTime = 5
INVARIANTS
  TypeOK
  DrawnTexturesAlive
  PreviewMarked
  DrawnIsCurrent
  NoLateCaptionInvisible
  FontSnapshotCurrent
  TagColourKept
PROPERTIES
  FadeDirection
  NoEarlyRemoval
  LifeSpec
  InkInStep
