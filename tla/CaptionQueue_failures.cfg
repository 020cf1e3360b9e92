SPECIFICATION ForeverSpec
CONSTANTS
  Texts <- MCTextsShort
  PreviewTexts <- MCNoPreviews
  Looks <- MCFontOnly
  DefaultLook <- Plain
  TagInk = TagInk
  NoTexture = NoTexture
  Opaque = 2
  FadeInRate = 1
  FadeOutRate = 1
  Throttle = 2
  Extra = 1
  BuildOutcomes <- MCBoth
  FontOutcomes <- MCBoth
  MaxPushed = 2
  MaxTime = 4
INVARIANTS
  LeakOnlyUnseen
PROPERTIES
  EventuallyGone
