SPECIFICATION Spec
CONSTANTS
  Texts <- MCTextsShort
  PreviewTexts <- MCPreviews
  Looks <- MCPlain
  DefaultLook <- Plain
  TagInk = TagInk
  NoTexture = NoTexture
  Opaque = 2
  FadeInRate = 1
  FadeOutRate = 1
  Throttle = 2
  Extra = 1
  BuildOutcomes <- MCBuilds
  FontOutcomes <- MCBuilds
  MaxPushed = 2
  MaxTime = 4
INVARIANTS
  GameCaptionNotPreview
