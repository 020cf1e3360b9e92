SPECIFICATION Spec
CONSTANTS
  Colours = {"config"}
  ConfigInk = "config"
  Letters <- MCLetters
  Tokens <- MCTokens
  MaxLength = 4
  Latin = {"a"}
  Digits = {"1"}
  Tatweel = "tatweel"
  FormEntries <- MCFormEntries
  Fonts <- MCFonts
INVARIANTS
  GlyphsKeepStyle
  WrittenOnce
  BestFont
  MixedLinesOrdered
\* A caption ends.
CHECK_DEADLOCK FALSE
