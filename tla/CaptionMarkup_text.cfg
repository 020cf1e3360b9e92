SPECIFICATION Spec
CONSTANTS
  Colours <- MCColours
  ConfigInk = "config"
  Letters = {"a"}
  Tokens <- MCTokens
  MaxLength = 5
  MaxWidth = 2
INVARIANTS
  StyleAsMeant
  RunsMaximal
  TextComplete
  CountIsShown
  LinesAsBroken
  WrapKeepsText
  WrapKeepsWords
  WrapGreedy
\* A caption ends.
CHECK_DEADLOCK FALSE
