SPECIFICATION Spec
CONSTANTS
  size = size
  language = language
  font = font
  alignment = alignment
  offset = offset
  old = old
  new = new
  fine = fine
  path = path
  doubled = doubled
  cut = cut
  Absent = Absent
  Exposed <- MCExposed
  Unsynced <- MCUnsynced
  FileOnly <- MCFileOnly
  Language = language
  Before <- MCBefore
  Rank <- MCRank
  Values <- MCValues
  Texts <- MCTexts
  Offered <- MCOffered
  Typed <- MCTyped
  Format <- MCFormat
  Parse <- MCParse
  Shown <- MCShown
  Received <- MCReceived
  Cut <- MCCut
  Default <- MCDefault
INVARIANTS
  ResetRestores
