CONSTANTS
  WordChars <- MCWordChars
  Space <- MCSpace
  Wide <- MCWide
  Others <- MCOthers
  Reports <- MCReports
  Hop = 4
  FrameStep = 2
  Offset = 3
SPECIFICATION Spec
INVARIANTS
  TypeOK
  NothingLost
  SameTextEitherWay
  WordsNeverCut
  MovedOnlyWithItsWord
