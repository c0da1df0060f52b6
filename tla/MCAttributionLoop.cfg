CONSTANTS
  Speaker <- MCSpeaker
  Tol <- MCTol
  Letter <- MCLetter
  CharDur <- MCCharDur
  Texts <- MCTexts
  TurnLists <- MCTurnLists
  Gaps <- MCGaps
  Horizons <- MCHorizons
SPECIFICATION Spec
INVARIANTS
  TypeOK
  Layer
  WordsWhole
  Numbering
  OnlyTheFirstUnlabelled
  NeverUntagged
  UnattributedHonest
  SpokenInOwnTurn
