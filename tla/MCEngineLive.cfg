CONSTANTS
  Speaker <- MCSpeaker
  Tol <- MCTol
  Letter <- MCLetter
  CharDur <- MCCharDur
  Setups <- LiveSetups
  Snapshots <- MCSnapshots
  Spoken <- MCSpoken
  Total <- MCTotal
  Piece <- MCPiece
  Latency <- MCLatency
  TokenShift <- MCTokenShift
  TokenWidth <- MCTokenWidth
SPECIFICATION Spec
PROPERTY ShownOnEveryUpdate
