CONSTANTS
  Speaker <- MCSpeaker
  Tol <- MCTol
  Letter <- MCLetter
  CharDur <- MCCharDur
  Setups <- FailingSetups
  Snapshots <- MCSnapshots
  Spoken <- MCSpoken
  Total <- MCTotal
  Piece <- MCPiece
  Latency <- MCLatency
  TokenShift <- MCTokenShift
  TokenWidth <- MCTokenWidth
SPECIFICATION Spec
INVARIANT NeverRewritten
