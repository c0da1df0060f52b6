CONSTANTS
  Speaker <- MCSpeaker
  Tol <- MCTol
  Letter <- MCLetter
  CharDur <- MCCharDur
  Setups <- MCSetups
  Snapshots <- MCSnapshots
  Spoken <- MCSpoken
  Total <- MCTotal
  Piece <- MCPiece
  Latency <- MCLatency
  TokenShift <- MCTokenShift
  TokenWidth <- MCTokenWidth
SPECIFICATION Spec
INVARIANTS
  TypeOK
  PinnedToFedAudio
  TimelineInOrder
  NumberedAfresh
PROPERTIES
  LayerOverTranscript
  Terminates
