CONSTANTS
  Speaker <- MCSpeaker
  Tol <- MCTol
  Snapshots <- MCSnapshots
SPECIFICATION Spec
INVARIANT NewSpeakerIsNewInterval
