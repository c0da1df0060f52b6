CONSTANTS
  Speaker <- MCSpeaker
  Tol <- MCTol
  Snapshots <- MCSnapshots
SPECIFICATION Spec
INVARIANTS
  TypeOK
  Separated
  SnapshotRepresented
PROPERTIES
  NothingForgotten
  RestatementHitsItsOwn
