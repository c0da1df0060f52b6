CONSTANTS
  Pieces = 2
  MaxWindows = 3
  Torn = Torn
  Audio <- MCAudio
  Frames <- MCFrames
  MaxFrames = 2
  Backends <- MCBackends
  Zero = Zero
  Junk = Junk
  Failed = Failed
SPECIFICATION Spec
INVARIANTS
  TypeOK
  CarriedState
  Accounted
  TimesLagByTheLost
  OneArena
  CompleteUnlessNull
PROPERTIES
  LayerOverStream
  LayerOverEncoder
