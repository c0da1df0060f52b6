CONSTANTS
  Setups <- MCSetups
  Outputs <- MCOutputs
  Files <- MCFiles
  NoFile = NoFile
  RateLimit = 32768
SPECIFICATION Spec
INVARIANTS
  TypeOK
  NeverDangling
  ReadyToRun
  NothingLeft
  OneThingOnStdout
  NeverMisread
  ReadsTheDeclaredData
PROPERTIES
  Exits
