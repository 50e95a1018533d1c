SPECIFICATION FairSpec
CONSTANTS
  MaxIndex = 1
  Window = 1
  GapMissRounds = 1
  ForwardProbeStallRounds = 1
  RecoveryStateLimit = 1
  Versions = {v1}
  Slots = {g1}
  NoTarget = NoTarget
  MaxStarts = 1
  MaxRestarts = 0
  DiskFaults = FALSE
  RetentionPasses = FALSE
PROPERTIES NextMessageReceived
