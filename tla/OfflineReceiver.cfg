SPECIFICATION Spec
CONSTANTS
  MaxIndex = 1
  Window = 1
  GapMissRounds = 2
  ForwardProbeStallRounds = 1
  RecoveryStateLimit = 1
  Versions = {v1}
  Slots = {g1,g2}
  NoTarget = NoTarget
  MaxStarts = 1
  MaxRestarts = 1
  DiskFaults = FALSE
  RetentionPasses = TRUE
INVARIANTS TypeOK BaseBehindKnown PassedIndexesAccounted GapsConfirmed ShownOnceWhileOpen PollInFlightIsReal
PROPERTIES ProgressIsDurable
