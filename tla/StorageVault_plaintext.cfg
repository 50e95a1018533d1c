CONSTANTS
  Names = {"a", "b"}
  BackupNames = {}
  Slots = {t1}
  MaxSaves = 3
  MaxFaults = 0
SPECIFICATION Spec
INVARIANT PlaintextRemoved
