CONSTANTS
  Names = {"a", "b"}
  BackupNames = {"a"}
  Slots = {t1, t2}
  MaxSaves = 2
  MaxFaults = 1
SPECIFICATION Spec
CONSTRAINT FewSteps
SYMMETRY SlotSymmetry
INVARIANTS TypeOK NothingLost CleanExitSealed
