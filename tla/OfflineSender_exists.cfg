SPECIFICATION Spec
CONSTANTS
  Messages = {m1, m2}
  TooLong = {}
  Drops = {d1, d2}
  Tasks = {t1, t2}
  NoTask = NoTask
  NoMessage = NoMessage
  MaxIndex = 1
  MaxRestarts = 1
  DiskFaults = FALSE
SYMMETRY Symmetry
INVARIANTS
  DeliveredWasStored
