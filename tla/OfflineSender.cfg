SPECIFICATION FairSpec
CONSTANTS
  Messages = {m1,m2,m3}
  TooLong = {m3}
  Drops = {d1,d2}
  Tasks = {t1, t2}
  NoTask = NoTask
  NoMessage = NoMessage
  MaxIndex = 1
  MaxRestarts = 1
  DiskFaults = FALSE
INVARIANTS TypeOK SendIndexBehindFilled DeliveredIndexesDistinct
PROPERTIES ImplementsMailbox PutEnds
