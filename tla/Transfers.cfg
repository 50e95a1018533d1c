CONSTANTS
  Files = {11, 12}
  Images = {21, 22}
  Chunks = 2
  MaxConns = 2
  MaxRequests = 2
  MaxFaults = 2
SPECIFICATION FairSpec
CONSTRAINT FewTransfers
INVARIANTS
  TypeOK
  ReceivedWhole
PROPERTY TransferEnds
CHECK_DEADLOCK FALSE
