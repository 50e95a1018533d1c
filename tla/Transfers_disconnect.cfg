CONSTANTS
  Files = {11}
  Images = {}
  Chunks = 2
  MaxConns = 2
  MaxRequests = 0
  MaxFaults = 1
SPECIFICATION Spec
INVARIANT StaysOnConnection
CHECK_DEADLOCK FALSE
