SPECIFICATION FairSpec
CONSTANTS
  Keys = {k1}
  Blobs = {b1}
  Clients = {c1, c2}
  NoBlob = NoBlob
  NoRequest = NoRequest
  NoAnswer = NoAnswer
  NoEntry = NoEntry
  MaxActive = 2
  MaxPuts = 1
  MaxTemps = 1
  MaxCrashes = 1
  IoErrors = TRUE
PROPERTIES
  ConnectionsEnd
  OldFilesRemoved
