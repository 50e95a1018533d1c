SPECIFICATION Spec
CONSTANTS
  Keys = {k1}
  Blobs = {b1, b2}
  Clients = {c1, c2, c3}
  NoBlob = NoBlob
  NoRequest = NoRequest
  NoAnswer = NoAnswer
  NoEntry = NoEntry
  MaxActive = 2
  MaxPuts = 2
  MaxTemps = 2
  MaxCrashes = 1
  IoErrors = TRUE
SYMMETRY Symmetry
INVARIANTS
  TypeOK
  TempsOwned
  AckedBlobsStay
PROPERTIES
  ImplementsStore
