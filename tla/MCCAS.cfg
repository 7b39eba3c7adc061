SPECIFICATION Spec
CONSTANTS
  b1 = b1
  b2 = b2
  w1 = w1
  w2 = w2
  Blobs = {b1, b2}
  Writers = {w1, w2}
  None = None
  MaxCrashes = 2
INVARIANTS
  NoTornBlob
  OrphansFromDeaths
PROPERTIES
  ImplementsBlobStore
