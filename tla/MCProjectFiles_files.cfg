SPECIFICATION Spec
CONSTANTS
  Clients = {ann, bob}
  Paths = {a, b}
  a = a
  b = b
  Lines = {"a", "b"}
  Contents <- MCContents
  Huge <- MCHuge
  Matching = {"b"}
  MaxRange = 2
  MaxMatches = 2
  Opened = {a}
  Beginnings <- MCBeginnings
  Ranges <- MCRanges
  MaxRequests = 3
  MaxActs = 1
INVARIANTS
  TypeOK
  PiecesAreOneFile
PROPERTIES
  NoLostUpdate
  NoFalseConflict
  LimitIsTold
SYMMETRY MCSymmetry
CHECK_DEADLOCK FALSE
