SPECIFICATION PartsSpec
CONSTANTS
  d1 = d1
  b1 = b1
  old1 = old1
  Documents = {d1, d2}
  NoDocument = NoDocument
  Users = {u1}
  Uploads = {k1, k2}
  Imports = {i1}
  Legacy = {old1}
  LegacyDocument <- OneLegacyDocument
  Sources = {b1, b2}
  LegacySource <- OneLegacySource
  NoSource = NoSource
  NoVersion = NoVersion
  NoKey = NoKey
  Faults = {"storage", "database", "lost", "doubt", "crash", "roles", "provider", "archive"}
CHECK_DEADLOCK FALSE
SYMMETRY Symmetry
INVARIANTS
  SourceKept
  DistinctContents
  OnePublication
PROPERTIES
  EditorsWrite
  ImplementsShelf
