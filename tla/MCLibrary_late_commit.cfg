SPECIFICATION PartsSpec
CONSTANTS
  d1 = d1
  b1 = b1
  old1 = old1
  Documents = {d1}
  NoDocument = NoDocument
  Users = {u1}
  Uploads = {k1}
  Imports = {}
  Legacy = {}
  LegacyDocument <- OneLegacyDocument
  Sources = {b1}
  LegacySource <- OneLegacySource
  NoSource = NoSource
  NoVersion = NoVersion
  NoKey = NoKey
  Faults = {"doubt"}
CHECK_DEADLOCK FALSE
INVARIANT MappedIsStored
