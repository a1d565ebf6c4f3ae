SPECIFICATION Spec
CONSTANTS
  Users = {a1, a2}
  Agent = a1
  Owner = a2
  Runs = {r1}
  MaxPosts = 2
  MaxCalls = 2
  Faults = {"lost", "crash", "derive"}
  Chunks <- SmallChunks
  Versions = {v1, v2}
  ListLimit = 3
  Nothing = Nothing
CHECK_DEADLOCK FALSE
INVARIANTS
  OneMessagePerRun
  SignalMatchesRun
  PanelTellsTruth
  FusionHolds
  QualityHolds
  OutageHolds
PROPERTIES
  SentInContext
