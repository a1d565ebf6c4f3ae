SPECIFICATION Spec
CONSTANTS
  m1 = m1
  m2 = m2
  Versions = {v1}
  Slots = {s1}
  Loops = {l1}
  NoSlot = NoSlot
  Models = {m1, m2}
  NoModel = NoModel
  Envs <- AnyEnv
  NumChunks = 2
  BatchSize = 1
  MaxAttempts = 3
  DispatchLimit = 1
  RequireSemantic = FALSE
  MaxGeneration = 3
  MaxClaims = 3
  Faults = {"fail"}
CHECK_DEADLOCK FALSE
INVARIANTS
  VectorsMatchModel
