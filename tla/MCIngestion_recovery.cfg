SPECIFICATION RecoverySpec
CONSTANTS
  m1 = m1
  m2 = m2
  Versions = {v1}
  Slots = {s1}
  Loops = {l1}
  NoSlot = NoSlot
  Models = {m1, m2}
  NoModel = NoModel
  Envs <- Unkeyed
  NumChunks = 1
  BatchSize = 1
  MaxAttempts = 2
  DispatchLimit = 1
  RequireSemantic = FALSE
  MaxGeneration = 2
  MaxClaims = 9
  Faults = {"crash", "expire"}
CHECK_DEADLOCK FALSE
PROPERTIES
  Settles
  AttemptsEnd
