SPECIFICATION PartsSpec
CONSTANTS
  m1 = m1
  m2 = m2
  Versions = {v1}
  Slots = {s1, s2}
  Loops = {l1, l2}
  NoSlot = NoSlot
  Models = {m1, m2}
  NoModel = NoModel
  Envs <- TwoModels
  NumChunks = 2
  BatchSize = 2
  MaxAttempts = 2
  DispatchLimit = 2
  RequireSemantic = FALSE
  MaxGeneration = 2
  MaxClaims = 2
  Faults = {"fail", "reject", "stall", "defer", "outage", "halt", "cleanup", "archive", "reprocess"}
CHECK_DEADLOCK FALSE
SYMMETRY ProcessSymmetry
INVARIANTS
  TypeOK
  Agreement
  IndexComplete
  QueuedHasIntent
  DispatchedWasQueued
  VectorsMatchModel
PROPERTIES
  ClaimsKept
  WritesFenced
  ImplementsFencedTask
