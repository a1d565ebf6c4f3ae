SPECIFICATION MCSpec
CONSTANTS
  Tabs = {t1, t2}
  Families = {1, 2}
  MaxTokens = 4
  MaxShared = 2
  MaxAdrift = 1
  None = None
  Faults = {"unavailable", "lost", "expiry"}
SYMMETRY TabSymmetry
CHECK_DEADLOCK FALSE
INVARIANTS
  OneLiveToken
  ReuseHasACause
  LogoutEnds
PROPERTIES
  ImplementsTokenChain
