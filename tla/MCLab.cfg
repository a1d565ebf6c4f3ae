SPECIFICATION Spec
CONSTANTS
  Documents = {d1, d2}
  d1 = d1
  d2 = d2
  Versions <- TwoDocuments
  Runs = {r1, r2}
  Failing = r1
  Experiments = {e1, e2}
  Processes = {p1, p2}
  MaxSuites = 1
  MaxOverrides = 1
  Purposes = {"POST"}
  Nothing = Nothing
SYMMETRY Symmetry
CHECK_DEADLOCK FALSE
INVARIANTS
  OneRunning
  EndedIsSound
  RunningIsAttended
PROPERTIES
  ImplementsTrials
  VerifiedReflectsNow
