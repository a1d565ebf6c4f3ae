SPECIFICATION Spec
CONSTANTS
  u1 = u1
  u2 = u2
  Users = {u1, u2}
  Areas <- AllAreas
  MaxChanges = 2
  Nothing = Nothing
CHECK_DEADLOCK FALSE
INVARIANTS
  OwnChangesShown
  ShownIsOwn
