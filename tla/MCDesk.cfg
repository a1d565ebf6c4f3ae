SPECIFICATION MCSpec
CONSTANTS
  Users = {owner, u1, u2}
  Owner = owner
  Tickets = {t1}
  Issues = {i1}
  Requests = {q1, q2}
  Sockets = {s1}
  Joins = {q1, q2}
  MaxWrites = 6
  MaxCommands = 4
  MaxThread = 2
  MaxPresent = 2
  None = None
  Faults = {"outage", "drop", "restart"}
SYMMETRY DeskSymmetry
CHECK_DEADLOCK FALSE
INVARIANTS
  HoldersAreStaff
  FirstResponseIsFirst
PROPERTIES
  ResolutionKept
  DeliveredToReaders
  LeaveIsFinal
