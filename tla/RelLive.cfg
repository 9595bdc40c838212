CONSTANTS
  u1 = u1
  u2 = u2
  p1 = p1
  p2 = p2
  Users = {u1, u2}
  Procs = {p1, p2}
  Kinds = {"create", "accept", "block"}
  MaxOps = 4
SPECIFICATION FairSpec
PROPERTIES CallsAnswered
CHECK_DEADLOCK FALSE
