CONSTANTS
  u1 = u1
  u2 = u2
  p1 = p1
  p2 = p2
  Users = {u1, u2}
  Procs = {p1, p2}
  Kinds = {"create", "accept", "block"}
  MaxOps = 3
SPECIFICATION Spec
INVARIANTS BlockSeparates
CHECK_DEADLOCK FALSE
SYMMETRY Symm
