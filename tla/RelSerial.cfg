CONSTANTS
  u1 = u1
  u2 = u2
  p1 = p1
  p2 = p2
  Users = {u1, u2}
  Procs = {p1}
  Kinds = {"create", "accept", "reject", "cancel", "block", "unblock"}
  MaxOps = 5
SPECIFICATION Spec
INVARIANTS BlockClosesRequests CreatedHasRow
CHECK_DEADLOCK FALSE
SYMMETRY Symm
