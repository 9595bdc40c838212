CONSTANTS
  u1 = u1
  u2 = u2
  p1 = p1
  p2 = p2
  Users = {u1, u2}
  Procs = {p1, p2}
  Kinds = {"create", "accept", "reject", "cancel", "block", "unblock"}
  MaxOps = 4
  MaxSends = 1
SPECIFICATION ChatSpec
INVARIANTS ChatTypeOK FriendsMutual OnePending AcceptedAreFriends StoredWasAllowed StoredHasRequest
PROPERTIES AnsweredForGood FriendshipByConsent PersistSpec
SYMMETRY Symm
CHECK_DEADLOCK FALSE
