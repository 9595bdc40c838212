CONSTANTS
  alice = alice
  bob = bob
  a1 = a1
  b1 = b1
  b2 = b2
  Conns = {a1, b1}
  Users = {alice, bob}
  UserOf <- OneAndOne
  Cap = 2
  Frames <- MessageToBob
  MaxFrames = 0
  MaxFaults = 1
SPECIFICATION Spec
INVARIANTS NoPanic
CHECK_DEADLOCK FALSE
