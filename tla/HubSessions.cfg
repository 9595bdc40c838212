CONSTANTS
  alice = alice
  bob = bob
  a1 = a1
  b1 = b1
  b2 = b2
  Conns = {a1, b1, b2}
  Users = {alice, bob}
  UserOf <- OneAndTwo
  Cap = 3
  Frames <- MessageToBob
  MaxFrames = 2
  MaxFaults = 0
SPECIFICATION Spec
INVARIANTS RegisteredOpen FeedInOrder 
CHECK_DEADLOCK FALSE
SYMMETRY BobsSessions
