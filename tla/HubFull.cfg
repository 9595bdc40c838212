CONSTANTS
  alice = alice
  bob = bob
  a1 = a1
  b1 = b1
  b2 = b2
  Conns = {a1, b1}
  Users = {alice, bob}
  UserOf <- OneAndOne
  Cap = 2
  Frames <- AllBranches
  MaxFrames = 2
  MaxFaults = 1
SPECIFICATION Spec
INVARIANTS TypeOK FeedInOrder PersistFirst AnsweredOnce ReturnedClosesAll
PROPERTIES ClosedNeverFed PersistSpec
CHECK_DEADLOCK FALSE
