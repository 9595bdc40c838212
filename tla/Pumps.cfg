CONSTANTS
  RateLimitCount = 1
  RateLimitWindow = 2
  WriteDeadline = 2
  PingPeriod = 3
  ReadDeadline = 6
  PingDelay = 1
  WriteDelay = 1
  PongDelay = 1
  MaxFrames = 4
  MaxEvents = 2
  MaxTime = 11
SPECIFICATION Spec
INVARIANTS TypeOK TwoWindows HealthyStays
PROPERTIES RefusedForCause
CHECK_DEADLOCK FALSE
