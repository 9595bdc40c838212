CONSTANTS
  r1 = r1
  r2 = r2
  r3 = r3
  ip = ip
  bob = bob
  Requests = {r1, r2, r3}
  Asks <- OneOfEach
  Keys = {ip, bob}
  Users = {bob}
  Limit <- Limits
  Window = 3
  Delay = 1
  MaxTime = 4
  Codes = {0, 400}
SPECIFICATION HttpSpec
INVARIANTS HttpTypeOK OneAnswer ServedIfLimited WindowBound RefusedForCause
SYMMETRY Symm
CHECK_DEADLOCK FALSE
