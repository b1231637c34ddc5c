SPECIFICATION Spec
CONSTANTS
  Caller = {p1,p2,p3}
  Chat = {c1,c2}
  MaxRetry = 2
  Burst = 1
  Refill = 1
INVARIANTS TypeOK PausedCallersWait
PROPERTIES PauseNeverShortens CallsReturn
