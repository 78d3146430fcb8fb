\* Spacing 2, a pause longer than its interactive share, one shorter.
SPECIFICATION FairSpec
CONSTANTS
  Callers = {c1, c2, c3}
  GatewayInterval = 3
  InteractiveInterval = 2
  InteractiveMaxPause = 3
  Pauses = {1, 5}
  MaxPauses = 2
  MaxTime = 7
INVARIANTS
  TimerInTime
  InteractiveSoon
PROPERTIES
  Ceiling
  Served
CHECK_DEADLOCK FALSE
