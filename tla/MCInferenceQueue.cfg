\* A pass of two jobs and a nicety, two chat engines, a kill or a change of app or mode, every call rejecting.
SPECIFICATION Spec
CONSTANTS
  TypeOf <- PassAndSummary
  Chats = {c1, c2}
  MaxAttempts = 2
  MaxEffects = 3
  MaxUpsets = 1
  Faults = {"setup", "stats", "markRunning", "apply", "vanish"}
SYMMETRY Symmetry
INVARIANTS SingleLoop RunningRowsOwned AttemptsHonest ChatAlone
PROPERTIES HoldStartsNothing
CHECK_DEADLOCK FALSE
