\* A turn of a disposed engine beside that of its successor; nothing fails.
SPECIFICATION Spec
CONSTANTS
  TypeOf <- PassAndSummary
  Chats = {c1, c2}
  MaxAttempts = 2
  MaxEffects = 3
  MaxUpsets = 0
  Faults = {}
SYMMETRY Symmetry
PROPERTY HoldsStand
CHECK_DEADLOCK FALSE
