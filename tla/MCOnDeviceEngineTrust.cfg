\* One request is enough: the app leaves the screen while Kev loads.
SPECIFICATION Spec
CONSTANTS
  Calls = {c1, c2}
  MaxMoves = 1
  MaxFlips = 0
INVARIANTS
  AnswersTrusted
CHECK_DEADLOCK FALSE
