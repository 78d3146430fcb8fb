\* Three calls of any kind, the app once in the background, the mode changed once.
SPECIFICATION FairSpec
CONSTANTS
  Calls = {c1, c2, c3}
  MaxMoves = 1
  MaxFlips = 1
INVARIANTS
  ContextSafe
  CloudStaysUnloaded
  BackgroundContained
PROPERTIES
  EveryCallSettles
CHECK_DEADLOCK FALSE
