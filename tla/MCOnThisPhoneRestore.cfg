SPECIFICATION Spec
CONSTANTS
  Abilities = {"restore"}
  MaxPicks = 2
  MaxDownloads = 0
  MaxNative = 1
PROPERTY RestoreYields
CHECK_DEADLOCK FALSE
