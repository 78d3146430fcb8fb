SPECIFICATION Spec
CONSTANTS
  Abilities = {"download", "delete", "refresh", "restore"}
  MaxPicks = 2
  MaxDownloads = 2
  MaxNative = 0
INVARIANTS
  CloudChoiceKept
  HoldIsTheRunner
  RowHasRunner
