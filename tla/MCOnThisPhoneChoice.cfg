SPECIFICATION Spec
CONSTANTS
  Abilities = {"download", "refresh"}
  MaxPicks = 2
  MaxDownloads = 1
  MaxNative = 1
INVARIANT ReaderChoiceKept
