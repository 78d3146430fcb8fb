SPECIFICATION Spec
CONSTANTS
  Abilities = {"delete", "refresh"}
  MaxPicks = 2
  MaxDownloads = 0
  MaxNative = 1
INVARIANT NoPromotionInDelete
