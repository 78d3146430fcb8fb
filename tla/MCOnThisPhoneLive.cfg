SPECIFICATION FairSpec
CONSTANTS
  Abilities = {"download", "refresh"}
  MaxPicks = 1
  MaxDownloads = 1
  MaxNative = 1
PROPERTIES
  PhoneFollows
  DownloadSettles
