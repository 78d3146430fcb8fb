\* One chat engine: a second one only keeps the queue paused for longer.
SPECIFICATION FairSpec
CONSTANTS
  TypeOf <- NicetiesBehind
  Chats = {"chat"}
  MaxAttempts = 2
  MaxEffects = 3
  MaxUpsets = 0
  Faults = {"stats", "markRunning", "vanish"}
PROPERTIES NoStarvation NoEndlessWait
CHECK_DEADLOCK FALSE
