\* Two flushers at once, three writes.
SPECIFICATION FairSpec
CONSTANTS
  Flushers = {f1, f2}
  MaxWrites = 3
INVARIANTS
  IdleIsExact
  FlushIsExact
PROPERTIES
  AnnouncedLands
