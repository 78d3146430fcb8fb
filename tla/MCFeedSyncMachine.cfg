\* Two runs of either kind; the first hydrates two chunks with two frames.
SPECIFICATION Spec
CONSTANTS
  MaxRuns = 2
  Workers = {w1, w2}
  Main = main
  MaxChunks <- FirstRunPool
  Callers = {FALSE, TRUE}
SYMMETRY FrameSymmetry
INVARIANTS
  NeverRefused
  ParkedCanResume
  WakeLockScoped
  SingleOwner
  ListenersBounded
PROPERTIES
  ZombieInert
  ImplementsSingleFlight
