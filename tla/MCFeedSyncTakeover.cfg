\* Two runs of either kind, the first may hydrate with one frame; under fairness.
SPECIFICATION FairSpec
CONSTANTS
  MaxRuns = 2
  Workers = {w1}
  Main = main
  MaxChunks <- FirstRunChunk
  Callers = {FALSE, TRUE}
PROPERTIES
  RunsEnd
