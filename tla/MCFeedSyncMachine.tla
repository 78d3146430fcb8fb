--------------------------- MODULE MCFeedSyncMachine ---------------------------
(* Model values and bounds for the runs of FeedSyncMachine.                  *)
EXTENDS FeedSyncMachine, TLC

\* Pool frames are interchangeable.
FrameSymmetry == Permutations(Workers)

\* The first run hydrates up to two chunks; later runs find nothing missing.
FirstRunPool == [r \in 1..MaxRuns |-> IF r = 1 THEN 2 ELSE 0]
FirstRunChunk == [r \in 1..MaxRuns |-> IF r = 1 THEN 1 ELSE 0]
================================================================================
