--------------------------- MODULE MCScoringPipeline ---------------------------
(* Model values and symmetry for the runs of ScoringPipeline.                *)
EXTENDS ScoringPipeline, TLC

\* Rows are interchangeable, and so are chains of awaits.
Symmetry == Permutations(Ids) \cup Permutations(Frames)
================================================================================
