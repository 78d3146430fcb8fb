---------------------------- MODULE MCInferenceQueue ----------------------------
(***************************************************************************)
(* Bounds for model-checking InferenceQueue.                               *)
(***************************************************************************)
EXTENDS InferenceQueue, TLC

\* The chat engines are alike.
Symmetry == Permutations(Chats)

\* A pass of up to two facts, and a background nicety behind it.
PassAndSummary == <<"topic_combo", "topic_combo", "persona_summary">>

\* A combination job ahead of a nicety and of a type this bundle cannot run.
NicetiesBehind == <<"topic_combo", "persona_summary", "unknown">>
================================================================================
