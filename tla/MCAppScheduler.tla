----------------------------- MODULE MCAppScheduler -----------------------------
(***************************************************************************)
(* Bounds for model-checking AppScheduler.                                 *)
(***************************************************************************)
EXTENDS AppScheduler
================================================================================
