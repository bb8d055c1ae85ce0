----------------------------- MODULE MCPipeline -----------------------------
(* Instance of Pipeline for TLC. *)
EXTENDS Pipeline, TLC

Symmetry == Permutations(Req) \cup Permutations(Grade)
==============================================================================
