----------------------------- MODULE MCPipeline -----------------------------
(* Instances of Pipeline for TLC. *)
EXTENDS Pipeline, TLC

\* The backends are interchangeable.
BackendSymmetry == Permutations(Backends)

=============================================================================
