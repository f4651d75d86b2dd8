----------------------------- MODULE MCConsole -----------------------------
(* An instance of Console for TLC: an administrator to begin with, a viewer  *)
(* who is created, one case, one alert.                                      *)
EXTENDS Console, TLC

CONSTANTS r1, r2, ada, bob

MCRole == [u \in Users |-> IF u = ada THEN "admin" ELSE "viewer"]

Symmetry == Permutations(Requests)

=============================================================================
