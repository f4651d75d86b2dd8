------------------------------ MODULE MCIntake ------------------------------
(* An instance of Intake for TLC: two agents, and two hosts with names that  *)
(* differ in case only; logs may carry the name of a third.                  *)
EXTENDS Intake, TLC

CONSTANTS a1, a2, other, r1, r2, g1, g2

MCFold == [h \in Hosts |-> IF h = other THEN "db" ELSE "web"]

Symmetry == Permutations(Requests) \cup Permutations(Assets) \cup Permutations(Agents)

=============================================================================
