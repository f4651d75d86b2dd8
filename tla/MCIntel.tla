------------------------------ MODULE MCIntel ------------------------------
(* An instance of Intel for TLC: an observation that expires soon, and one   *)
(* that nobody has signed.                                                   *)
EXTENDS Intel, TLC

CONSTANTS i1, i2, private, parser, retry

Observed ==
    {[covers |-> {i1, i2}, updated |-> 0, expires |-> 2, attributed |-> TRUE],
     [covers |-> {i2}, updated |-> 0, expires |-> 9, attributed |-> FALSE]}

Symmetry == Permutations(Callers)

=============================================================================
