--------------------------- MODULE MCCorrelation ---------------------------
(* An instance of Correlation for TLC, of eight events.  At one moment there *)
(* are a failure, a success, a failure and a success of one user: with the   *)
(* failure at the edge of its window the first escalation has two successes  *)
(* that complete a chain, and a failure between them that does not count;    *)
(* the second has lost the edge, and only the last success completes one.    *)
(* An event of another user comes with a transaction that purges too.        *)
EXTENDS CorrelationLoop, TLC

CONSTANTS w1, w2

MCEvents == 1 .. 8
MCEntity == [e \in MCEvents |-> IF e = 6 THEN "lab:bob" ELSE "lab:alice"]
MCType   == <<"authentication_failure", "authentication_failure", "authentication_success",
              "privilege_escalation", "privilege_escalation", "authentication_failure",
              "authentication_failure", "authentication_success">>
MCTime   == <<0, 1, 1, 2, 3, 4, 1, 1>>

\* The goroutines are interchangeable.
Symmetry == Permutations(Workers)

=============================================================================
