------------------------------ MODULE MCHealth ------------------------------
(* An instance of Health for TLC: two overlapping requests, which between     *)
(* them run all six checks.                                                   *)
EXTENDS Health

CONSTANTS all, queue

\* CheckAll asks for all six at once.  The checks do not look at each other: one or two at a time
\* are enough to see one hide another.
MCEndpoints == [p \in Probes |-> IF p = all THEN {{"queues"}, {"database", "connectors"}}
                                 ELSE {{"queues"}, {"postgres"}, {"redis"}, {"elasticsearch"}}]
MCThreshold == [q \in Queues |-> 1]

=============================================================================
