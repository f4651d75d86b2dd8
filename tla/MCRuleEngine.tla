---------------------------- MODULE MCRuleEngine ----------------------------
(* An instance of RuleEngine for TLC: one rule, which asks for two events, and *)
(* three events of one entity that all match it.                               *)
EXTENDS RuleEngine, TLC

CONSTANTS w1, w2, e1, e2, e3, r1

MCEvents   == {e1, e2, e3}
MCRules    == {r1}
MCEntityOf == [e \in MCEvents |-> "host:ip"]
MCMatches  == [r \in MCRules |-> MCEvents]
MCCount    == [r \in MCRules |-> 2]

\* The goroutines are interchangeable, and so are the events.
Symmetry == Permutations(Workers) \cup Permutations(MCEvents)

=============================================================================
