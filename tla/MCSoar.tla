------------------------------- MODULE MCSoar -------------------------------
(* An instance of Soar for TLC: the two playbooks the migrations seed and one  *)
(* that needs no approval; an alert of the correlation engine, and one of a    *)
(* rule whose entity is a protected address.                                   *)
EXTENDS Soar, TLC

CONSTANTS b1, b2, q1, q2, contain, isolate, automatic

MCTrigger ==
    [p \in Playbooks |->
        CASE p = contain -> [type |-> "category", severity |-> "critical",
                             category |-> "correlation", rule |-> ""]
          [] p = isolate -> [type |-> "rule_match", severity |-> "", category |-> "",
                             rule |-> "SSH attack chain v1"]
          [] OTHER       -> [type |-> "severity", severity |-> "critical", category |-> "",
                             rule |-> ""]]
MCAction ==
    [p \in Playbooks |->
        CASE p = contain -> "block_ip" [] p = isolate -> "isolate_user" [] OTHER -> "block_ip"]
MCApproval == [p \in Playbooks |-> p # automatic]
MCTTL      == [p \in Playbooks |-> 1]

Chain == [severity |-> "critical", rule |-> "SSH attack chain v1", host |-> TRUE,
          key |-> "alice", evidence |-> {"203.0.113.9"}]
Local == [severity |-> "critical", rule |-> "Port scan", host |-> TRUE,
          key |-> "127.0.0.1", evidence |-> {"127.0.0.1"}]

MCKinds      == {Chain, Local}
MCChainRules == {"SSH attack chain v1"}
MCAllowlist  == {"127.0.0.1", "root"}

\* The backends are interchangeable, and so are the requests.
Symmetry == Permutations(Backends) \cup Permutations(Requests)

=============================================================================
