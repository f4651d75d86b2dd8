-------------------------- MODULE CorrelationLoop --------------------------
(***************************************************************************)
(* Match of the correlation engine as it is written, with its two loops    *)
(* over the sorted events.  Correlation says what a chain is instead, which *)
(* is what proofs need; here the two are compared.                         *)
(***************************************************************************)
EXTENDS Correlation, Folds

\* The last of the events T in the order they are sorted in.
Last(T) == CHOOSE e \in T : \A f \in T : ~Earlier(e, f)

\* A round of the inner loop: failures count up to the success that completes the
\* chain; a later success takes its place.
Scan(c, e) ==
    IF Type[e] = "authentication_failure" /\ c.success = NoEvent
      THEN [c EXCEPT !.failures = @ \cup {e}]
      ELSE IF Type[e] = "authentication_success" /\ Cardinality(c.failures) >= Failures
             THEN [c EXCEPT !.success = e] ELSE c

\* The inner loop for the escalation end, over the events T in their order.
Loop(end, T) ==
    MapThenFoldSet(LAMBDA e, c : Scan(c, e), [end |-> end, failures |-> {}, success |-> NoEvent],
                   LAMBDA e : e, Last, T)
Scanned(S, end) == Loop(end, Evidence(S, end))

\* The outer loop.
ScanAll(S) ==
    {c \in {Scanned(S, end) : end \in {e \in S : Type[e] = "privilege_escalation"}} :
        c.success # NoEvent}

\* In the rows that a transaction finds when it has its lock, the definition finds what
\* the loops find (correlation.go:31-65): the same failures, although the loop stops
\* counting them at a success, and the last success, although the loop replaces one by
\* the next.
MatchIsScan ==
    \A w \in Workers : tx[w].pc = "locked" => ScanAll(Seen(w)) = Match(Seen(w))

=============================================================================
