------------------------------ MODULE Delivery ------------------------------
(***************************************************************************)
(* What the pipeline promises of a log, without streams, groups or         *)
(* goroutines: the abstract specification that Pipeline implements.        *)
(*                                                                         *)
(* An accepted log is owed.  It is then handled; or shed, when the raw     *)
(* stream outgrows its limit; or given up, after its retries.  An analyst  *)
(* may have a log that was given up tried again, or discard it.  There is  *)
(* no other way out: a log that was handled or shed stays so, and none is  *)
(* shed any more once it has left the raw stream.                          *)
(***************************************************************************)
CONSTANT Logs

VARIABLE state   \* state[l]: what has become of log l

\* What may become of a log.  A log that was discarded is owed again when a replay had read its
\* entry before the purge; one that is owed is discarded when a purge overtakes its hand-over.
Moves ==
    {<<"new", "owed">>,
     <<"owed", "handled">>, <<"owed", "shed">>, <<"owed", "given up">>, <<"owed", "discarded">>,
     <<"given up", "owed">>, <<"given up", "discarded">>,
     <<"discarded", "owed">>}

Fates == {"new", "owed", "handled", "shed", "given up", "discarded"}

Init == state = [l \in Logs |-> "new"]

\* Several logs at once, as a batch, a trim or a purge concerns several.
Next ==
    /\ state' \in [Logs -> Fates]
    /\ \A l \in Logs : state'[l] = state[l] \/ <<state[l], state'[l]>> \in Moves

Spec == Init /\ [][Next]_state

=============================================================================
