---------------------------- MODULE Correlation ----------------------------
(***************************************************************************)
(* The correlation engine (backend/internal/correlation): it stores the    *)
(* authentication events of a host and user for a while and raises a       *)
(* critical alert when enough failures, a success and an escalation of     *)
(* privileges follow one another, in the order of the event times and not  *)
(* of arrival.                                                             *)
(*                                                                         *)
(* Process reads its clock, waits for the advisory lock of the entity,     *)
(* inserts its event, matches what it then sees, and commits; the purge at *)
(* its end concerns the rows of every entity.  Events are delivered late,  *)
(* out of order, repeatedly, and to several goroutines at once.            *)
(***************************************************************************)
EXTENDS Integers, FiniteSets

CONSTANTS
    Workers,    \* goroutines that call Process, of all backends
    Events,     \* event ids
    Entity,     \* Entity[e]: hostname and username
    Type,       \* Type[e]: event_type
    Time,       \* Time[e]: event_time
    Failures,   \* failures a chain takes: 3
    Window,     \* how long before the escalation: 10 minutes
    Lateness,   \* how late an event may be: 15 minutes
    Ahead,      \* how far in the future it may be: 1 minute
    Retention,  \* how long events are kept: 25 minutes
    Cap,        \* events of an entity that are looked at: 5000
    MaxDelay,   \* how long a call of Process may take
    MaxClock,   \* bound: minutes observed
    NoEvent

ASSUME CorrelationAssumption ==
    /\ IsFiniteSet(Events) /\ Events \subseteq Nat
    /\ Type \in [Events -> {"authentication_failure", "authentication_success",
                            "privilege_escalation"}]
    /\ Time \in [Events -> Nat]
    /\ Failures \in Nat \ {0}
    /\ {Window, Lateness, Ahead, Retention, Cap, MaxDelay, MaxClock} \subseteq Nat
    /\ Retention = Lateness + Window
    /\ MaxDelay <= Window
    /\ NoEvent \notin Events

VARIABLES
    clock,
    stored,     \* detection_events
    findings,   \* detection_findings, each with its alert and alert_events
    tx,         \* tx[w]: what goroutine w is doing
    onTime,     \* history: events committed with MaxDelay to spare
    latest      \* history: the latest time read by a call that committed

vars == <<clock, stored, findings, tx, onTime, latest>>

Times == 0 .. MaxClock
Chain == [end : Events, failures : SUBSET Events, success : Events]

\* found  the chains about to be inserted with their alerts
Tx == [pc : {"idle", "begun", "locked", "matched"}, event : Events \cup {NoEvent},
       now : Times, found : SUBSET Chain]

Idle == [pc |-> "idle", event |-> NoEvent, now |-> 0, found |-> {}]

TypeOK ==
    /\ clock \in Times
    /\ stored \subseteq Events
    /\ findings \subseteq Chain
    /\ tx \in [Workers -> Tx]
    /\ onTime \subseteq Events
    /\ latest \in Times

Init ==
    /\ clock = 0
    /\ stored = {}
    /\ findings = {}
    /\ tx = [w \in Workers |-> Idle]
    /\ onTime = {}
    /\ latest = 0

----------------------------------------------------------------------------
(* Match.                                                                  *)

\* By time, and by id where the times are equal.
Earlier(e, f) == Time[e] < Time[f] \/ (Time[e] = Time[f] /\ e < f)

\* Mutant: the window is open to the past.
EvidenceEver(S, end) ==
    {e \in S : Entity[e] = Entity[end] /\ Time[e] < Time[end]}

\* The events of S that may lead to the escalation end.
Evidence(S, end) ==
    {e \in S : Entity[e] = Entity[end] /\ Time[end] - Window <= Time[e] /\ Time[e] < Time[end]}

\* The failures of that evidence before event e.
FailedBefore(S, end, e) ==
    {f \in Evidence(S, end) : Type[f] = "authentication_failure" /\ Earlier(f, e)}

\* The successes that complete the chain to end.
Successes(S, end) ==
    {s \in Evidence(S, end) : /\ Type[s] = "authentication_success"
                              /\ Cardinality(FailedBefore(S, end, s)) >= Failures}

\* Mutant: failures after the success count as well, and the first success stays.
ChainToAll(S, end) ==
    [end      |-> end,
     failures |-> {f \in Evidence(S, end) : Type[f] = "authentication_failure"},
     success  |-> CHOOSE s \in Successes(S, end) : \A r \in Successes(S, end) : ~Earlier(r, s)]

\* Failures count up to the first success that completes the chain; the last such
\* success stands for it.
ChainTo(S, end) ==
    [end      |-> end,
     failures |-> {f \in Evidence(S, end) : /\ Type[f] = "authentication_failure"
                                            /\ \A s \in Successes(S, end) : Earlier(f, s)},
     success  |-> CHOOSE s \in Successes(S, end) : \A r \in Successes(S, end) : ~Earlier(s, r)]

\* Mutant: enough failures make a chain, without a success.
MatchUnfinished(S) ==
    {[end |-> e, failures |-> FailedBefore(S, e, e), success |-> NoEvent] :
        e \in {x \in S : Type[x] = "privilege_escalation"
                         /\ Cardinality(FailedBefore(S, x, x)) >= Failures}}

Match(S) ==
    {ChainTo(S, end) :
        end \in {e \in S : Type[e] = "privilege_escalation" /\ Successes(S, e) # {}}}

----------------------------------------------------------------------------
(* Process.                                                                *)

\* The clock is read; an event that is too old or from the future is dropped.
Process(w, e) ==
    /\ tx[w].pc = "idle"
    /\ Time[e] >= clock - Lateness /\ Time[e] <= clock + Ahead
    /\ tx' = [tx EXCEPT ![w] = [pc |-> "begun", event |-> e, now |-> clock, found |-> {}]]
    /\ UNCHANGED <<clock, stored, findings, onTime, latest>>

Holds(w) == tx[w].pc \in {"locked", "matched"}

\* Mutant: the lock is that of the event, not of the host and user.
LockEvent(w) ==
    /\ tx[w].pc = "begun"
    /\ \A v \in Workers : Holds(v) => tx[v].event # tx[w].event
    /\ tx' = [tx EXCEPT ![w].pc = "locked"]
    /\ UNCHANGED <<clock, stored, findings, onTime, latest>>

\* pg_advisory_xact_lock on the host and user.
Lock(w) ==
    /\ tx[w].pc = "begun"
    /\ \A v \in Workers : Holds(v) => Entity[tx[v].event] # Entity[tx[w].event]
    /\ tx' = [tx EXCEPT ![w].pc = "locked"]
    /\ UNCHANGED <<clock, stored, findings, onTime, latest>>

\* What the query returns: the entity's rows, the transaction's own one included.
Seen(w) ==
    {e \in stored \cup {tx[w].event} :
        Entity[e] = Entity[tx[w].event] /\ Time[e] >= tx[w].now - Retention}

\* Mutant: nobody looks whether the finding exists.
UnfoundAll(S) == Match(S)

\* The chains in S whose escalation has no finding yet.
Unfound(S) == {c \in Match(S) : \A f \in findings : f.end # c.end}

\* Insert, query, match.
Find(w) ==
    /\ tx[w].pc = "locked"
    /\ Cardinality(Seen(w)) <= Cap
    /\ tx' = [tx EXCEPT ![w].pc = "matched", ![w].found = Unfound(Seen(w))]
    /\ UNCHANGED <<clock, stored, findings, onTime, latest>>

\* finding_id is a primary key: a transaction that would use one again fails.
Conflicts(w) == \E c \in tx[w].found, f \in findings : c.end = f.end

\* Mutant: nothing is purged.
CommitKeep(w) ==
    /\ tx[w].pc = "matched" /\ ~Conflicts(w)
    /\ stored' = stored \cup {tx[w].event}
    /\ findings' = findings \cup tx[w].found
    /\ onTime' = onTime \cup {e \in {tx[w].event} : tx[w].now + MaxDelay <= Time[e] + Lateness}
    /\ latest' = IF latest < tx[w].now THEN tx[w].now ELSE latest
    /\ tx' = [tx EXCEPT ![w] = Idle]
    /\ UNCHANGED clock

\* The alerts and findings, the purge of every entity's old rows, commit.
Commit(w) ==
    /\ tx[w].pc = "matched" /\ ~Conflicts(w)
    /\ stored' = {e \in stored \cup {tx[w].event} : Time[e] >= tx[w].now - Retention}
    /\ findings' = findings \cup tx[w].found
    /\ onTime' = onTime \cup {e \in {tx[w].event} : tx[w].now + MaxDelay <= Time[e] + Lateness}
    /\ latest' = IF latest < tx[w].now THEN tx[w].now ELSE latest
    /\ tx' = [tx EXCEPT ![w] = Idle]
    /\ UNCHANGED clock

\* An error or the end of the process rolls everything back: a failing statement, too
\* many events of one entity, the rule of the findings being gone, a key used twice.
Abort(w) ==
    /\ tx[w].pc # "idle"
    /\ tx' = [tx EXCEPT ![w] = Idle]
    /\ UNCHANGED <<clock, stored, findings, onTime, latest>>

\* Time passes, but no call takes longer than MaxDelay.
Tick ==
    /\ clock < MaxClock
    /\ \A w \in Workers : tx[w].pc # "idle" => clock < tx[w].now + MaxDelay
    /\ clock' = clock + 1
    /\ UNCHANGED <<stored, findings, tx, onTime, latest>>

WorkerStep(w) ==
    \/ \E e \in Events : Process(w, e)
    \/ Lock(w)
    \/ Find(w)
    \/ Commit(w)
    \/ Abort(w)

Next == (\E w \in Workers : WorkerStep(w)) \/ Tick

Spec == Init /\ [][Next]_vars

----------------------------------------------------------------------------
(* Properties.                                                             *)

\* What a chain is: enough failures, then a success, then the escalation, all of one
\* host and user and within the window.
IsChain(F, s, end) ==
    /\ Type[end] = "privilege_escalation" /\ Type[s] = "authentication_success"
    /\ Cardinality(F) >= Failures
    /\ \A f \in F : Type[f] = "authentication_failure" /\ Earlier(f, s)
    /\ \A e \in F \cup {s} :
          Entity[e] = Entity[end] /\ Time[e] < Time[end] /\ Time[e] + Window >= Time[end]

\* No chain is missed, in whatever order and by whichever goroutines its events are
\* processed: once all of them were committed on time, the escalation has a finding
\* (correlation.go:75-154).  The lock, the lateness, the retention and the purge by
\* other entities have to fit together for it.
ChainsFound ==
    \A end, s \in onTime : \A F \in SUBSET onTime :
        IsChain(F, s, end) => \E c \in findings : c.end = end

\* The evidence of a finding is a chain of events (correlation.go:40-63, 142-151).
EvidenceIsChain == \A c \in findings : IsChain(c.failures, c.success, c.end)

\* "One finding per terminal event, regardless of replay or late earlier evidence"
\* (correlation.go:125), and the key never has to enforce it: a transaction that
\* matched is not rolled back for a finding that another one inserted.
OneFinding ==
    /\ \A c, d \in findings : c.end = d.end => c = d
    /\ \A w \in Workers : ~Conflicts(w)

\* "Explicit lateness bound prevents unbounded retained correlation state"
\* (correlation.go:79): what is stored lies within the retention before the latest call
\* that committed, although calls commit out of the order in which they read the clock.
RetentionBounds ==
    \A e \in stored : Time[e] + Retention >= latest /\ Time[e] <= clock + Ahead

=============================================================================
