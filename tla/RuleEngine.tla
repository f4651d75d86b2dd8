----------------------------- MODULE RuleEngine -----------------------------
(***************************************************************************)
(* The rule engine (backend/internal/ruleengine): every goroutine that     *)
(* analyses events calls Process, which records each matching rule in one  *)
(* transaction (recordAlert, durable.go), while analysts change rules and  *)
(* alerts over HTTP (backend/internal/api/admin.go).                       *)
(*                                                                         *)
(* A transaction is taken apart where others can come in between: BEGIN    *)
(* fixes now(), the advisory lock is waited for, the alert to aggregate    *)
(* into is chosen, and the commit makes everything visible at once.  What  *)
(* a transaction wrote before its commit is kept in its own record.        *)
(* Events are delivered any number of times and to several goroutines at   *)
(* once: the streams before the engine promise no more.                    *)
(***************************************************************************)
EXTENDS Integers, Sequences, FiniteSets

CONSTANTS
    Workers,    \* goroutines that call Process, of all backends
    Events,     \* event ids
    Rules,      \* rule ids
    EntityOf,   \* EntityOf[e]: hostname and entity key of event e
    Matches,    \* Matches[r]: the events whose target field matches rule r
    Count,      \* Count[r]: the count of the condition of r; 0 when it has none
    Window,     \* window_seconds
    Cooldown,   \* cooldown_seconds
    MaxTx,      \* how long a transaction may be open
    Attempts,   \* POSTs of one notification at most: 3
    MaxClock,   \* bound: seconds observed
    MaxChanges, \* bound: changes analysts make
    NoEvent,    \* stands for no event
    NoRule      \* stands for no rule

ASSUME RuleEngineAssumption ==
    /\ IsFiniteSet(Events)
    /\ Matches \in [Rules -> SUBSET Events]
    /\ Count \in [Rules -> Nat]
    /\ Window \in Nat /\ Cooldown \in Nat /\ MaxTx \in Nat /\ MaxClock \in Nat
    /\ MaxChanges \in Nat /\ Attempts \in Nat \ {0}
    /\ MaxTx <= Cooldown
    /\ NoEvent \notin Events /\ NoRule \notin Rules

VARIABLES
    clock,      \* the clock of Postgres
    rules,      \* rules[r]: state of the row of r
    receipts,   \* rule_event_receipts
    alerts,     \* alerts, by alert_id
    links,      \* alert_events
    tx,         \* tx[w]: what goroutine w is doing
    changes     \* changes by analysts so far

vars == <<clock, rules, receipts, alerts, links, tx, changes>>

Times    == 0 .. MaxClock
Entities == {EntityOf[e] : e \in Events}

\* "broken": enabled, with a pattern that regexp.MatchString refuses.
RuleState == {"enabled", "disabled", "broken", "deleted"}

Receipt == [rule : Rules, event : Events, at : Times]
Alert   == [rule : Rules, entity : Entities, status : {"open", "acknowledged", "closed"},
            occurrences : Nat, triggered : Times, last : Times,
            wasClosed : BOOLEAN,   \* history: an analyst closed it at some time
            notices : Nat]         \* history: messages about it that have arrived
Link    == [alert : Nat \ {0}, event : Events]

NoAlert == 0

\* pc    "rules": between two rules; "begun": waiting for the advisory lock;
\*       "locked": holding it; "chosen": receipt written, alert to use known;
\*       "notify": committed, announcing a new alert.
\* todo  matching rules of the snapshot not recorded yet
\* bad   the snapshot holds a rule that does not compile
\* now   now() of the open transaction
\* posts POSTs of the notification that were not answered
Tx == [pc : {"idle", "rules", "begun", "locked", "chosen", "notify"},
       event : Events \cup {NoEvent}, todo : SUBSET Rules, bad : BOOLEAN,
       rule : Rules \cup {NoRule}, now : Times, alert : Nat, posts : 0 .. Attempts - 1]

Idle == [pc |-> "idle", event |-> NoEvent, todo |-> {}, bad |-> FALSE,
         rule |-> NoRule, now |-> 0, alert |-> NoAlert, posts |-> 0]

TypeOK ==
    /\ clock \in Times
    /\ rules \in [Rules -> RuleState]
    /\ receipts \subseteq Receipt
    /\ alerts \in Seq(Alert)
    /\ links \subseteq Link
    /\ tx \in [Workers -> Tx]
    /\ changes \in 0 .. MaxChanges

Init ==
    /\ clock = 0
    /\ rules \in [Rules -> {"enabled", "disabled"}]
    /\ receipts = {}
    /\ alerts = <<>>
    /\ links = {}
    /\ tx = [w \in Workers |-> Idle]
    /\ changes = 0

----------------------------------------------------------------------------
(* What the queries of a transaction return.                               *)

Entity(w) == EntityOf[tx[w].event]

Open == {"begun", "locked", "chosen"}

\* The receipt that w is about to write, or has written and not committed.
NewReceipt(w) == [rule |-> tx[w].rule, event |-> tx[w].event, at |-> tx[w].now]

\* Mutant: no receipt is looked for; the key of alert_events is all there is.
HasReceiptNever(r, e) == FALSE

HasReceipt(r, e) == \E c \in receipts : c.rule = r /\ c.event = e

\* Receipts of a rule and entity observed since time t.
Since(r, x, t) == {c \in receipts : c.rule = r /\ EntityOf[c.event] = x /\ c.at >= t}

\* Mutant: the window is not applied.
ReachedEver(w) ==
    Cardinality(Since(tx[w].rule, Entity(w), 0)) + 1 >= Count[tx[w].rule]

\* The count of receipts, the transaction's own one included, reaches the condition.
Reached(w) ==
    Cardinality(Since(tx[w].rule, Entity(w), tx[w].now - Window)) + 1 >= Count[tx[w].rule]

\* Alerts an event of w may be aggregated into.
Live(w) ==
    {i \in DOMAIN alerts :
        /\ alerts[i].rule = tx[w].rule /\ alerts[i].entity = Entity(w)
        /\ alerts[i].status \in {"open", "acknowledged"}
        /\ alerts[i].last >= tx[w].now - Cooldown}

\* The row FOR UPDATE returns: a live alert that was seen last, if there is one.
IsChoice(w, i) ==
    IF Live(w) = {}
      THEN i = NoAlert
      ELSE i \in Live(w) /\ \A j \in Live(w) : alerts[j].last <= alerts[i].last

\* The transaction of w ends; it goes on to the other rules.
NextRule(w) ==
    [tx[w] EXCEPT !.pc = "rules", !.todo = @ \ {tx[w].rule}, !.rule = NoRule,
                  !.now = 0, !.alert = NoAlert, !.posts = 0]

----------------------------------------------------------------------------
(* Process and recordAlert.                                                *)

\* Process is called with event e and reads the enabled rules.
Process(w, e) ==
    /\ tx[w].pc = "idle"
    /\ tx' = [tx EXCEPT ![w] =
                 [Idle EXCEPT !.pc = "rules", !.event = e,
                              !.todo = {r \in Rules : rules[r] = "enabled" /\ e \in Matches[r]},
                              !.bad = \E r \in Rules : rules[r] = "broken"]]
    /\ UNCHANGED <<clock, rules, receipts, alerts, links, changes>>

\* A matching rule comes up in the loop: BEGIN, in whatever order the query had.
Begin(w, r) ==
    /\ tx[w].pc = "rules" /\ r \in tx[w].todo
    /\ tx' = [tx EXCEPT ![w].pc = "begun", ![w].rule = r, ![w].now = clock]
    /\ UNCHANGED <<clock, rules, receipts, alerts, links, changes>>

\* Mutant: the key of the lock is made of the event, not of the entity.
LockEvent(w) ==
    /\ tx[w].pc = "begun"
    /\ \A v \in Workers :
          tx[v].pc \in {"locked", "chosen"} /\ tx[v].rule = tx[w].rule => tx[v].event # tx[w].event
    /\ tx' = [tx EXCEPT ![w].pc = "locked"]
    /\ UNCHANGED <<clock, rules, receipts, alerts, links, changes>>

\* pg_advisory_xact_lock on the rule and the entity.
Lock(w) ==
    /\ tx[w].pc = "begun"
    /\ \A v \in Workers :
          tx[v].pc \in {"locked", "chosen"} /\ tx[v].rule = tx[w].rule => Entity(v) # Entity(w)
    /\ tx' = [tx EXCEPT ![w].pc = "locked"]
    /\ UNCHANGED <<clock, rules, receipts, alerts, links, changes>>

\* ON CONFLICT DO NOTHING wrote no row: the event was recorded before.
Duplicate(w) ==
    /\ tx[w].pc = "locked"
    /\ HasReceipt(tx[w].rule, tx[w].event)
    /\ tx' = [tx EXCEPT ![w] = NextRule(w)]
    /\ UNCHANGED <<clock, rules, receipts, alerts, links, changes>>

\* The receipt is kept, but the condition of the rule is not reached yet.
BelowCount(w) ==
    /\ tx[w].pc = "locked"
    /\ ~HasReceipt(tx[w].rule, tx[w].event) /\ rules[tx[w].rule] # "deleted"
    /\ ~Reached(w)
    /\ receipts' = receipts \cup {NewReceipt(w)}
    /\ tx' = [tx EXCEPT ![w] = NextRule(w)]
    /\ UNCHANGED <<clock, rules, alerts, links, changes>>

\* Receipt written, condition reached: SELECT ... FOR UPDATE finds the alert.
ChooseAlert(w) ==
    /\ tx[w].pc = "locked"
    /\ ~HasReceipt(tx[w].rule, tx[w].event) /\ rules[tx[w].rule] # "deleted"
    /\ Reached(w)
    /\ \E i \in DOMAIN alerts \cup {NoAlert} :
          /\ IsChoice(w, i)
          /\ tx' = [tx EXCEPT ![w].pc = "chosen", ![w].alert = i]
    /\ UNCHANGED <<clock, rules, receipts, alerts, links, changes>>

\* No alert to aggregate into: INSERT INTO alerts, link the event, commit.
CommitNew(w) ==
    /\ tx[w].pc = "chosen" /\ tx[w].alert = NoAlert
    /\ alerts' = Append(alerts,
          [rule |-> tx[w].rule, entity |-> Entity(w), status |-> "open", occurrences |-> 1,
           triggered |-> tx[w].now, last |-> tx[w].now, wasClosed |-> FALSE, notices |-> 0])
    /\ links' = links \cup {[alert |-> Len(alerts) + 1, event |-> tx[w].event]}
    /\ receipts' = receipts \cup {NewReceipt(w)}
    /\ tx' = [tx EXCEPT ![w].pc = "notify", ![w].now = 0, ![w].alert = Len(alerts) + 1]
    /\ UNCHANGED <<clock, rules, changes>>

\* Mutant: every occurrence is announced, not the new alert only.
CommitOccurrenceNotify(w) ==
    /\ tx[w].pc = "chosen" /\ tx[w].alert # NoAlert
    /\ alerts' = [alerts EXCEPT ![tx[w].alert].occurrences = @ + 1,
                                ![tx[w].alert].last = tx[w].now]
    /\ links' = links \cup {[alert |-> tx[w].alert, event |-> tx[w].event]}
    /\ receipts' = receipts \cup {NewReceipt(w)}
    /\ tx' = [tx EXCEPT ![w].pc = "notify", ![w].now = 0]
    /\ UNCHANGED <<clock, rules, changes>>

\* The event is one more occurrence of the chosen alert; link it, commit.
CommitOccurrence(w) ==
    /\ tx[w].pc = "chosen" /\ tx[w].alert # NoAlert
    /\ alerts' = [alerts EXCEPT ![tx[w].alert].occurrences = @ + 1,
                                ![tx[w].alert].last = tx[w].now]
    /\ links' = links \cup {[alert |-> tx[w].alert, event |-> tx[w].event]}
    /\ receipts' = receipts \cup {NewReceipt(w)}
    /\ tx' = [tx EXCEPT ![w] = NextRule(w)]
    /\ UNCHANGED <<clock, rules, changes>>

\* Send: a POST arrives, and its answer says so.
Answered(w) ==
    /\ tx[w].pc = "notify"
    /\ alerts' = [alerts EXCEPT ![tx[w].alert].notices = @ + 1]
    /\ tx' = [tx EXCEPT ![w] = NextRule(w)]
    /\ UNCHANGED <<clock, rules, receipts, links, changes>>

\* A POST is lost, refused, or arrives without an answer in time: Send tries again, and
\* after the last attempt its error is only printed.
Unanswered(w) ==
    /\ tx[w].pc = "notify"
    /\ \E arrived \in {0, 1} : alerts' = [alerts EXCEPT ![tx[w].alert].notices = @ + arrived]
    /\ tx' = [tx EXCEPT ![w] = IF tx[w].posts + 1 < Attempts
                                 THEN [tx[w] EXCEPT !.posts = @ + 1] ELSE NextRule(w)]
    /\ UNCHANGED <<clock, rules, receipts, links, changes>>

\* No bot is configured, or the context ends between two attempts.
GiveUp(w) ==
    /\ tx[w].pc = "notify"
    /\ tx' = [tx EXCEPT ![w] = NextRule(w)]
    /\ UNCHANGED <<clock, rules, receipts, alerts, links, changes>>

Notify(w) == Answered(w) \/ Unanswered(w) \/ GiveUp(w)

\* Every rule of the snapshot was handled.
Processed(w) ==
    /\ tx[w].pc = "rules" /\ tx[w].todo = {} /\ ~tx[w].bad
    /\ tx' = [tx EXCEPT ![w] = Idle]
    /\ UNCHANGED <<clock, rules, receipts, alerts, links, changes>>

\* Process returns an error, or its backend dies: a broken pattern, a rule deleted
\* under it, a failing query.  The open transaction, if any, is rolled back; the
\* event is delivered again.
Abort(w) ==
    /\ tx[w].pc # "idle"
    /\ tx' = [tx EXCEPT ![w] = Idle]
    /\ UNCHANGED <<clock, rules, receipts, alerts, links, changes>>

----------------------------------------------------------------------------
(* Analysts.                                                               *)

Change == changes < MaxChanges /\ changes' = changes + 1

\* Mutant: the status of the request is not checked.
UpdateAlertUnchecked(i, s) ==
    /\ i \in DOMAIN alerts
    /\ \E t \in {s, "resolved"} : alerts' = [alerts EXCEPT ![i].status = t]
    /\ Change
    /\ UNCHANGED <<clock, rules, receipts, links, tx>>

\* PATCH /alerts/{id}; the row waits for a transaction that chose it.
UpdateAlert(i, s) ==
    /\ i \in DOMAIN alerts
    /\ \A w \in Workers : ~(tx[w].pc = "chosen" /\ tx[w].alert = i)
    /\ alerts' = [alerts EXCEPT ![i].status = s, ![i].wasClosed = @ \/ s = "closed"]
    /\ Change
    /\ UNCHANGED <<clock, rules, receipts, links, tx>>

\* PUT /rules/{id}: no state and no pattern is refused.
UpdateRule(r, s) ==
    /\ rules[r] # "deleted" /\ s # "deleted"
    /\ rules' = [rules EXCEPT ![r] = s]
    /\ Change
    /\ UNCHANGED <<clock, receipts, alerts, links, tx>>

\* DELETE /rules/{id} takes the receipts along; the rule of an alert cannot be
\* deleted, and one that a transaction just referred to has to wait for it.
DeleteRule(r) ==
    /\ rules[r] # "deleted"
    /\ \A i \in DOMAIN alerts : alerts[i].rule # r
    /\ \A w \in Workers : ~(tx[w].pc = "chosen" /\ tx[w].rule = r)
    /\ rules' = [rules EXCEPT ![r] = "deleted"]
    /\ receipts' = {c \in receipts : c.rule # r}
    /\ Change
    /\ UNCHANGED <<clock, alerts, links, tx>>

\* Time passes, but no transaction stays open for longer than MaxTx.
Tick ==
    /\ clock < MaxClock
    /\ \A w \in Workers : tx[w].pc \in Open => clock < tx[w].now + MaxTx
    /\ clock' = clock + 1
    /\ UNCHANGED <<rules, receipts, alerts, links, tx, changes>>

----------------------------------------------------------------------------
WorkerStep(w) ==
    \/ \E e \in Events : Process(w, e)
    \/ \E r \in Rules : Begin(w, r)
    \/ Lock(w)
    \/ Duplicate(w)
    \/ BelowCount(w)
    \/ ChooseAlert(w)
    \/ CommitNew(w)
    \/ CommitOccurrence(w)
    \/ Notify(w)
    \/ Processed(w)
    \/ Abort(w)

Analyst ==
    \/ \E i \in DOMAIN alerts, s \in {"open", "acknowledged", "closed"} : UpdateAlert(i, s)
    \/ \E r \in Rules, s \in RuleState : UpdateRule(r, s)
    \/ \E r \in Rules : DeleteRule(r)

Next ==
    \/ \E w \in Workers : WorkerStep(w)
    \/ Analyst
    \/ Tick

Spec == Init /\ [][Next]_vars

----------------------------------------------------------------------------
(* Properties.                                                             *)

EventsOf(i) == {e \in Events : [alert |-> i, event |-> e] \in links}

\* "A replay after an indexing success or process crash cannot count the same
\* rule/event twice" (durable.go:12-13): an alert counts exactly the events linked
\* to it, and one event is linked to one alert of a rule at most, whichever
\* goroutines it was delivered to.
CountedOnce ==
    /\ \A i \in DOMAIN alerts : alerts[i].occurrences = Cardinality(EventsOf(i))
    /\ \A i, j \in DOMAIN alerts :
          i # j /\ alerts[i].rule = alerts[j].rule => EventsOf(i) \cap EventsOf(j) = {}

\* Receipts of one rule and entity that lie within one window of the rule.
IsBurst(S, r) ==
    /\ S \subseteq {c \in receipts : c.rule = r}
    /\ \A c, d \in S : EntityOf[c.event] = EntityOf[d.event] /\ c.at <= d.at + Window

Raised(c) == \E i \in DOMAIN alerts : alerts[i].rule = c.rule /\ c.event \in EventsOf(i)

\* No burst is missed: Count receipts within a window never stay without an alert,
\* though the transactions wait for each other with a now() taken before the wait
\* (durable.go:20-58).
BurstRaisesAlert ==
    \A r \in Rules : \A S \in SUBSET receipts :
        IsBurst(S, r) /\ Cardinality(S) >= Count[r] /\ S # {} => \E c \in S : Raised(c)

\* No alert without a burst: an event is linked only if Count receipts lie in the
\* window before it, give or take the time a transaction was open (durable.go:50-58).
AlertHasBurst ==
    \A i \in DOMAIN alerts : \A e \in EventsOf(i) :
        \E c \in receipts :
            /\ c.rule = alerts[i].rule /\ c.event = e
            /\ Cardinality({d \in Since(c.rule, EntityOf[c.event], c.at - Window) : d.at <= c.at + MaxTx})
                  >= Count[c.rule]

\* The threshold is exact: bursts have alerts, and alerts bursts.
AlertIffBurst == BurstRaisesAlert /\ AlertHasBurst

\* An alert nobody closed takes up every later occurrence: two such alerts of one rule
\* and entity are a cooldown apart, counted from the last event of the older one, give
\* or take the time a transaction was open (durable.go:60-69).
QuietBeforeNewAlert ==
    \A i, j \in DOMAIN alerts :
        /\ i < j /\ ~alerts[i].wasClosed /\ ~alerts[j].wasClosed
        /\ alerts[i].rule = alerts[j].rule /\ alerts[i].entity = alerts[j].entity
        => \A c \in receipts :
              c.rule = alerts[i].rule /\ c.event \in EventsOf(i)
                => c.at + Cooldown < alerts[j].triggered + MaxTx

\* Telegram may get a message several times, for Send posts it again when the answer
\* is lost (engine.go:154-178).  But however often the event is delivered, and to
\* whichever goroutines, one call of Send announces an alert (durable.go:78-84): no more
\* than Attempts messages arrive, and what has arrived while it tries are its own
\* messages that were not answered.
AnnouncedByOneSend ==
    /\ \A i \in DOMAIN alerts : alerts[i].notices <= Attempts
    /\ \A w \in Workers : tx[w].pc = "notify" => alerts[tx[w].alert].notices <= tx[w].posts

=============================================================================
