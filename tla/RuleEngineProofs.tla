-------------------------- MODULE RuleEngineProofs --------------------------
(***************************************************************************)
(* Proofs about RuleEngine, for any goroutines, events, rules, thresholds  *)
(* and clock.  The inductive invariant IInv relates what an open           *)
(* transaction read under the advisory lock to what it may still rely on   *)
(* at its commit.                                                          *)
(***************************************************************************)
EXTENDS RuleEngine, TLAPS, FiniteSetTheorems, SequenceTheorems

Holding == {"locked", "chosen"}

SameKey(i, r, x) == alerts[i].rule = r /\ alerts[i].entity = x

\* A transaction has an event and a rule, and its now() is not far behind the clock.
TxInv ==
    \A w \in Workers :
        /\ tx[w].pc # "idle" => tx[w].event \in Events
        /\ tx[w].pc \in Open =>
              /\ tx[w].rule \in Rules
              /\ tx[w].now <= clock /\ clock <= tx[w].now + MaxTx

\* The advisory lock excludes transactions of the same rule and entity.
LockInv ==
    \A v, w \in Workers :
        /\ v # w /\ tx[v].pc \in Holding /\ tx[w].pc \in Holding
        /\ tx[v].rule = tx[w].rule
        => Entity(v) # Entity(w)

\* What a transaction read holds until it commits.
ChosenInv ==
    \A w \in Workers : tx[w].pc = "chosen" =>
        /\ ~HasReceipt(tx[w].rule, tx[w].event)
        /\ Reached(w)
        /\ tx[w].alert # NoAlert =>
              /\ tx[w].alert \in DOMAIN alerts
              /\ SameKey(tx[w].alert, tx[w].rule, Entity(w))
              /\ alerts[tx[w].alert].last >= tx[w].now - Cooldown
        /\ \A i \in DOMAIN alerts :
              /\ SameKey(i, tx[w].rule, Entity(w)) /\ ~alerts[i].wasClosed
              /\ alerts[i].last >= tx[w].now - Cooldown
              => tx[w].alert # NoAlert /\ alerts[i].last <= alerts[tx[w].alert].last

\* One goroutine announces an alert, and what arrived of it are POSTs of this Send.
NotifyInv ==
    \A w \in Workers : tx[w].pc = "notify" =>
        /\ tx[w].alert \in DOMAIN alerts
        /\ alerts[tx[w].alert].notices <= tx[w].posts
        /\ \A v \in Workers : tx[v].pc = "notify" /\ tx[v].alert = tx[w].alert => v = w

NoticeInv == \A i \in DOMAIN alerts : alerts[i].notices <= Attempts

ReceiptInv ==
    /\ IsFiniteSet(receipts)
    /\ \A c \in receipts : c.at <= clock

AlertInv ==
    \A i \in DOMAIN alerts :
        /\ ~alerts[i].wasClosed => alerts[i].status # "closed"
        /\ alerts[i].triggered <= clock
        /\ alerts[i].triggered <= alerts[i].last + MaxTx

\* An alert is linked to events it has a receipt for, and was seen last not much
\* before the latest of them.
LinkInv ==
    \A l \in links :
        /\ l.alert \in DOMAIN alerts
        /\ EntityOf[l.event] = alerts[l.alert].entity
        /\ HasReceipt(alerts[l.alert].rule, l.event)
        /\ \A c \in receipts :
              c.rule = alerts[l.alert].rule /\ c.event = l.event
                => c.at <= alerts[l.alert].last + MaxTx

\* Alerts of one rule and entity that nobody closed are a cooldown apart.
SpacedInv ==
    \A i, j \in DOMAIN alerts :
        /\ i < j /\ SameKey(j, alerts[i].rule, alerts[i].entity)
        /\ ~alerts[i].wasClosed /\ ~alerts[j].wasClosed
        => alerts[i].last + Cooldown < alerts[j].triggered

IInv ==
    /\ TypeOK
    /\ TxInv /\ LockInv /\ ChosenInv /\ NotifyInv
    /\ NoticeInv /\ ReceiptInv /\ AlertInv /\ LinkInv /\ SpacedInv
    /\ CountedOnce /\ BurstRaisesAlert /\ AlertHasBurst

----------------------------------------------------------------------------
(* Types.                                                                  *)

LEMMA TxType ==
  ASSUME TypeOK, NEW w \in Workers
  PROVE  /\ tx[w] \in Tx
         /\ tx[w].pc \in {"idle", "rules", "begun", "locked", "chosen", "notify"}
         /\ tx[w].event \in Events \cup {NoEvent}
         /\ tx[w].todo \subseteq Rules
         /\ tx[w].bad \in BOOLEAN
         /\ tx[w].rule \in Rules \cup {NoRule}
         /\ tx[w].now \in Times
         /\ tx[w].alert \in Nat
         /\ tx[w].posts \in 0 .. Attempts - 1
<1>1. tx[w] \in Tx
  BY DEF TypeOK
<1> QED
  BY <1>1 DEF Tx

LEMMA IdleType == RuleEngineAssumption => Idle \in Tx
BY DEF RuleEngineAssumption, Idle, Tx, Times, NoAlert

LEMMA NextRuleType ==
  ASSUME RuleEngineAssumption, TypeOK, NEW w \in Workers
  PROVE  /\ NextRule(w) \in Tx
         /\ NextRule(w).pc = "rules"
         /\ NextRule(w).event = tx[w].event
<1>1. /\ tx[w] \in Tx
      /\ tx[w].todo \subseteq Rules
  BY TxType
<1>2. 0 \in Times /\ NoAlert \in Nat /\ 0 \in 0 .. Attempts - 1
  BY DEF RuleEngineAssumption, Times, NoAlert
<1> QED
  BY <1>1, <1>2 DEF NextRule, Tx

LEMMA AlertType ==
  ASSUME TypeOK, NEW i \in DOMAIN alerts
  PROVE  /\ i \in Nat \ {0}
         /\ alerts[i] \in Alert
         /\ alerts[i].rule \in Rules
         /\ alerts[i].entity \in Entities
         /\ alerts[i].status \in {"open", "acknowledged", "closed"}
         /\ alerts[i].occurrences \in Nat
         /\ alerts[i].triggered \in Times
         /\ alerts[i].last \in Times
         /\ alerts[i].wasClosed \in BOOLEAN
         /\ alerts[i].notices \in Nat
<1>1. alerts \in Seq(Alert)
  BY DEF TypeOK
<1>2. i \in Nat \ {0} /\ alerts[i] \in Alert
  BY <1>1
<1> QED
  BY <1>2 DEF Alert

LEMMA ReceiptType ==
  ASSUME TypeOK, NEW c \in receipts
  PROVE  c.rule \in Rules /\ c.event \in Events /\ c.at \in Times
<1>1. c \in Receipt
  BY DEF TypeOK
<1> QED
  BY <1>1 DEF Receipt

\* What an open transaction will write has the right types.
LEMMA NewReceiptType ==
  ASSUME TypeOK, TxInv, NEW w \in Workers, tx[w].pc \in Open
  PROVE  /\ NewReceipt(w) \in Receipt
         /\ NewReceipt(w).rule = tx[w].rule
         /\ NewReceipt(w).event = tx[w].event
         /\ NewReceipt(w).at = tx[w].now
         /\ tx[w].rule \in Rules /\ tx[w].event \in Events /\ tx[w].now \in Times
         /\ Entity(w) \in Entities
<1>1. tx[w].rule \in Rules /\ tx[w].event \in Events /\ tx[w].now \in Times
  BY TxType DEF TxInv, Open
<1> QED
  BY <1>1 DEF NewReceipt, Receipt, Entity, Entities

\* A step of w replaces its own record only.
LEMMA TxReplaced ==
  ASSUME TypeOK, NEW w \in Workers, NEW t \in Tx, tx' = [tx EXCEPT ![w] = t]
  PROVE  /\ tx' \in [Workers -> Tx]
         /\ tx'[w] = t
         /\ \A v \in Workers : v # w => tx'[v] = tx[v]
BY DEF TypeOK

\* The record of w after each step that does not end its transaction.
LEMMA BeginTx ==
  ASSUME TypeOK, NEW w \in Workers, NEW r \in Rules, Begin(w, r)
  PROVE  /\ tx' \in [Workers -> Tx]
         /\ tx'[w].pc = "begun" /\ tx'[w].event = tx[w].event /\ tx'[w].rule = r
         /\ tx'[w].now = clock
         /\ \A v \in Workers : v # w => tx'[v] = tx[v]
<1> DEFINE t == [tx[w] EXCEPT !.pc = "begun", !.rule = r, !.now = clock]
<1>1. tx[w] \in Tx /\ clock \in Times
  BY TxType DEF TypeOK
<1>2. /\ t \in Tx
      /\ t.pc = "begun" /\ t.event = tx[w].event /\ t.rule = r /\ t.now = clock
  BY <1>1 DEF Tx
<1>3. tx' = [tx EXCEPT ![w] = t]
  BY DEF Begin, TypeOK
<1> QED
  BY <1>2, <1>3, TxReplaced

LEMMA LockTx ==
  ASSUME TypeOK, NEW w \in Workers, Lock(w)
  PROVE  /\ tx' \in [Workers -> Tx]
         /\ tx'[w].pc = "locked" /\ tx'[w].event = tx[w].event
         /\ tx'[w].rule = tx[w].rule /\ tx'[w].now = tx[w].now
         /\ \A v \in Workers : v # w => tx'[v] = tx[v]
<1> DEFINE t == [tx[w] EXCEPT !.pc = "locked"]
<1>1. tx[w] \in Tx
  BY TxType
<1>2. /\ t \in Tx
      /\ t.pc = "locked" /\ t.event = tx[w].event /\ t.rule = tx[w].rule
      /\ t.now = tx[w].now
  BY <1>1 DEF Tx
<1>3. tx' = [tx EXCEPT ![w] = t]
  BY DEF Lock, TypeOK
<1> QED
  BY <1>2, <1>3, TxReplaced

LEMMA ChooseTx ==
  ASSUME TypeOK, NEW w \in Workers, ChooseAlert(w)
  PROVE  /\ tx' \in [Workers -> Tx]
         /\ tx'[w].pc = "chosen" /\ tx'[w].event = tx[w].event
         /\ tx'[w].rule = tx[w].rule /\ tx'[w].now = tx[w].now
         /\ tx'[w].alert \in DOMAIN alerts \cup {NoAlert}
         /\ IsChoice(w, tx'[w].alert)
         /\ \A v \in Workers : v # w => tx'[v] = tx[v]
<1>1. PICK i \in DOMAIN alerts \cup {NoAlert} :
         IsChoice(w, i) /\ tx' = [tx EXCEPT ![w].pc = "chosen", ![w].alert = i]
  BY DEF ChooseAlert
<1> DEFINE t == [tx[w] EXCEPT !.pc = "chosen", !.alert = i]
<1>2. tx[w] \in Tx /\ i \in Nat
  BY TxType, AlertType DEF NoAlert
<1>3. /\ t \in Tx
      /\ t.pc = "chosen" /\ t.event = tx[w].event /\ t.rule = tx[w].rule
      /\ t.now = tx[w].now /\ t.alert = i
  BY <1>2 DEF Tx
<1>4. tx' = [tx EXCEPT ![w] = t]
  BY <1>1 DEF TypeOK
<1> QED
  BY <1>1, <1>3, <1>4, TxReplaced

LEMMA CommitNewTx ==
  ASSUME RuleEngineAssumption, TypeOK, NEW w \in Workers, CommitNew(w)
  PROVE  /\ tx' \in [Workers -> Tx]
         /\ tx'[w].pc = "notify" /\ tx'[w].event = tx[w].event
         /\ tx'[w].alert = Len(alerts) + 1
         /\ \A v \in Workers : v # w => tx'[v] = tx[v]
<1> DEFINE t == [tx[w] EXCEPT !.pc = "notify", !.now = 0, !.alert = Len(alerts) + 1]
<1>1. tx[w] \in Tx /\ Len(alerts) + 1 \in Nat /\ 0 \in Times
  BY TxType DEF TypeOK, RuleEngineAssumption, Times
<1>2. /\ t \in Tx
      /\ t.pc = "notify" /\ t.event = tx[w].event /\ t.alert = Len(alerts) + 1
  BY <1>1 DEF Tx
<1>3. tx' = [tx EXCEPT ![w] = t]
  BY DEF CommitNew, TypeOK
<1> QED
  BY <1>2, <1>3, TxReplaced

\* The steps that end a transaction and go on to the next rule.
Ends(w) == tx' = [tx EXCEPT ![w] = NextRule(w)]

LEMMA EndsTx ==
  ASSUME RuleEngineAssumption, TypeOK, NEW w \in Workers, Ends(w)
  PROVE  /\ tx' \in [Workers -> Tx]
         /\ tx'[w].pc = "rules" /\ tx'[w].event = tx[w].event
         /\ \A v \in Workers : v # w => tx'[v] = tx[v]
<1>1. /\ NextRule(w) \in Tx
      /\ NextRule(w).pc = "rules" /\ NextRule(w).event = tx[w].event
  BY NextRuleType
<1>2. tx' = [tx EXCEPT ![w] = NextRule(w)]
  BY DEF Ends
<1> QED
  BY <1>1, <1>2, TxReplaced

\* The step of a Send that tries again.
Retries(w) ==
    /\ Unanswered(w) /\ tx'[w].pc = "notify" /\ tx'[w].event = tx[w].event
    /\ tx'[w].alert = tx[w].alert /\ tx'[w].posts = tx[w].posts + 1

LEMMA NotifyTx ==
  ASSUME RuleEngineAssumption, TypeOK, NEW w \in Workers, Notify(w)
  PROVE  /\ tx[w].pc = "notify"
         /\ UNCHANGED <<clock, rules, receipts, links, changes>>
         /\ tx' \in [Workers -> Tx]
         /\ \A v \in Workers : v # w => tx'[v] = tx[v]
         /\ Ends(w) \/ Retries(w)
<1>1. tx[w].pc = "notify" /\ UNCHANGED <<clock, rules, receipts, links, changes>>
  BY DEF Notify, Answered, Unanswered, GiveUp
<1>2. CASE Ends(w)
  BY <1>1, <1>2, EndsTx
<1>3. CASE ~Ends(w)
  <2> DEFINE t == [tx[w] EXCEPT !.posts = tx[w].posts + 1]
  <2>1. Unanswered(w)
    BY <1>3 DEF Notify, Answered, GiveUp, Ends
  <2>2. tx' = [tx EXCEPT ![w] = t] /\ tx[w].posts + 1 < Attempts
    BY <1>3, <2>1 DEF Unanswered, Ends
  <2>3. tx[w] \in Tx /\ tx[w].posts + 1 \in 0 .. Attempts - 1
    BY <2>2, TxType DEF RuleEngineAssumption
  <2>4. /\ t \in Tx
        /\ t.pc = tx[w].pc /\ t.event = tx[w].event /\ t.alert = tx[w].alert
        /\ t.posts = tx[w].posts + 1
    BY <2>3 DEF Tx
  <2> HIDE DEF t
  <2> QED
    BY <1>1, <2>1, <2>2, <2>4, TxReplaced DEF Retries
<1> QED
  BY <1>2, <1>3

\* The steps that leave w idle, or with an event and no transaction.
LEMMA OutsideTx ==
  ASSUME RuleEngineAssumption, TypeOK, NEW w \in Workers,
         (\E e \in Events : Process(w, e)) \/ Processed(w) \/ Abort(w)
  PROVE  /\ tx' \in [Workers -> Tx]
         /\ tx'[w].pc \in {"idle", "rules"}
         /\ tx'[w].pc # "idle" => tx'[w].event \in Events
         /\ \A v \in Workers : v # w => tx'[v] = tx[v]
<1>1. Idle \in Tx /\ Idle.pc = "idle"
  BY IdleType DEF Idle
<1>2. CASE Processed(w) \/ Abort(w)
  <2>1. tx' = [tx EXCEPT ![w] = Idle]
    BY <1>2 DEF Processed, Abort
  <2> QED
    BY <1>1, <2>1, TxReplaced
<1>3. CASE \E e \in Events : Process(w, e)
  <2>1. PICK e \in Events : Process(w, e)
    BY <1>3
  <2> DEFINE todo == {r \in Rules : rules[r] = "enabled" /\ e \in Matches[r]}
             bad == \E r \in Rules : rules[r] = "broken"
             t == [Idle EXCEPT !.pc = "rules", !.event = e, !.todo = todo, !.bad = bad]
  <2>2. /\ t \in Tx
        /\ t.pc = "rules" /\ t.event = e
    <3>1. bad \in BOOLEAN /\ todo \subseteq Rules
      OBVIOUS
    <3> HIDE DEF bad, todo
    <3> QED
      BY <1>1, <3>1 DEF Tx
  <2>3. tx' = [tx EXCEPT ![w] = t]
    BY <2>1 DEF Process
  <2> HIDE DEF t
  <2> QED
    BY <2>2, <2>3, TxReplaced
<1> QED
  BY <1>2, <1>3

\* The alerts after each step that changes them.
LEMMA AlertsReplaced ==
  ASSUME TypeOK, NEW k \in DOMAIN alerts, NEW a \in Alert,
         alerts' = [alerts EXCEPT ![k] = a]
  PROVE  /\ alerts' \in Seq(Alert)
         /\ DOMAIN alerts' = DOMAIN alerts
         /\ alerts'[k] = a
         /\ \A i \in DOMAIN alerts : i # k => alerts'[i] = alerts[i]
<1>1. alerts \in Seq(Alert)
  BY DEF TypeOK
<1>2. /\ DOMAIN alerts' = DOMAIN alerts
      /\ alerts'[k] = a
      /\ \A i \in DOMAIN alerts : i # k => alerts'[i] = alerts[i]
  BY <1>1
<1>3. alerts' \in Seq(Alert)
  BY <1>1, ExceptSeq
<1> QED
  BY <1>2, <1>3

\* What no step changes in an alert that is there.
SameIdentity(k) ==
    /\ alerts'[k].rule = alerts[k].rule
    /\ alerts'[k].entity = alerts[k].entity
    /\ alerts'[k].triggered = alerts[k].triggered

LEMMA CommitNewAlerts ==
  ASSUME RuleEngineAssumption, TypeOK, TxInv, NEW w \in Workers, CommitNew(w)
  PROVE  LET n == Len(alerts) + 1 IN
         /\ alerts' \in Seq(Alert)
         /\ n \in Nat \ {0} /\ n \notin DOMAIN alerts
         /\ \A i \in DOMAIN alerts : i < n
         /\ DOMAIN alerts' = DOMAIN alerts \cup {n}
         /\ \A i \in DOMAIN alerts : alerts'[i] = alerts[i]
         /\ alerts'[n].rule = tx[w].rule /\ alerts'[n].entity = Entity(w)
         /\ alerts'[n].status = "open" /\ ~alerts'[n].wasClosed
         /\ alerts'[n].occurrences = 1 /\ alerts'[n].notices = 0
         /\ alerts'[n].triggered = tx[w].now /\ alerts'[n].last = tx[w].now
<1> DEFINE a == [rule |-> tx[w].rule, entity |-> Entity(w), status |-> "open", occurrences |-> 1,
                 triggered |-> tx[w].now, last |-> tx[w].now, wasClosed |-> FALSE, notices |-> 0]
<1>1. /\ tx[w].rule \in Rules /\ tx[w].now \in Times /\ Entity(w) \in Entities
  BY NewReceiptType DEF CommitNew, Open
<1>2. a \in Alert
  BY <1>1 DEF Alert
<1>3. alerts' = Append(alerts, a) /\ alerts \in Seq(Alert)
  BY DEF CommitNew, TypeOK
<1>4. /\ a.rule = tx[w].rule /\ a.entity = Entity(w) /\ a.status = "open" /\ ~a.wasClosed
      /\ a.occurrences = 1 /\ a.notices = 0 /\ a.triggered = tx[w].now /\ a.last = tx[w].now
  OBVIOUS
<1> HIDE DEF a
<1>5. /\ alerts' \in Seq(Alert)
      /\ Len(alerts') = Len(alerts) + 1
      /\ \A i \in 1 .. Len(alerts) : alerts'[i] = alerts[i]
      /\ alerts'[Len(alerts) + 1] = a
  BY <1>2, <1>3, AppendProperties
<1>6. /\ DOMAIN alerts = 1 .. Len(alerts)
      /\ DOMAIN alerts' = 1 .. Len(alerts) + 1
      /\ Len(alerts) \in Nat
  BY <1>3, <1>5
<1> QED
  BY <1>4, <1>5, <1>6

LEMMA CommitOccurrenceAlerts ==
  ASSUME RuleEngineAssumption, TypeOK, TxInv, ChosenInv, NEW w \in Workers, CommitOccurrence(w)
  PROVE  LET k == tx[w].alert IN
         /\ alerts' \in Seq(Alert)
         /\ k \in DOMAIN alerts
         /\ DOMAIN alerts' = DOMAIN alerts
         /\ \A i \in DOMAIN alerts : i # k => alerts'[i] = alerts[i]
         /\ SameIdentity(k)
         /\ alerts'[k].status = alerts[k].status
         /\ alerts'[k].wasClosed = alerts[k].wasClosed
         /\ alerts'[k].notices = alerts[k].notices
         /\ alerts'[k].occurrences = alerts[k].occurrences + 1
         /\ alerts'[k].last = tx[w].now
<1> DEFINE k == tx[w].alert
           a == [alerts[k] EXCEPT !.occurrences = alerts[k].occurrences + 1, !.last = tx[w].now]
<1>1. k \in DOMAIN alerts /\ tx[w].now \in Times
  BY TxType DEF ChosenInv, CommitOccurrence
<1>2. alerts[k] \in Alert /\ alerts[k].occurrences + 1 \in Nat
  BY <1>1, AlertType
<1>3. /\ a \in Alert
      /\ a.rule = alerts[k].rule /\ a.entity = alerts[k].entity
      /\ a.triggered = alerts[k].triggered /\ a.status = alerts[k].status
      /\ a.wasClosed = alerts[k].wasClosed /\ a.notices = alerts[k].notices
      /\ a.occurrences = alerts[k].occurrences + 1 /\ a.last = tx[w].now
  BY <1>1, <1>2 DEF Alert
<1>4. alerts' = [alerts EXCEPT ![k] = a]
  BY <1>1 DEF CommitOccurrence, TypeOK
<1> HIDE DEF a
<1> QED
  BY <1>1, <1>3, <1>4, AlertsReplaced DEF SameIdentity

LEMMA NotifyAlerts ==
  ASSUME RuleEngineAssumption, TypeOK, NotifyInv, NEW w \in Workers, Notify(w)
  PROVE  LET k == tx[w].alert IN
         /\ alerts' \in Seq(Alert)
         /\ k \in DOMAIN alerts
         /\ DOMAIN alerts' = DOMAIN alerts
         /\ \A i \in DOMAIN alerts : i # k => alerts'[i] = alerts[i]
         /\ SameIdentity(k)
         /\ alerts'[k].status = alerts[k].status
         /\ alerts'[k].wasClosed = alerts[k].wasClosed
         /\ alerts'[k].notices \in {alerts[k].notices, alerts[k].notices + 1}
         /\ alerts'[k].occurrences = alerts[k].occurrences
         /\ alerts'[k].last = alerts[k].last
<1> DEFINE k == tx[w].alert
           a(arrived) == [alerts[k] EXCEPT !.notices = alerts[k].notices + arrived]
<1>1. k \in DOMAIN alerts
  BY NotifyTx DEF NotifyInv
<1>2. CASE GiveUp(w)
  BY <1>1, <1>2 DEF GiveUp, SameIdentity, TypeOK
<1>3. CASE Answered(w) \/ Unanswered(w)
  <2>1. PICK arrived \in {0, 1} : alerts' = [alerts EXCEPT ![k] = a(arrived)]
    BY <1>1, <1>3 DEF Answered, Unanswered
  <2>2. /\ alerts[k] \in Alert /\ alerts[k].notices + arrived \in Nat
        /\ alerts[k].notices + arrived \in {alerts[k].notices, alerts[k].notices + 1}
    BY <1>1, AlertType
  <2>3. /\ a(arrived) \in Alert
        /\ a(arrived).rule = alerts[k].rule /\ a(arrived).entity = alerts[k].entity
        /\ a(arrived).triggered = alerts[k].triggered /\ a(arrived).status = alerts[k].status
        /\ a(arrived).wasClosed = alerts[k].wasClosed
        /\ a(arrived).notices = alerts[k].notices + arrived
        /\ a(arrived).occurrences = alerts[k].occurrences /\ a(arrived).last = alerts[k].last
    BY <2>2 DEF Alert
  <2> HIDE DEF a
  <2> QED
    BY <1>1, <2>1, <2>2, <2>3, AlertsReplaced DEF SameIdentity
<1> QED
  BY <1>2, <1>3 DEF Notify

LEMMA UpdateAlertAlerts ==
  ASSUME RuleEngineAssumption, TypeOK,
         NEW k \in DOMAIN alerts, NEW st \in {"open", "acknowledged", "closed"},
         UpdateAlert(k, st)
  PROVE  /\ alerts' \in Seq(Alert)
         /\ DOMAIN alerts' = DOMAIN alerts
         /\ \A i \in DOMAIN alerts : i # k => alerts'[i] = alerts[i]
         /\ SameIdentity(k)
         /\ alerts'[k].status = st
         /\ alerts[k].wasClosed \/ st = "closed" <=> alerts'[k].wasClosed
         /\ alerts'[k].notices = alerts[k].notices
         /\ alerts'[k].occurrences = alerts[k].occurrences
         /\ alerts'[k].last = alerts[k].last
<1> DEFINE closed == alerts[k].wasClosed \/ st = "closed"
           a == [alerts[k] EXCEPT !.status = st, !.wasClosed = closed]
<1>1. alerts' = [alerts EXCEPT ![k] = a]
  BY DEF UpdateAlert, TypeOK
<1>2. alerts[k] \in Alert /\ closed \in BOOLEAN
  BY AlertType
<1>3. closed <=> alerts[k].wasClosed \/ st = "closed"
  OBVIOUS
<1> HIDE DEF closed
<1>4. /\ a \in Alert
      /\ a.rule = alerts[k].rule /\ a.entity = alerts[k].entity
      /\ a.triggered = alerts[k].triggered /\ a.status = st
      /\ a.wasClosed = closed /\ a.notices = alerts[k].notices
      /\ a.occurrences = alerts[k].occurrences /\ a.last = alerts[k].last
  BY <1>2 DEF Alert
<1> HIDE DEF a
<1>5. /\ alerts' \in Seq(Alert)
      /\ DOMAIN alerts' = DOMAIN alerts
      /\ alerts'[k] = a
      /\ \A i \in DOMAIN alerts : i # k => alerts'[i] = alerts[i]
  BY <1>1, <1>4, AlertsReplaced
<1>6. alerts[k].wasClosed \/ st = "closed" <=> alerts'[k].wasClosed
  BY <1>3, <1>4, <1>5
<1> QED
  BY <1>4, <1>5, <1>6 DEF SameIdentity

LEMMA InitType == RuleEngineAssumption /\ Init => TypeOK
<1> SUFFICES ASSUME RuleEngineAssumption, Init PROVE TypeOK
  OBVIOUS
<1>1. Idle \in Tx /\ clock \in Times /\ changes \in 0 .. MaxChanges
  BY IdleType DEF Init, RuleEngineAssumption, Times
<1>2. alerts \in Seq(Alert)
  BY DEF Init
<1> QED
  BY <1>1, <1>2 DEF Init, TypeOK, RuleState

LEMMA TypeStep ==
  ASSUME RuleEngineAssumption, TypeOK, TxInv, ChosenInv, NotifyInv, [Next]_vars
  PROVE  TypeOK'
<1>1. ASSUME NEW w \in Workers, WorkerStep(w) PROVE TypeOK'
  <2>0. clock' = clock /\ rules' = rules /\ changes' = changes
    BY <1>1 DEF WorkerStep, Process, Begin, Lock, Duplicate, BelowCount, ChooseAlert,
                CommitNew, CommitOccurrence, Notify, Answered, Unanswered, GiveUp,
                Processed, Abort
  <2>1. CASE (\E e \in Events : Process(w, e)) \/ Processed(w) \/ Abort(w)
    <3>1. UNCHANGED <<receipts, alerts, links>>
      BY <2>1 DEF Process, Processed, Abort
    <3> QED
      BY <2>0, <2>1, <3>1, OutsideTx DEF TypeOK
  <2>2. CASE \E r \in Rules : Begin(w, r)
    BY <2>0, <2>2, BeginTx DEF TypeOK, Begin
  <2>3. CASE Lock(w)
    BY <2>0, <2>3, LockTx DEF TypeOK, Lock
  <2>4. CASE Duplicate(w)
    <3>1. Ends(w) /\ UNCHANGED <<receipts, alerts, links>>
      BY <2>4 DEF Duplicate, Ends
    <3> QED
      BY <2>0, <3>1, EndsTx DEF TypeOK
  <2>5. CASE BelowCount(w)
    <3>1. Ends(w) /\ receipts' = receipts \cup {NewReceipt(w)} /\ UNCHANGED <<alerts, links>>
      BY <2>5 DEF BelowCount, Ends
    <3>2. NewReceipt(w) \in Receipt
      BY <2>5, NewReceiptType DEF BelowCount, Open
    <3> QED
      BY <2>0, <3>1, <3>2, EndsTx DEF TypeOK
  <2>6. CASE ChooseAlert(w)
    BY <2>0, <2>6, ChooseTx DEF TypeOK, ChooseAlert
  <2>7. CASE CommitNew(w)
    <3>1. NewReceipt(w) \in Receipt /\ tx[w].event \in Events
      BY <2>7, NewReceiptType DEF CommitNew, Open
    <3>2. [alert |-> Len(alerts) + 1, event |-> tx[w].event] \in Link
      BY <2>7, <3>1, CommitNewAlerts DEF Link
    <3> QED
      BY <2>0, <2>7, <3>1, <3>2, CommitNewAlerts, CommitNewTx DEF TypeOK, CommitNew
  <2>8. CASE CommitOccurrence(w)
    <3>1. NewReceipt(w) \in Receipt /\ tx[w].event \in Events
      BY <2>8, NewReceiptType DEF CommitOccurrence, Open
    <3>2. [alert |-> tx[w].alert, event |-> tx[w].event] \in Link
      BY <2>8, <3>1, CommitOccurrenceAlerts, AlertType DEF Link
    <3>3. Ends(w)
      BY <2>8 DEF CommitOccurrence, Ends
    <3>4. alerts' \in Seq(Alert) /\ tx' \in [Workers -> Tx]
      BY <2>8, <3>3, CommitOccurrenceAlerts, EndsTx
    <3> QED
      BY <2>0, <2>8, <3>1, <3>2, <3>4 DEF TypeOK, CommitOccurrence
  <2>9. CASE Notify(w)
    BY <2>0, <2>9, NotifyAlerts, NotifyTx DEF TypeOK
  <2> QED
    BY <1>1, <2>1, <2>2, <2>3, <2>4, <2>5, <2>6, <2>7, <2>8, <2>9 DEF WorkerStep
<1>2. ASSUME NEW k \in DOMAIN alerts, NEW st \in {"open", "acknowledged", "closed"}, UpdateAlert(k, st)
      PROVE  TypeOK'
  <2>1. UNCHANGED <<clock, rules, receipts, links, tx>> /\ changes' \in 0 .. MaxChanges
    BY <1>2 DEF UpdateAlert, Change, TypeOK, RuleEngineAssumption
  <2> QED
    BY <1>2, <2>1, UpdateAlertAlerts DEF TypeOK
<1>3. ASSUME NEW r \in Rules, NEW st \in RuleState, UpdateRule(r, st) PROVE TypeOK'
  BY <1>3 DEF UpdateRule, Change, TypeOK, RuleEngineAssumption
<1>4. ASSUME NEW r \in Rules, DeleteRule(r) PROVE TypeOK'
  <2>1. UNCHANGED <<clock, alerts, links, tx>> /\ changes' \in 0 .. MaxChanges
    BY <1>4 DEF DeleteRule, Change, TypeOK, RuleEngineAssumption
  <2>2. receipts' \subseteq receipts /\ rules' \in [Rules -> RuleState]
    BY <1>4 DEF DeleteRule, TypeOK, RuleState
  <2> QED
    BY <2>1, <2>2 DEF TypeOK
<1>5. CASE Tick
  BY <1>5 DEF Tick, TypeOK, Times, RuleEngineAssumption
<1>6. CASE UNCHANGED vars
  BY <1>6 DEF vars, TypeOK
<1> QED
  BY <1>1, <1>2, <1>3, <1>4, <1>5, <1>6 DEF Next, Analyst

----------------------------------------------------------------------------
(* The open transactions.                                                  *)

\* What a step of goroutine w does to the record of w, and to nothing else in tx.
Outside(w) == tx'[w].pc \in {"idle", "rules"} /\ (tx'[w].pc # "idle" => tx'[w].event \in Events)
Begins(w) ==
    /\ tx'[w].pc = "begun" /\ tx'[w].event = tx[w].event /\ tx[w].pc = "rules"
    /\ tx'[w].rule \in Rules /\ tx'[w].now = clock
Keeps(w) == tx'[w].event = tx[w].event /\ tx'[w].rule = tx[w].rule /\ tx'[w].now = tx[w].now
Locks(w) == Lock(w) /\ tx'[w].pc = "locked" /\ Keeps(w)
Chooses(w) ==
    /\ ChooseAlert(w) /\ tx'[w].pc = "chosen" /\ Keeps(w)
    /\ tx'[w].alert \in DOMAIN alerts \cup {NoAlert} /\ IsChoice(w, tx'[w].alert)
Announces(w) ==
    /\ CommitNew(w) /\ tx'[w].pc = "notify" /\ tx'[w].event = tx[w].event
    /\ tx'[w].alert = Len(alerts) + 1

LEMMA WorkerTx ==
  ASSUME RuleEngineAssumption, TypeOK, TxInv, NEW w \in Workers, WorkerStep(w)
  PROVE  /\ clock' = clock /\ rules' = rules
         /\ \A v \in Workers : v # w => tx'[v] = tx[v]
         /\ Outside(w) \/ Begins(w) \/ Locks(w) \/ Chooses(w) \/ Announces(w) \/ Retries(w)
<1>0. clock' = clock /\ rules' = rules
  BY DEF WorkerStep, Process, Begin, Lock, Duplicate, BelowCount, ChooseAlert,
         CommitNew, CommitOccurrence, Notify, Answered, Unanswered, GiveUp, Processed, Abort
<1>1. CASE (\E e \in Events : Process(w, e)) \/ Processed(w) \/ Abort(w)
  BY <1>0, <1>1, OutsideTx DEF Outside
<1>2. CASE \E r \in Rules : Begin(w, r)
  <2>1. PICK r \in Rules : Begin(w, r)
    BY <1>2
  <2>2. tx[w].pc = "rules"
    BY <2>1 DEF Begin
  <2> QED
    BY <1>0, <2>1, <2>2, BeginTx DEF Begins
<1>3. CASE Lock(w)
  BY <1>0, <1>3, LockTx DEF Locks, Keeps
<1>4. CASE ChooseAlert(w)
  BY <1>0, <1>4, ChooseTx DEF Chooses, Keeps
<1>5. CASE CommitNew(w)
  BY <1>0, <1>5, CommitNewTx DEF Announces
<1>6. CASE Duplicate(w) \/ BelowCount(w) \/ CommitOccurrence(w) \/ Notify(w)
  <2>1. tx[w].pc # "idle" /\ (Ends(w) \/ Notify(w))
    BY <1>6, NotifyTx DEF Duplicate, BelowCount, CommitOccurrence, Ends
  <2>2. CASE Ends(w)
    BY <1>0, <2>1, <2>2, EndsTx DEF Outside, TxInv
  <2>3. CASE Notify(w)
    BY <1>0, <2>2, <2>3, NotifyTx
  <2> QED
    BY <2>1, <2>2, <2>3
<1> QED
  BY <1>1, <1>2, <1>3, <1>4, <1>5, <1>6 DEF WorkerStep

\* The other steps leave the transactions alone.
LEMMA OtherTx ==
  ASSUME RuleEngineAssumption, [Next]_vars, \A w \in Workers : ~WorkerStep(w)
  PROVE  tx' = tx
<1>1. CASE UNCHANGED vars
  BY <1>1 DEF vars
<1>2. CASE Tick
  BY <1>2 DEF Tick
<1>3. CASE Analyst
  BY <1>3 DEF Analyst, UpdateAlert, UpdateRule, DeleteRule
<1> QED
  BY <1>1, <1>2, <1>3 DEF Next

LEMMA TxStep ==
  ASSUME RuleEngineAssumption, TypeOK, TxInv, [Next]_vars
  PROVE  TxInv'
<1>1. ASSUME NEW w \in Workers, WorkerStep(w) PROVE TxInv'
  <2>1. /\ clock' = clock
        /\ \A v \in Workers : v # w => tx'[v] = tx[v]
        /\ Outside(w) \/ Begins(w) \/ Locks(w) \/ Chooses(w) \/ Announces(w) \/ Retries(w)
    BY <1>1, WorkerTx
  <2>2. clock \in Nat /\ MaxTx \in Nat
    BY DEF TypeOK, Times, RuleEngineAssumption
  <2>3. /\ tx'[w].pc # "idle" => tx'[w].event \in Events
        /\ tx'[w].pc \in Open =>
              /\ tx'[w].rule \in Rules
              /\ tx'[w].now <= clock /\ clock <= tx'[w].now + MaxTx
    <3>1. CASE Outside(w)
      BY <3>1 DEF Outside, Open
    <3>2. CASE Begins(w)
      BY <2>2, <3>2 DEF Begins, Open, TxInv
    <3>3. CASE Locks(w)
      BY <3>3 DEF Locks, Lock, Keeps, Open, TxInv
    <3>4. CASE Chooses(w)
      BY <3>4 DEF Chooses, ChooseAlert, Keeps, Open, TxInv
    <3>5. CASE Announces(w)
      BY <3>5 DEF Announces, CommitNew, Open, TxInv
    <3>6. CASE Retries(w)
      BY <3>6 DEF Retries, Unanswered, Open, TxInv
    <3> QED
      BY <2>1, <3>1, <3>2, <3>3, <3>4, <3>5, <3>6
  <2> QED
    BY <2>1, <2>3 DEF TxInv
<1>2. CASE Tick
  <2>1. clock \in Nat /\ MaxTx \in Nat /\ \A w \in Workers : tx[w].now \in Nat
    BY TxType DEF TypeOK, Times, RuleEngineAssumption
  <2> QED
    BY <1>2, <2>1 DEF Tick, TxInv, Open
<1>3. CASE (\A w \in Workers : ~WorkerStep(w)) /\ ~Tick
  <2>1. tx' = tx
    BY <1>3, OtherTx
  <2>2. clock' = clock
    BY <1>3 DEF Next, Analyst, UpdateAlert, UpdateRule, DeleteRule, vars
  <2> QED
    BY <2>1, <2>2 DEF TxInv
<1> QED
  BY <1>1, <1>2, <1>3

LEMMA LockStep ==
  ASSUME RuleEngineAssumption, TypeOK, TxInv, LockInv, [Next]_vars
  PROVE  LockInv'
<1>1. ASSUME NEW w \in Workers, WorkerStep(w) PROVE LockInv'
  <2>1. /\ \A v \in Workers : v # w => tx'[v] = tx[v]
        /\ Outside(w) \/ Begins(w) \/ Locks(w) \/ Chooses(w) \/ Announces(w) \/ Retries(w)
    BY <1>1, WorkerTx
  <2>2. ASSUME NEW v \in Workers, v # w, tx'[v].pc \in Holding, tx'[w].pc \in Holding,
               tx'[v].rule = tx'[w].rule
        PROVE  EntityOf[tx'[v].event] # EntityOf[tx'[w].event]
    <3>1. tx'[v] = tx[v] /\ (Locks(w) \/ Chooses(w))
      BY <2>1, <2>2 DEF Outside, Begins, Announces, Retries, Holding
    <3>2. CASE Locks(w)
      BY <2>2, <3>1, <3>2 DEF Locks, Lock, Keeps, Holding, Entity
    <3>3. CASE Chooses(w)
      BY <2>2, <3>1, <3>3 DEF Chooses, ChooseAlert, Keeps, Holding, LockInv, Entity
    <3> QED
      BY <3>1, <3>2, <3>3
  <2> QED
    BY <2>1, <2>2 DEF LockInv, Entity
<1>2. CASE \A w \in Workers : ~WorkerStep(w)
  BY <1>2, OtherTx DEF LockInv, Entity
<1> QED
  BY <1>1, <1>2

----------------------------------------------------------------------------
(* The tables.                                                             *)

\* The steps that write receipts, alerts or links.
LEMMA Writes ==
  ASSUME [Next]_vars,
         \A w \in Workers : ~BelowCount(w) /\ ~CommitNew(w) /\ ~CommitOccurrence(w) /\ ~Notify(w),
         \A i \in DOMAIN alerts, st \in {"open", "acknowledged", "closed"} : ~UpdateAlert(i, st),
         \A r \in Rules : ~DeleteRule(r)
  PROVE  UNCHANGED <<receipts, alerts, links>>
<1>1. CASE UNCHANGED vars
  BY <1>1 DEF vars
<1>2. CASE Tick
  BY <1>2 DEF Tick
<1>3. CASE Analyst
  BY <1>3 DEF Analyst, UpdateRule
<1>4. CASE \E w \in Workers : WorkerStep(w)
  BY <1>4 DEF WorkerStep, Process, Begin, Lock, Duplicate, ChooseAlert, Processed, Abort
<1> QED
  BY <1>1, <1>2, <1>3, <1>4 DEF Next

LEMMA ClockStep ==
  ASSUME TypeOK, [Next]_vars
  PROVE  clock' \in Nat /\ clock \in Nat /\ clock <= clock'
<1>1. clock \in Nat
  BY DEF TypeOK, Times
<1>2. clock' = clock \/ clock' = clock + 1
  BY DEF Next, WorkerStep, Analyst, Tick, vars, Process, Begin, Lock, Duplicate, BelowCount,
         ChooseAlert, CommitNew, CommitOccurrence, Notify, Answered, Unanswered, GiveUp,
         Processed, Abort, UpdateAlert, UpdateRule, DeleteRule
<1> QED
  BY <1>1, <1>2

LEMMA ReceiptStep ==
  ASSUME RuleEngineAssumption, TypeOK, TxInv, ReceiptInv, [Next]_vars
  PROVE  ReceiptInv'
<1>1. clock' \in Nat /\ clock \in Nat /\ clock <= clock'
  BY ClockStep
<1>2. \A c \in receipts : c.at <= clock'
  BY <1>1, ReceiptType DEF ReceiptInv, Times
<1>3. ASSUME NEW w \in Workers, tx[w].pc \in Open, receipts' = receipts \cup {NewReceipt(w)}
      PROVE  ReceiptInv'
  <2>1. NewReceipt(w).at = tx[w].now /\ tx[w].now \in Times /\ tx[w].now <= clock
    BY <1>3, NewReceiptType DEF TxInv
  <2>2. NewReceipt(w).at <= clock'
    BY <1>1, <2>1 DEF Times
  <2>3. IsFiniteSet(receipts')
    BY <1>3, FS_AddElement DEF ReceiptInv
  <2> QED
    BY <1>2, <1>3, <2>2, <2>3 DEF ReceiptInv
<1>4. CASE \E w \in Workers : BelowCount(w) \/ CommitNew(w) \/ CommitOccurrence(w)
  BY <1>3, <1>4 DEF BelowCount, CommitNew, CommitOccurrence, Open
<1>5. CASE receipts' \subseteq receipts
  <2>1. IsFiniteSet(receipts')
    BY <1>5, FS_Subset DEF ReceiptInv
  <2> QED
    BY <1>2, <1>5, <2>1 DEF ReceiptInv
<1>6. CASE \E w \in Workers : Notify(w)
  BY <1>5, <1>6, NotifyTx
<1>7. CASE \E i \in DOMAIN alerts, st \in {"open", "acknowledged", "closed"} : UpdateAlert(i, st)
  BY <1>5, <1>7 DEF UpdateAlert
<1>8. CASE \E r \in Rules : DeleteRule(r)
  BY <1>5, <1>8 DEF DeleteRule
<1> QED
  BY <1>4, <1>5, <1>6, <1>7, <1>8, Writes

LEMMA AlertStep ==
  ASSUME RuleEngineAssumption, TypeOK, TxInv, ChosenInv, NotifyInv, AlertInv, [Next]_vars
  PROVE  AlertInv'
<1>1. /\ clock' \in Nat /\ clock \in Nat /\ clock <= clock'
      /\ MaxTx \in Nat
  BY ClockStep DEF RuleEngineAssumption
<1>2. \A i \in DOMAIN alerts :
         /\ ~alerts[i].wasClosed => alerts[i].status # "closed"
         /\ alerts[i].triggered <= clock'
         /\ alerts[i].triggered <= alerts[i].last + MaxTx
  BY <1>1, AlertType DEF AlertInv, Times
<1>3. ASSUME NEW w \in Workers, CommitNew(w) PROVE AlertInv'
  <2>1. tx[w].now \in Nat /\ tx[w].now <= clock
    BY <1>3, TxType DEF TxInv, CommitNew, Open, Times
  <2>2. tx[w].now <= clock' /\ tx[w].now <= tx[w].now + MaxTx
    BY <1>1, <2>1
  <2> QED
    BY <1>2, <1>3, <2>2, CommitNewAlerts DEF AlertInv
<1>4. ASSUME NEW w \in Workers, CommitOccurrence(w) PROVE AlertInv'
  <2> DEFINE k == tx[w].alert
  <2>1. tx[w].now \in Nat /\ clock <= tx[w].now + MaxTx
    BY <1>4, TxType DEF TxInv, CommitOccurrence, Open, Times
  <2>2. k \in DOMAIN alerts /\ alerts[k].triggered \in Nat /\ alerts[k].triggered <= clock
    BY <1>4, CommitOccurrenceAlerts, AlertType DEF AlertInv, Times
  <2>3. alerts[k].triggered <= tx[w].now + MaxTx
    BY <1>1, <2>1, <2>2
  <2> QED
    BY <1>2, <1>4, <2>3, CommitOccurrenceAlerts DEF AlertInv, SameIdentity
<1>5. ASSUME NEW w \in Workers, Notify(w) PROVE AlertInv'
  BY <1>2, <1>5, NotifyAlerts DEF AlertInv, SameIdentity
<1>6. ASSUME NEW k \in DOMAIN alerts, NEW st \in {"open", "acknowledged", "closed"}, UpdateAlert(k, st)
      PROVE  AlertInv'
  BY <1>2, <1>6, UpdateAlertAlerts DEF AlertInv, SameIdentity
<1>7. CASE alerts' = alerts
  BY <1>2, <1>7 DEF AlertInv
<1>8. CASE \E w \in Workers : BelowCount(w)
  BY <1>7, <1>8 DEF BelowCount
<1>9. CASE \E r \in Rules : DeleteRule(r)
  BY <1>7, <1>9 DEF DeleteRule
<1> QED
  BY <1>3, <1>4, <1>5, <1>6, <1>7, <1>8, <1>9, Writes

\* The link that a commit of w adds.
NewLink(w, i) == [alert |-> i, event |-> tx[w].event]

\* What a step that adds the receipt of w leaves of the links there were.
LEMMA OldLinks ==
  ASSUME TypeOK, TxInv, ReceiptInv, LinkInv, NEW w \in Workers, tx[w].pc \in Open,
         ~HasReceipt(tx[w].rule, tx[w].event),
         receipts' = receipts \cup {NewReceipt(w)}, NEW l \in links
  PROVE  /\ l.alert \in DOMAIN alerts
         /\ EntityOf[l.event] = alerts[l.alert].entity
         /\ \E c \in receipts' : c.rule = alerts[l.alert].rule /\ c.event = l.event
         /\ \A c \in receipts' :
              c.rule = alerts[l.alert].rule /\ c.event = l.event
                => c \in receipts /\ c.at <= alerts[l.alert].last + MaxTx /\ c.at <= clock
         /\ ~(alerts[l.alert].rule = tx[w].rule /\ l.event = tx[w].event)
<1>1. /\ NewReceipt(w).rule = tx[w].rule
      /\ NewReceipt(w).event = tx[w].event
  BY NewReceiptType
<1>2. /\ l.alert \in DOMAIN alerts
      /\ EntityOf[l.event] = alerts[l.alert].entity
      /\ HasReceipt(alerts[l.alert].rule, l.event)
      /\ \A c \in receipts :
            c.rule = alerts[l.alert].rule /\ c.event = l.event
              => c.at <= alerts[l.alert].last + MaxTx
  BY DEF LinkInv
<1>3. ~(alerts[l.alert].rule = tx[w].rule /\ l.event = tx[w].event)
  BY <1>2
<1> QED
  BY <1>1, <1>2, <1>3 DEF HasReceipt, ReceiptInv

LEMMA LinkStep ==
  ASSUME RuleEngineAssumption, TypeOK, TxInv, ChosenInv, NotifyInv, ReceiptInv, LinkInv, [Next]_vars
  PROVE  LinkInv'
<1>1. ASSUME NEW w \in Workers, BelowCount(w) PROVE LinkInv'
  <2>1. /\ tx[w].pc \in Open /\ ~HasReceipt(tx[w].rule, tx[w].event)
        /\ receipts' = receipts \cup {NewReceipt(w)} /\ links' = links /\ alerts' = alerts
    BY <1>1 DEF BelowCount, Open
  <2> QED
    BY <2>1, OldLinks DEF LinkInv, HasReceipt
<1>2. ASSUME NEW w \in Workers, CommitNew(w) PROVE LinkInv'
  <2> DEFINE n == Len(alerts) + 1
  <2>1. /\ tx[w].pc \in Open /\ ~HasReceipt(tx[w].rule, tx[w].event)
        /\ receipts' = receipts \cup {NewReceipt(w)} /\ links' = links \cup {NewLink(w, n)}
    BY <1>2 DEF CommitNew, Open, ChosenInv, NewLink
  <2>2. /\ NewReceipt(w).rule = tx[w].rule /\ NewReceipt(w).event = tx[w].event
        /\ NewReceipt(w).at = tx[w].now /\ tx[w].now <= tx[w].now + MaxTx
    BY <2>1, NewReceiptType DEF Times, RuleEngineAssumption
  <2>3. /\ n \in DOMAIN alerts'
        /\ DOMAIN alerts \subseteq DOMAIN alerts'
        /\ \A i \in DOMAIN alerts : alerts'[i] = alerts[i]
        /\ alerts'[n].rule = tx[w].rule /\ alerts'[n].entity = EntityOf[tx[w].event]
        /\ alerts'[n].last = tx[w].now
    BY <1>2, CommitNewAlerts DEF Entity
  <2>4. ASSUME NEW l \in links
        PROVE  /\ l.alert \in DOMAIN alerts'
               /\ EntityOf[l.event] = alerts'[l.alert].entity
               /\ HasReceipt(alerts[l.alert].rule, l.event)'
               /\ \A c \in receipts' :
                     c.rule = alerts'[l.alert].rule /\ c.event = l.event
                       => c.at <= alerts'[l.alert].last + MaxTx
    <3>1. /\ l.alert \in DOMAIN alerts
          /\ EntityOf[l.event] = alerts[l.alert].entity
          /\ \E c \in receipts' : c.rule = alerts[l.alert].rule /\ c.event = l.event
          /\ \A c \in receipts' :
                c.rule = alerts[l.alert].rule /\ c.event = l.event
                  => c \in receipts /\ c.at <= alerts[l.alert].last + MaxTx
      BY <2>1, OldLinks
    <3>2. alerts'[l.alert] = alerts[l.alert] /\ l.alert \in DOMAIN alerts'
      BY <2>3, <3>1
    <3> QED
      BY <3>1, <3>2 DEF HasReceipt
  <2>5. ASSUME NEW l, l = NewLink(w, n)
        PROVE  /\ l.alert \in DOMAIN alerts'
               /\ EntityOf[l.event] = alerts'[l.alert].entity
               /\ HasReceipt(alerts[l.alert].rule, l.event)'
               /\ \A c \in receipts' :
                     c.rule = alerts'[l.alert].rule /\ c.event = l.event
                       => c.at <= alerts'[l.alert].last + MaxTx
    <3>1. l.alert = n /\ l.event = tx[w].event
      BY <2>5 DEF NewLink
    <3>2. \A c \in receipts' : c.rule = tx[w].rule /\ c.event = tx[w].event => c = NewReceipt(w)
      BY <2>1 DEF HasReceipt
    <3>3. NewReceipt(w) \in receipts'
      BY <2>1
    <3> QED
      BY <2>2, <2>3, <3>1, <3>2, <3>3 DEF HasReceipt
  <2> QED
    BY <2>1, <2>4, <2>5 DEF LinkInv
<1>3. ASSUME NEW w \in Workers, CommitOccurrence(w) PROVE LinkInv'
  <2> DEFINE k == tx[w].alert
  <2>1. /\ tx[w].pc \in Open /\ ~HasReceipt(tx[w].rule, tx[w].event)
        /\ receipts' = receipts \cup {NewReceipt(w)} /\ links' = links \cup {NewLink(w, k)}
        /\ alerts[k].rule = tx[w].rule /\ alerts[k].entity = EntityOf[tx[w].event]
    BY <1>3 DEF CommitOccurrence, Open, ChosenInv, NewLink, SameKey, Entity
  <2>2. /\ NewReceipt(w).rule = tx[w].rule /\ NewReceipt(w).event = tx[w].event
        /\ NewReceipt(w).at = tx[w].now /\ tx[w].now <= tx[w].now + MaxTx
        /\ clock <= tx[w].now + MaxTx
        /\ tx[w].now + MaxTx \in Nat
        /\ clock \in Nat
    BY <2>1, NewReceiptType DEF Times, RuleEngineAssumption, TxInv, TypeOK
  <2>3. /\ k \in DOMAIN alerts
        /\ DOMAIN alerts = DOMAIN alerts'
        /\ \A i \in DOMAIN alerts : i # k => alerts'[i] = alerts[i]
        /\ \A i \in DOMAIN alerts : alerts'[i].rule = alerts[i].rule /\ alerts'[i].entity = alerts[i].entity
        /\ alerts'[k].last = tx[w].now
    BY <1>3, CommitOccurrenceAlerts DEF SameIdentity
  <2>4. ASSUME NEW l \in links
        PROVE  /\ l.alert \in DOMAIN alerts'
               /\ EntityOf[l.event] = alerts'[l.alert].entity
               /\ HasReceipt(alerts[l.alert].rule, l.event)'
               /\ \A c \in receipts' :
                     c.rule = alerts'[l.alert].rule /\ c.event = l.event
                       => c.at <= alerts'[l.alert].last + MaxTx
    <3>1. /\ l.alert \in DOMAIN alerts
          /\ EntityOf[l.event] = alerts[l.alert].entity
          /\ \E c \in receipts' : c.rule = alerts[l.alert].rule /\ c.event = l.event
          /\ \A c \in receipts' :
                c.rule = alerts[l.alert].rule /\ c.event = l.event
                  => c \in receipts /\ c.at <= alerts[l.alert].last + MaxTx /\ c.at <= clock
      BY <2>1, OldLinks
    <3>2. \A c \in receipts : c.at \in Nat
      BY ReceiptType DEF Times
    <3>3. \A c \in receipts' :
             c.rule = alerts[l.alert].rule /\ c.event = l.event
               => c.at <= alerts'[l.alert].last + MaxTx
      <4>1. CASE l.alert = k
        BY <2>2, <2>3, <3>1, <3>2, <4>1
      <4>2. CASE l.alert # k
        BY <2>3, <3>1, <4>2
      <4> QED
        BY <4>1, <4>2
    <3>4. alerts'[l.alert].rule = alerts[l.alert].rule /\ alerts'[l.alert].entity = alerts[l.alert].entity
      BY <2>3, <3>1
    <3> QED
      BY <2>3, <3>1, <3>3, <3>4 DEF HasReceipt
  <2>5. ASSUME NEW l, l = NewLink(w, k)
        PROVE  /\ l.alert \in DOMAIN alerts'
               /\ EntityOf[l.event] = alerts'[l.alert].entity
               /\ HasReceipt(alerts[l.alert].rule, l.event)'
               /\ \A c \in receipts' :
                     c.rule = alerts'[l.alert].rule /\ c.event = l.event
                       => c.at <= alerts'[l.alert].last + MaxTx
    <3>1. l.alert = k /\ l.event = tx[w].event
      BY <2>5 DEF NewLink
    <3>2. \A c \in receipts' : c.rule = tx[w].rule /\ c.event = tx[w].event => c = NewReceipt(w)
      BY <2>1 DEF HasReceipt
    <3>3. NewReceipt(w) \in receipts'
      BY <2>1
    <3>4. alerts'[k].rule = tx[w].rule /\ alerts'[k].entity = EntityOf[tx[w].event]
      BY <2>1, <2>3
    <3> QED
      BY <2>2, <2>3, <3>1, <3>2, <3>3, <3>4 DEF HasReceipt
  <2> QED
    BY <2>1, <2>4, <2>5 DEF LinkInv
<1>4. ASSUME receipts' = receipts, links' = links, DOMAIN alerts' = DOMAIN alerts,
             \A i \in DOMAIN alerts :
                /\ alerts'[i].rule = alerts[i].rule /\ alerts'[i].entity = alerts[i].entity
                /\ alerts'[i].last = alerts[i].last
      PROVE  LinkInv'
  BY <1>4 DEF LinkInv, HasReceipt
<1>5. CASE \E w \in Workers : Notify(w)
  <2>1. PICK w \in Workers : Notify(w)
    BY <1>5
  <2>2. receipts' = receipts /\ links' = links
    BY <2>1, NotifyTx
  <2> QED
    BY <1>4, <2>1, <2>2, NotifyAlerts DEF SameIdentity
<1>6. ASSUME NEW k \in DOMAIN alerts, NEW st \in {"open", "acknowledged", "closed"}, UpdateAlert(k, st)
      PROVE  LinkInv'
  <2>1. receipts' = receipts /\ links' = links
    BY <1>6 DEF UpdateAlert
  <2> QED
    BY <1>4, <1>6, <2>1, UpdateAlertAlerts DEF SameIdentity
<1>7. ASSUME NEW r \in Rules, DeleteRule(r) PROVE LinkInv'
  <2>1. /\ alerts' = alerts /\ links' = links
        /\ \A i \in DOMAIN alerts : alerts[i].rule # r
        /\ receipts' = {c \in receipts : c.rule # r}
    BY <1>7 DEF DeleteRule
  <2> QED
    BY <2>1 DEF LinkInv, HasReceipt
<1>8. CASE UNCHANGED <<receipts, alerts, links>>
  BY <1>4, <1>8
<1> QED
  BY <1>1, <1>2, <1>3, <1>5, <1>6, <1>7, <1>8, Writes

LEMMA SpacedStep ==
  ASSUME RuleEngineAssumption, TypeOK, TxInv, ChosenInv, NotifyInv, AlertInv, SpacedInv, [Next]_vars
  PROVE  SpacedInv'
<1>1. ASSUME NEW w \in Workers, CommitNew(w) PROVE SpacedInv'
  <2> DEFINE n == Len(alerts) + 1
  <2>1. /\ n \in Nat /\ n \notin DOMAIN alerts
        /\ \A i \in DOMAIN alerts : i < n
        /\ DOMAIN alerts' = DOMAIN alerts \cup {n}
        /\ \A i \in DOMAIN alerts : alerts'[i] = alerts[i]
        /\ alerts'[n].rule = tx[w].rule /\ alerts'[n].entity = Entity(w)
        /\ alerts'[n].triggered = tx[w].now
    BY <1>1, CommitNewAlerts
  <2>2. tx[w].pc = "chosen" /\ tx[w].alert = NoAlert /\ tx[w].now \in Nat
    BY <1>1, TxType DEF CommitNew, Times
  <2>3. ASSUME NEW i \in DOMAIN alerts, SameKey(i, tx[w].rule, Entity(w)), ~alerts[i].wasClosed
        PROVE  alerts[i].last + Cooldown < tx[w].now
    <3>1. ~(alerts[i].last >= tx[w].now - Cooldown)
      BY <2>2, <2>3 DEF ChosenInv
    <3>2. alerts[i].last \in Nat /\ Cooldown \in Nat
      BY AlertType DEF Times, RuleEngineAssumption
    <3> QED
      BY <2>2, <3>1, <3>2
  <2>4. \A i \in DOMAIN alerts : i \in Nat /\ ~(n < i)
    BY <2>1, AlertType
  <2>5. ASSUME NEW i \in DOMAIN alerts', NEW j \in DOMAIN alerts',
               i < j, alerts'[j].rule = alerts'[i].rule, alerts'[j].entity = alerts'[i].entity,
               ~alerts'[i].wasClosed, ~alerts'[j].wasClosed
        PROVE  alerts'[i].last + Cooldown < alerts'[j].triggered
    <3>1. CASE j = n
      <4>1. i \in DOMAIN alerts
        BY <2>1, <2>5, <3>1
      <4> QED
        BY <2>1, <2>3, <2>5, <3>1, <4>1 DEF SameKey
    <3>2. CASE j # n
      <4>1. i \in DOMAIN alerts /\ j \in DOMAIN alerts
        BY <2>1, <2>4, <2>5, <3>2
      <4> QED
        BY <2>1, <2>5, <4>1 DEF SpacedInv, SameKey
    <3> QED
      BY <3>1, <3>2
  <2> QED
    BY <2>5 DEF SpacedInv, SameKey
<1>2. ASSUME NEW w \in Workers, CommitOccurrence(w) PROVE SpacedInv'
  <2> DEFINE k == tx[w].alert
  <2>1. /\ k \in DOMAIN alerts
        /\ DOMAIN alerts' = DOMAIN alerts
        /\ \A i \in DOMAIN alerts : i # k => alerts'[i] = alerts[i]
        /\ \A i \in DOMAIN alerts :
              /\ alerts'[i].rule = alerts[i].rule /\ alerts'[i].entity = alerts[i].entity
              /\ alerts'[i].triggered = alerts[i].triggered
              /\ alerts'[i].wasClosed = alerts[i].wasClosed
    BY <1>2, CommitOccurrenceAlerts DEF SameIdentity
  <2>2. /\ tx[w].pc = "chosen" /\ tx[w].alert # NoAlert /\ tx[w].now \in Nat
        /\ Cooldown \in Nat /\ MaxTx \in Nat /\ MaxTx <= Cooldown
    BY <1>2, TxType DEF CommitOccurrence, Times, RuleEngineAssumption
  <2>3. /\ SameKey(k, tx[w].rule, Entity(w))
        /\ alerts[k].last >= tx[w].now - Cooldown
        /\ \A i \in DOMAIN alerts :
              /\ SameKey(i, tx[w].rule, Entity(w)) /\ ~alerts[i].wasClosed
              /\ alerts[i].last >= tx[w].now - Cooldown
              => alerts[i].last <= alerts[k].last
    BY <2>2 DEF ChosenInv
  <2>4. ASSUME NEW j \in DOMAIN alerts, k < j, SameKey(j, tx[w].rule, Entity(w)),
               ~alerts[k].wasClosed, ~alerts[j].wasClosed
        PROVE  FALSE
    <3>1. alerts[k].last + Cooldown < alerts[j].triggered
      BY <2>1, <2>3, <2>4 DEF SpacedInv, SameKey
    <3>2. /\ alerts[k].last \in Nat /\ alerts[j].triggered \in Nat /\ alerts[j].last \in Nat
          /\ alerts[j].triggered <= alerts[j].last + MaxTx
      BY <2>1, AlertType DEF Times, AlertInv
    <3>3. alerts[j].last >= tx[w].now - Cooldown /\ ~(alerts[j].last <= alerts[k].last)
      BY <2>2, <2>3, <3>1, <3>2
    <3> QED
      BY <2>3, <2>4, <3>3
  <2>5. ASSUME NEW i \in DOMAIN alerts, NEW j \in DOMAIN alerts,
               i < j, alerts[j].rule = alerts[i].rule, alerts[j].entity = alerts[i].entity,
               ~alerts[i].wasClosed, ~alerts[j].wasClosed
        PROVE  alerts'[i].last + Cooldown < alerts[j].triggered
    <3>1. CASE i = k
      BY <2>3, <2>4, <2>5, <3>1 DEF SameKey
    <3>2. CASE i # k
      BY <2>1, <2>5, <3>2 DEF SpacedInv, SameKey
    <3> QED
      BY <3>1, <3>2
  <2> QED
    BY <2>1, <2>5 DEF SpacedInv, SameKey
<1>3. ASSUME DOMAIN alerts' = DOMAIN alerts,
             \A i \in DOMAIN alerts :
                /\ alerts'[i].rule = alerts[i].rule /\ alerts'[i].entity = alerts[i].entity
                /\ alerts'[i].triggered = alerts[i].triggered
                /\ alerts'[i].last = alerts[i].last
                /\ alerts[i].wasClosed => alerts'[i].wasClosed
      PROVE  SpacedInv'
  BY <1>3 DEF SpacedInv, SameKey
<1>4. CASE \E w \in Workers : Notify(w)
  BY <1>3, <1>4, NotifyAlerts DEF SameIdentity
<1>5. ASSUME NEW k \in DOMAIN alerts, NEW st \in {"open", "acknowledged", "closed"}, UpdateAlert(k, st)
      PROVE  SpacedInv'
  BY <1>3, <1>5, UpdateAlertAlerts DEF SameIdentity
<1>6. CASE alerts' = alerts
  BY <1>3, <1>6
<1>7. CASE (\E w \in Workers : BelowCount(w)) \/ \E r \in Rules : DeleteRule(r)
  BY <1>6, <1>7 DEF BelowCount, DeleteRule
<1> QED
  BY <1>1, <1>2, <1>4, <1>5, <1>6, <1>7, Writes

LEMMA NotifyStep ==
  ASSUME RuleEngineAssumption, TypeOK, TxInv, ChosenInv, NotifyInv, [Next]_vars
  PROVE  NotifyInv'
<1>1. ASSUME tx' = tx, DOMAIN alerts' = DOMAIN alerts,
             \A i \in DOMAIN alerts : alerts'[i].notices = alerts[i].notices
      PROVE  NotifyInv'
  BY <1>1 DEF NotifyInv
<1>2. ASSUME NEW w \in Workers, WorkerStep(w) PROVE NotifyInv'
  <2>1. /\ \A v \in Workers : v # w => tx'[v] = tx[v]
        /\ Outside(w) \/ Begins(w) \/ Locks(w) \/ Chooses(w) \/ Announces(w) \/ Retries(w)
    BY <1>2, WorkerTx
  <2>2. CASE CommitNew(w)
    <3> DEFINE n == Len(alerts) + 1
    <3>1. /\ n \notin DOMAIN alerts
          /\ DOMAIN alerts' = DOMAIN alerts \cup {n}
          /\ \A i \in DOMAIN alerts : alerts'[i] = alerts[i]
          /\ alerts'[n].notices = 0
      BY <2>2, CommitNewAlerts
    <3>2. tx'[w].pc = "notify" /\ tx'[w].alert = n
      BY <2>2, CommitNewTx
    <3>3. tx'[w].posts \in Nat
      BY <2>2, CommitNewTx DEF Tx
    <3> HIDE DEF n
    <3> QED
      BY <2>1, <3>1, <3>2, <3>3 DEF NotifyInv
  <2>3. CASE ~CommitNew(w)
    <3>1. ASSUME NEW v \in Workers, v # w, tx'[v].pc = "notify"
          PROVE  /\ tx[v].alert \in DOMAIN alerts'
                 /\ alerts'[tx[v].alert].notices <= tx[v].posts
      <4>1. tx[v].pc = "notify"
        BY <2>1, <3>1
      <4>2. tx[v].alert \in DOMAIN alerts /\ alerts[tx[v].alert].notices <= tx[v].posts
        BY <4>1 DEF NotifyInv
      <4>3. CASE CommitOccurrence(w)
        BY <4>2, <4>3, CommitOccurrenceAlerts
      <4>4. CASE Notify(w)
        <5>1. tx[v].alert # tx[w].alert
          BY <3>1, <4>1, <4>4, NotifyTx DEF NotifyInv
        <5> QED
          BY <4>2, <4>4, <5>1, NotifyAlerts
      <4>5. CASE ~CommitOccurrence(w) /\ ~Notify(w)
        <5>1. alerts' = alerts
          BY <1>2, <2>3, <4>5 DEF WorkerStep, Process, Begin, Lock, Duplicate, BelowCount,
                                  ChooseAlert, Processed, Abort
        <5> QED
          BY <4>2, <5>1
      <4> QED
        BY <4>3, <4>4, <4>5
    <3>2. ASSUME tx'[w].pc = "notify"
          PROVE  /\ tx[w].pc = "notify" /\ tx'[w].alert = tx[w].alert
                 /\ tx[w].alert \in DOMAIN alerts'
                 /\ alerts'[tx[w].alert].notices <= tx'[w].posts
      <4>1. Retries(w)
        BY <2>1, <2>3, <3>2 DEF Outside, Begins, Locks, Chooses, Announces
      <4>2. Notify(w) /\ tx'[w].alert = tx[w].alert /\ tx'[w].posts = tx[w].posts + 1
        BY <4>1 DEF Retries, Notify
      <4>3. tx[w].pc = "notify" /\ tx[w].posts \in Nat
        BY <4>2, NotifyTx, TxType
      <4>4. /\ tx[w].alert \in DOMAIN alerts
            /\ alerts[tx[w].alert].notices <= tx[w].posts
            /\ alerts[tx[w].alert].notices \in Nat
        BY <4>3, AlertType DEF NotifyInv
      <4>5. /\ tx[w].alert \in DOMAIN alerts'
            /\ alerts'[tx[w].alert].notices
                  \in {alerts[tx[w].alert].notices, alerts[tx[w].alert].notices + 1}
        BY <4>2, NotifyAlerts
      <4> QED
        BY <4>2, <4>3, <4>4, <4>5
    <3>3. ASSUME NEW v \in Workers, v # w, tx'[v].pc = "notify"
          PROVE  tx[v].pc = "notify" /\ tx'[v] = tx[v]
      BY <2>1, <3>3
    <3> QED
      BY <3>1, <3>2, <3>3 DEF NotifyInv
  <2> QED
    BY <2>2, <2>3
<1>3. CASE \A w \in Workers : ~WorkerStep(w)
  <2>1. tx' = tx
    BY <1>3, OtherTx
  <2>2. ASSUME NEW k \in DOMAIN alerts, NEW st \in {"open", "acknowledged", "closed"}, UpdateAlert(k, st)
        PROVE  NotifyInv'
    BY <1>1, <2>1, <2>2, UpdateAlertAlerts
  <2>3. CASE ~\E k \in DOMAIN alerts, st \in {"open", "acknowledged", "closed"} : UpdateAlert(k, st)
    <3>1. alerts' = alerts
      BY <1>3, <2>3 DEF Next, Analyst, UpdateRule, DeleteRule, Tick, vars
    <3> QED
      BY <1>1, <2>1, <3>1
  <2> QED
    BY <2>2, <2>3
<1> QED
  BY <1>2, <1>3

LEMMA NoticeStep ==
  ASSUME RuleEngineAssumption, TypeOK, TxInv, ChosenInv, NotifyInv, NoticeInv, [Next]_vars
  PROVE  NoticeInv'
<1>1. ASSUME NEW w \in Workers, CommitNew(w) PROVE NoticeInv'
  BY <1>1, CommitNewAlerts DEF NoticeInv, RuleEngineAssumption
<1>2. ASSUME NEW w \in Workers, CommitOccurrence(w) PROVE NoticeInv'
  BY <1>2, CommitOccurrenceAlerts DEF NoticeInv
<1>3. ASSUME NEW w \in Workers, Notify(w) PROVE NoticeInv'
  <2>1. tx[w].pc = "notify" /\ tx[w].posts \in 0 .. Attempts - 1 /\ Attempts \in Nat
    BY <1>3, NotifyTx, TxType DEF RuleEngineAssumption
  <2>2. /\ tx[w].alert \in DOMAIN alerts
        /\ alerts[tx[w].alert].notices <= tx[w].posts
        /\ alerts[tx[w].alert].notices \in Nat
    BY <2>1, AlertType DEF NotifyInv
  <2>3. alerts'[tx[w].alert].notices <= Attempts
    BY <1>3, <2>1, <2>2, NotifyAlerts
  <2> QED
    BY <1>3, <2>3, NotifyAlerts DEF NoticeInv
<1>4. ASSUME NEW k \in DOMAIN alerts, NEW st \in {"open", "acknowledged", "closed"}, UpdateAlert(k, st)
      PROVE  NoticeInv'
  BY <1>4, UpdateAlertAlerts DEF NoticeInv
<1>5. CASE alerts' = alerts
  BY <1>5 DEF NoticeInv
<1>6. CASE (\E w \in Workers : BelowCount(w)) \/ \E r \in Rules : DeleteRule(r)
  BY <1>5, <1>6 DEF BelowCount, DeleteRule
<1> QED
  BY <1>1, <1>2, <1>3, <1>4, <1>5, <1>6, Writes

----------------------------------------------------------------------------
(* Occurrences.                                                            *)

LEMMA EventsAfter ==
  ASSUME NEW w, NEW k, tx[w].event \in Events, links' = links \cup {NewLink(w, k)}
  PROVE  /\ \A e \in Events : e \in EventsOf(k)' <=> e \in EventsOf(k) \/ e = tx[w].event
         /\ \A i : i # k => EventsOf(i)' = EventsOf(i)
BY DEF EventsOf, NewLink

\* An event that has no receipt of a rule is not linked to an alert of it.
LEMMA FreshEvent ==
  ASSUME LinkInv, NEW i \in DOMAIN alerts, NEW e, ~HasReceipt(alerts[i].rule, e)
  PROVE  e \notin EventsOf(i)
<1>1. SUFFICES ASSUME [alert |-> i, event |-> e] \in links PROVE FALSE
  BY DEF EventsOf
<1>2. HasReceipt(alerts[i].rule, e)
  BY <1>1 DEF LinkInv
<1> QED
  BY <1>2

LEMMA NoLinks ==
  ASSUME LinkInv, NEW i, i \notin DOMAIN alerts
  PROVE  EventsOf(i) = {}
<1>1. SUFFICES ASSUME NEW e, [alert |-> i, event |-> e] \in links PROVE FALSE
  BY DEF EventsOf
<1>2. [alert |-> i, event |-> e].alert \in DOMAIN alerts
  BY <1>1 DEF LinkInv
<1> QED
  BY <1>2

LEMMA CountedStep ==
  ASSUME RuleEngineAssumption, TypeOK, TxInv, ChosenInv, NotifyInv, LinkInv, CountedOnce, [Next]_vars
  PROVE  CountedOnce'
<1>0. \A i : IsFiniteSet(EventsOf(i))
  <2>1. \A i : EventsOf(i) \subseteq Events
    BY DEF EventsOf
  <2> QED
    BY <2>1, FS_Subset DEF RuleEngineAssumption
<1>1. ASSUME NEW w \in Workers, CommitNew(w) PROVE CountedOnce'
  <2>n. PICK n : n = Len(alerts) + 1
    OBVIOUS
  <2>e. PICK e : e = tx[w].event
    OBVIOUS
  <2>1. /\ n \notin DOMAIN alerts
        /\ DOMAIN alerts' = DOMAIN alerts \cup {n}
        /\ \A i \in DOMAIN alerts : alerts'[i] = alerts[i]
        /\ alerts'[n].rule = tx[w].rule
        /\ alerts'[n].occurrences = 1
    BY <1>1, <2>n, CommitNewAlerts
  <2>2. tx[w].event \in Events /\ ~HasReceipt(tx[w].rule, tx[w].event)
    BY <1>1, NewReceiptType DEF CommitNew, Open, ChosenInv
  <2>3. links' = links \cup {NewLink(w, n)}
    BY <1>1, <2>n DEF CommitNew, NewLink
  <2>4. /\ \A i \in DOMAIN alerts : EventsOf(i)' = EventsOf(i)
        /\ EventsOf(n)' = {e}
    <3>1. EventsOf(n) = {}
      BY <2>1, NoLinks
    <3>2. EventsOf(n)' \subseteq Events
      BY DEF EventsOf
    <3> QED
      BY <2>1, <2>2, <2>3, <2>e, <3>1, <3>2, EventsAfter
  <2>5. Cardinality({e}) = 1
    BY FS_Singleton
  <2>6. \A i \in DOMAIN alerts : alerts[i].rule = tx[w].rule => e \notin EventsOf(i)
    BY <2>2, <2>e, FreshEvent
  <2>7. \A i \in DOMAIN alerts' : alerts'[i].occurrences = Cardinality(EventsOf(i)')
    BY <2>1, <2>4, <2>5 DEF CountedOnce
  <2>8. \A i, j \in DOMAIN alerts' :
           i # j /\ alerts'[i].rule = alerts'[j].rule => EventsOf(i)' \cap EventsOf(j)' = {}
    BY <2>1, <2>4, <2>6 DEF CountedOnce
  <2> QED
    BY <2>7, <2>8 DEF CountedOnce
<1>2. ASSUME NEW w \in Workers, CommitOccurrence(w) PROVE CountedOnce'
  <2>k. PICK k : k = tx[w].alert
    OBVIOUS
  <2>e. PICK e : e = tx[w].event
    OBVIOUS
  <2>1. /\ k \in DOMAIN alerts
        /\ DOMAIN alerts' = DOMAIN alerts
        /\ \A i \in DOMAIN alerts : i # k => alerts'[i] = alerts[i]
        /\ alerts'[k].rule = alerts[k].rule
        /\ alerts'[k].occurrences = alerts[k].occurrences + 1
    BY <1>2, <2>k, CommitOccurrenceAlerts DEF SameIdentity
  <2>2. /\ tx[w].event \in Events /\ ~HasReceipt(tx[w].rule, tx[w].event)
        /\ alerts[k].rule = tx[w].rule
    BY <1>2, <2>k, NewReceiptType DEF CommitOccurrence, Open, ChosenInv, SameKey
  <2>3. links' = links \cup {NewLink(w, k)}
    BY <1>2, <2>k DEF CommitOccurrence, NewLink
  <2>4. /\ \A i \in DOMAIN alerts : i # k => EventsOf(i)' = EventsOf(i)
        /\ EventsOf(k)' = EventsOf(k) \cup {e}
    <3>1. EventsOf(k) \subseteq Events /\ EventsOf(k)' \subseteq Events
      BY DEF EventsOf
    <3> QED
      BY <2>2, <2>3, <2>e, <3>1, EventsAfter
  <2>5. \A i \in DOMAIN alerts : alerts[i].rule = tx[w].rule => e \notin EventsOf(i)
    BY <2>2, <2>e, FreshEvent
  <2>6. Cardinality(EventsOf(k) \cup {e}) = Cardinality(EventsOf(k)) + 1
    BY <1>0, <2>1, <2>2, <2>5, FS_AddElement
  <2>7. \A i \in DOMAIN alerts' : alerts'[i].occurrences = Cardinality(EventsOf(i)')
    BY <2>1, <2>4, <2>6 DEF CountedOnce
  <2>8. \A i, j \in DOMAIN alerts' :
           i # j /\ alerts'[i].rule = alerts'[j].rule => EventsOf(i)' \cap EventsOf(j)' = {}
    <3>1. \A i \in DOMAIN alerts : alerts'[i].rule = alerts[i].rule
      BY <2>1
    <3> QED
      BY <2>1, <2>2, <2>4, <2>5, <3>1 DEF CountedOnce
  <2> QED
    BY <2>7, <2>8 DEF CountedOnce
<1>3. ASSUME links' = links, DOMAIN alerts' = DOMAIN alerts,
             \A i \in DOMAIN alerts :
                alerts'[i].rule = alerts[i].rule /\ alerts'[i].occurrences = alerts[i].occurrences
      PROVE  CountedOnce'
  <2>1. \A i : EventsOf(i)' = EventsOf(i)
    BY <1>3 DEF EventsOf
  <2> QED
    BY <1>3, <2>1 DEF CountedOnce
<1>4. CASE \E w \in Workers : Notify(w)
  <2>1. PICK w \in Workers : Notify(w)
    BY <1>4
  <2>2. links' = links
    BY <2>1, NotifyTx
  <2> QED
    BY <1>3, <2>1, <2>2, NotifyAlerts DEF SameIdentity
<1>5. ASSUME NEW k \in DOMAIN alerts, NEW st \in {"open", "acknowledged", "closed"}, UpdateAlert(k, st)
      PROVE  CountedOnce'
  <2>1. links' = links
    BY <1>5 DEF UpdateAlert
  <2> QED
    BY <1>3, <1>5, <2>1, UpdateAlertAlerts DEF SameIdentity
<1>6. CASE alerts' = alerts /\ links' = links
  BY <1>3, <1>6
<1>7. CASE (\E w \in Workers : BelowCount(w)) \/ \E r \in Rules : DeleteRule(r)
  BY <1>6, <1>7 DEF BelowCount, DeleteRule
<1> QED
  BY <1>1, <1>2, <1>4, <1>5, <1>6, <1>7, Writes

----------------------------------------------------------------------------
(* What a transaction read stays true until it commits.                    *)

\* Adding an element makes a finite set one larger at most.
LEMMA OneMore ==
  ASSUME NEW T, NEW n, IsFiniteSet(T), Cardinality(T) \in Nat
  PROVE  IsFiniteSet(T \cup {n}) /\ Cardinality(T \cup {n}) <= Cardinality(T) + 1
<1>1. CASE n \in T
  <2>1. PICK U : U = T \cup {n}
    OBVIOUS
  <2>2. U = T
    BY <1>1, <2>1
  <2>3. IsFiniteSet(U) /\ Cardinality(U) <= Cardinality(T) + 1
    BY <2>2
  <2> QED
    BY <2>1, <2>3, Zenon
<1>2. CASE n \notin T
  BY <1>2, FS_AddElement
<1> QED
  BY <1>1, <1>2

LEMMA SinceFinite ==
  ASSUME ReceiptInv, NEW r, NEW x, NEW t
  PROVE  IsFiniteSet(Since(r, x, t)) /\ Cardinality(Since(r, x, t)) \in Nat
<1>1. Since(r, x, t) \subseteq receipts
  BY DEF Since
<1>2. IsFiniteSet(Since(r, x, t))
  BY <1>1, FS_Subset DEF ReceiptInv
<1> QED
  BY <1>2, FS_CardinalityType

\* The count of a window never shrinks while receipts are only added.
LEMMA SinceGrows ==
  ASSUME ReceiptInv, ReceiptInv', receipts \subseteq receipts', NEW r, NEW x, NEW t
  PROVE  /\ Cardinality(Since(r, x, t)) <= Cardinality(Since(r, x, t)')
         /\ Cardinality(Since(r, x, t)) \in Nat /\ Cardinality(Since(r, x, t)') \in Nat
<1>1. Since(r, x, t) \subseteq Since(r, x, t)'
  BY DEF Since
<1>2. Since(r, x, t)' \subseteq receipts'
  BY DEF Since
<1>3. IsFiniteSet(Since(r, x, t)')
  BY <1>2, FS_Subset DEF ReceiptInv
<1> QED
  BY <1>1, <1>3, FS_Subset, FS_CardinalityType, SinceFinite

\* The part of ChosenInv about goroutine v.
Relies(v) ==
    /\ ~HasReceipt(tx[v].rule, tx[v].event)
    /\ Cardinality(Since(tx[v].rule, Entity(v), tx[v].now - Window)) + 1 >= Count[tx[v].rule]
    /\ tx[v].alert # NoAlert =>
          /\ tx[v].alert \in DOMAIN alerts
          /\ SameKey(tx[v].alert, tx[v].rule, Entity(v))
          /\ alerts[tx[v].alert].last >= tx[v].now - Cooldown
    /\ \A i \in DOMAIN alerts :
          /\ SameKey(i, tx[v].rule, Entity(v)) /\ ~alerts[i].wasClosed
          /\ alerts[i].last >= tx[v].now - Cooldown
          => tx[v].alert # NoAlert /\ alerts[i].last <= alerts[tx[v].alert].last

\* The same of the next state, with the record of v unchanged.
LEMMA ReliesStays ==
  ASSUME RuleEngineAssumption, TypeOK, TxInv, ReceiptInv, ReceiptInv',
         NEW v \in Workers, tx[v].pc = "chosen", Relies(v), tx'[v] = tx[v],
         receipts \subseteq receipts',
         \A c \in receipts' \ receipts : c.rule = tx[v].rule => c.event # tx[v].event,
         DOMAIN alerts \subseteq DOMAIN alerts',
         \A i \in DOMAIN alerts' \ DOMAIN alerts : ~SameKey(i, tx[v].rule, Entity(v))',
         \A i \in DOMAIN alerts :
            /\ alerts'[i].rule = alerts[i].rule /\ alerts'[i].entity = alerts[i].entity
            /\ alerts[i].wasClosed => alerts'[i].wasClosed
            /\ SameKey(i, tx[v].rule, Entity(v)) => alerts'[i].last = alerts[i].last
  PROVE  Relies(v)'
<1>1. PICK r, e, x, t : r = tx[v].rule /\ e = tx[v].event /\ x = Entity(v) /\ t = tx[v].now - Window
  OBVIOUS
<1>2. r = tx'[v].rule /\ e = tx'[v].event /\ x = Entity(v)' /\ t = tx'[v].now - Window
  BY <1>1 DEF Entity
<1>3. ~HasReceipt(r, e)'
  BY <1>1 DEF Relies, HasReceipt
<1>4. Cardinality(Since(r, x, t)') + 1 >= Count[r]
  <2>1. Cardinality(Since(r, x, t)) + 1 >= Count[r]
    BY <1>1 DEF Relies
  <2>2. Count[r] \in Nat
    BY <1>1, NewReceiptType DEF Open, RuleEngineAssumption
  <2> QED
    BY <2>1, <2>2, SinceGrows
<1>5. tx'[v].alert # NoAlert =>
         /\ tx'[v].alert \in DOMAIN alerts'
         /\ SameKey(tx[v].alert, r, x)'
         /\ alerts'[tx'[v].alert].last >= tx'[v].now - Cooldown
  BY <1>1, <1>2 DEF Relies, SameKey
<1>6. ASSUME NEW i \in DOMAIN alerts', SameKey(i, r, x)', ~alerts'[i].wasClosed,
             alerts'[i].last >= tx[v].now - Cooldown
      PROVE  tx[v].alert # NoAlert /\ alerts'[i].last <= alerts'[tx[v].alert].last
  <2>1. i \in DOMAIN alerts
    BY <1>1, <1>2, <1>6
  <2>2. SameKey(i, tx[v].rule, Entity(v)) /\ ~alerts[i].wasClosed /\ alerts'[i].last = alerts[i].last
    BY <1>1, <1>6, <2>1 DEF SameKey
  <2>3. tx[v].alert # NoAlert /\ alerts[i].last <= alerts[tx[v].alert].last
    BY <1>6, <2>1, <2>2 DEF Relies
  <2>4. alerts'[tx[v].alert].last = alerts[tx[v].alert].last
    BY <2>3 DEF Relies
  <2> QED
    BY <2>2, <2>3, <2>4
<1> QED
  BY <1>2, <1>3, <1>4, <1>5, <1>6 DEF Relies, SameKey

LEMMA ChosenStep ==
  ASSUME RuleEngineAssumption, TypeOK, TxInv, LockInv, ChosenInv, NotifyInv, ReceiptInv,
         ReceiptInv', AlertInv, [Next]_vars
  PROVE  ChosenInv'
<1>0. ChosenInv <=> \A v \in Workers : tx[v].pc = "chosen" => Relies(v)
  BY DEF ChosenInv, Relies, Reached
<1>1. SUFFICES ASSUME NEW v \in Workers, tx'[v].pc = "chosen" PROVE Relies(v)'
  BY DEF ChosenInv, Relies, Reached
<1>2. CASE WorkerStep(v)
  <2>1. ChooseAlert(v) /\ Keeps(v) /\ IsChoice(v, tx'[v].alert)
        /\ tx'[v].alert \in DOMAIN alerts \cup {NoAlert}
    BY <1>1, <1>2, WorkerTx DEF Outside, Begins, Locks, Chooses, Announces, Retries
  <2>2. UNCHANGED <<receipts, alerts>>
    BY <2>1 DEF ChooseAlert
  <2>3. ~HasReceipt(tx[v].rule, tx[v].event) /\ Reached(v)
    BY <2>1 DEF ChooseAlert
  <2>4. ~HasReceipt(tx[v].rule, tx[v].event)'
        /\ Cardinality(Since(tx[v].rule, Entity(v), tx[v].now - Window)') + 1 >= Count[tx[v].rule]
    <3> SUFFICES /\ ~\E c \in receipts' : c.rule = tx'[v].rule /\ c.event = tx'[v].event
                 /\ Cardinality({c \in receipts' : /\ c.rule = tx'[v].rule
                                                    /\ EntityOf[c.event] = EntityOf[tx'[v].event]
                                                    /\ c.at >= tx'[v].now - Window}) + 1
                       >= Count[tx'[v].rule]
      BY <2>1 DEF Keeps, HasReceipt, Since, Entity
    <3> QED
      BY <2>1, <2>2, <2>3 DEF Keeps, HasReceipt, Reached, Since, Entity
  <2>5. /\ tx'[v].alert # NoAlert => tx'[v].alert \in Live(v)
        /\ \A j \in Live(v) : tx'[v].alert # NoAlert /\ alerts[j].last <= alerts[tx'[v].alert].last
    <3>1. NoAlert \notin DOMAIN alerts
      BY AlertType DEF NoAlert
    <3>2. \A j \in Live(v) : j \in DOMAIN alerts
      BY DEF Live
    <3> QED
      BY <2>1, <3>1, <3>2 DEF IsChoice
  <2>6. \A i \in DOMAIN alerts :
           /\ SameKey(i, tx[v].rule, Entity(v)) /\ ~alerts[i].wasClosed
           /\ alerts[i].last >= tx[v].now - Cooldown
           => i \in Live(v)
    BY AlertType DEF Live, SameKey, AlertInv
  <2>7. \A i \in Live(v) :
           /\ i \in DOMAIN alerts /\ SameKey(i, tx[v].rule, Entity(v))
           /\ alerts[i].last >= tx[v].now - Cooldown
    BY DEF Live, SameKey
  <2> QED
    BY <2>1, <2>2, <2>4, <2>5, <2>6, <2>7 DEF Relies, Keeps, SameKey, Entity
<1>3. ASSUME NEW w \in Workers, w # v, WorkerStep(w) PROVE Relies(v)'
  <2>1. tx'[v] = tx[v]
    BY <1>3, WorkerTx
  <2>2. tx[v].pc = "chosen" /\ Relies(v)
    BY <1>0, <1>1, <2>1
  <2>3. \/ BelowCount(w) \/ CommitNew(w) \/ CommitOccurrence(w) \/ Notify(w)
        \/ UNCHANGED <<receipts, alerts>>
    BY <1>3 DEF WorkerStep, Process, Begin, Lock, Duplicate, ChooseAlert, Processed, Abort
  <2>4. ASSUME tx[w].pc \in Holding
        PROVE  /\ tx[w].rule = tx[v].rule => Entity(w) # Entity(v)
               /\ NewReceipt(w).rule = tx[v].rule => NewReceipt(w).event # tx[v].event
    <3>1. tx[w].rule = tx[v].rule => Entity(w) # Entity(v)
      BY <1>3, <2>2, <2>4 DEF LockInv, Holding
    <3>2. NewReceipt(w).rule = tx[w].rule /\ NewReceipt(w).event = tx[w].event
      BY DEF NewReceipt
    <3> QED
      BY <3>1, <3>2 DEF Entity
  <2>5. CASE BelowCount(w)
    <3>1. /\ receipts' = receipts \cup {NewReceipt(w)} /\ alerts' = alerts
          /\ tx[w].pc \in Holding
      BY <2>5 DEF BelowCount, Holding
    <3> QED
      BY <2>1, <2>2, <2>4, <3>1, ReliesStays
  <2>6. CASE CommitNew(w)
    <3> DEFINE n == Len(alerts) + 1
    <3>1. receipts' = receipts \cup {NewReceipt(w)} /\ tx[w].pc \in Holding
      BY <2>6 DEF CommitNew, Holding
    <3>2. /\ DOMAIN alerts' = DOMAIN alerts \cup {n}
          /\ \A i \in DOMAIN alerts : alerts'[i] = alerts[i]
          /\ alerts'[n].rule = tx[w].rule /\ alerts'[n].entity = Entity(w)
      BY <2>6, CommitNewAlerts
    <3> HIDE DEF n
    <3>3. Entity(v)' = Entity(v)
      BY <2>1 DEF Entity
    <3>4. \A i \in DOMAIN alerts' \ DOMAIN alerts : ~SameKey(i, tx[v].rule, Entity(v))'
      BY <2>1, <2>4, <3>1, <3>2, <3>3 DEF SameKey
    <3> QED
      BY <2>1, <2>2, <2>4, <3>1, <3>2, <3>4, ReliesStays
  <2>7. CASE CommitOccurrence(w)
    <3> DEFINE k == tx[w].alert
    <3>1. /\ receipts' = receipts \cup {NewReceipt(w)} /\ tx[w].pc \in Holding
          /\ SameKey(k, tx[w].rule, Entity(w))
      BY <2>7 DEF CommitOccurrence, Holding, ChosenInv
    <3>2. /\ k \in DOMAIN alerts
          /\ DOMAIN alerts' = DOMAIN alerts
          /\ \A i \in DOMAIN alerts : i # k => alerts'[i] = alerts[i]
          /\ alerts'[k].rule = alerts[k].rule /\ alerts'[k].entity = alerts[k].entity
          /\ alerts'[k].wasClosed = alerts[k].wasClosed
      BY <2>7, CommitOccurrenceAlerts DEF SameIdentity
    <3> HIDE DEF k
    <3>3. ~SameKey(k, tx[v].rule, Entity(v))
      BY <2>4, <3>1 DEF SameKey
    <3> QED
      BY <2>1, <2>2, <2>4, <3>1, <3>2, <3>3, ReliesStays
  <2>8. CASE Notify(w)
    <3>1. receipts' = receipts
      BY <2>8, NotifyTx
    <3> QED
      BY <2>1, <2>2, <2>8, <3>1, NotifyAlerts, ReliesStays DEF SameIdentity
  <2>9. CASE UNCHANGED <<receipts, alerts>>
    BY <2>1, <2>2, <2>9, ReliesStays
  <2> QED
    BY <2>3, <2>5, <2>6, <2>7, <2>8, <2>9
<1>4. CASE \A w \in Workers : ~WorkerStep(w)
  <2>1. tx' = tx /\ tx[v].pc = "chosen" /\ Relies(v)
    BY <1>0, <1>1, <1>4, OtherTx
  <2>2. ASSUME NEW k \in DOMAIN alerts, NEW st \in {"open", "acknowledged", "closed"}, UpdateAlert(k, st)
        PROVE  Relies(v)'
    <3>1. receipts' = receipts
      BY <2>2 DEF UpdateAlert
    <3> QED
      BY <2>1, <2>2, <3>1, UpdateAlertAlerts, ReliesStays DEF SameIdentity
  <2>3. ASSUME NEW r \in Rules, DeleteRule(r) PROVE Relies(v)'
    <3>1. /\ tx[v].rule # r /\ alerts' = alerts
          /\ receipts' = {c \in receipts : c.rule # r}
      BY <2>1, <2>3 DEF DeleteRule
    <3>2. /\ \A t : Since(tx[v].rule, Entity(v), t)
                    = {c \in receipts' : /\ c.rule = tx[v].rule
                                         /\ EntityOf[c.event] = Entity(v) /\ c.at >= t}
          /\ ~\E c \in receipts' : c.rule = tx[v].rule /\ c.event = tx[v].event
      BY <2>1, <3>1 DEF Since, Relies, HasReceipt
    <3> QED
      BY <2>1, <3>1, <3>2 DEF Relies, HasReceipt, Since, Entity, SameKey
  <2>4. CASE UNCHANGED <<receipts, alerts>>
    BY <2>1, <2>4, ReliesStays
  <2>5. CASE UNCHANGED vars \/ Tick \/ \E r \in Rules, st \in RuleState : UpdateRule(r, st)
    BY <2>4, <2>5 DEF vars, Tick, UpdateRule
  <2> QED
    BY <1>4, <2>2, <2>3, <2>5 DEF Next, Analyst
<1> QED
  BY <1>2, <1>3, <1>4

----------------------------------------------------------------------------
(* Bursts.                                                                 *)

LEMMA RaisedStays ==
  ASSUME NEW c, Raised(c), links \subseteq links', DOMAIN alerts \subseteq DOMAIN alerts',
         \A i \in DOMAIN alerts : alerts'[i].rule = alerts[i].rule
  PROVE  Raised(c)'
<1>1. PICK i \in DOMAIN alerts : alerts[i].rule = c.rule /\ c.event \in EventsOf(i)
  BY DEF Raised
<1>2. c.event \in EventsOf(i)'
  BY <1>1 DEF EventsOf
<1> QED
  BY <1>1, <1>2 DEF Raised

LEMMA BurstStep ==
  ASSUME RuleEngineAssumption, TypeOK, TxInv, ChosenInv, NotifyInv, ReceiptInv,
         BurstRaisesAlert, [Next]_vars
  PROVE  BurstRaisesAlert'
<1>0. SUFFICES ASSUME NEW r \in Rules, NEW S \in SUBSET receipts',
                      IsBurst(S, r)', Cardinality(S) >= Count[r], S # {}
               PROVE  \E c \in S : Raised(c)'
  BY DEF BurstRaisesAlert
<1>1. ASSUME S \subseteq receipts, links \subseteq links', DOMAIN alerts \subseteq DOMAIN alerts',
             \A i \in DOMAIN alerts : alerts'[i].rule = alerts[i].rule
      PROVE  \E c \in S : Raised(c)'
  <2>1. IsBurst(S, r)
    BY <1>0, <1>1 DEF IsBurst
  <2>2. PICK c \in S : Raised(c)
    BY <1>0, <1>1, <2>1 DEF BurstRaisesAlert
  <2> QED
    BY <1>1, <2>2, RaisedStays
<1>2. ASSUME NEW w \in Workers, tx[w].pc \in Open, NEW k \in DOMAIN alerts',
             links' = links \cup {NewLink(w, k)}, alerts'[k].rule = tx[w].rule,
             NewReceipt(w) \in S
      PROVE  \E c \in S : Raised(c)'
  <2>1. /\ NewReceipt(w).rule = tx[w].rule /\ NewReceipt(w).event = tx[w].event
        /\ tx[w].event \in Events
    BY <1>2, NewReceiptType
  <2>2. PICK e : e = tx[w].event
    OBVIOUS
  <2>3. e \in EventsOf(k)'
    BY <1>2, <2>1, <2>2, EventsAfter
  <2>4. PICK c \in S : c = NewReceipt(w)
    BY <1>2
  <2>5. c.rule = alerts'[k].rule /\ c.event = e
    BY <1>2, <2>1, <2>2, <2>4
  <2>6. Raised(c)'
    BY <2>3, <2>5 DEF Raised
  <2> QED
    BY <2>6
<1>3. ASSUME NEW w \in Workers, BelowCount(w) PROVE \E c \in S : Raised(c)'
  <2>1. /\ tx[w].pc \in Open /\ receipts' = receipts \cup {NewReceipt(w)}
        /\ UNCHANGED <<alerts, links>> /\ ~Reached(w)
    BY <1>3 DEF BelowCount, Open
  <2>2. CASE NewReceipt(w) \notin S
    BY <1>1, <2>1, <2>2
  <2>3. CASE NewReceipt(w) \in S
    <3> DEFINE T == Since(tx[w].rule, Entity(w), tx[w].now - Window)
               n == NewReceipt(w)
    <3>1. /\ n.rule = tx[w].rule /\ n.event = tx[w].event /\ n.at = tx[w].now
          /\ n.at \in Nat /\ Window \in Nat
      BY <2>1, NewReceiptType DEF Times, RuleEngineAssumption
    <3>2. /\ S \subseteq {c \in receipts' : c.rule = r}
          /\ \A c, d \in S : EntityOf[c.event] = EntityOf[d.event] /\ c.at <= d.at + Window
      BY <1>0 DEF IsBurst
    <3>3. r = tx[w].rule
      BY <2>3, <3>1, <3>2
    <3>4. ASSUME NEW d \in S, d # n PROVE d \in T
      <4>1. d \in receipts /\ d.rule = tx[w].rule
        BY <2>1, <3>2, <3>3, <3>4
      <4>2. EntityOf[d.event] = Entity(w) /\ n.at <= d.at + Window
        BY <2>3, <3>1, <3>2 DEF Entity
      <4>3. d.at \in Nat
        BY <4>1, ReceiptType DEF Times
      <4>4. d.at >= tx[w].now - Window
        BY <3>1, <4>2, <4>3
      <4> QED
        BY <4>1, <4>2, <4>4 DEF Since
    <3>5. IsFiniteSet(T) /\ Cardinality(T) \in Nat
      BY SinceFinite
    <3>6. IsFiniteSet(T \cup {n}) /\ Cardinality(T \cup {n}) <= Cardinality(T) + 1
      BY <3>5, OneMore
    <3>7. S \subseteq T \cup {n}
      BY <3>4
    <3>8. Cardinality(S) <= Cardinality(T \cup {n}) /\ Cardinality(S) \in Nat
          /\ Cardinality(T \cup {n}) \in Nat
      BY <3>6, <3>7, FS_Subset, FS_CardinalityType
    <3>9. ~(Cardinality(T) + 1 >= Count[r]) /\ Count[r] \in Nat
      BY <2>1, <3>3 DEF Reached, RuleEngineAssumption
    <3> HIDE DEF T, n
    <3> QED
      BY <1>0, <3>5, <3>6, <3>8, <3>9
  <2> QED
    BY <2>2, <2>3
<1>4. ASSUME NEW w \in Workers, CommitNew(w) PROVE \E c \in S : Raised(c)'
  <2>1. PICK n : n = Len(alerts) + 1
    OBVIOUS
  <2>2. /\ tx[w].pc \in Open /\ receipts' = receipts \cup {NewReceipt(w)}
        /\ links' = links \cup {NewLink(w, n)}
    BY <1>4, <2>1 DEF CommitNew, Open, NewLink
  <2>3. /\ DOMAIN alerts' = DOMAIN alerts \cup {n}
        /\ \A i \in DOMAIN alerts : alerts'[i] = alerts[i]
        /\ alerts'[n].rule = tx[w].rule
    BY <1>4, <2>1, CommitNewAlerts
  <2> QED
    BY <1>1, <1>2, <2>2, <2>3
<1>5. ASSUME NEW w \in Workers, CommitOccurrence(w) PROVE \E c \in S : Raised(c)'
  <2>1. PICK k : k = tx[w].alert
    OBVIOUS
  <2>2. /\ tx[w].pc \in Open /\ receipts' = receipts \cup {NewReceipt(w)}
        /\ links' = links \cup {NewLink(w, k)} /\ alerts[k].rule = tx[w].rule
    BY <1>5, <2>1 DEF CommitOccurrence, Open, NewLink, ChosenInv, SameKey
  <2>3. /\ DOMAIN alerts' = DOMAIN alerts /\ k \in DOMAIN alerts
        /\ \A i \in DOMAIN alerts : alerts'[i].rule = alerts[i].rule
    BY <1>5, <2>1, CommitOccurrenceAlerts DEF SameIdentity
  <2> QED
    BY <1>1, <1>2, <2>2, <2>3
<1>6. CASE \E w \in Workers : Notify(w)
  <2>1. PICK w \in Workers : Notify(w)
    BY <1>6
  <2>2. receipts' = receipts /\ links' = links
    BY <2>1, NotifyTx
  <2> QED
    BY <1>1, <2>1, <2>2, NotifyAlerts DEF SameIdentity
<1>7. ASSUME NEW k \in DOMAIN alerts, NEW st \in {"open", "acknowledged", "closed"}, UpdateAlert(k, st)
      PROVE  \E c \in S : Raised(c)'
  <2>1. receipts' = receipts /\ links' = links
    BY <1>7 DEF UpdateAlert
  <2> QED
    BY <1>1, <1>7, <2>1, UpdateAlertAlerts DEF SameIdentity
<1>8. ASSUME NEW q \in Rules, DeleteRule(q) PROVE \E c \in S : Raised(c)'
  BY <1>1, <1>8 DEF DeleteRule
<1>9. CASE UNCHANGED <<receipts, alerts, links>>
  BY <1>1, <1>9
<1> QED
  BY <1>3, <1>4, <1>5, <1>6, <1>7, <1>8, <1>9, Writes

\* The receipts that count towards the burst of receipt c.
Before(c) == {d \in Since(c.rule, EntityOf[c.event], c.at - Window) : d.at <= c.at + MaxTx}

HasBurst(r, e) ==
    \E c \in receipts : /\ c.rule = r /\ c.event = e
                        /\ Cardinality(Before(c)) >= Count[c.rule]

LEMMA BeforeFinite ==
  ASSUME ReceiptInv, NEW c
  PROVE  IsFiniteSet(Before(c)) /\ Cardinality(Before(c)) \in Nat
<1>1. Before(c) \subseteq receipts
  BY DEF Before, Since
<1>2. IsFiniteSet(Before(c))
  BY <1>1, FS_Subset DEF ReceiptInv
<1> QED
  BY <1>2, FS_CardinalityType

LEMMA HasBurstStays ==
  ASSUME RuleEngineAssumption, TypeOK, ReceiptInv, ReceiptInv', receipts \subseteq receipts',
         NEW r \in Rules, NEW e, HasBurst(r, e)
  PROVE  HasBurst(r, e)'
<1>1. PICK c \in receipts : /\ c.rule = r /\ c.event = e
                            /\ Cardinality(Before(c)) >= Count[c.rule]
  BY DEF HasBurst
<1>2. Before(c) \subseteq Before(c)'
  BY DEF Before, Since
<1>3. IsFiniteSet(Before(c)') /\ Cardinality(Before(c)') \in Nat
  <2>1. Before(c)' \subseteq receipts'
    BY DEF Before, Since
  <2>2. IsFiniteSet(Before(c)')
    BY <2>1, FS_Subset DEF ReceiptInv
  <2> QED
    BY <2>2, FS_CardinalityType
<1>4. Cardinality(Before(c)) <= Cardinality(Before(c)')
  BY <1>2, <1>3, FS_Subset
<1>5. Cardinality(Before(c)') >= Count[c.rule]
  BY <1>1, <1>3, <1>4, BeforeFinite DEF RuleEngineAssumption
<1> QED
  BY <1>1, <1>5 DEF HasBurst

\* The receipt a transaction commits with an alert ends a burst.
LEMMA NewHasBurst ==
  ASSUME RuleEngineAssumption, TypeOK, TxInv, ChosenInv, ReceiptInv, NEW w \in Workers,
         tx[w].pc = "chosen", receipts' = receipts \cup {NewReceipt(w)},
         NEW r, NEW e, r = tx[w].rule, e = tx[w].event
  PROVE  HasBurst(r, e)'
<1>1. PICK n : n = NewReceipt(w)
  OBVIOUS
<1>2. /\ n.rule = r /\ n.event = e /\ n.at = tx[w].now
      /\ n.at \in Nat /\ Window \in Nat /\ MaxTx \in Nat /\ r \in Rules /\ Count[r] \in Nat
      /\ clock <= n.at + MaxTx
  BY <1>1, NewReceiptType DEF Open, Times, RuleEngineAssumption, TxInv
<1>3. ~HasReceipt(r, e) /\ Reached(w)
  BY DEF ChosenInv
<1> DEFINE T == Since(r, EntityOf[e], n.at - Window)
<1>4. IsFiniteSet(T) /\ Cardinality(T) + 1 >= Count[r] /\ n \notin T
  <2>1. n \notin receipts
    BY <1>2, <1>3 DEF HasReceipt
  <2>2. n \notin T
    BY <2>1 DEF Since
  <2>3. T = Since(tx[w].rule, Entity(w), tx[w].now - Window)
    BY <1>2 DEF Entity, Since
  <2>4. IsFiniteSet(T)
    BY SinceFinite
  <2>5. Cardinality(T) + 1 >= Count[r]
    BY <1>3, <2>3 DEF Reached
  <2> QED
    BY <2>2, <2>4, <2>5
<1>5. Before(n)' = T \cup {n}
  <2>1. \A d \in receipts : d.at <= n.at + MaxTx
    <3>1. \A d \in receipts : d.at \in Nat /\ d.at <= clock
      BY ReceiptType DEF Times, ReceiptInv
    <3>2. clock \in Nat
      BY DEF TypeOK, Times
    <3> QED
      BY <1>2, <3>1, <3>2
  <2>2. n.at <= n.at + MaxTx /\ n.at >= n.at - Window
    BY <1>2
  <2> QED
    BY <1>1, <1>2, <2>1, <2>2 DEF Before, Since
<1>6. Cardinality(T \cup {n}) = Cardinality(T) + 1
  BY <1>4, FS_AddElement
<1>7. Cardinality(Before(n)') >= Count[n.rule]
  BY <1>2, <1>4, <1>5, <1>6
<1>8. n \in receipts'
  BY <1>1
<1> QED
  BY <1>2, <1>7, <1>8 DEF HasBurst

LEMMA HasBurstStep ==
  ASSUME RuleEngineAssumption, TypeOK, TxInv, ChosenInv, NotifyInv, ReceiptInv, ReceiptInv',
         LinkInv, AlertHasBurst, [Next]_vars
  PROVE  AlertHasBurst'
<1>0. /\ AlertHasBurst <=> \A i \in DOMAIN alerts : \A e \in EventsOf(i) : HasBurst(alerts[i].rule, e)
      /\ AlertHasBurst' <=> \A i \in DOMAIN alerts' : \A e \in EventsOf(i)' :
                               \E c \in receipts' :
                                  /\ c.rule = alerts'[i].rule /\ c.event = e
                                  /\ Cardinality(Before(c)') >= Count[c.rule]
  BY DEF AlertHasBurst, HasBurst, Before
<1>1. SUFFICES ASSUME NEW i \in DOMAIN alerts', NEW e \in EventsOf(i)', NEW r, r = alerts'[i].rule
               PROVE  HasBurst(r, e)'
  BY <1>0 DEF HasBurst
<1>2. ASSUME receipts \subseteq receipts', i \in DOMAIN alerts, r = alerts[i].rule, e \in EventsOf(i)
      PROVE  HasBurst(r, e)'
  <2>1. HasBurst(r, e) /\ r \in Rules
    BY <1>0, <1>2, AlertType
  <2> QED
    BY <1>2, <2>1, HasBurstStays
<1>3. ASSUME NEW w \in Workers, BelowCount(w) PROVE HasBurst(r, e)'
  <2>1. receipts \subseteq receipts' /\ alerts' = alerts /\ links' = links
    BY <1>3 DEF BelowCount
  <2>2. e \in EventsOf(i)
    BY <1>1, <2>1 DEF EventsOf
  <2> QED
    BY <1>1, <1>2, <2>1, <2>2
<1>4. ASSUME NEW w \in Workers, CommitNew(w) PROVE HasBurst(r, e)'
  <2>1. PICK n : n = Len(alerts) + 1
    OBVIOUS
  <2>2. /\ tx[w].pc = "chosen" /\ receipts' = receipts \cup {NewReceipt(w)}
        /\ links' = links \cup {NewLink(w, n)} /\ tx[w].event \in Events
    BY <1>4, <2>1, NewReceiptType DEF CommitNew, Open, NewLink
  <2>3. /\ n \notin DOMAIN alerts /\ DOMAIN alerts' = DOMAIN alerts \cup {n}
        /\ \A j \in DOMAIN alerts : alerts'[j] = alerts[j]
        /\ alerts'[n].rule = tx[w].rule
    BY <1>4, <2>1, CommitNewAlerts
  <2>4. CASE i = n
    <3>1. EventsOf(n) = {} /\ e \in Events
      BY <1>1, <2>3, NoLinks DEF EventsOf
    <3>2. e = tx[w].event
      BY <1>1, <2>2, <2>4, <3>1, EventsAfter
    <3>3. r = tx[w].rule
      BY <1>1, <2>3, <2>4
    <3> QED
      BY <2>2, <3>2, <3>3, NewHasBurst
  <2>5. CASE i # n
    <3>1. e \in EventsOf(i)
      BY <1>1, <2>2, <2>5, EventsAfter
    <3> QED
      BY <1>1, <1>2, <2>2, <2>3, <2>5, <3>1
  <2> QED
    BY <2>4, <2>5
<1>5. ASSUME NEW w \in Workers, CommitOccurrence(w) PROVE HasBurst(r, e)'
  <2>1. PICK k : k = tx[w].alert
    OBVIOUS
  <2>2. /\ tx[w].pc = "chosen" /\ receipts' = receipts \cup {NewReceipt(w)}
        /\ links' = links \cup {NewLink(w, k)} /\ tx[w].event \in Events
        /\ alerts[k].rule = tx[w].rule
    BY <1>5, <2>1, NewReceiptType DEF CommitOccurrence, Open, NewLink, ChosenInv, SameKey
  <2>3. /\ k \in DOMAIN alerts /\ DOMAIN alerts' = DOMAIN alerts
        /\ \A j \in DOMAIN alerts : alerts'[j].rule = alerts[j].rule
    BY <1>5, <2>1, CommitOccurrenceAlerts DEF SameIdentity
  <2>4. e \in Events
    BY <1>1 DEF EventsOf
  <2>5. e \in EventsOf(i) \/ (i = k /\ e = tx[w].event)
    BY <1>1, <2>2, <2>4, EventsAfter
  <2>6. CASE i = k /\ e = tx[w].event
    <3>1. r = tx[w].rule
      BY <1>1, <2>2, <2>3, <2>6
    <3> QED
      BY <2>2, <2>6, <3>1, NewHasBurst
  <2>7. CASE e \in EventsOf(i)
    BY <1>1, <1>2, <2>2, <2>3, <2>7
  <2> QED
    BY <2>5, <2>6, <2>7
<1>6. ASSUME receipts' = receipts, links' = links, DOMAIN alerts' = DOMAIN alerts,
             \A j \in DOMAIN alerts : alerts'[j].rule = alerts[j].rule
      PROVE  HasBurst(r, e)'
  <2>1. e \in EventsOf(i)
    BY <1>1, <1>6 DEF EventsOf
  <2> QED
    BY <1>1, <1>2, <1>6, <2>1
<1>7. CASE \E w \in Workers : Notify(w)
  <2>1. PICK w \in Workers : Notify(w)
    BY <1>7
  <2>2. receipts' = receipts /\ links' = links
    BY <2>1, NotifyTx
  <2> QED
    BY <1>6, <2>1, <2>2, NotifyAlerts DEF SameIdentity
<1>8. ASSUME NEW k \in DOMAIN alerts, NEW st \in {"open", "acknowledged", "closed"}, UpdateAlert(k, st)
      PROVE  HasBurst(r, e)'
  <2>1. receipts' = receipts /\ links' = links
    BY <1>8 DEF UpdateAlert
  <2> QED
    BY <1>6, <1>8, <2>1, UpdateAlertAlerts DEF SameIdentity
<1>9. ASSUME NEW q \in Rules, DeleteRule(q) PROVE HasBurst(r, e)'
  <2>1. /\ alerts' = alerts /\ links' = links
        /\ \A j \in DOMAIN alerts : alerts[j].rule # q
        /\ receipts' = {c \in receipts : c.rule # q}
    BY <1>9 DEF DeleteRule
  <2>2. r # q /\ HasBurst(r, e)
    <3>1. e \in EventsOf(i)
      BY <1>1, <2>1 DEF EventsOf
    <3> QED
      BY <1>0, <1>1, <2>1, <3>1
  <2>3. PICK c \in receipts : /\ c.rule = r /\ c.event = e
                              /\ Cardinality(Before(c)) >= Count[c.rule]
    BY <2>2 DEF HasBurst
  <2>4. Before(c)' = Before(c)
    BY <2>1, <2>2, <2>3 DEF Before, Since
  <2> QED
    BY <2>1, <2>2, <2>3, <2>4 DEF HasBurst
<1>10. CASE UNCHANGED <<receipts, alerts, links>>
  BY <1>6, <1>10
<1> QED
  BY <1>3, <1>4, <1>5, <1>7, <1>8, <1>9, <1>10, Writes

----------------------------------------------------------------------------
(* The theorems.                                                           *)

LEMMA InitInv == RuleEngineAssumption /\ Init => IInv
<1> SUFFICES ASSUME RuleEngineAssumption, Init PROVE IInv
  OBVIOUS
<1>1. /\ receipts = {} /\ links = {} /\ DOMAIN alerts = {}
      /\ \A w \in Workers : tx[w].pc = "idle"
  BY DEF Init, Idle
<1>2. TypeOK
  BY InitType
<1>3. TxInv /\ LockInv /\ ChosenInv /\ NotifyInv
  BY <1>1 DEF TxInv, LockInv, ChosenInv, NotifyInv, Open, Holding
<1>4. ReceiptInv /\ AlertInv /\ LinkInv /\ SpacedInv
  BY <1>1, FS_EmptySet DEF ReceiptInv, AlertInv, LinkInv, SpacedInv
<1>5. CountedOnce /\ AlertHasBurst /\ NoticeInv
  BY <1>1 DEF CountedOnce, AlertHasBurst, NoticeInv
<1>6. BurstRaisesAlert
  BY <1>1 DEF BurstRaisesAlert
<1> QED
  BY <1>2, <1>3, <1>4, <1>5, <1>6 DEF IInv

LEMMA NextInv ==
  ASSUME RuleEngineAssumption, IInv, [Next]_vars
  PROVE  IInv'
<1> USE DEF IInv
<1>1. TypeOK' /\ TxInv' /\ LockInv' /\ NotifyInv' /\ ReceiptInv'
  BY TypeStep, TxStep, LockStep, NotifyStep, ReceiptStep
<1>2. ChosenInv' /\ AlertInv' /\ LinkInv' /\ SpacedInv'
  BY <1>1, ChosenStep, AlertStep, LinkStep, SpacedStep
<1>3. CountedOnce' /\ BurstRaisesAlert' /\ AlertHasBurst' /\ NoticeInv'
  BY <1>1, CountedStep, BurstStep, HasBurstStep, NoticeStep
<1> QED
  BY <1>1, <1>2, <1>3

\* The inductive invariant: what a transaction read under the advisory lock
\* (durable.go:24-64) holds until it commits.
THEOREM Invariance == Spec => []IInv
<1>1. Init => IInv
  BY InitInv, RuleEngineAssumption
<1>2. IInv /\ [Next]_vars => IInv'
  BY NextInv, RuleEngineAssumption
<1> QED
  BY <1>1, <1>2, PTL DEF Spec

\* The rule engine keeps the types of its tables and transactions.
THEOREM TypeCorrect == Spec => []TypeOK
<1>1. IInv => TypeOK
  BY DEF IInv
<1> QED
  BY <1>1, Invariance, PTL

\* No replay, crash or concurrent delivery counts an event twice for a rule
\* (durable.go:12-33).
THEOREM CountsOnce == Spec => []CountedOnce
<1>1. IInv => CountedOnce
  BY DEF IInv
<1> QED
  BY <1>1, Invariance, PTL

\* Every burst has its alert, and every alert its burst, although now() is read
\* before the wait for the lock (durable.go:20-58).
THEOREM ThresholdExact == Spec => []AlertIffBurst
<1>1. IInv => AlertIffBurst
  BY DEF IInv, AlertIffBurst
<1> QED
  BY <1>1, Invariance, PTL

\* A second alert nobody asked for needs a quiet period (durable.go:60-69).
THEOREM CooldownHolds == Spec => []QuietBeforeNewAlert
<1>1. RuleEngineAssumption /\ IInv => QuietBeforeNewAlert
  <2> SUFFICES ASSUME RuleEngineAssumption, IInv,
                      NEW i \in DOMAIN alerts, NEW j \in DOMAIN alerts,
                      i < j, ~alerts[i].wasClosed, ~alerts[j].wasClosed,
                      alerts[i].rule = alerts[j].rule, alerts[i].entity = alerts[j].entity,
                      NEW c \in receipts, c.rule = alerts[i].rule, c.event \in EventsOf(i)
               PROVE  c.at + Cooldown < alerts[j].triggered + MaxTx
    BY DEF QuietBeforeNewAlert
  <2>1. alerts[i].last + Cooldown < alerts[j].triggered
    BY DEF IInv, SpacedInv, SameKey
  <2>2. c.at <= alerts[i].last + MaxTx
    <3>1. [alert |-> i, event |-> c.event] \in links
      BY DEF EventsOf
    <3> QED
      BY <3>1 DEF IInv, LinkInv
  <2>3. /\ c.at \in Nat /\ alerts[i].last \in Nat /\ alerts[j].triggered \in Nat
        /\ Cooldown \in Nat /\ MaxTx \in Nat
    BY ReceiptType, AlertType DEF IInv, Times, RuleEngineAssumption
  <2> QED
    BY <2>1, <2>2, <2>3
<1> QED
  BY <1>1, Invariance, RuleEngineAssumption, PTL

\* However often an event is delivered, one Send announces its alert
\* (durable.go:78-84), so no more than Attempts messages arrive (engine.go:154-178).
THEOREM AnnouncesByOneSend == Spec => []AnnouncedByOneSend
<1>1. IInv => AnnouncedByOneSend
  BY DEF IInv, NoticeInv, NotifyInv, AnnouncedByOneSend
<1> QED
  BY <1>1, Invariance, PTL

=============================================================================
