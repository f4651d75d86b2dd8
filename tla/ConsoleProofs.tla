--------------------------- MODULE ConsoleProofs ---------------------------
(***************************************************************************)
(* Proofs about Console, for any requests, users, alerts and statuses.     *)
(* The inductive invariant IInv says what a transaction that has changed   *)
(* its row may rely on until it commits, because the others wait for it,   *)
(* and why its audit record is the last of its row when it appears.        *)
(***************************************************************************)
EXTENDS Console, TLAPS, FiniteSetTheorems

\* The transaction of r has changed a row that others cannot change before it ends.
Effective(r) == tx[r].pc \in {"executed", "audited"} /\ tx[r].met

CaseOps == {"case.created", "case.updated", "case.note_added", "case.alert_linked",
            "case.alert_unlinked"}
LinkOps == {"case.created", "case.alert_linked", "case.alert_unlinked"}
UserOps == {"user.created", "user.disabled"}

\* What the handlers accept carries what its statement needs.
Formed(p) ==
    /\ p \in Payload
    /\ p.op \in CaseOps \ {"case.created"} => p.case \in Cases
    /\ p.op \in {"case.alert_linked", "case.alert_unlinked"} => p.alert \in Alerts
    /\ p.op \in UserOps => p.user \in Users

FormInv ==
    \A r \in Requests :
        /\ Formed(tx[r].load)
        /\ tx[r].pc \in {"executed", "audited"} /\ tx[r].load.op = "case.created" =>
              tx[r].met /\ tx[r].load.case \in Cases
        /\ tx[r].pc = "idle" => tx[r].actor = NoUser

\* The ids of the audit records that are still to come fit their bound.
ToRecord == {q \in Requests : tx[q].pc \in {"begun", "executed"}}
BudgetInv == nextAudit + Cardinality(ToRecord) <= MaxAudit + 1

\* A row is changed by one transaction at a time.
LockInv ==
    \A r, q \in Requests :
        r # q /\ Effective(r) /\ Effective(q) /\ Row(tx[r].load) # <<"new">> =>
            Row(tx[r].load) # Row(tx[q].load)

\* The audit ids of the transactions are their own.
IdInv ==
    /\ \A r \in Requests : tx[r].pc = "audited" => tx[r].id \in 1 .. nextAudit - 1
    /\ \A r, q \in Requests :
          r # q /\ tx[r].pc = "audited" /\ tx[q].pc = "audited" => tx[r].id # tx[q].id
    /\ \A x \in audit : x.id < nextAudit
    /\ \A x \in audit, r \in Requests : tx[r].pc = "audited" => x.id # tx[r].id

\* What the statement of p found.
Holds(p) ==
    /\ p.op \in CaseOps \ {"case.created"} => Exists(p.case)
    /\ p.op = "case.created" => ~Exists(p.case) /\ p.case < nextCase
    /\ p.op = "user.created" => users[p.user] = "absent"
    /\ p.op = "user.disabled" => users[p.user] # "absent"

\* What a statement found still holds when its transaction commits.
CaseInv ==
    /\ \A r \in Requests : Effective(r) => Holds(tx[r].load)
    /\ \A r, q \in Requests :
          /\ r # q /\ Effective(r) /\ Effective(q)
          /\ tx[r].load.op = "case.created" /\ tx[q].load.op = "case.created"
          => tx[r].load.case # tx[q].load.case
    /\ \A c \in Cases : Exists(c) => c < nextCase
    /\ \A l \in links : Exists(l[1])

Inv1 == TypeOK /\ FormInv /\ BudgetInv /\ LockInv /\ IdInv /\ CaseInv

-----------------------------------------------------------------------------
LEMMA Consts ==
    /\ Known \subseteq Users /\ Assignees \subseteq Users
    /\ NoUser \notin Users /\ NoAlert \notin Alerts
    /\ "open" \in Statuses /\ NoStatus \notin Statuses /\ "none" \notin Statuses
    /\ IsFiniteSet(Requests)
    /\ TokenTTL \in Nat /\ MaxCases \in Nat /\ MaxAudit \in Nat /\ MaxClock \in Nat
    /\ MaxFaults \in Nat
BY ConsoleAssumption DEF ConsoleAssumption

\* The rows of the operations.
LEMMA Rows ==
  ASSUME NEW p
  PROVE  /\ p.op = "case.updated" => Row(p) = <<"case", p.case>> /\ Row(p) # <<"new">>
         /\ p.op \in {"case.alert_linked", "case.alert_unlinked"} =>
               Row(p) = <<"link", p.case, p.alert>> /\ Row(p) # <<"new">>
         /\ p.op \in UserOps => Row(p) = <<"user", p.user>> /\ Row(p) # <<"new">>
         /\ p.op \in {"case.created", "case.note_added"} => Row(p) = <<"new">>
BY DEF Row, UserOps

LEMMA SentFormed ==
  ASSUME NEW u \in Users, NEW p \in Sent(u)
  PROVE  Formed(p)
<1>1. Empty \in Payload /\ Empty.op = "case.created"
  BY DEF Empty, Load, Payload, Ops
<1>2. CASE p \in CreateCase
  <2>1. PICK a \in Alerts \cup {NoAlert}, w \in Assignees \cup {NoUser} :
            p = Load("case.created", 0, a, NoStatus, w, NoUser)
    BY <1>2 DEF CreateCase
  <2>2. p \in Payload /\ p.op = "case.created"
    BY <2>1 DEF Payload, Ops, Load
  <2> QED
    BY <2>2 DEF Formed, CaseOps, UserOps
<1>3. CASE p \in UpdateCase
  <2>1. PICK c \in Cases, s \in Statuses \cup {NoStatus}, w \in Assignees \cup {NoUser} :
            p = Load("case.updated", c, NoAlert, s, w, NoUser)
    BY <1>3 DEF UpdateCase
  <2>2. p \in Payload /\ p.op = "case.updated" /\ p.case \in Cases
    BY <2>1 DEF Payload, Ops, Load
  <2> QED
    BY <2>2 DEF Formed, CaseOps, UserOps
<1>4. CASE p \in AddNote
  <2>1. PICK c \in Cases : p = Load("case.note_added", c, NoAlert, NoStatus, NoUser, NoUser)
    BY <1>4 DEF AddNote
  <2>2. p \in Payload /\ p.op = "case.note_added" /\ p.case \in Cases
    BY <2>1 DEF Payload, Ops, Load
  <2> QED
    BY <2>2 DEF Formed, CaseOps, UserOps
<1>5. CASE p \in LinkAlert
  <2>1. PICK op \in {"case.alert_linked", "case.alert_unlinked"}, c \in Cases, a \in Alerts :
            p = Load(op, c, a, NoStatus, NoUser, NoUser)
    BY <1>5 DEF LinkAlert
  <2>2. p \in Payload /\ p.op = op /\ p.case \in Cases /\ p.alert \in Alerts
    BY <2>1 DEF Payload, Ops, Load
  <2> QED
    BY <2>2 DEF Formed, CaseOps, UserOps
<1>6. CASE p \in ChangeUser
  <2>1. PICK op \in {"user.created", "user.disabled"}, w \in Users :
            p = Load(op, 0, NoAlert, NoStatus, NoUser, w)
    BY <1>6 DEF ChangeUser
  <2>2. p \in Payload /\ p.op = op /\ p.user \in Users
    BY <2>1 DEF Payload, Ops, Load
  <2> QED
    BY <2>2 DEF Formed, CaseOps, UserOps
<1> QED
  BY <1>2, <1>3, <1>4, <1>5, <1>6 DEF Sent

Others(r) == \A q \in Requests \ {r} : tx'[q] = tx[q]

\* What the steps of a transaction do to its record.
LEMMA IdleType == Idle \in Tx /\ Idle.pc = "idle" /\ Formed(Idle.load) /\ Idle.actor = NoUser
<1>1. Empty \in Payload /\ Empty.op = "case.created"
  BY DEF Empty, Load, Payload, Ops
<1>2. 0 \in Times /\ 0 \in 0 .. MaxAudit
  BY Consts DEF Times
<1> QED
  BY <1>1, <1>2 DEF Idle, Tx, Formed, CaseOps, UserOps

LEMMA BeginTx ==
  ASSUME TypeOK, NEW r \in Requests, NEW u \in Users, Begin(r, u)
  PROVE  /\ Others(r) /\ tx' \in [Requests -> Tx]
         /\ tx'[r].pc = "begun" /\ Formed(tx'[r].load)
         /\ tx'[r].actor = u /\ tx'[r].at = clock
<1>1. PICK p \in Sent(u) :
          tx' = [tx EXCEPT ![r] = [Idle EXCEPT !.pc = "begun", !.load = p, !.actor = u, !.at = clock]]
  BY DEF Begin
<1>2. Formed(p) /\ p \in Payload
  BY SentFormed DEF Formed
<1>3. [Idle EXCEPT !.pc = "begun", !.load = p, !.actor = u, !.at = clock] \in Tx
  BY <1>2, IdleType DEF Tx, TypeOK
<1> QED
  BY <1>1, <1>2, <1>3, IdleType DEF TypeOK, Others, Tx

LEMMA ExecuteTx ==
  ASSUME TypeOK, NEW r \in Requests, Execute(r)
  PROVE  /\ Others(r) /\ tx' \in [Requests -> Tx]
         /\ tx'[r].pc = "executed"
         /\ tx'[r].actor = tx[r].actor /\ tx'[r].at = tx[r].at /\ tx'[r].id = tx[r].id
         /\ tx[r].load.op = "case.created" =>
               /\ tx'[r].met /\ tx'[r].load = [tx[r].load EXCEPT !.case = nextCase]
               /\ nextCase \in Cases /\ nextCase' = nextCase + 1
         /\ tx[r].load.op # "case.created" =>
               tx'[r].met = Meets(tx[r].load) /\ tx'[r].load = tx[r].load /\ nextCase' = nextCase
<1>1. tx[r] \in Tx /\ tx[r].load \in Payload /\ tx \in [Requests -> Tx]
  BY DEF TypeOK, Tx
<1>2. CASE tx[r].load.op = "case.created"
  <2>1. /\ tx' = [tx EXCEPT ![r].pc = "executed", ![r].met = TRUE, ![r].load.case = nextCase]
        /\ nextCase \in Cases /\ nextCase' = nextCase + 1
    BY <1>2 DEF Execute
  <2>2. PICK p : p = [tx[r].load EXCEPT !.case = nextCase]
    OBVIOUS
  <2>3. PICK t : t = [tx[r] EXCEPT !.pc = "executed", !.met = TRUE, !.load = p]
    OBVIOUS
  <2>4. tx' = [tx EXCEPT ![r] = t]
    BY <1>1, <2>1, <2>2, <2>3
  <2>5. p \in Payload
    BY <1>1, <2>1, <2>2 DEF Payload
  <2>6. t \in Tx
    BY <1>1, <2>3, <2>5 DEF Tx
  <2> QED
    BY <1>1, <1>2, <2>1, <2>2, <2>3, <2>4, <2>6 DEF Others, Tx
<1>3. CASE tx[r].load.op # "case.created"
  <2>1. PICK m : m = Meets(tx[r].load)
    OBVIOUS
  <2>2. tx' = [tx EXCEPT ![r].pc = "executed", ![r].met = m] /\ nextCase' = nextCase
    BY <1>3, <2>1 DEF Execute
  <2>3. m \in BOOLEAN
    BY <2>1 DEF Meets, Exists
  <2> QED
    BY <1>1, <1>3, <2>1, <2>2, <2>3 DEF Others, Tx
<1> QED
  BY <1>2, <1>3

LEMMA RecordTx ==
  ASSUME TypeOK, NEW r \in Requests, RecordAudit(r), nextAudit \in 0 .. MaxAudit
  PROVE  /\ Others(r) /\ tx' \in [Requests -> Tx]
         /\ tx[r].pc = "executed" /\ tx'[r].pc = "audited" /\ tx'[r].id = nextAudit
         /\ tx'[r].actor = tx[r].actor /\ tx'[r].at = tx[r].at
         /\ tx'[r].load = tx[r].load /\ tx'[r].met = tx[r].met
<1>1. tx[r] \in Tx /\ tx \in [Requests -> Tx]
  BY DEF TypeOK
<1>2. tx' = [tx EXCEPT ![r].pc = "audited", ![r].id = nextAudit] /\ tx[r].pc = "executed"
  BY DEF RecordAudit
<1> QED
  BY <1>1, <1>2 DEF Others, Tx

LEMMA EndTx ==
  ASSUME TypeOK, NEW r \in Requests, tx' = [tx EXCEPT ![r] = Idle]
  PROVE  /\ Others(r) /\ tx' \in [Requests -> Tx] /\ tx'[r] = Idle /\ tx'[r].pc = "idle"
         /\ Formed(tx'[r].load) /\ tx'[r].actor = NoUser
BY IdleType DEF Others, TypeOK

\* What the commit of a transaction does, by its operation.
LEMMA ApplyRows ==
  ASSUME NEW p, Apply(p)
  PROVE  /\ p.op = "case.created" =>
                cases' = [cases EXCEPT ![p.case] = [status |-> "open", assigned |-> p.assigned]]
         /\ p.op = "case.updated" => cases' = [cases EXCEPT ![p.case] = Updated(cases[p.case], p)]
         /\ p.op \notin {"case.created", "case.updated"} => cases' = cases
         /\ p.op = "case.alert_unlinked" => links' = links \ {<<p.case, p.alert>>}
         /\ p.op \in {"case.created", "case.alert_linked"} /\ p.alert # NoAlert =>
                links' = links \cup {<<p.case, p.alert>>}
         /\ p.op \in {"case.created", "case.alert_linked"} /\ p.alert = NoAlert => links' = links
         /\ p.op \notin LinkOps => links' = links
         /\ p.op = "case.note_added" => notes' = [notes EXCEPT ![p.case] = notes[p.case] + 1]
         /\ p.op # "case.note_added" => notes' = notes
         /\ p.op = "user.created" => users' = [users EXCEPT ![p.user] = "enabled"]
         /\ p.op = "user.disabled" => users' = [users EXCEPT ![p.user] = "disabled"]
         /\ p.op \notin UserOps => users' = users
         /\ p.op = "user.disabled" /\ disabled[p.user] = Never =>
                /\ disabled' = [disabled EXCEPT ![p.user] = clock]
                /\ overlap' = IF p.user \in login THEN overlap \cup {p.user} ELSE overlap
         /\ ~(p.op = "user.disabled" /\ disabled[p.user] = Never) => UNCHANGED <<disabled, overlap>>
<1>1. CASE p.op = "case.created"
  BY <1>1 DEF Apply, LinkOps, UserOps
<1>2. CASE p.op = "case.updated"
  BY <1>2 DEF Apply, LinkOps, UserOps
<1>3. CASE p.op = "case.note_added"
  BY <1>3 DEF Apply, LinkOps, UserOps
<1>4. CASE p.op = "case.alert_linked"
  BY <1>4 DEF Apply, LinkOps, UserOps
<1>5. CASE p.op = "case.alert_unlinked"
  BY <1>5 DEF Apply, LinkOps, UserOps
<1>6. CASE p.op = "user.created"
  BY <1>6 DEF Apply, LinkOps, UserOps
<1>7. CASE p.op = "user.disabled"
  BY <1>7 DEF Apply, LinkOps, UserOps
<1>8. CASE p.op \notin LinkOps \cup UserOps \cup {"case.updated", "case.note_added"}
  BY <1>8 DEF Apply, LinkOps, UserOps
<1> QED
  BY <1>1, <1>2, <1>3, <1>4, <1>5, <1>6, <1>7, <1>8 DEF LinkOps, UserOps

-----------------------------------------------------------------------------
(* The budget of audit ids.                                                 *)

LEMMA Recording ==
  ASSUME NEW r \in Requests
  PROVE  /\ IsFiniteSet(ToRecord) /\ Cardinality(ToRecord) \in Nat
         /\ ToRecord' \subseteq ToRecord => Cardinality(ToRecord') <= Cardinality(ToRecord)
         /\ IsFiniteSet(ToRecord') /\ Cardinality(ToRecord') \in Nat
         /\ ToRecord' = ToRecord \cup {r} => Cardinality(ToRecord') <= Cardinality(ToRecord) + 1
         /\ r \in ToRecord /\ ToRecord' = ToRecord \ {r} =>
               Cardinality(ToRecord) >= 1 /\ Cardinality(ToRecord') = Cardinality(ToRecord) - 1
<1>1. IsFiniteSet(ToRecord) /\ IsFiniteSet(ToRecord')
  <2>1. ToRecord \in SUBSET Requests /\ ToRecord' \in SUBSET Requests
    BY DEF ToRecord
  <2> QED
    BY <2>1, Consts, FS_Subset
<1>2. Cardinality(ToRecord) \in Nat /\ Cardinality(ToRecord') \in Nat
  BY <1>1, FS_CardinalityType
<1>3. ToRecord' \subseteq ToRecord => Cardinality(ToRecord') <= Cardinality(ToRecord)
  BY <1>1, FS_Subset
<1>4. ToRecord' = ToRecord \cup {r} => Cardinality(ToRecord') <= Cardinality(ToRecord) + 1
  BY <1>1, <1>2, FS_AddElement
<1>5. r \in ToRecord /\ ToRecord' = ToRecord \ {r} =>
         Cardinality(ToRecord) >= 1 /\ Cardinality(ToRecord') = Cardinality(ToRecord) - 1
  BY <1>1, <1>2, FS_RemoveElement
<1> QED
  BY <1>1, <1>2, <1>3, <1>4, <1>5

LEMMA NextBudget ==
  ASSUME TypeOK, BudgetInv, [Next]_vars
  PROVE  /\ BudgetInv' /\ nextAudit' \in 1 .. MaxAudit + 1
         /\ \A r \in Requests : RecordAudit(r) => nextAudit \in 1 .. MaxAudit
<1> USE DEF rows
<1>1. nextAudit \in 1 .. MaxAudit + 1 /\ nextAudit \in Nat /\ MaxAudit \in Nat
      /\ nextAudit + Cardinality(ToRecord) <= MaxAudit + 1 /\ Cardinality(ToRecord) \in Nat
  <2>1. IsFiniteSet(ToRecord)
    BY Consts, FS_Subset, ToRecord \in SUBSET Requests DEF ToRecord
  <2> QED
    BY <2>1, Consts, FS_CardinalityType DEF TypeOK, BudgetInv
<1>2. ASSUME NEW r \in Requests, RecordAudit(r)
      PROVE  BudgetInv' /\ nextAudit' \in 1 .. MaxAudit + 1 /\ nextAudit \in 1 .. MaxAudit
  <2>1. tx \in [Requests -> Tx] /\ tx[r].pc = "executed" /\ nextAudit' = nextAudit + 1
        /\ tx' = [tx EXCEPT ![r].pc = "audited", ![r].id = nextAudit]
    BY <1>2 DEF RecordAudit, TypeOK
  <2>2. r \in ToRecord /\ ToRecord' = ToRecord \ {r}
    BY <2>1 DEF ToRecord, Tx
  <2>3. Cardinality(ToRecord) >= 1 /\ Cardinality(ToRecord') = Cardinality(ToRecord) - 1
    BY <2>2, Recording
  <2> QED
    BY <1>1, <2>1, <2>3 DEF BudgetInv
<1>3. ASSUME NEW r \in Requests, NEW u \in Users, Begin(r, u)
      PROVE  BudgetInv' /\ nextAudit' \in 1 .. MaxAudit + 1
  <2>1. nextAudit + Cardinality(ToRecord) <= MaxAudit /\ nextAudit' = nextAudit
    BY <1>3 DEF Begin, ToRecord
  <2>2. ToRecord' = ToRecord \cup {r}
    BY <1>3, BeginTx DEF ToRecord, Others
  <2> QED
    BY <1>1, <2>1, <2>2, Recording DEF BudgetInv
<1>4. ASSUME NEW r \in Requests, Execute(r) \/ Commit(r) \/ Rollback(r)
      PROVE  BudgetInv' /\ nextAudit' \in 1 .. MaxAudit + 1
  <2>1. nextAudit' = nextAudit
    BY <1>4 DEF Execute, Commit, Rollback
  <2>2. CASE Execute(r)
    <3>1. tx[r].pc = "begun"
      BY <2>2 DEF Execute
    <3>2. \A q \in Requests \ {r} : tx'[q] = tx[q]
      BY <2>2, ExecuteTx DEF Others
    <3>3. ToRecord' \subseteq ToRecord
      BY <3>1, <3>2 DEF ToRecord
    <3> QED
      BY <1>1, <2>1, <3>3, Recording DEF BudgetInv
  <2>3. CASE Commit(r) \/ Rollback(r)
    <3>1. tx' = [tx EXCEPT ![r] = Idle]
      BY <2>3 DEF Commit, Rollback
    <3>2. ToRecord' \subseteq ToRecord
      BY <3>1, EndTx DEF ToRecord, Others
    <3> QED
      BY <1>1, <2>1, <3>2, Recording DEF BudgetInv
  <2> QED
    BY <1>4, <2>2, <2>3
<1>5. CASE UNCHANGED <<tx, nextAudit>>
  BY <1>1, <1>5 DEF BudgetInv, ToRecord, RecordAudit
<1>6. ASSUME NEW u \in Users, Login(u) \/ Token(u) PROVE UNCHANGED <<tx, nextAudit>>
  BY <1>6 DEF Login, Token
<1>7. CASE Tick \/ UNCHANGED vars
  BY <1>5, <1>7 DEF Tick, vars
<1>8. \A r \in Requests : RecordAudit(r) => nextAudit \in 1 .. MaxAudit
  BY <1>2
<1> QED
  BY <1>2, <1>3, <1>4, <1>5, <1>6, <1>7, <1>8 DEF Next, Transact

-----------------------------------------------------------------------------
(* Commits.                                                                 *)

\* A row of the cases, and what an update makes of it.
LEMMA UpdatedType ==
  ASSUME TypeOK, NEW p \in Payload, NEW c \in Cases, Exists(c)
  PROVE  /\ cases[c] \in [status : Statuses, assigned : Assignees \cup {NoUser}]
         /\ Updated(cases[c], p) \in [status : Statuses, assigned : Assignees \cup {NoUser}]
         /\ Updated(cases[c], p) # NoCase
<1>1. cases[c] \in [status : Statuses, assigned : Assignees \cup {NoUser}]
  BY DEF TypeOK, Exists
<1>2. Updated(cases[c], p) \in [status : Statuses, assigned : Assignees \cup {NoUser}]
  BY <1>1 DEF Updated, Payload
<1>3. Updated(cases[c], p).status # NoCase.status
  BY <1>2, Consts DEF NoCase
<1> QED
  BY <1>1, <1>2, <1>3

LEMMA CommitFacts ==
  ASSUME TypeOK, FormInv, CaseInv, NEW r \in Requests, Commit(r)
  PROVE  /\ tx[r].pc = "audited" /\ tx[r] \in Tx /\ Formed(tx[r].load) /\ tx[r].load \in Payload
         /\ tx[r].met \in BOOLEAN
         /\ tx[r].met => Effective(r) /\ Apply(tx[r].load)
         /\ ~tx[r].met => UNCHANGED <<users, cases, links, notes, disabled, overlap>>
         /\ tx' = [tx EXCEPT ![r] = Idle]
         /\ UNCHANGED <<clock, login, token, nextCase, nextAudit, faults>>
         /\ tx[r].load.op \in CaseOps /\ tx[r].met => tx[r].load.case \in Cases
         /\ tx[r].met /\ tx[r].load.op \in CaseOps \ {"case.created"} => Exists(tx[r].load.case)
<1>1. tx[r] \in Tx
  BY DEF TypeOK
<1>2. /\ tx[r].pc = "audited" /\ tx' = [tx EXCEPT ![r] = Idle]
      /\ tx[r].met => Apply(tx[r].load)
      /\ ~tx[r].met => UNCHANGED <<users, cases, links, notes, disabled, overlap>>
      /\ UNCHANGED <<clock, login, token, nextCase, nextAudit, faults>>
  BY DEF Commit
<1>3. tx[r].met \in BOOLEAN /\ tx[r].load \in Payload
  BY <1>1 DEF Tx
<1>4. Formed(tx[r].load)
      /\ (tx[r].load.op = "case.created" => tx[r].load.case \in Cases)
  BY <1>2 DEF FormInv
<1>5. tx[r].load.op \in CaseOps => tx[r].load.case \in Cases
  BY <1>4 DEF Formed
<1>6. tx[r].met => Effective(r)
  BY <1>2 DEF Effective
<1>7. tx[r].met /\ tx[r].load.op \in CaseOps \ {"case.created"} => Exists(tx[r].load.case)
  BY <1>6 DEF CaseInv, Holds
<1> QED
  BY <1>1, <1>2, <1>3, <1>4, <1>5, <1>6, <1>7

\* The cases after a commit.
LEMMA CommitExists ==
  ASSUME TypeOK, FormInv, CaseInv, NEW r \in Requests, Commit(r)
  PROVE  /\ cases' \in [Cases -> [status : Statuses, assigned : Assignees \cup {NoUser}] \cup {NoCase}]
         /\ \A c : Exists(c)' <=>
               Exists(c) \/ (tx[r].met /\ tx[r].load.op = "case.created" /\ c = tx[r].load.case)
<1>1. PICK p : p = tx[r].load
  OBVIOUS
<1>2. p \in Payload /\ cases \in [Cases -> [status : Statuses, assigned : Assignees \cup {NoUser}] \cup {NoCase}]
  BY <1>1, CommitFacts DEF TypeOK
<1>3. CASE ~tx[r].met \/ p.op \notin {"case.created", "case.updated"}
  <2>1. cases' = cases
    BY <1>1, <1>3, CommitFacts, ApplyRows
  <2> QED
    BY <1>1, <1>2, <1>3, <2>1 DEF Exists
<1>4. CASE tx[r].met /\ p.op = "case.created"
  <2>1. PICK row : row = [status |-> "open", assigned |-> p.assigned]
    OBVIOUS
  <2>2. cases' = [cases EXCEPT ![p.case] = row] /\ p.case \in Cases
    BY <1>1, <1>4, <2>1, CommitFacts, ApplyRows DEF CaseOps
  <2>3. row \in [status : Statuses, assigned : Assignees \cup {NoUser}]
    BY <1>2, <2>1, Consts DEF Payload
  <2>4. row # NoCase
    <3>1. row.status # NoCase.status
      BY <2>1, Consts DEF NoCase
    <3> QED
      BY <3>1
  <2> QED
    BY <1>1, <1>2, <1>4, <2>2, <2>3, <2>4 DEF Exists
<1>5. CASE tx[r].met /\ p.op = "case.updated"
  <2>1. PICK row : row = Updated(cases[p.case], p)
    OBVIOUS
  <2>2. cases' = [cases EXCEPT ![p.case] = row] /\ p.case \in Cases /\ Exists(p.case)
    BY <1>1, <1>5, <2>1, CommitFacts, ApplyRows DEF CaseOps
  <2>3. row \in [status : Statuses, assigned : Assignees \cup {NoUser}] /\ row # NoCase
    BY <1>2, <2>1, <2>2, UpdatedType
  <2> QED
    BY <1>1, <1>2, <1>5, <2>2, <2>3 DEF Exists
<1> QED
  BY <1>3, <1>4, <1>5, CommitFacts

\* The users after a commit.
LEMMA CommitUsers ==
  ASSUME TypeOK, FormInv, CaseInv, NEW r \in Requests, Commit(r)
  PROVE  /\ users' \in [Users -> {"absent", "enabled", "disabled"}]
         /\ \A u \in Users :
               \/ users'[u] = users[u]
                  /\ ~(tx[r].met /\ tx[r].load.op \in UserOps /\ tx[r].load.user = u)
               \/ /\ tx[r].met /\ tx[r].load.op \in UserOps /\ tx[r].load.user = u
                  /\ users'[u] = IF tx[r].load.op = "user.disabled" THEN "disabled" ELSE "enabled"
<1>1. PICK p : p = tx[r].load
  OBVIOUS
<1>2. users \in [Users -> {"absent", "enabled", "disabled"}]
  BY DEF TypeOK
<1>3. CASE ~tx[r].met \/ p.op \notin UserOps
  <2>1. users' = users
    BY <1>1, <1>3, CommitFacts, ApplyRows
  <2> QED
    BY <1>1, <1>2, <1>3, <2>1
<1>4. CASE tx[r].met /\ p.op \in UserOps
  <2>1. p.user \in Users
    BY <1>1, <1>4, CommitFacts DEF Formed
  <2>2. users' = [users EXCEPT ![p.user] = IF p.op = "user.disabled" THEN "disabled" ELSE "enabled"]
    BY <1>1, <1>4, CommitFacts, ApplyRows DEF UserOps
  <2> QED
    BY <1>1, <1>2, <1>4, <2>1, <2>2
<1> QED
  BY <1>3, <1>4, CommitFacts

-----------------------------------------------------------------------------
(* Types, forms and locks.                                                  *)

LEMMA NextForm ==
  ASSUME TypeOK, FormInv, BudgetInv, [Next]_vars
  PROVE  FormInv' /\ tx' \in [Requests -> Tx]
<1> USE DEF rows
<1>0. tx \in [Requests -> Tx]
  BY DEF TypeOK
<1>1. ASSUME NEW r \in Requests, NEW u \in Users, Begin(r, u) PROVE FormInv' /\ tx' \in [Requests -> Tx]
  BY <1>1, BeginTx DEF FormInv, Others
<1>2. ASSUME NEW r \in Requests, Execute(r) PROVE FormInv' /\ tx' \in [Requests -> Tx]
  <2>1. PICK p, t : p = tx[r].load /\ t = tx'[r].load
    OBVIOUS
  <2>2. Formed(p) /\ p \in Payload
    BY <2>1 DEF FormInv, Formed
  <2>3. /\ Others(r) /\ tx' \in [Requests -> Tx] /\ tx'[r].pc = "executed"
        /\ p.op = "case.created" => tx'[r].met /\ t = [p EXCEPT !.case = nextCase] /\ nextCase \in Cases
        /\ p.op # "case.created" => t = p
    BY <1>2, <2>1, ExecuteTx
  <2>4. Formed(t) /\ t.op = p.op /\ (t.op = "case.created" => tx'[r].met /\ t.case \in Cases)
    BY <2>2, <2>3 DEF Formed, Payload, CaseOps, UserOps
  <2>5. \A q \in Requests \ {r} : tx'[q] = tx[q]
    BY <2>3 DEF Others
  <2> QED
    BY <2>1, <2>3, <2>4, <2>5 DEF FormInv
<1>3. ASSUME NEW r \in Requests, RecordAudit(r) PROVE FormInv' /\ tx' \in [Requests -> Tx]
  <2>1. nextAudit \in 0 .. MaxAudit
    BY <1>3, NextBudget
  <2> QED
    BY <1>3, <2>1, RecordTx DEF FormInv, Others
<1>4. ASSUME NEW r \in Requests, Commit(r) \/ Rollback(r) PROVE FormInv' /\ tx' \in [Requests -> Tx]
  <2>1. tx' = [tx EXCEPT ![r] = Idle]
    BY <1>4 DEF Commit, Rollback
  <2> QED
    BY <2>1, EndTx DEF FormInv, Others
<1>5. CASE UNCHANGED tx
  BY <1>0, <1>5 DEF FormInv
<1>6. ASSUME NEW u \in Users, Login(u) \/ Token(u) PROVE UNCHANGED tx
  BY <1>6 DEF Login, Token
<1>7. CASE Tick \/ UNCHANGED vars
  BY <1>5, <1>7 DEF Tick, vars
<1> QED
  BY <1>1, <1>2, <1>3, <1>4, <1>5, <1>6, <1>7 DEF Next, Transact

LEMMA NextLock ==
  ASSUME TypeOK, FormInv, BudgetInv, LockInv, [Next]_vars
  PROVE  LockInv'
<1> USE DEF rows
<1>1. ASSUME NEW r \in Requests, Others(r), ~Effective(r)' PROVE LockInv'
  BY <1>1 DEF LockInv, Effective, Others
<1>2. ASSUME NEW r \in Requests, NEW u \in Users, Begin(r, u) PROVE LockInv'
  BY <1>1, <1>2, BeginTx DEF Effective
<1>3. ASSUME NEW r \in Requests, Execute(r) PROVE LockInv'
  <2>1. PICK p, t : p = tx[r].load /\ t = tx'[r].load
    OBVIOUS
  <2>2. /\ \A q \in Requests \ {r} : tx'[q] = tx[q]
        /\ tx'[r].pc = "executed"
        /\ p.op = "case.created" => t.op = p.op
        /\ p.op # "case.created" => t = p /\ tx'[r].met = Meets(p)
    <3>1. /\ Others(r) /\ tx'[r].pc = "executed"
          /\ p.op = "case.created" => t = [p EXCEPT !.case = nextCase]
          /\ p.op # "case.created" => t = p /\ tx'[r].met = Meets(p)
      BY <1>3, <2>1, ExecuteTx
    <3>2. p \in Payload
      BY <2>1 DEF FormInv, Formed
    <3> QED
      BY <3>1, <3>2 DEF Others, Payload
  <2>3. Meets(p) => Free(p)
    BY <1>3, <2>1 DEF Execute
  <2>4. p.op = "case.created" => Row(t) = <<"new">>
    BY <2>2, Rows
  <2>5. \A q \in Requests \ {r} : Effective(q)' => Effective(q)
    BY <2>2 DEF Effective
  <2>6. ASSUME NEW q \in Requests \ {r}, Effective(q)', Effective(r)',
               Row(t) # <<"new">> \/ Row(tx'[q].load) # <<"new">>
        PROVE  Row(t) # Row(tx'[q].load)
    <3>1. CASE p.op = "case.created"
      BY <2>4, <2>6, <3>1
    <3>2. CASE p.op # "case.created"
      <4>1. t = p /\ Meets(p) /\ tx'[q] = tx[q]
        BY <2>1, <2>2, <2>6, <3>2 DEF Effective
      <4>2. tx[q].pc \in {"executed", "audited"} /\ tx[q].met
        BY <2>5, <2>6 DEF Effective
      <4>3. Row(p) # <<"new">> => Row(tx[q].load) # Row(p)
        BY <2>3, <4>1, <4>2 DEF Free
      <4> QED
        BY <2>6, <4>1, <4>3
    <3> QED
      BY <3>1, <3>2
  <2>7. ASSUME NEW x \in Requests, NEW q \in Requests, x # q, Effective(x)', Effective(q)',
               Row(tx'[x].load) # <<"new">>
        PROVE  Row(tx'[x].load) # Row(tx'[q].load)
    <3>1. CASE x # r /\ q # r
      BY <2>2, <2>5, <2>7, <3>1 DEF LockInv
    <3>2. CASE x = r
      BY <2>1, <2>6, <2>7, <3>2
    <3>3. CASE q = r
      BY <2>1, <2>6, <2>7, <3>3
    <3> QED
      BY <3>1, <3>2, <3>3
  <2> QED
    BY <2>7 DEF LockInv
<1>4. ASSUME NEW r \in Requests, RecordAudit(r) PROVE LockInv'
  <2>1. nextAudit \in 0 .. MaxAudit
    BY <1>4, NextBudget
  <2>2. /\ Others(r) /\ tx[r].pc = "executed" /\ tx'[r].pc = "audited"
        /\ tx'[r].load = tx[r].load /\ tx'[r].met = tx[r].met
    BY <1>4, <2>1, RecordTx
  <2> QED
    BY <2>2 DEF LockInv, Effective, Others
<1>5. ASSUME NEW r \in Requests, Commit(r) \/ Rollback(r) PROVE LockInv'
  <2>1. tx' = [tx EXCEPT ![r] = Idle]
    BY <1>5 DEF Commit, Rollback
  <2> QED
    BY <1>1, <2>1, EndTx DEF Effective
<1>6. CASE UNCHANGED tx
  BY <1>6 DEF LockInv, Effective
<1>7. ASSUME NEW u \in Users, Login(u) \/ Token(u) PROVE UNCHANGED tx
  BY <1>7 DEF Login, Token
<1>8. CASE Tick \/ UNCHANGED vars
  BY <1>6, <1>8 DEF Tick, vars
<1> QED
  BY <1>2, <1>3, <1>4, <1>5, <1>6, <1>7, <1>8 DEF Next, Transact

\* Steps of transactions that leave the rows alone.
LEMMA QuietCase ==
  ASSUME CaseInv, UNCHANGED <<users, cases, links, nextCase>>,
         \A q \in Requests : Effective(q)' => Effective(q) /\ tx'[q].load = tx[q].load
  PROVE  CaseInv'
<1>1. \A c : Exists(c)' <=> Exists(c)
  BY DEF Exists
<1>2. ASSUME NEW q \in Requests, Effective(q)'
      PROVE  Holds(tx[q].load)'
  <2>1. Effective(q) /\ tx'[q].load = tx[q].load
    BY <1>2
  <2>2. Holds(tx[q].load)
    BY <2>1 DEF CaseInv
  <2> QED
    BY <1>1, <2>1, <2>2 DEF Holds, Exists
<1>3. \A l \in links' : Exists(l[1])'
  BY <1>1 DEF CaseInv
<1> QED
  BY <1>1, <1>2, <1>3 DEF CaseInv

LEMMA ExecuteCase ==
  ASSUME TypeOK, FormInv, CaseInv, NEW r \in Requests, Execute(r)
  PROVE  CaseInv'
<1> USE DEF rows
<1>1. PICK p, t : p = tx[r].load /\ t = tx'[r].load
  OBVIOUS
<1>2. /\ Others(r)
      /\ p.op = "case.created" =>
            t = [p EXCEPT !.case = nextCase] /\ nextCase \in Cases /\ nextCase' = nextCase + 1
      /\ p.op # "case.created" => t = p /\ tx'[r].met = Meets(p) /\ nextCase' = nextCase
  BY <1>1, ExecuteTx
<1>3. p \in Payload /\ Formed(p) /\ nextCase \in Nat
  BY <1>1, Consts DEF FormInv, Formed, TypeOK
<1>4. UNCHANGED <<users, cases, links>> /\ ~Refused(p)
  BY <1>1 DEF Execute
<1>5. \A q \in Requests \ {r} : tx'[q] = tx[q] /\ (Effective(q)' => Effective(q))
  BY <1>2 DEF Others, Effective
<1>6. \A c : Exists(c)' <=> Exists(c)
  BY <1>4 DEF Exists
<1>7. \A c \in Cases : c \in Nat
  BY Consts DEF Cases
<1>8. nextCase <= nextCase' /\ nextCase' \in Nat
  BY <1>2, <1>3
<1>9. /\ t.op = p.op /\ t.user = p.user
      /\ p.op = "case.created" => t.case = nextCase
      /\ p.op # "case.created" => t = p
  BY <1>2, <1>3 DEF Payload
<1>10. Effective(r)' =>
          /\ t.op \in CaseOps \ {"case.created"} => Exists(t.case)
          /\ t.op = "case.created" => ~Exists(t.case) /\ t.case < nextCase'
          /\ t.op = "user.created" => users[t.user] = "absent"
          /\ t.op = "user.disabled" => users[t.user] # "absent"
  <2>1. CASE p.op = "case.created"
    <3>1. ~Exists(nextCase)
      BY <1>2, <1>3, <2>1 DEF CaseInv
    <3> QED
      BY <1>2, <1>3, <1>9, <2>1, <3>1
  <2>2. CASE p.op # "case.created"
    <3>1. Effective(r)' => Meets(p)
      BY <1>2, <2>2 DEF Effective
    <3>2. p.op = "case.alert_unlinked" /\ Meets(p) => Exists(p.case)
      BY DEF Meets, CaseInv
    <3> QED
      BY <1>4, <1>9, <2>2, <3>1, <3>2 DEF Meets, Refused, CaseOps
  <2> QED
    BY <2>1, <2>2
<1>11. ASSUME NEW q \in Requests, Effective(q)'
       PROVE  Holds(tx[q].load)'
  <2>1. PICK y : y = tx'[q].load
    OBVIOUS
  <2>2. /\ y.op \in CaseOps \ {"case.created"} => Exists(y.case)
        /\ y.op = "case.created" => ~Exists(y.case) /\ y.case < nextCase'
        /\ y.op = "user.created" => users[y.user] = "absent"
        /\ y.op = "user.disabled" => users[y.user] # "absent"
    <3>1. CASE q = r
      BY <1>1, <1>10, <1>11, <2>1, <3>1
    <3>2. CASE q # r
      <4>1. Effective(q) /\ y = tx[q].load
        BY <1>5, <1>11, <2>1, <3>2
      <4>2. y.op = "case.created" => y.case \in Nat
        BY <1>7, <4>1 DEF FormInv, Effective
      <4>3. Holds(y)
        BY <4>1 DEF CaseInv
      <4> QED
        BY <1>3, <1>8, <4>2, <4>3 DEF Holds
    <3> QED
      BY <3>1, <3>2
  <2> QED
    BY <1>4, <2>1, <2>2 DEF Holds, Exists
<1>12. \A x, q \in Requests :
          /\ x # q /\ Effective(x)' /\ Effective(q)'
          /\ tx'[x].load.op = "case.created" /\ tx'[q].load.op = "case.created"
          => tx'[x].load.case # tx'[q].load.case
  <2>1. \A q \in Requests \ {r} : Effective(q)' /\ tx'[q].load.op = "case.created" =>
            tx'[q].load.case \in Nat /\ tx'[q].load.case < nextCase
    BY <1>5, <1>7 DEF CaseInv, Holds, FormInv, Effective
  <2>2. Effective(r)' /\ tx'[r].load.op = "case.created" => tx'[r].load.case = nextCase
    BY <1>1, <1>9
  <2>3. \A x, q \in Requests \ {r} :
          /\ x # q /\ Effective(x)' /\ Effective(q)'
          /\ tx'[x].load.op = "case.created" /\ tx'[q].load.op = "case.created"
          => tx'[x].load.case # tx'[q].load.case
    BY <1>5 DEF CaseInv
  <2> QED
    BY <1>3, <2>1, <2>2, <2>3
<1>13. \A c \in Cases : Exists(c)' => c < nextCase'
  BY <1>3, <1>6, <1>7, <1>8 DEF CaseInv
<1>14. \A l \in links' : Exists(l[1])'
  BY <1>4, <1>6 DEF CaseInv
<1> QED
  BY <1>11, <1>12, <1>13, <1>14 DEF CaseInv

\* A transaction that has changed a row keeps what it found while another one commits.
LEMMA CommitCase ==
  ASSUME TypeOK, FormInv, LockInv, CaseInv, NEW r \in Requests, Commit(r)
  PROVE  CaseInv'
<1>1. PICK p : p = tx[r].load
  OBVIOUS
<1>2. /\ tx' = [tx EXCEPT ![r] = Idle] /\ nextCase' = nextCase
      /\ tx[r].met => Effective(r) /\ Apply(p)
      /\ ~tx[r].met => UNCHANGED <<users, cases, links>>
      /\ p.op \in CaseOps /\ tx[r].met => p.case \in Cases
      /\ tx[r].met /\ p.op \in CaseOps \ {"case.created"} => Exists(p.case)
  BY <1>1, CommitFacts
<1>3. \A c : Exists(c)' <=> Exists(c) \/ (tx[r].met /\ p.op = "case.created" /\ c = p.case)
  BY <1>1, CommitExists
<1>4. /\ \A q \in Requests \ {r} : tx'[q] = tx[q]
      /\ \A q \in Requests : Effective(q)' => q # r /\ Effective(q)
  <2>1. Others(r) /\ tx'[r].pc = "idle"
    BY <1>2, EndTx
  <2> QED
    BY <2>1 DEF Others, Effective
<1>5. ASSUME NEW q \in Requests, Effective(q)'
      PROVE  Holds(tx[q].load)'
  <2>0. PICK y : y = tx'[q].load
    OBVIOUS
  <2>1. q # r /\ Effective(q) /\ y = tx[q].load
    BY <1>4, <1>5, <2>0
  <2>2. /\ y.op \in CaseOps \ {"case.created"} => Exists(y.case)
        /\ y.op = "case.created" => ~Exists(y.case) /\ y.case < nextCase
        /\ y.op = "user.created" => users[y.user] = "absent"
        /\ y.op = "user.disabled" => users[y.user] # "absent"
    BY <2>1 DEF CaseInv, Holds
  <2>3. y.op = "case.created" /\ tx[r].met /\ p.op = "case.created" => y.case # p.case
    BY <1>1, <1>2, <2>1 DEF CaseInv
  <2>4. y.op \in UserOps => y.user \in Users
    BY <2>1 DEF FormInv, Formed
  <2>5. y.op = "user.created" => users'[y.user] = "absent"
    <3> SUFFICES ASSUME y.op = "user.created" PROVE users'[y.user] = "absent"
      OBVIOUS
    <3>1. CASE tx[r].met /\ p.op \in UserOps /\ p.user = y.user
      <4>1. Row(p) = Row(y) /\ Row(p) # <<"new">>
        BY <3>1, Rows DEF UserOps
      <4> QED
        BY <1>1, <1>2, <2>1, <3>1, <4>1 DEF LockInv
    <3>2. CASE ~(tx[r].met /\ p.op \in UserOps /\ p.user = y.user)
      BY <1>1, <2>2, <2>4, <3>2, CommitUsers DEF UserOps
    <3> QED
      BY <3>1, <3>2
  <2>6. y.op = "user.disabled" => users'[y.user] # "absent"
    BY <2>2, <2>4, CommitUsers DEF UserOps
  <2>7. y.op \in CaseOps \ {"case.created"} => Exists(y.case)'
    BY <1>3, <2>2
  <2>8. y.op = "case.created" => ~Exists(y.case)'
    BY <1>3, <2>2, <2>3
  <2> QED
    BY <1>2, <2>0, <2>2, <2>5, <2>6, <2>7, <2>8 DEF Holds, Exists
<1>6. \A x, q \in Requests :
          /\ x # q /\ Effective(x)' /\ Effective(q)'
          /\ tx'[x].load.op = "case.created" /\ tx'[q].load.op = "case.created"
          => tx'[x].load.case # tx'[q].load.case
  BY <1>4 DEF CaseInv
<1>7. \A c \in Cases : Exists(c)' => c < nextCase'
  <2>1. tx[r].met /\ p.op = "case.created" => p.case < nextCase
    BY <1>1, <1>2 DEF CaseInv, Holds
  <2> QED
    BY <1>2, <1>3, <2>1 DEF CaseInv
<1>8. \A l \in links' : Exists(l[1])'
  <2>1. \A l \in links' : l \in links \/ (tx[r].met /\ p.op \in LinkOps /\ l = <<p.case, p.alert>>)
    <3>1. CASE ~tx[r].met
      BY <1>2, <3>1
    <3>2. CASE tx[r].met
      <4>1. p.op \notin LinkOps => links' = links
        BY <1>2, <3>2, ApplyRows
      <4>2. p.op = "case.alert_unlinked" => links' = links \ {<<p.case, p.alert>>}
        BY <1>2, <3>2, ApplyRows
      <4>3. p.op \in {"case.created", "case.alert_linked"} =>
                links' = links \/ links' = links \cup {<<p.case, p.alert>>}
        BY <1>2, <3>2, ApplyRows
      <4> QED
        BY <3>2, <4>1, <4>2, <4>3 DEF LinkOps
    <3> QED
      BY <1>1, <3>1, <3>2, CommitFacts
  <2>2. tx[r].met /\ p.op \in LinkOps => Exists(p.case)'
    BY <1>2, <1>3 DEF LinkOps, CaseOps
  <2>3. \A l \in links : Exists(l[1])'
    BY <1>3 DEF CaseInv
  <2> QED
    BY <2>1, <2>2, <2>3
<1> QED
  BY <1>5, <1>6, <1>7, <1>8 DEF CaseInv

LEMMA NextCaseInv ==
  ASSUME TypeOK, FormInv, BudgetInv, LockInv, CaseInv, [Next]_vars
  PROVE  CaseInv'
<1> USE DEF rows
<1>1. ASSUME NEW r \in Requests, NEW u \in Users, Begin(r, u) PROVE CaseInv'
  <2>1. UNCHANGED <<users, cases, links, nextCase>>
    BY <1>1 DEF Begin
  <2>2. Others(r) /\ tx'[r].pc = "begun"
    BY <1>1, BeginTx
  <2>3. \A q \in Requests : Effective(q)' => Effective(q) /\ tx'[q].load = tx[q].load
    BY <2>2 DEF Effective, Others
  <2> QED
    BY <2>1, <2>3, QuietCase
<1>2. ASSUME NEW r \in Requests, RecordAudit(r) PROVE CaseInv'
  <2>1. UNCHANGED <<users, cases, links, nextCase>>
    BY <1>2 DEF RecordAudit
  <2>2. nextAudit \in 0 .. MaxAudit
    BY <1>2, NextBudget
  <2>3. /\ Others(r) /\ tx[r].pc = "executed"
        /\ tx'[r].load = tx[r].load /\ tx'[r].met = tx[r].met
    BY <1>2, <2>2, RecordTx
  <2>4. \A q \in Requests : Effective(q)' => Effective(q) /\ tx'[q].load = tx[q].load
    BY <2>3 DEF Effective, Others
  <2> QED
    BY <2>1, <2>4, QuietCase
<1>3. ASSUME NEW r \in Requests, Rollback(r) PROVE CaseInv'
  <2>1. UNCHANGED <<users, cases, links, nextCase>> /\ tx' = [tx EXCEPT ![r] = Idle]
    BY <1>3 DEF Rollback
  <2>2. Others(r) /\ tx'[r].pc = "idle"
    BY <2>1, EndTx
  <2>3. \A q \in Requests : Effective(q)' => Effective(q) /\ tx'[q].load = tx[q].load
    BY <2>2 DEF Effective, Others
  <2> QED
    BY <2>1, <2>3, QuietCase
<1>4. CASE UNCHANGED <<users, cases, links, nextCase, tx>>
  BY <1>4, QuietCase DEF Effective
<1>5. ASSUME NEW u \in Users, Login(u) \/ Token(u) PROVE CaseInv'
  BY <1>4, <1>5 DEF Login, Token
<1>6. CASE Tick \/ UNCHANGED vars
  BY <1>4, <1>6 DEF Tick, vars
<1> QED
  BY <1>1, <1>2, <1>3, <1>5, <1>6, ExecuteCase, CommitCase DEF Next, Transact

LEMMA NextId ==
  ASSUME TypeOK, FormInv, BudgetInv, IdInv, CaseInv, [Next]_vars
  PROVE  IdInv'
<1> USE DEF rows
<1>1. nextAudit \in Nat
  BY Consts DEF TypeOK
<1>2. ASSUME UNCHANGED <<audit, nextAudit>>,
             \A q \in Requests : tx'[q].pc = "audited" => tx'[q] = tx[q]
      PROVE  IdInv'
  BY <1>2 DEF IdInv
<1>3. ASSUME NEW r \in Requests, NEW u \in Users, Begin(r, u) PROVE IdInv'
  <2>1. UNCHANGED <<audit, nextAudit>>
    BY <1>3 DEF Begin
  <2> QED
    BY <1>2, <1>3, <2>1, BeginTx DEF Others
<1>4. ASSUME NEW r \in Requests, Execute(r) PROVE IdInv'
  <2>1. UNCHANGED <<audit, nextAudit>>
    BY <1>4 DEF Execute
  <2>2. Others(r) /\ tx'[r].pc = "executed"
    BY <1>4, ExecuteTx
  <2> QED
    BY <1>2, <2>1, <2>2 DEF Others
<1>5. ASSUME NEW r \in Requests, RecordAudit(r) PROVE IdInv'
  <2>1. nextAudit \in 1 .. MaxAudit
    BY <1>5, NextBudget
  <2>2. Others(r) /\ tx'[r].pc = "audited" /\ tx'[r].id = nextAudit
    BY <1>5, <2>1, RecordTx, Consts
  <2>3. audit' = audit /\ nextAudit' = nextAudit + 1
    BY <1>5 DEF RecordAudit
  <2>4. \A x \in audit : x.id \in Nat
    BY Consts DEF TypeOK, Record
  <2> QED
    BY <1>1, <2>1, <2>2, <2>3, <2>4 DEF IdInv, Others
<1>6. ASSUME NEW r \in Requests, Commit(r) PROVE IdInv'
  <2>1. PICK x : x = [id |-> tx[r].id, load |-> tx[r].load, met |-> tx[r].met]
    OBVIOUS
  <2>2. audit' = audit \cup {x} /\ x.id = tx[r].id /\ nextAudit' = nextAudit /\ tx[r].pc = "audited"
    BY <1>6, <2>1 DEF Commit
  <2>3. Others(r) /\ tx'[r].pc = "idle"
    BY <1>6, EndTx DEF Commit
  <2> QED
    BY <1>1, <2>2, <2>3 DEF IdInv, Others
<1>7. ASSUME NEW r \in Requests, Rollback(r) PROVE IdInv'
  <2>1. UNCHANGED <<audit, nextAudit>>
    BY <1>7 DEF Rollback
  <2>2. Others(r) /\ tx'[r].pc = "idle"
    BY <1>7, EndTx DEF Rollback
  <2> QED
    BY <1>2, <2>1, <2>2 DEF Others
<1>8. CASE UNCHANGED <<audit, nextAudit, tx>>
  BY <1>2, <1>8
<1>9. ASSUME NEW u \in Users, Login(u) \/ Token(u) PROVE IdInv'
  BY <1>8, <1>9 DEF Login, Token
<1>10. CASE Tick \/ UNCHANGED vars
  BY <1>8, <1>10 DEF Tick, vars
<1> QED
  BY <1>3, <1>4, <1>5, <1>6, <1>7, <1>9, <1>10 DEF Next, Transact

LEMMA NextType ==
  ASSUME Inv1, [Next]_vars
  PROVE  TypeOK'
<1> USE DEF rows
<1>1. TypeOK /\ FormInv /\ BudgetInv /\ LockInv /\ IdInv /\ CaseInv
  BY DEF Inv1
<1>2. tx' \in [Requests -> Tx] /\ nextAudit' \in 1 .. MaxAudit + 1
  BY <1>1, NextForm, NextBudget
<1>3. ASSUME NEW r \in Requests, NEW u \in Users, Begin(r, u) PROVE TypeOK'
  BY <1>1, <1>2, <1>3 DEF Begin, TypeOK
<1>4. ASSUME NEW r \in Requests, Execute(r) PROVE TypeOK'
  <2>1. nextCase' \in 1 .. MaxCases + 1
    <3>1. nextCase' = nextCase \/ (nextCase \in Cases /\ nextCase' = nextCase + 1)
      BY <1>1, <1>4, ExecuteTx
    <3> QED
      BY <1>1, <3>1, Consts DEF TypeOK, Cases
  <2>2. UNCHANGED <<users, cases, links, notes, audit, disabled, overlap, clock, login, token, faults>>
    BY <1>4 DEF Execute
  <2> QED
    BY <1>1, <1>2, <2>1, <2>2 DEF TypeOK
<1>5. ASSUME NEW r \in Requests, RecordAudit(r) PROVE TypeOK'
  BY <1>1, <1>2, <1>5 DEF RecordAudit, TypeOK
<1>6. ASSUME NEW r \in Requests, Commit(r) PROVE TypeOK'
  <2>1. PICK p : p = tx[r].load
    OBVIOUS
  <2>2. /\ tx[r] \in Tx /\ p \in Payload /\ Formed(p) /\ tx[r].met \in BOOLEAN
        /\ tx[r].met => Apply(p)
        /\ ~tx[r].met => UNCHANGED <<users, cases, links, notes, disabled, overlap>>
        /\ UNCHANGED <<clock, login, token, nextCase, faults>>
        /\ tx[r].met /\ p.op \in CaseOps => p.case \in Cases
    BY <1>1, <1>6, <2>1, CommitFacts
  <2>3. cases' \in [Cases -> [status : Statuses, assigned : Assignees \cup {NoUser}] \cup {NoCase}]
        /\ users' \in [Users -> {"absent", "enabled", "disabled"}]
    BY <1>1, <1>6, CommitExists, CommitUsers
  <2>4. links' \subseteq Cases \X Alerts
    <3>1. CASE ~tx[r].met \/ p.op \notin LinkOps
      <4>1. links' = links
        BY <2>2, <3>1, ApplyRows
      <4> QED
        BY <1>1, <4>1 DEF TypeOK
    <3>2. CASE tx[r].met /\ p.op \in LinkOps
      <4>1. p.case \in Cases /\ p.alert \in Alerts \cup {NoAlert}
        BY <2>2, <3>2 DEF LinkOps, CaseOps, Payload
      <4>2. \/ links' = links \/ links' = links \ {<<p.case, p.alert>>}
            \/ links' = links \cup {<<p.case, p.alert>>} /\ p.alert \in Alerts
        BY <2>2, <3>2, <4>1, ApplyRows DEF LinkOps, Formed
      <4> QED
        BY <1>1, <4>1, <4>2 DEF TypeOK
    <3> QED
      BY <2>2, <3>1, <3>2
  <2>5. notes' \in [Cases -> Nat]
    <3>1. CASE tx[r].met /\ p.op = "case.note_added"
      <4>1. notes' = [notes EXCEPT ![p.case] = notes[p.case] + 1] /\ p.case \in Cases
        BY <2>2, <3>1, ApplyRows DEF CaseOps
      <4>2. notes \in [Cases -> Nat]
        BY <1>1 DEF TypeOK
      <4> QED
        BY <4>1, <4>2
    <3>2. CASE ~(tx[r].met /\ p.op = "case.note_added")
      BY <1>1, <2>2, <3>2, ApplyRows DEF TypeOK
    <3> QED
      BY <3>1, <3>2
  <2>6. disabled' \in [Users -> {Never} \cup Times] /\ overlap' \subseteq Users
    <3>1. CASE tx[r].met /\ p.op = "user.disabled" /\ disabled[p.user] = Never
      <4>1. p.user \in Users
        BY <2>2, <3>1 DEF Formed, UserOps
      <4>2. /\ disabled' = [disabled EXCEPT ![p.user] = clock]
            /\ overlap' = IF p.user \in login THEN overlap \cup {p.user} ELSE overlap
        BY <2>2, <3>1, ApplyRows
      <4> QED
        BY <1>1, <4>1, <4>2 DEF TypeOK
    <3>2. CASE ~(tx[r].met /\ p.op = "user.disabled" /\ disabled[p.user] = Never)
      <4>1. UNCHANGED <<disabled, overlap>>
        BY <2>2, <3>2, ApplyRows
      <4> QED
        BY <1>1, <4>1 DEF TypeOK
    <3> QED
      BY <3>1, <3>2
  <2>7. audit' \subseteq Record
    <3>1. tx[r].id \in 1 .. MaxAudit
      BY <1>1, <1>2, <1>6, <2>2, CommitFacts, Consts DEF IdInv, TypeOK
    <3> QED
      BY <1>1, <1>6, <2>1, <2>2, <3>1 DEF Commit, TypeOK, Record
  <2> QED
    BY <1>1, <1>2, <2>2, <2>3, <2>4, <2>5, <2>6, <2>7 DEF TypeOK
<1>7. ASSUME NEW r \in Requests, Rollback(r) PROVE TypeOK'
  <2>1. faults' \in 0 .. MaxFaults
    BY <1>1, <1>7, Consts DEF Rollback, TypeOK
  <2>2. UNCHANGED <<users, cases, links, notes, audit, disabled, overlap, clock, login, token,
                    nextCase, nextAudit>>
    BY <1>7 DEF Rollback
  <2> QED
    BY <1>1, <1>2, <2>1, <2>2 DEF TypeOK
<1>8. ASSUME NEW u \in Users, Login(u) \/ Token(u) PROVE TypeOK'
  <2>1. clock + TokenTTL \in Nat
    BY <1>1, Consts DEF TypeOK, Times
  <2> QED
    BY <1>1, <1>8, <2>1 DEF Login, Token, TypeOK
<1>9. CASE Tick
  <2>1. clock' \in Times
    BY <1>1, <1>9, Consts DEF Tick, TypeOK, Times
  <2> QED
    BY <1>1, <1>9, <2>1 DEF Tick, TypeOK
<1>10. CASE UNCHANGED vars
  BY <1>1, <1>10 DEF vars, TypeOK
<1> QED
  BY <1>3, <1>4, <1>5, <1>6, <1>7, <1>8, <1>9, <1>10 DEF Next, Transact

-----------------------------------------------------------------------------
(* Tokens of disabled users.                                                *)

DisabledInv ==
    /\ \A u \in Users : disabled[u] # Never <=> users[u] = "disabled"
    /\ \A u \in Users : token[u] <= clock + TokenTTL
    /\ \A u \in Users \ overlap : users[u] = "disabled" =>
          u \notin login /\ token[u] <= disabled[u] + TokenTTL
    /\ \A u \in Users, r \in Requests : tx[r].actor = u => tx[r].at < token[u]

LEMMA NextDisabled ==
  ASSUME Inv1, DisabledInv, [Next]_vars
  PROVE  DisabledInv'
<1> USE DEF rows
<1>1. TypeOK /\ FormInv /\ BudgetInv /\ LockInv /\ IdInv /\ CaseInv
  BY DEF Inv1
<1>2. /\ clock \in Nat /\ TokenTTL \in Nat /\ tx \in [Requests -> Tx]
      /\ \A u \in Users : token[u] \in Int /\ disabled[u] \in Int
      /\ \A r \in Requests : tx[r].at \in Nat
      /\ Never \notin Times /\ clock \in Times
  BY <1>1, Consts DEF TypeOK, Times, Never, Tx
<1>3. ASSUME UNCHANGED <<users, login, token, disabled, overlap, clock>>,
             \A u \in Users, r \in Requests : tx'[r].actor = u =>
                (tx[r].actor = u /\ tx'[r].at = tx[r].at) \/ tx'[r].at < token[u]
      PROVE  DisabledInv'
  BY <1>3 DEF DisabledInv
<1>4. ASSUME NEW r \in Requests, NEW u \in Users, Begin(r, u) PROVE DisabledInv'
  <2>1. UNCHANGED <<users, login, token, disabled, overlap, clock>> /\ clock < token[u]
    BY <1>4 DEF Begin
  <2>2. Others(r) /\ tx'[r].actor = u /\ tx'[r].at = clock
    BY <1>1, <1>4, BeginTx
  <2> QED
    BY <1>3, <2>1, <2>2 DEF Others
<1>5. ASSUME NEW r \in Requests, Execute(r) \/ RecordAudit(r) PROVE DisabledInv'
  <2>1. UNCHANGED <<users, login, token, disabled, overlap, clock>>
    BY <1>5 DEF Execute, RecordAudit
  <2>2. Others(r) /\ tx'[r].actor = tx[r].actor /\ tx'[r].at = tx[r].at
    <3>1. CASE Execute(r)
      BY <1>1, <3>1, ExecuteTx
    <3>2. CASE RecordAudit(r)
      <4>1. nextAudit \in 0 .. MaxAudit
        BY <1>1, <3>2, NextBudget
      <4> QED
        BY <1>1, <3>2, <4>1, RecordTx
    <3> QED
      BY <1>5, <3>1, <3>2
  <2> QED
    BY <1>3, <2>1, <2>2 DEF Others
<1>6. ASSUME NEW r \in Requests, tx' = [tx EXCEPT ![r] = Idle]
      PROVE  \A u \in Users, q \in Requests : tx'[q].actor = u =>
                tx[q].actor = u /\ tx'[q].at = tx[q].at
  <2>1. Others(r) /\ tx'[r].actor = NoUser
    BY <1>1, <1>6, EndTx
  <2> QED
    BY <2>1, Consts DEF Others
<1>7. ASSUME NEW r \in Requests, Rollback(r) PROVE DisabledInv'
  <2>1. UNCHANGED <<users, login, token, disabled, overlap, clock>> /\ tx' = [tx EXCEPT ![r] = Idle]
    BY <1>7 DEF Rollback
  <2> QED
    BY <1>3, <1>6, <2>1
<1>8. ASSUME NEW r \in Requests, Commit(r) PROVE DisabledInv'
  <2>1. PICK p : p = tx[r].load
    OBVIOUS
  <2>2. /\ tx' = [tx EXCEPT ![r] = Idle] /\ UNCHANGED <<clock, login, token>>
        /\ tx[r].met \in BOOLEAN /\ Formed(p)
        /\ tx[r].met => Effective(r) /\ Apply(p)
        /\ ~tx[r].met => UNCHANGED <<users, disabled, overlap>>
    BY <1>1, <1>8, <2>1, CommitFacts
  <2>3. \A u \in Users, q \in Requests : tx'[q].actor = u => tx'[q].at < token'[u]
    <3>1. \A u \in Users, q \in Requests : tx'[q].actor = u => tx[q].actor = u /\ tx'[q].at = tx[q].at
      BY <1>6, <2>2
    <3> QED
      BY <2>2, <3>1 DEF DisabledInv
  <2>4. \A u \in Users : token'[u] <= clock' + TokenTTL
    BY <2>2 DEF DisabledInv
  <2>5. CASE tx[r].met /\ p.op = "user.disabled" /\ disabled[p.user] = Never
    <3>1. p.user \in Users
      BY <2>2, <2>5 DEF Formed, UserOps
    <3>2. /\ disabled' = [disabled EXCEPT ![p.user] = clock]
          /\ overlap' = IF p.user \in login THEN overlap \cup {p.user} ELSE overlap
          /\ users' = [users EXCEPT ![p.user] = "disabled"]
      BY <2>2, <2>5, ApplyRows
    <3>3. /\ \A u \in Users \ {p.user} : disabled'[u] = disabled[u] /\ users'[u] = users[u]
          /\ disabled'[p.user] = clock /\ users'[p.user] = "disabled"
          /\ overlap \subseteq overlap'
      BY <1>1, <3>1, <3>2 DEF TypeOK
    <3>4. \A u \in Users : disabled'[u] # Never <=> users'[u] = "disabled"
      BY <1>2, <3>3 DEF DisabledInv
    <3>5. \A u \in Users \ overlap' : users'[u] = "disabled" =>
              u \notin login' /\ token'[u] <= disabled'[u] + TokenTTL
      BY <2>2, <2>4, <3>2, <3>3 DEF DisabledInv
    <3> QED
      BY <2>3, <2>4, <3>4, <3>5 DEF DisabledInv
  <2>6. CASE ~(tx[r].met /\ p.op = "user.disabled" /\ disabled[p.user] = Never)
    <3>1. UNCHANGED <<disabled, overlap>>
      BY <2>2, <2>6, ApplyRows
    <3>2. \A u \in Users : users'[u] = "disabled" <=> users[u] = "disabled"
      <4> SUFFICES ASSUME NEW u \in Users PROVE users'[u] = "disabled" <=> users[u] = "disabled"
        OBVIOUS
      <4>1. CASE tx[r].met /\ p.op = "user.created" /\ p.user = u
        BY <1>1, <1>8, <2>1, <2>2, <4>1, CommitUsers DEF CaseInv, Holds, UserOps
      <4>2. CASE tx[r].met /\ p.op = "user.disabled" /\ p.user = u
        BY <1>1, <1>8, <2>1, <2>6, <4>2, CommitUsers DEF UserOps, DisabledInv
      <4>3. CASE ~(tx[r].met /\ p.op \in UserOps /\ p.user = u)
        BY <1>1, <1>8, <2>1, <4>3, CommitUsers
      <4> QED
        BY <4>1, <4>2, <4>3 DEF UserOps
    <3> QED
      BY <2>2, <2>3, <2>4, <3>1, <3>2 DEF DisabledInv
  <2> QED
    BY <2>5, <2>6
<1>9. ASSUME NEW u \in Users, Login(u) PROVE DisabledInv'
  <2>1. users[u] = "enabled" /\ login' = login \cup {u}
        /\ UNCHANGED <<users, token, tx, disabled, overlap, clock>>
    BY <1>9 DEF Login
  <2> QED
    BY <2>1 DEF DisabledInv
<1>10. ASSUME NEW u \in Users, Token(u) PROVE DisabledInv'
  <2>1. /\ u \in login /\ login' = login \ {u} /\ token' = [token EXCEPT ![u] = clock + TokenTTL]
        /\ UNCHANGED <<users, tx, disabled, overlap, clock>>
    BY <1>10 DEF Token
  <2>2. /\ \A w \in Users \ {u} : token'[w] = token[w]
        /\ token'[u] = clock + TokenTTL /\ token[u] <= clock + TokenTTL
    BY <1>1, <2>1 DEF TypeOK, DisabledInv
  <2>3. \A w \in Users, r \in Requests : tx'[r].actor = w => tx'[r].at < token'[w]
    BY <1>2, <2>1, <2>2 DEF DisabledInv
  <2> QED
    BY <1>2, <2>1, <2>2, <2>3 DEF DisabledInv
<1>11. CASE Tick
  <2>1. clock' = clock + 1 /\ UNCHANGED <<users, login, token, tx, disabled, overlap>>
    BY <1>11 DEF Tick
  <2> QED
    BY <1>2, <2>1 DEF DisabledInv
<1>12. CASE UNCHANGED vars
  BY <1>12 DEF vars, DisabledInv
<1> QED
  BY <1>4, <1>5, <1>7, <1>8, <1>9, <1>10, <1>11, <1>12 DEF Next, Transact

-----------------------------------------------------------------------------
(* The audit trail.                                                         *)

\* The records of one row, in the words of AuditReplays.
Created(c)       == {x \in Changes({"case.created"}) : x.load.case = c}
Updates(c)       == {x \in Changes({"case.updated"}) : x.load.case = c}
StatusUpdates(c) == {x \in Updates(c) : x.load.status # NoStatus}
Noted(c)         == {x \in Changes({"case.note_added"}) : x.load.case = c}
Linked(c, a)     == {x \in Changes(LinkOps) : x.load.case = c /\ x.load.alert = a}
Managed(u)       == {x \in Changes(UserOps) : x.load.user = u}

\* p and q change the same row, or a link that one of them created with its case.
SameRow(p, q) ==
    \/ p.op = "case.updated" /\ q.op = "case.updated" /\ p.case = q.case
    \/ p.op \in LinkOps /\ q.op \in LinkOps /\ p.case = q.case /\ p.alert = q.alert
    \/ p.op \in UserOps /\ q.op \in UserOps /\ p.user = q.user

\* A transaction draws its id after all those that changed its row before.
OrderInv ==
    \A x \in audit, r \in Requests :
        x.met /\ Effective(r) /\ tx[r].pc = "audited" /\ SameRow(x.load, tx[r].load) =>
            x.id < tx[r].id

\* There are records of a case from its creation on only.
TrailInv ==
    /\ IsFiniteSet(audit)
    /\ \A x \in audit : x.met /\ x.load.op \in CaseOps => Exists(x.load.case)
    /\ \A c \in Cases : ~Exists(c) => notes[c] = 0

\* The parts of AuditReplays.
CaseReplays(c) ==
    /\ Created(c) # {}
    /\ cases[c].status = IF StatusUpdates(c) = {} THEN "open" ELSE Last(StatusUpdates(c)).load.status
    /\ Updates(c) # {} => cases[c].assigned = Last(Updates(c)).load.assigned
    /\ notes[c] = Cardinality(Noted(c))
LinkReplays(c, a) ==
    <<c, a>> \in links <=> Linked(c, a) # {} /\ Last(Linked(c, a)).load.op # "case.alert_unlinked"
UserReplays(u) ==
    Managed(u) # {} => (users[u] = "disabled" <=> Last(Managed(u)).load.op = "user.disabled")

Replays ==
    /\ \A c \in Cases : Exists(c) => CaseReplays(c)
    /\ \A c \in Cases, a \in Alerts : LinkReplays(c, a)
    /\ \A u \in Users : UserReplays(u)

LEMMA ReplayParts == Replays <=> AuditReplays
<1>1. \A c : Created(c) # {} <=> \E x \in Changes({"case.created"}) : x.load.case = c
  BY DEF Created
<1> QED
  BY <1>1 DEF Replays, AuditReplays, CaseReplays, LinkReplays, UserReplays, Updates, StatusUpdates,
              Noted, Linked, Managed, LinkOps, UserOps

\* The record with the largest id is the last.
LEMMA LastNew ==
  ASSUME NEW S, NEW x, x.id \in Nat, \A y \in S : y.id \in Nat /\ y.id < x.id
  PROVE  Last(S \cup {x}) = x
<1>1. x \in S \cup {x} /\ \A y \in S \cup {x} : y.id <= x.id
  OBVIOUS
<1>2. \A z \in S \cup {x} : (\A y \in S \cup {x} : y.id <= z.id) => z = x
  OBVIOUS
<1> QED
  BY <1>1, <1>2 DEF Last

\* While a transaction waits to commit, no other one commits a change of the same row.
LEMMA NoConflict ==
  ASSUME Inv1, NEW r \in Requests, NEW q \in Requests, r # q, Effective(r), Effective(q),
         SameRow(tx[r].load, tx[q].load)
  PROVE  FALSE
<1>1. LockInv /\ CaseInv
  BY DEF Inv1
<1>2. PICK p, y : p = tx[r].load /\ y = tx[q].load
  OBVIOUS
<1>3. SameRow(p, y)
  BY <1>2
<1>4. CASE p.op = "case.updated"
  <2>1. Row(p) = Row(y) /\ Row(p) # <<"new">>
    BY <1>3, <1>4, Rows DEF SameRow, LinkOps, UserOps
  <2> QED
    BY <1>1, <1>2, <2>1 DEF LockInv
<1>5. CASE p.op \in UserOps
  <2>1. Row(p) = Row(y) /\ Row(p) # <<"new">>
    BY <1>3, <1>5, Rows DEF SameRow, LinkOps, UserOps
  <2> QED
    BY <1>1, <1>2, <2>1 DEF LockInv
<1>6. CASE p.op \in LinkOps
  <2>1. y.op \in LinkOps /\ p.case = y.case /\ p.alert = y.alert
    BY <1>3, <1>6 DEF SameRow, LinkOps, UserOps
  <2>2. CASE p.op = "case.created" \/ y.op = "case.created"
    <3>1. Holds(p) /\ Holds(y)
      BY <1>1, <1>2 DEF CaseInv
    <3>2. ~(p.op = "case.created" /\ y.op = "case.created")
      BY <1>1, <1>2, <2>1 DEF CaseInv
    <3> QED
      BY <1>6, <2>1, <2>2, <3>1, <3>2 DEF Holds, LinkOps, CaseOps
  <2>3. CASE p.op # "case.created" /\ y.op # "case.created"
    <3>1. Row(p) = Row(y) /\ Row(p) # <<"new">>
      BY <1>6, <2>1, <2>3, Rows DEF LinkOps
    <3> QED
      BY <1>1, <1>2, <3>1 DEF LockInv
  <2> QED
    BY <2>2, <2>3
<1> QED
  BY <1>3, <1>4, <1>5, <1>6 DEF SameRow

LEMMA NextOrder ==
  ASSUME Inv1, OrderInv, [Next]_vars
  PROVE  OrderInv'
<1> USE DEF rows
<1>1. TypeOK /\ FormInv /\ BudgetInv /\ LockInv /\ IdInv /\ CaseInv
  BY DEF Inv1
<1>2. ASSUME audit' = audit,
             \A q \in Requests : tx'[q].pc = "audited" => tx'[q] = tx[q]
      PROVE  OrderInv'
  BY <1>2 DEF OrderInv, Effective, SameRow
<1>3. ASSUME NEW r \in Requests, NEW u \in Users, Begin(r, u) PROVE OrderInv'
  <2>1. audit' = audit
    BY <1>3 DEF Begin
  <2> QED
    BY <1>1, <1>2, <1>3, <2>1, BeginTx DEF Others
<1>4. ASSUME NEW r \in Requests, Execute(r) PROVE OrderInv'
  <2>1. audit' = audit
    BY <1>4 DEF Execute
  <2>2. Others(r) /\ tx'[r].pc = "executed"
    BY <1>1, <1>4, ExecuteTx
  <2> QED
    BY <1>2, <2>1, <2>2 DEF Others
<1>5. ASSUME NEW r \in Requests, RecordAudit(r) PROVE OrderInv'
  <2>1. nextAudit \in 0 .. MaxAudit
    BY <1>1, <1>5, NextBudget
  <2>2. Others(r) /\ tx'[r].id = nextAudit
    BY <1>1, <1>5, <2>1, RecordTx
  <2>3. audit' = audit /\ \A x \in audit : x.id < nextAudit
    BY <1>1, <1>5 DEF RecordAudit, IdInv
  <2> QED
    BY <2>2, <2>3 DEF OrderInv, Others, Effective, SameRow
<1>6. ASSUME NEW r \in Requests, Commit(r) PROVE OrderInv'
  <2>1. PICK x : x = [id |-> tx[r].id, load |-> tx[r].load, met |-> tx[r].met]
    OBVIOUS
  <2>2. /\ audit' = audit \cup {x} /\ x.load = tx[r].load /\ x.met = tx[r].met
        /\ tx[r].pc = "audited"
    BY <1>6, <2>1 DEF Commit
  <2>3. Others(r) /\ tx'[r].pc = "idle"
    BY <1>1, <1>6, EndTx DEF Commit
  <2>4. ASSUME NEW q \in Requests, Effective(q)', tx'[q].pc = "audited", x.met
        PROVE  ~SameRow(x.load, tx'[q].load)
    <3>1. q # r /\ tx'[q] = tx[q] /\ Effective(q) /\ Effective(r)
      BY <2>2, <2>3, <2>4 DEF Others, Effective
    <3> QED
      BY <2>2, <3>1, NoConflict
  <2>5. ASSUME NEW z \in audit, NEW q \in Requests, z.met, Effective(q)', tx'[q].pc = "audited",
               SameRow(z.load, tx'[q].load)
        PROVE  z.id < tx'[q].id
    <3>1. q # r /\ tx'[q] = tx[q] /\ Effective(q)
      BY <2>3, <2>5 DEF Others, Effective
    <3> QED
      BY <2>5, <3>1 DEF OrderInv
  <2> QED
    BY <2>2, <2>4, <2>5 DEF OrderInv, SameRow
<1>7. ASSUME NEW r \in Requests, Rollback(r) PROVE OrderInv'
  <2>1. audit' = audit
    BY <1>7 DEF Rollback
  <2>2. Others(r) /\ tx'[r].pc = "idle"
    BY <1>1, <1>7, EndTx DEF Rollback
  <2> QED
    BY <1>2, <2>1, <2>2 DEF Others
<1>8. CASE UNCHANGED <<audit, tx>>
  BY <1>2, <1>8
<1>9. ASSUME NEW u \in Users, Login(u) \/ Token(u) PROVE OrderInv'
  BY <1>8, <1>9 DEF Login, Token
<1>10. CASE Tick \/ UNCHANGED vars
  BY <1>8, <1>10 DEF Tick, vars
<1> QED
  BY <1>3, <1>4, <1>5, <1>6, <1>7, <1>9, <1>10 DEF Next, Transact

\* What a new record adds to the records of the rows.
LEMMA NewRecord ==
  ASSUME NEW x, audit' = audit \cup {x}
  PROVE  /\ \A c : Created(c)' = IF x.met /\ x.load.op = "case.created" /\ x.load.case = c
                                 THEN Created(c) \cup {x} ELSE Created(c)
         /\ \A c : Updates(c)' = IF x.met /\ x.load.op = "case.updated" /\ x.load.case = c
                                 THEN Updates(c) \cup {x} ELSE Updates(c)
         /\ \A c : StatusUpdates(c)' = IF /\ x.met /\ x.load.op = "case.updated"
                                          /\ x.load.case = c /\ x.load.status # NoStatus
                                       THEN StatusUpdates(c) \cup {x} ELSE StatusUpdates(c)
         /\ \A c : Noted(c)' = IF x.met /\ x.load.op = "case.note_added" /\ x.load.case = c
                               THEN Noted(c) \cup {x} ELSE Noted(c)
         /\ \A c, a : Linked(c, a)' =
               IF x.met /\ x.load.op \in LinkOps /\ x.load.case = c /\ x.load.alert = a
               THEN Linked(c, a) \cup {x} ELSE Linked(c, a)
         /\ \A u : Managed(u)' = IF x.met /\ x.load.op \in UserOps /\ x.load.user = u
                                 THEN Managed(u) \cup {x} ELSE Managed(u)
BY DEF Created, Updates, StatusUpdates, Noted, Linked, Managed, Changes

\* The commit of a transaction and its record.
LEMMA CommitRecord ==
  ASSUME Inv1, OrderInv, NEW r \in Requests, Commit(r)
  PROVE  \E x : /\ audit' = audit \cup {x} /\ x \notin audit
                /\ x.load = tx[r].load /\ x.met = tx[r].met /\ x.id \in Nat
                /\ \A y \in audit : y.id \in Nat
                /\ x.met => \A y \in audit : y.met /\ SameRow(y.load, x.load) => y.id < x.id
<1>1. TypeOK /\ FormInv /\ IdInv /\ CaseInv
  BY DEF Inv1
<1>2. PICK x : x = [id |-> tx[r].id, load |-> tx[r].load, met |-> tx[r].met]
  OBVIOUS
<1>3. /\ audit' = audit \cup {x} /\ x.load = tx[r].load /\ x.met = tx[r].met /\ x.id = tx[r].id
      /\ tx[r].pc = "audited"
  BY <1>2 DEF Commit
<1>4. x \notin audit /\ x.id \in Nat
  BY <1>1, <1>3, Consts DEF IdInv, TypeOK
<1>5. \A y \in audit : y.id \in Nat
  BY <1>1, Consts DEF TypeOK, Record
<1>6. x.met => \A y \in audit : y.met /\ SameRow(y.load, x.load) => y.id < x.id
  BY <1>3 DEF OrderInv, Effective
<1> QED
  BY <1>3, <1>4, <1>5, <1>6

LEMMA CommitTrail ==
  ASSUME Inv1, OrderInv, TrailInv, NEW r \in Requests, Commit(r)
  PROVE  TrailInv'
<1>1. TypeOK /\ FormInv /\ CaseInv
  BY DEF Inv1
<1>2. PICK x : audit' = audit \cup {x} /\ x.load = tx[r].load /\ x.met = tx[r].met
  BY CommitRecord
<1>3. PICK p : p = tx[r].load
  OBVIOUS
<1>4. \A c : Exists(c)' <=> Exists(c) \/ (tx[r].met /\ p.op = "case.created" /\ c = p.case)
  BY <1>1, <1>3, CommitExists
<1>5. /\ tx[r].met => Apply(p)
      /\ ~tx[r].met => notes' = notes
      /\ tx[r].met \in BOOLEAN
      /\ tx[r].met /\ p.op \in CaseOps \ {"case.created"} => Exists(p.case)
      /\ tx[r].met /\ p.op \in CaseOps => p.case \in Cases
  BY <1>1, <1>3, CommitFacts
<1>6. IsFiniteSet(audit')
  BY <1>2, FS_AddElement DEF TrailInv
<1>7. \A y \in audit' : y.met /\ y.load.op \in CaseOps => Exists(y.load.case)'
  <2> SUFFICES ASSUME NEW y \in audit', y.met, y.load.op \in CaseOps, NEW c, c = y.load.case
               PROVE  Exists(c)'
    BY DEF Exists
  <2>1. CASE y \in audit
    BY <1>4, <2>1 DEF TrailInv
  <2>2. CASE y = x
    BY <1>2, <1>3, <1>4, <1>5, <2>2
  <2> QED
    BY <1>2, <2>1, <2>2
<1>8. \A c \in Cases : ~Exists(c)' => notes'[c] = 0
  <2> SUFFICES ASSUME NEW c \in Cases, ~Exists(c) PROVE notes'[c] = 0
    BY <1>4
  <2>1. notes[c] = 0
    BY DEF TrailInv
  <2>2. CASE tx[r].met /\ p.op = "case.note_added"
    <3>1. notes' = [notes EXCEPT ![p.case] = notes[p.case] + 1] /\ p.case # c /\ p.case \in Cases
      BY <1>5, <2>2, ApplyRows DEF CaseOps
    <3> QED
      BY <1>1, <2>1, <3>1 DEF TypeOK
  <2>3. CASE ~(tx[r].met /\ p.op = "case.note_added")
    BY <1>5, <2>1, <2>3, ApplyRows
  <2> QED
    BY <2>2, <2>3
<1> QED
  BY <1>6, <1>7, <1>8 DEF TrailInv, Exists

LEMMA CommitReplays ==
  ASSUME Inv1, OrderInv, TrailInv, Replays, NEW r \in Requests, Commit(r)
  PROVE  Replays'
<1>1. TypeOK /\ FormInv /\ CaseInv
  BY DEF Inv1
<1>2. PICK x : /\ audit' = audit \cup {x} /\ x \notin audit
               /\ x.load = tx[r].load /\ x.met = tx[r].met /\ x.id \in Nat
               /\ \A y \in audit : y.id \in Nat
               /\ x.met => \A y \in audit : y.met /\ SameRow(y.load, x.load) => y.id < x.id
  BY CommitRecord
<1>3. PICK p : p = x.load
  OBVIOUS
<1>4. \A c : Exists(c)' <=> Exists(c) \/ (x.met /\ p.op = "case.created" /\ c = p.case)
  BY <1>1, <1>2, <1>3, CommitExists
<1>5. /\ x.met => Apply(p) /\ Holds(p)
      /\ ~x.met => UNCHANGED <<cases, links, notes, users>>
      /\ x.met \in BOOLEAN /\ p \in Payload
      /\ x.met /\ p.op \in CaseOps => p.case \in Cases
  <2>1. x.met => Holds(tx[r].load)
    BY <1>1, <1>2, CommitFacts DEF CaseInv
  <2> QED
    BY <1>1, <1>2, <1>3, <2>1, CommitFacts
<1>6. ASSUME NEW c \in Cases, Exists(c)' PROVE CaseReplays(c)'
  <2>0. x.met /\ p.op \in CaseOps => p.case \in Cases
    BY <1>5
  <2>1. CASE x.met /\ p.op = "case.created" /\ p.case = c
    <3>1. ~Exists(c)
      BY <1>5, <2>1 DEF Holds
    <3>2. Updates(c) = {} /\ StatusUpdates(c) = {} /\ Noted(c) = {} /\ notes[c] = 0
      BY <3>1 DEF TrailInv, Updates, StatusUpdates, Noted, Changes, CaseOps
    <3>3. /\ Created(c)' # {} /\ Updates(c)' = {} /\ StatusUpdates(c)' = {} /\ Noted(c)' = {}
      BY <1>2, <1>3, <2>1, <3>2, NewRecord
    <3>4. notes'[c] = 0 /\ cases'[c].status = "open"
      <4>1. PICK row : row = [status |-> "open", assigned |-> p.assigned]
        OBVIOUS
      <4>2. cases' = [cases EXCEPT ![c] = row] /\ notes' = notes
        BY <1>5, <2>1, <4>1, ApplyRows
      <4> QED
        BY <1>1, <3>2, <4>1, <4>2 DEF TypeOK
    <3> QED
      BY <3>3, <3>4, FS_EmptySet DEF CaseReplays
  <2>2. CASE ~(x.met /\ p.op = "case.created" /\ p.case = c)
    <3>1. Exists(c) /\ CaseReplays(c)
      BY <1>4, <1>6, <2>2 DEF Replays
    <3>2. Created(c)' = Created(c) /\ Created(c) # {}
      BY <1>2, <1>3, <2>2, <3>1, NewRecord DEF CaseReplays
    <3>3. CASE x.met /\ p.op = "case.updated" /\ p.case = c
      <4>1. Updates(c)' = Updates(c) \cup {x} /\ Noted(c)' = Noted(c)
        BY <1>2, <1>3, <3>3, NewRecord
      <4>2. \A y \in Updates(c) : y.id \in Nat /\ y.id < x.id
        BY <1>2, <1>3, <3>3 DEF Updates, Changes, SameRow
      <4>3. Last(Updates(c)') = x
        BY <1>2, <4>1, <4>2, LastNew
      <4>4. PICK row : row = Updated(cases[c], p)
        OBVIOUS
      <4>5. cases' = [cases EXCEPT ![c] = row] /\ notes' = notes
        BY <1>5, <3>3, <4>4, ApplyRows
      <4>6. cases'[c] = row
        BY <1>1, <4>5 DEF TypeOK
      <4>7. row.assigned = p.assigned
            /\ row.status = IF p.status = NoStatus THEN cases[c].status ELSE p.status
        BY <4>4 DEF Updated
      <4>8. cases'[c].status =
               IF StatusUpdates(c)' = {} THEN "open" ELSE Last(StatusUpdates(c)').load.status
        <5>1. CASE p.status = NoStatus
          <6>1. StatusUpdates(c)' = StatusUpdates(c)
            BY <1>2, <1>3, <5>1, NewRecord
          <6> QED
            BY <3>1, <4>6, <4>7, <5>1, <6>1 DEF CaseReplays
        <5>2. CASE p.status # NoStatus
          <6>1. StatusUpdates(c)' = StatusUpdates(c) \cup {x}
            BY <1>2, <1>3, <3>3, <5>2, NewRecord
          <6>2. Last(StatusUpdates(c)') = x
            BY <1>2, <4>2, <6>1, LastNew DEF StatusUpdates
          <6> QED
            BY <1>3, <4>6, <4>7, <5>2, <6>1, <6>2
        <5> QED
          BY <5>1, <5>2
      <4>9. cases'[c].assigned = Last(Updates(c)').load.assigned
        BY <1>3, <4>3, <4>6, <4>7
      <4>10. notes'[c] = Cardinality(Noted(c)')
        BY <3>1, <4>1, <4>5 DEF CaseReplays
      <4> QED
        BY <3>2, <4>8, <4>9, <4>10 DEF CaseReplays
    <3>4. CASE x.met /\ p.op = "case.note_added" /\ p.case = c
      <4>1. /\ Noted(c)' = Noted(c) \cup {x}
            /\ Updates(c)' = Updates(c) /\ StatusUpdates(c)' = StatusUpdates(c)
        BY <1>2, <1>3, <3>4, NewRecord
      <4>2. IsFiniteSet(Noted(c)) /\ x \notin Noted(c)
        <5>1. Noted(c) \in SUBSET audit
          BY DEF Noted, Changes
        <5> QED
          BY <1>2, <5>1, FS_Subset DEF TrailInv
      <4>3. Cardinality(Noted(c)') = Cardinality(Noted(c)) + 1
        BY <4>1, <4>2, FS_AddElement
      <4>4. notes' = [notes EXCEPT ![c] = notes[c] + 1] /\ cases' = cases
        BY <1>5, <3>4, ApplyRows
      <4>5. notes'[c] = notes[c] + 1
        BY <1>1, <4>4 DEF TypeOK
      <4> QED
        BY <3>1, <3>2, <4>1, <4>3, <4>4, <4>5 DEF CaseReplays
    <3>5. CASE ~(x.met /\ p.op \in {"case.updated", "case.note_added"} /\ p.case = c)
      <4>1. Noted(c)' = Noted(c) /\ Updates(c)' = Updates(c) /\ StatusUpdates(c)' = StatusUpdates(c)
        BY <1>2, <1>3, <3>5, NewRecord
      <4>2. cases'[c] = cases[c]
        <5>1. CASE x.met /\ p.op = "case.created"
          <6>1. PICK row : row = [status |-> "open", assigned |-> p.assigned]
            OBVIOUS
          <6>2. cases' = [cases EXCEPT ![p.case] = row] /\ p.case # c
            BY <1>5, <2>2, <5>1, <6>1, ApplyRows
          <6> QED
            BY <1>1, <6>2 DEF TypeOK
        <5>2. CASE x.met /\ p.op = "case.updated"
          <6>1. PICK row : row = Updated(cases[p.case], p)
            OBVIOUS
          <6>2. cases' = [cases EXCEPT ![p.case] = row] /\ p.case # c
            BY <1>5, <3>5, <5>2, <6>1, ApplyRows
          <6> QED
            BY <1>1, <6>2 DEF TypeOK
        <5>3. CASE ~(x.met /\ p.op \in {"case.created", "case.updated"})
          BY <1>5, <5>3, ApplyRows
        <5> QED
          BY <5>1, <5>2, <5>3
      <4>3. notes'[c] = notes[c]
        <5>1. CASE x.met /\ p.op = "case.note_added"
          <6>1. notes' = [notes EXCEPT ![p.case] = notes[p.case] + 1] /\ p.case # c
            BY <1>5, <3>5, <5>1, ApplyRows
          <6> QED
            BY <1>1, <6>1 DEF TypeOK
        <5>2. CASE ~(x.met /\ p.op = "case.note_added")
          BY <1>5, <5>2, ApplyRows
        <5> QED
          BY <5>1, <5>2
      <4> QED
        BY <3>1, <3>2, <4>1, <4>2, <4>3 DEF CaseReplays
    <3> QED
      BY <3>3, <3>4, <3>5
  <2> QED
    BY <2>1, <2>2
<1>7. ASSUME NEW c \in Cases, NEW a \in Alerts PROVE LinkReplays(c, a)'
  <2>1. LinkReplays(c, a) /\ a # NoAlert
    BY Consts DEF Replays
  <2>2. CASE x.met /\ p.op \in LinkOps /\ p.case = c /\ p.alert = a
    <3>1. Linked(c, a)' = Linked(c, a) \cup {x}
      BY <1>2, <1>3, <2>2, NewRecord
    <3>2. \A y \in Linked(c, a) : y.id \in Nat /\ y.id < x.id
      BY <1>2, <1>3, <2>2 DEF Linked, Changes, SameRow
    <3>3. Last(Linked(c, a)') = x
      BY <1>2, <3>1, <3>2, LastNew
    <3>4. <<c, a>> \in links' <=> p.op # "case.alert_unlinked"
      <4>1. CASE p.op = "case.alert_unlinked"
        <5>1. links' = links \ {<<c, a>>}
          BY <1>5, <2>2, <4>1, ApplyRows
        <5> QED
          BY <4>1, <5>1
      <4>2. CASE p.op \in {"case.created", "case.alert_linked"}
        <5>1. links' = links \cup {<<c, a>>}
          BY <1>5, <2>1, <2>2, <4>2, ApplyRows
        <5> QED
          BY <4>2, <5>1
      <4> QED
        BY <2>2, <4>1, <4>2 DEF LinkOps
    <3> QED
      BY <1>3, <3>1, <3>3, <3>4 DEF LinkReplays
  <2>3. CASE ~(x.met /\ p.op \in LinkOps /\ p.case = c /\ p.alert = a)
    <3>1. Linked(c, a)' = Linked(c, a)
      BY <1>2, <1>3, <2>3, NewRecord
    <3>2. <<c, a>> \in links' <=> <<c, a>> \in links
      <4>1. CASE ~(x.met /\ p.op \in LinkOps)
        BY <1>5, <4>1, ApplyRows
      <4>2. CASE x.met /\ p.op \in LinkOps
        <5>1. <<p.case, p.alert>> # <<c, a>>
          BY <2>3, <4>2
        <5>2. p.op = "case.alert_unlinked" => links' = links \ {<<p.case, p.alert>>}
          BY <1>5, <4>2, ApplyRows
        <5>3. p.op \in {"case.created", "case.alert_linked"} =>
                  links' = links \/ links' = links \cup {<<p.case, p.alert>>}
          BY <1>5, <4>2, ApplyRows
        <5> QED
          BY <4>2, <5>1, <5>2, <5>3 DEF LinkOps
      <4> QED
        BY <4>1, <4>2
    <3> QED
      BY <2>1, <3>1, <3>2 DEF LinkReplays
  <2> QED
    BY <2>2, <2>3
<1>8. ASSUME NEW u \in Users PROVE UserReplays(u)'
  <2>1. UserReplays(u)
    BY DEF Replays
  <2>2. CASE x.met /\ p.op \in UserOps /\ p.user = u
    <3>1. Managed(u)' = Managed(u) \cup {x}
      BY <1>2, <1>3, <2>2, NewRecord
    <3>2. \A y \in Managed(u) : y.id \in Nat /\ y.id < x.id
      BY <1>2, <1>3, <2>2 DEF Managed, Changes, SameRow
    <3>3. Last(Managed(u)') = x
      BY <1>2, <3>1, <3>2, LastNew
    <3>4. users'[u] = IF p.op = "user.disabled" THEN "disabled" ELSE "enabled"
      <4>1. tx[r].load = p /\ tx[r].met
        BY <1>2, <1>3, <2>2
      <4>2. \/ users'[u] = users[u] /\ ~(tx[r].met /\ tx[r].load.op \in UserOps /\ tx[r].load.user = u)
            \/ users'[u] = IF tx[r].load.op = "user.disabled" THEN "disabled" ELSE "enabled"
        BY <1>1, CommitUsers
      <4> QED
        BY <2>2, <4>1, <4>2
    <3> QED
      BY <1>3, <3>3, <3>4 DEF UserReplays
  <2>3. CASE ~(x.met /\ p.op \in UserOps /\ p.user = u)
    <3>1. Managed(u)' = Managed(u)
      BY <1>2, <1>3, <2>3, NewRecord
    <3>2. users'[u] = users[u]
      BY <1>1, <1>2, <1>3, <2>3, CommitUsers
    <3> QED
      BY <2>1, <3>1, <3>2 DEF UserReplays
  <2> QED
    BY <2>2, <2>3
<1> QED
  BY <1>6, <1>7, <1>8 DEF Replays

-----------------------------------------------------------------------------
IInv == Inv1 /\ DisabledInv /\ OrderInv /\ TrailInv /\ Replays

LEMMA InitIInv == Init => IInv
<1> SUFFICES ASSUME Init PROVE IInv
  OBVIOUS
<1>1. TypeOK
  BY Consts, IdleType DEF Init, TypeOK, Times, Cases, Never
<1>2. \A r \in Requests : tx[r] = Idle /\ tx[r].pc = "idle" /\ tx[r].actor = NoUser /\ Formed(tx[r].load)
  BY IdleType DEF Init
<1>3. FormInv /\ LockInv /\ IdInv
  BY <1>2 DEF FormInv, LockInv, IdInv, Effective, Init
<1>4. BudgetInv
  <2>1. ToRecord = {} /\ nextAudit = 1
    BY <1>2 DEF ToRecord, Init
  <2> QED
    BY <2>1, FS_EmptySet, Consts DEF BudgetInv
<1>5. \A c : ~Exists(c)
  BY DEF Exists, Init
<1>6. CaseInv
  BY <1>2, <1>5 DEF CaseInv, Effective, Init
<1>7. DisabledInv
  <2>1. Never \notin Times /\ \A u \in Users : users[u] # "disabled" /\ disabled[u] = Never /\ token[u] = Never
    BY DEF Init, Never, Times
  <2>2. clock = 0 /\ Never <= clock + TokenTTL
    BY Consts DEF Init, Never
  <2> QED
    BY <1>2, <2>1, <2>2, Consts DEF DisabledInv
<1>8. OrderInv
  BY DEF OrderInv, Init
<1>9. TrailInv
  BY FS_EmptySet DEF TrailInv, Init
<1>10. Replays
  <2>1. audit = {} /\ links = {}
    BY DEF Init
  <2>2. \A c \in Cases, a \in Alerts : LinkReplays(c, a)
    BY <2>1 DEF LinkReplays, Linked, Changes
  <2>3. \A u \in Users : UserReplays(u)
    BY <2>1 DEF UserReplays, Managed, Changes
  <2> QED
    BY <1>5, <2>2, <2>3 DEF Replays
<1> QED
  BY <1>1, <1>3, <1>4, <1>6, <1>7, <1>8, <1>9, <1>10 DEF IInv, Inv1

LEMMA NextIInv == IInv /\ [Next]_vars => IInv'
<1> SUFFICES ASSUME IInv, [Next]_vars PROVE IInv'
  OBVIOUS
<1> USE DEF rows
<1>1. /\ Inv1 /\ DisabledInv /\ OrderInv /\ TrailInv /\ Replays
      /\ TypeOK /\ FormInv /\ BudgetInv /\ LockInv /\ IdInv /\ CaseInv
  BY DEF IInv, Inv1
<1>2. Inv1'
  BY <1>1, NextType, NextForm, NextBudget, NextLock, NextId, NextCaseInv DEF Inv1
<1>3. DisabledInv' /\ OrderInv'
  BY <1>1, NextDisabled, NextOrder
<1>4. CASE UNCHANGED <<users, cases, links, notes, audit>>
  <2>1. TrailInv'
    BY <1>1, <1>4 DEF TrailInv, Exists
  <2>2. Replays'
    BY <1>1, <1>4 DEF Replays, Exists, CaseReplays, LinkReplays, UserReplays, Created, Updates,
                      StatusUpdates, Noted, Linked, Managed, Changes
  <2> QED
    BY <1>2, <1>3, <2>1, <2>2 DEF IInv
<1>5. ASSUME NEW r \in Requests, Commit(r) PROVE IInv'
  BY <1>1, <1>2, <1>3, <1>5, CommitTrail, CommitReplays DEF IInv
<1>6. ASSUME NEW r \in Requests,
             (\E u \in Users : Begin(r, u)) \/ Execute(r) \/ RecordAudit(r) \/ Rollback(r)
      PROVE  UNCHANGED <<users, cases, links, notes, audit>>
  BY <1>6 DEF Begin, Execute, RecordAudit, Rollback
<1>7. ASSUME NEW u \in Users, Login(u) \/ Token(u)
      PROVE  UNCHANGED <<users, cases, links, notes, audit>>
  BY <1>7 DEF Login, Token
<1>8. CASE Tick \/ UNCHANGED vars
  BY <1>4, <1>8 DEF Tick, vars
<1> QED
  BY <1>4, <1>5, <1>6, <1>7, <1>8 DEF Next, Transact

\* IInv is an inductive invariant of the transactions, the logins and the clock.
THEOREM Invariance == Spec => []IInv
BY InitIInv, NextIInv, PTL DEF Spec

\* Every variable of the console keeps its type; an audit id is never taken beyond the bound that
\* Begin keeps free for it.
THEOREM ConsoleTypeOK == Spec => []TypeOK
<1>1. IInv => TypeOK
  BY DEF IInv, Inv1
<1> QED
  BY <1>1, Invariance, PTL

\* The audit trail replays to the rows, in the order of its ids, although transactions commit in
\* another order (recordAudit comes after the statement that takes the lock).
THEOREM AuditReplaysAlways == Spec => []AuditReplays
<1>1. IInv => AuditReplays
  BY ReplayParts DEF IInv
<1> QED
  BY <1>1, Invariance, PTL

\* Nothing is done with a token later than its life time after its user was disabled (requireRole
\* does not look at the user), unless the user was just logging in then.
THEOREM DisabledStopsAlways == Spec => []DisabledStops
<1>1. IInv => DisabledStops
  <2> SUFFICES ASSUME IInv, NEW u \in Users \ overlap, users[u] = "disabled", NEW r \in Requests,
                      tx[r].actor = u
               PROVE  tx[r].at < disabled[u] + TokenTTL
    BY DEF DisabledStops
  <2>1. token[u] <= disabled[u] + TokenTTL /\ tx[r].at < token[u]
    BY DEF IInv, DisabledInv
  <2>2. token[u] \in Int /\ disabled[u] \in Int /\ tx[r].at \in Nat /\ TokenTTL \in Nat
    BY Consts DEF IInv, Inv1, TypeOK, Tx, Times, Never
  <2> QED
    BY <2>1, <2>2
<1> QED
  BY <1>1, Invariance, PTL

=============================================================================
