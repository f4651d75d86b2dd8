------------------------------ MODULE Console ------------------------------
(***************************************************************************)
(* The console of the analysts: cases with their notes and linked alerts,  *)
(* users and their tokens, and the audit trail (backend/internal/api/      *)
(* cases.go and admin.go, login and requireRole in                         *)
(* backend/internal/api/handler.go, backend/internal/auth).                *)
(*                                                                         *)
(* Every change is a transaction of the same shape: BEGIN, one statement,  *)
(* recordAudit, COMMIT.  Postgres runs it at READ COMMITTED: a statement   *)
(* waits for the transaction that has changed its row, and sees what is    *)
(* committed.  A token is checked by its signature and expiry alone.       *)
(***************************************************************************)
EXTENDS Integers, FiniteSets

CONSTANTS
    Requests,   \* requests that change something, served at once
    Users,
    Role,       \* Role[u]: "admin", "analyst" or "viewer"
    Known,      \* users there are to begin with
    Assignees,  \* those of them a case is assigned to; assigned_to is a foreign key
    Alerts,
    Statuses,   \* statuses of a case, "open" among them
    TokenTTL,   \* 12 hours
    NoUser, NoAlert,
    NoStatus,   \* a status the payload does not carry
    MaxCases,   \* bound: cases created
    MaxAudit,   \* bound: ids of audit records taken, or about to be
    MaxClock,   \* bound: time observed
    MaxFaults   \* bound: failing statements

ASSUME ConsoleAssumption ==
    /\ Role \in [Users -> {"admin", "analyst", "viewer"}]
    /\ Known \subseteq Users /\ Assignees \subseteq Known
    /\ NoUser \notin Users /\ NoAlert \notin Alerts
    /\ "open" \in Statuses /\ NoStatus \notin Statuses /\ "none" \notin Statuses
    /\ IsFiniteSet(Requests)
    /\ TokenTTL \in Nat /\ MaxCases \in Nat /\ MaxAudit \in Nat /\ MaxClock \in Nat
    /\ MaxFaults \in Nat

VARIABLES
    clock,
    users,     \* users[u]: "absent", "enabled" or "disabled"
    login,     \* the users whose password is being checked
    token,     \* token[u]: when the last token of u expires
    cases,     \* cases[c]: the row of case c, NoCase if it is not there
    links,     \* case_alerts
    notes,     \* notes[c]: how many notes case c has
    audit,     \* audit_logs
    tx,        \* tx[r]: the transaction of request r
    nextCase, nextAudit,   \* the sequences, which no rollback resets
    disabled,  \* history: disabled[u]: when u was disabled, or Never
    overlap,   \* history: the users disabled while they logged in
    faults     \* failing statements so far

vars == <<clock, users, login, token, cases, links, notes, audit, tx, nextCase, nextAudit,
          disabled, overlap, faults>>
rows == <<users, cases, links, notes, audit, disabled, overlap>>

Cases == 1 .. MaxCases
Times == 0 .. MaxClock
Never == -1
NoCase == [status |-> "none", assigned |-> NoUser]

Ops == {"case.created", "case.updated", "case.note_added", "case.alert_linked",
        "case.alert_unlinked", "user.created", "user.disabled"}

\* What a request carries; a field its operation has no use for is empty.
Payload == [op : Ops, case : Cases \cup {0}, alert : Alerts \cup {NoAlert},
            status : Statuses \cup {NoStatus}, assigned : Assignees \cup {NoUser},
            user : Users \cup {NoUser}]

\* pc  where the transaction is
\* at  when its token was checked
\* met history: its statement found a row, or inserted one
Tx == [pc : {"idle", "begun", "executed", "audited"}, load : Payload, actor : Users \cup {NoUser},
       at : Times, met : BOOLEAN, id : 0 .. MaxAudit]

Record == [id : 1 .. MaxAudit, load : Payload, met : BOOLEAN]

Load(op, c, a, s, w, u) ==
    [op |-> op, case |-> c, alert |-> a, status |-> s, assigned |-> w, user |-> u]

Empty == Load("case.created", 0, NoAlert, NoStatus, NoUser, NoUser)
Idle  == [pc |-> "idle", load |-> Empty, actor |-> NoUser, at |-> 0, met |-> FALSE, id |-> 0]

TypeOK ==
    /\ clock \in Times
    /\ users \in [Users -> {"absent", "enabled", "disabled"}]
    /\ login \subseteq Users
    /\ token \in [Users -> {Never} \cup Nat]
    /\ cases \in [Cases -> [status : Statuses, assigned : Assignees \cup {NoUser}] \cup {NoCase}]
    /\ links \subseteq Cases \X Alerts
    /\ notes \in [Cases -> Nat]
    /\ audit \subseteq Record
    /\ tx \in [Requests -> Tx]
    /\ nextCase \in 1 .. MaxCases + 1 /\ nextAudit \in 1 .. MaxAudit + 1
    /\ disabled \in [Users -> {Never} \cup Times] /\ overlap \subseteq Users
    /\ faults \in 0 .. MaxFaults

Init ==
    /\ clock = 0
    /\ users = [u \in Users |-> IF u \in Known THEN "enabled" ELSE "absent"]
    /\ login = {} /\ token = [u \in Users |-> Never]
    /\ cases = [c \in Cases |-> NoCase] /\ links = {} /\ notes = [c \in Cases |-> 0]
    /\ audit = {} /\ tx = [r \in Requests |-> Idle]
    /\ nextCase = 1 /\ nextAudit = 1
    /\ disabled = [u \in Users |-> Never] /\ overlap = {} /\ faults = 0

-----------------------------------------------------------------------------
(* Tokens.                                                                  *)

\* Mutant: the column enabled is not looked at.
LoginAny(u) ==
    /\ users[u] # "absent" /\ u \notin login
    /\ login' = login \cup {u}
    /\ UNCHANGED <<rows, clock, token, tx, nextCase, nextAudit, faults>>

\* login reads the row of the user, and then takes its time to check the password.
Login(u) ==
    /\ users[u] = "enabled" /\ u \notin login
    /\ login' = login \cup {u}
    /\ UNCHANGED <<rows, clock, token, tx, nextCase, nextAudit, faults>>

Token(u) ==
    /\ u \in login /\ login' = login \ {u}
    /\ token' = [token EXCEPT ![u] = clock + TokenTTL]
    /\ UNCHANGED <<rows, clock, tx, nextCase, nextAudit, faults>>

Tick ==
    /\ clock < MaxClock /\ clock' = clock + 1
    /\ UNCHANGED <<rows, login, token, tx, nextCase, nextAudit, faults>>

-----------------------------------------------------------------------------
(* Transactions.                                                            *)

Exists(c) == c \in Cases /\ cases[c] # NoCase

\* The requests the handlers accept.
CreateCase == {Load("case.created", 0, a, NoStatus, w, NoUser) :
                  a \in Alerts \cup {NoAlert}, w \in Assignees \cup {NoUser}}
UpdateCase == {Load("case.updated", c, NoAlert, s, w, NoUser) :
                  c \in Cases, s \in Statuses \cup {NoStatus}, w \in Assignees \cup {NoUser}}
AddNote    == {Load("case.note_added", c, NoAlert, NoStatus, NoUser, NoUser) : c \in Cases}
LinkAlert  == {Load(op, c, a, NoStatus, NoUser, NoUser) :
                  op \in {"case.alert_linked", "case.alert_unlinked"}, c \in Cases, a \in Alerts}
ChangeUser == {Load(op, 0, NoAlert, NoStatus, NoUser, u) :
                  op \in {"user.created", "user.disabled"}, u \in Users}

\* Those of user u, by the roles the routes ask for: a case is open to every viewer.
Sent(u) == CreateCase \cup UpdateCase
              \cup (IF Role[u] # "viewer" THEN AddNote \cup LinkAlert ELSE {})
              \cup (IF Role[u] = "admin" THEN ChangeUser ELSE {})

\* requireRole looks at the token only.
Begin(r, u) ==
    /\ tx[r].pc = "idle" /\ clock < token[u]
    /\ nextAudit + Cardinality({q \in Requests : tx[q].pc \in {"begun", "executed"}}) <= MaxAudit
    /\ \E p \in Sent(u) :
          tx' = [tx EXCEPT ![r] = [Idle EXCEPT !.pc = "begun", !.load = p, !.actor = u, !.at = clock]]
    /\ UNCHANGED <<rows, clock, login, token, nextCase, nextAudit, faults>>

\* The row a statement changes.  A case that is inserted is nobody else's.
Row(p) ==
    CASE p.op = "case.updated"                                 -> <<"case", p.case>>
      [] p.op \in {"case.alert_linked", "case.alert_unlinked"} -> <<"link", p.case, p.alert>>
      [] p.op \in {"user.created", "user.disabled"}            -> <<"user", p.user>>
      [] OTHER                                                 -> <<"new">>

\* Mutant: statements do not wait for each other.
FreeAlways(p) == TRUE

\* No other transaction has changed the row.
Free(p) ==
    Row(p) # <<"new">> =>
        \A r \in Requests : tx[r].pc \in {"executed", "audited"} /\ tx[r].met => Row(tx[r].load) # Row(p)

\* The statement finds a row to change, or may insert its own.
Meets(p) ==
    /\ p.op \in {"case.updated", "case.note_added"} => Exists(p.case)
    /\ p.op = "case.alert_linked"   => <<p.case, p.alert>> \notin links
    /\ p.op = "case.alert_unlinked" => <<p.case, p.alert>> \in links
    /\ p.op = "user.created"        => users[p.user] = "absent"
    /\ p.op = "user.disabled"       => users[p.user] # "absent"

\* A foreign key or a unique index refuses it.
Refused(p) ==
    \/ p.op \in {"case.note_added", "case.alert_linked"} /\ ~Exists(p.case)
    \/ p.op = "user.created" /\ users[p.user] # "absent"

\* The statement.  An UPDATE or DELETE waits for the transaction that has changed its row, an
\* INSERT for one with the same key; one that finds no row waits for nobody, changes nothing, and
\* is no error.
Execute(r) ==
    LET p == tx[r].load IN
    /\ tx[r].pc = "begun" /\ ~Refused(p)
    /\ Meets(p) \/ p.op = "case.alert_linked" => Free(p)
    /\ IF p.op = "case.created"
       THEN /\ nextCase \in Cases /\ nextCase' = nextCase + 1
            /\ tx' = [tx EXCEPT ![r].pc = "executed", ![r].met = TRUE, ![r].load.case = nextCase]
       ELSE /\ tx' = [tx EXCEPT ![r].pc = "executed", ![r].met = Meets(p)]
            /\ UNCHANGED nextCase
    /\ UNCHANGED <<rows, clock, login, token, nextAudit, faults>>

\* recordAudit takes the next id of the sequence.
RecordAudit(r) ==
    /\ tx[r].pc = "executed"
    /\ nextAudit' = nextAudit + 1
    /\ tx' = [tx EXCEPT ![r].pc = "audited", ![r].id = nextAudit]
    /\ UNCHANGED <<rows, clock, login, token, nextCase, faults>>

\* Mutant: a status the payload does not carry is cleared, as the assignee is.
UpdatedAll(row, p) == [status |-> p.status, assigned |-> p.assigned]

\* The UPDATE of updateCase keeps a status that is not given.  It does not keep the assignee.
Updated(row, p) == [status |-> IF p.status = NoStatus THEN row.status ELSE p.status,
                    assigned |-> p.assigned]

Apply(p) ==
    /\ cases' = CASE p.op = "case.created" ->
                        [cases EXCEPT ![p.case] = [status |-> "open", assigned |-> p.assigned]]
                  [] p.op = "case.updated" -> [cases EXCEPT ![p.case] = Updated(@, p)]
                  [] OTHER                 -> cases
    /\ links' = CASE p.op = "case.alert_unlinked" -> links \ {<<p.case, p.alert>>}
                  [] p.op \in {"case.created", "case.alert_linked"} /\ p.alert # NoAlert ->
                        links \cup {<<p.case, p.alert>>}
                  [] OTHER -> links
    /\ notes' = IF p.op = "case.note_added" THEN [notes EXCEPT ![p.case] = @ + 1] ELSE notes
    /\ users' = CASE p.op = "user.created"  -> [users EXCEPT ![p.user] = "enabled"]
                  [] p.op = "user.disabled" -> [users EXCEPT ![p.user] = "disabled"]
                  [] OTHER                  -> users
    /\ IF p.op = "user.disabled" /\ disabled[p.user] = Never
       THEN /\ disabled' = [disabled EXCEPT ![p.user] = clock]
            /\ overlap' = IF p.user \in login THEN overlap \cup {p.user} ELSE overlap
       ELSE UNCHANGED <<disabled, overlap>>

Commit(r) ==
    LET t == tx[r] IN
    /\ t.pc = "audited"
    /\ IF t.met THEN Apply(t.load)
       ELSE UNCHANGED <<users, cases, links, notes, disabled, overlap>>
    /\ audit' = audit \cup {[id |-> t.id, load |-> t.load, met |-> t.met]}
    /\ tx' = [tx EXCEPT ![r] = Idle]
    /\ UNCHANGED <<clock, login, token, nextCase, nextAudit, faults>>

\* A statement is refused or fails, and the deferred ROLLBACK undoes the transaction.
Rollback(r) ==
    /\ tx[r].pc # "idle"
    /\ \/ tx[r].pc = "begun" /\ Refused(tx[r].load) /\ UNCHANGED faults
       \/ faults < MaxFaults /\ faults' = faults + 1
    /\ tx' = [tx EXCEPT ![r] = Idle]
    /\ UNCHANGED <<rows, clock, login, token, nextCase, nextAudit>>

-----------------------------------------------------------------------------

Transact(r) ==
    \/ \E u \in Users : Begin(r, u)
    \/ Execute(r) \/ RecordAudit(r) \/ Commit(r) \/ Rollback(r)

Next ==
    \/ \E r \in Requests : Transact(r)
    \/ \E u \in Users : Login(u) \/ Token(u)
    \/ Tick

Spec == Init /\ [][Next]_vars

-----------------------------------------------------------------------------
(* Properties.                                                              *)

Last(S) == CHOOSE x \in S : \A y \in S : y.id <= x.id

\* The records that tell of a change.  A request for a case that is not there is audited too.
Changes(ops) == {x \in audit : x.met /\ x.load.op \in ops}

\* Who reads the audit trail of a case or a user in the order of its ids, and leaves out the
\* requests that met no row, arrives at the rows: every change has its record and every record its
\* change, however transactions wait, fail and commit in another order (recordAudit inside each
\* transaction, after the statement that takes the lock).
AuditReplays ==
    /\ \A c \in Cases : Exists(c) =>
          LET updates  == {x \in Changes({"case.updated"}) : x.load.case = c}
              statuses == {x \in updates : x.load.status # NoStatus} IN
          /\ \E x \in Changes({"case.created"}) : x.load.case = c
          /\ cases[c].status = IF statuses = {} THEN "open" ELSE Last(statuses).load.status
          /\ updates # {} => cases[c].assigned = Last(updates).load.assigned
          /\ notes[c] = Cardinality({x \in Changes({"case.note_added"}) : x.load.case = c})
    /\ \A c \in Cases, a \in Alerts :
          LET story == {x \in Changes({"case.created", "case.alert_linked", "case.alert_unlinked"}) :
                            x.load.case = c /\ x.load.alert = a} IN
          <<c, a>> \in links <=> story # {} /\ Last(story).load.op # "case.alert_unlinked"
    /\ \A u \in Users :
          LET story == {x \in Changes({"user.created", "user.disabled"}) : x.load.user = u} IN
          story # {} => (users[u] = "disabled" <=> Last(story).load.op = "user.disabled")

\* A token outlives the disabling of its user, but not for long: nothing is done in the name of a
\* user later than TokenTTL after it was disabled, unless it was just logging in then (login,
\* which looks at enabled before it checks the password; requireRole, which does not look at all).
DisabledStops ==
    \A u \in Users \ overlap : users[u] = "disabled" =>
        \A r \in Requests : tx[r].actor = u => tx[r].at < disabled[u] + TokenTTL

=============================================================================
