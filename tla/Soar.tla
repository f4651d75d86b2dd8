------------------------------- MODULE Soar -------------------------------
(***************************************************************************)
(* Automated response (backend/internal/soar and the worker in             *)
(* backend/cmd/api/main.go).  In every backend a worker wakes up every ten *)
(* seconds, releases the blocks that expired, and evaluates the recent     *)
(* alerts no execution exists for against the playbooks.  Analysts approve *)
(* or reject the executions that wait for them and release blocks.         *)
(*                                                                         *)
(* The worker uses no transaction: each of its statements is a step, any   *)
(* of them may fail, and the other backends run the same worker at the     *)
(* same time.  An approval is a transaction that holds the row of the      *)
(* execution from its SELECT ... FOR UPDATE to its commit.                 *)
(***************************************************************************)
EXTENDS Integers, Sequences, FiniteSets

CONSTANTS
    Backends,   \* backends, each with one worker
    Requests,   \* HTTP requests for an approval that are served at once
    Playbooks,  \* ids of the enabled playbooks
    Trigger,    \* Trigger[p]: [type, severity, category, rule], NoFilter where it is ""
    Action,     \* Action[p]: action_type
    Approval,   \* Approval[p]: requires_approval
    TTL,        \* TTL[p]: ttl_seconds, or its default
    Kinds,      \* alerts that differ in what the worker looks at:
                \* [severity, rule, host, key, evidence]
    ChainRules, \* rules with "ssh" or "chain" in their name
    Allowlist,  \* targets IsAllowlisted protects
    Limit,      \* LIMIT 20 of the query for alerts
    Recent,     \* its interval of 10 minutes
    MaxClock,   \* bound: time observed
    MaxAlerts,  \* bound: alerts raised
    MaxFaults,  \* bound: failing statements and crashes
    NoTarget,   \* the empty string as a target
    NoFilter    \* the empty string in a filter

Targets == (UNION {{k.key} \cup k.evidence : k \in Kinds}) \ {NoTarget}

ASSUME SoarAssumption ==
    /\ Trigger \in [Playbooks -> [type : {"severity", "category", "rule_match"},
                                  severity : STRING, category : STRING, rule : STRING]]
    /\ Action \in [Playbooks -> {"block_ip", "isolate_user", "notify_telegram"}]
    /\ Approval \in [Playbooks -> BOOLEAN]
    /\ TTL \in [Playbooks -> Nat]
    /\ Limit \in Nat /\ Recent \in Nat
    /\ MaxClock \in Nat /\ MaxAlerts \in Nat /\ MaxFaults \in Nat
    /\ NoFilter \in STRING

\* What a look-up of the address of an alert may return.
Addressed == Targets \cup {NoTarget}

VARIABLES
    clock,
    alerts,     \* alerts, by alert_id
    execs,      \* playbook_executions, by execution_id
    blocks,     \* blocked_entities, by blocked_id
    worker,     \* worker[b]: where the worker of b is
    approving,  \* approving[q]: the execution whose row request q has locked
    faults      \* failing statements and crashes so far

vars == <<clock, alerts, execs, blocks, worker, approving, faults>>

Times == 0 .. MaxClock

Alert == [kind : Kinds, at : Times]

Execution == [playbook : Playbooks, alert : Nat \ {0}, target : Targets,
              status : {"pending_approval", "executed", "rejected", "rolled_back"},
              expires : Nat,
              approved : BOOLEAN,   \* approved_by is set, by an approval
              by : Backends,        \* history: the backend that created it
              ip : Addressed]       \* history: the address its evaluation had found

Block == [type : {"ip", "user"}, value : Targets, exec : Nat \ {0},
          status : {"active", "released"}, since : Times, expires : Nat,
          manual : BOOLEAN]         \* released_by is set

\* queue  alerts of the last query not evaluated yet
\* alert  the alert being evaluated
\* ip     the address it was found to have
\* todo   the playbooks to create executions for, with their targets
\* exec   the execution just created, about to be applied
Worker == [pc : {"idle", "query", "alerts", "apply"}, queue : SUBSET (Nat \ {0}),
           alert : Nat, ip : Addressed, todo : SUBSET (Playbooks \X Targets), exec : Nat]

Idle == [pc |-> "idle", queue |-> {}, alert |-> 0, ip |-> NoTarget, todo |-> {}, exec |-> 0]

TypeOK ==
    /\ clock \in Times
    /\ alerts \in Seq(Alert)
    /\ execs \in Seq(Execution)
    /\ blocks \in Seq(Block)
    /\ worker \in [Backends -> Worker]
    /\ approving \in [Requests -> Nat]
    /\ faults \in 0 .. MaxFaults

Init ==
    /\ clock = 0
    /\ alerts = <<>>
    /\ execs = <<>>
    /\ blocks = <<>>
    /\ worker = [b \in Backends |-> Idle]
    /\ approving = [q \in Requests |-> 0]
    /\ faults = 0

Fault == faults < MaxFaults /\ faults' = faults + 1

----------------------------------------------------------------------------
(* What the worker computes.                                               *)

\* An empty filter matches everything.
Fits(filter, value) == filter = NoFilter \/ filter = value

Category(k) == IF k.rule \in ChainRules THEN "correlation" ELSE "generic"

Triggered(p, k) ==
    CASE Trigger[p].type = "severity"   -> Fits(Trigger[p].severity, k.severity)
      [] Trigger[p].type = "category"   -> /\ Fits(Trigger[p].category, Category(k))
                                           /\ Fits(Trigger[p].severity, k.severity)
      [] Trigger[p].type = "rule_match" -> Fits(Trigger[p].rule, k.rule)

\* What follows "host:" in the entity key; an entity without host is an address.
User(k) == IF k.host THEN k.key ELSE NoTarget

\* The address of an alert: its entity, or whichever row of its evidence comes first.
\* None may come, for the correlation engine purges the rows (correlation.go:153), and
\* the error of a look-up that fails is ignored.
Addresses(k) ==
    IF ~k.host /\ k.key # NoTarget THEN {k.key} ELSE k.evidence \cup {NoTarget}

\* The target of the action of p.
Target(p, k, ip) ==
    CASE Action[p] = "block_ip"     -> ip
      [] Action[p] = "isolate_user" -> User(k)
      [] OTHER                      -> IF ip # NoTarget THEN ip ELSE User(k)

IsAllowlisted(t) == t = NoTarget \/ t \in Allowlist

\* Mutant: the allowlist is left to the approval.
SelectedEmptyOnly(k, ip) ==
    {<<p, Target(p, k, ip)>> : p \in {x \in Playbooks : Triggered(x, k) /\ Target(x, k, ip) # NoTarget}}

\* The playbooks an alert gets an execution of, and the targets.
Selected(k, ip) ==
    {<<p, Target(p, k, ip)>> : p \in {x \in Playbooks : Triggered(x, k) /\ ~IsAllowlisted(Target(x, k, ip))}}

\* Recent alerts without any execution.
Unanswered ==
    {a \in DOMAIN alerts : /\ alerts[a].at + Recent >= clock
                           /\ \A i \in DOMAIN execs : execs[i].alert # a}

\* The highest ids come first, Limit of them at most.
Newest(S) == {a \in S : Cardinality({x \in S : x > a}) < Limit}

\* Mutant: the type of the action is stored as it is.
EntityTypeRaw(p) == Action[p]

EntityType(p) == IF Action[p] = "isolate_user" THEN "user" ELSE "ip"

NewBlock(i, since) ==
    [type |-> EntityType(execs[i].playbook), value |-> execs[i].target, exec |-> i,
     status |-> "active", since |-> since, expires |-> execs[i].expires, manual |-> FALSE]

----------------------------------------------------------------------------
(* The worker.                                                             *)

\* The tick: every active block that expired is released.
ReleaseExpired(b) ==
    /\ worker[b].pc = "idle"
    /\ blocks' = [i \in DOMAIN blocks |->
                     IF blocks[i].status = "active" /\ blocks[i].expires <= clock
                     THEN [blocks[i] EXCEPT !.status = "released"] ELSE blocks[i]]
    /\ worker' = [worker EXCEPT ![b].pc = "query"]
    /\ UNCHANGED <<clock, alerts, execs, approving, faults>>

\* Its error is ignored.
ReleaseFails(b) ==
    /\ worker[b].pc = "idle"
    /\ worker' = [worker EXCEPT ![b].pc = "query"]
    /\ Fault
    /\ UNCHANGED <<clock, alerts, execs, blocks, approving>>

\* Mutant: alerts that have executions are not left out.
QueryAll(b) ==
    /\ worker[b].pc = "query"
    /\ worker' = [worker EXCEPT ![b].pc = "alerts",
                     ![b].queue = Newest({a \in DOMAIN alerts : alerts[a].at + Recent >= clock})]
    /\ UNCHANGED <<clock, alerts, execs, blocks, approving, faults>>

Query(b) ==
    /\ worker[b].pc = "query"
    /\ worker' = [worker EXCEPT ![b].pc = "alerts", ![b].queue = Newest(Unanswered)]
    /\ UNCHANGED <<clock, alerts, execs, blocks, approving, faults>>

\* The newest alert of the query is the next one.
IsNext(b, a) == a \in worker[b].queue /\ \A x \in worker[b].queue : x <= a

\* Find the targets of an alert and the playbooks it triggers.
Evaluate(b, a) ==
    /\ worker[b].pc = "alerts" /\ worker[b].todo = {} /\ IsNext(b, a)
    /\ \E ip \in Addresses(alerts[a].kind) :
          worker' = [worker EXCEPT ![b].queue = @ \ {a}, ![b].alert = a, ![b].ip = ip,
                                   ![b].todo = Selected(alerts[a].kind, ip)]
    /\ UNCHANGED <<clock, alerts, execs, blocks, approving, faults>>

\* The query for the playbooks fails: the alert is left to the next tick.
EvaluateFails(b, a) ==
    /\ worker[b].pc = "alerts" /\ worker[b].todo = {} /\ IsNext(b, a)
    /\ worker' = [worker EXCEPT ![b].queue = @ \ {a}]
    /\ Fault
    /\ UNCHANGED <<clock, alerts, execs, blocks, approving>>

\* Mutant: the worker stops at the first playbook of an alert.
CreateOne(b, p, t) ==
    /\ worker[b].pc = "alerts" /\ <<p, t>> \in worker[b].todo
    /\ execs' = Append(execs,
          [playbook |-> p, alert |-> worker[b].alert, target |-> t,
           status |-> IF Approval[p] THEN "pending_approval" ELSE "executed",
           expires |-> clock + TTL[p], approved |-> FALSE, by |-> b, ip |-> worker[b].ip])
    /\ worker' = [worker EXCEPT ![b].todo = {},
                                ![b].pc = IF Approval[p] THEN "alerts" ELSE "apply",
                                ![b].exec = IF Approval[p] THEN 0 ELSE Len(execs) + 1]
    /\ UNCHANGED <<clock, alerts, blocks, approving, faults>>

\* INSERT INTO playbook_executions; without approval it counts as executed.
Create(b, p, t) ==
    /\ worker[b].pc = "alerts" /\ <<p, t>> \in worker[b].todo
    /\ execs' = Append(execs,
          [playbook |-> p, alert |-> worker[b].alert, target |-> t,
           status |-> IF Approval[p] THEN "pending_approval" ELSE "executed",
           expires |-> clock + TTL[p], approved |-> FALSE, by |-> b, ip |-> worker[b].ip])
    /\ worker' = [worker EXCEPT ![b].todo = @ \ {<<p, t>>},
                                ![b].pc = IF Approval[p] THEN "alerts" ELSE "apply",
                                ![b].exec = IF Approval[p] THEN 0 ELSE Len(execs) + 1]
    /\ UNCHANGED <<clock, alerts, blocks, approving, faults>>

\* EvaluateAlert returns the error, the worker ignores it: on to the next alert.
CreateFails(b) ==
    /\ worker[b].pc = "alerts" /\ worker[b].todo # {}
    /\ worker' = [worker EXCEPT ![b].todo = {}]
    /\ Fault
    /\ UNCHANGED <<clock, alerts, execs, blocks, approving>>

\* applyAction after an execution that needs no approval.
Apply(b) ==
    /\ worker[b].pc = "apply"
    /\ blocks' = Append(blocks, NewBlock(worker[b].exec, clock))
    /\ worker' = [worker EXCEPT ![b].pc = "alerts", ![b].exec = 0]
    /\ UNCHANGED <<clock, alerts, execs, approving, faults>>

\* Its error is ignored.
ApplyFails(b) ==
    /\ worker[b].pc = "apply"
    /\ worker' = [worker EXCEPT ![b].pc = "alerts", ![b].exec = 0]
    /\ Fault
    /\ UNCHANGED <<clock, alerts, execs, blocks, approving>>

\* Every alert of the query was evaluated: wait for the next tick.
Wait(b) ==
    /\ worker[b].pc = "alerts" /\ worker[b].todo = {} /\ worker[b].queue = {}
    /\ worker' = [worker EXCEPT ![b] = Idle]
    /\ UNCHANGED <<clock, alerts, execs, blocks, approving, faults>>

\* The backend dies and starts again, or the query for alerts fails.
Crash(b) ==
    /\ worker[b].pc # "idle"
    /\ worker' = [worker EXCEPT ![b] = Idle]
    /\ Fault
    /\ UNCHANGED <<clock, alerts, execs, blocks, approving>>

----------------------------------------------------------------------------
(* Analysts.                                                               *)

\* Mutant: the row is read without FOR UPDATE.
BeginApprovalUnlocked(q, i) ==
    /\ approving[q] = 0
    /\ i \in DOMAIN execs /\ execs[i].status = "pending_approval"
    /\ ~IsAllowlisted(execs[i].target)
    /\ approving' = [approving EXCEPT ![q] = i]
    /\ UNCHANGED <<clock, alerts, execs, blocks, worker, faults>>

\* ApproveExecution reads the row FOR UPDATE, once nobody else holds it.
BeginApproval(q, i) ==
    /\ approving[q] = 0
    /\ i \in DOMAIN execs /\ execs[i].status = "pending_approval"
    /\ \A r \in Requests : approving[r] # i
    /\ ~IsAllowlisted(execs[i].target)
    /\ approving' = [approving EXCEPT ![q] = i]
    /\ UNCHANGED <<clock, alerts, execs, blocks, worker, faults>>

\* Mutant: a block that an analyst approved gets no time of expiry.
CommitApprovalForever(q) ==
    /\ approving[q] # 0
    /\ execs' = [execs EXCEPT ![approving[q]].status = "executed",
                              ![approving[q]].approved = TRUE]
    /\ blocks' = Append(blocks, [NewBlock(approving[q], clock) EXCEPT !.expires = MaxClock + 1])
    /\ approving' = [approving EXCEPT ![q] = 0]
    /\ UNCHANGED <<clock, alerts, worker, faults>>

\* The block keeps the expiry that was fixed when the execution was created.
CommitApproval(q) ==
    /\ approving[q] # 0
    /\ execs' = [execs EXCEPT ![approving[q]].status = "executed",
                              ![approving[q]].approved = TRUE]
    /\ blocks' = Append(blocks, NewBlock(approving[q], clock))
    /\ approving' = [approving EXCEPT ![q] = 0]
    /\ UNCHANGED <<clock, alerts, worker, faults>>

\* A statement of the transaction, or its commit, fails.
AbortApproval(q) ==
    /\ approving[q] # 0
    /\ approving' = [approving EXCEPT ![q] = 0]
    /\ Fault
    /\ UNCHANGED <<clock, alerts, execs, blocks, worker>>

\* Mutant: the UPDATE has no condition on the status.
RejectAny(i) ==
    /\ i \in DOMAIN execs
    /\ \A q \in Requests : approving[q] # i
    /\ execs' = [execs EXCEPT ![i].status = "rejected"]
    /\ UNCHANGED <<clock, alerts, blocks, worker, approving, faults>>

\* RejectExecution: one UPDATE, which waits for an approval of the row.
Reject(i) ==
    /\ i \in DOMAIN execs /\ execs[i].status = "pending_approval"
    /\ \A q \in Requests : approving[q] # i
    /\ execs' = [execs EXCEPT ![i].status = "rejected"]
    /\ UNCHANGED <<clock, alerts, blocks, worker, approving, faults>>

\* ReleaseBlockedEntity rolls the execution back with the block.
ReleaseBlockedEntity(i) ==
    /\ i \in DOMAIN blocks /\ blocks[i].status = "active"
    /\ blocks' = [blocks EXCEPT ![i].status = "released", ![i].manual = TRUE]
    /\ execs' = [execs EXCEPT ![blocks[i].exec].status = "rolled_back"]
    /\ UNCHANGED <<clock, alerts, worker, approving, faults>>

----------------------------------------------------------------------------
(* The surroundings.                                                       *)

\* The rule or correlation engine raises an alert (durable.go:66, correlation.go:139).
Raise(k) ==
    /\ Len(alerts) < MaxAlerts
    /\ alerts' = Append(alerts, [kind |-> k, at |-> clock])
    /\ UNCHANGED <<clock, execs, blocks, worker, approving, faults>>

Tick ==
    /\ clock < MaxClock
    /\ clock' = clock + 1
    /\ UNCHANGED <<alerts, execs, blocks, worker, approving, faults>>

WorkerRuns(b) ==
    \/ ReleaseExpired(b)
    \/ Query(b)
    \/ \E a \in DOMAIN alerts : Evaluate(b, a)
    \/ \E p \in Playbooks, t \in Targets : Create(b, p, t)
    \/ Apply(b)
    \/ Wait(b)

WorkerFails(b) ==
    \/ ReleaseFails(b)
    \/ \E a \in DOMAIN alerts : EvaluateFails(b, a)
    \/ CreateFails(b)
    \/ ApplyFails(b)
    \/ Crash(b)

Analyst ==
    \/ \E q \in Requests, i \in DOMAIN execs : BeginApproval(q, i)
    \/ \E q \in Requests : CommitApproval(q) \/ AbortApproval(q)
    \/ \E i \in DOMAIN execs : Reject(i)
    \/ \E i \in DOMAIN blocks : ReleaseBlockedEntity(i)

Next ==
    \/ \E b \in Backends : WorkerRuns(b) \/ WorkerFails(b)
    \/ Analyst
    \/ \E k \in Kinds : Raise(k)
    \/ Tick

Spec == Init /\ [][Next]_vars

\* The ticker fires, and a backend that died is started again.
FairSpec == Spec /\ \A b \in Backends : WF_vars(WorkerRuns(b))

----------------------------------------------------------------------------
(* Properties.                                                             *)

BlocksOf(i) == {j \in DOMAIN blocks : blocks[j].exec = i}

\* The approval gate (soar.go:232-314): whatever requests race for an execution, it
\* is blocked once at most; one that was approved has its block, one that waits or was
\* rejected has none, and an action that needs approval blocks nothing without it.
ApprovalGate ==
    \A i \in DOMAIN execs :
        /\ Cardinality(BlocksOf(i)) <= 1
        /\ execs[i].approved => BlocksOf(i) # {}
        /\ execs[i].status \in {"pending_approval", "rejected"} => BlocksOf(i) = {}
        /\ Approval[execs[i].playbook] /\ BlocksOf(i) # {} => execs[i].approved

\* No playbook and no approval blocks a protected target (soar.go:87-104): also not
\* one without approval, whose target an alert dictates.
ProtectedNeverBlocked == \A j \in DOMAIN blocks : ~IsAllowlisted(blocks[j].value)

\* A backend answers an alert with a playbook once: its worker sees what it created,
\* although its query and its inserts share no transaction.  More than one execution
\* of a playbook for an alert takes as many backends (main.go:175-222).
OncePerBackend ==
    \A i, j \in DOMAIN execs :
        /\ execs[i].playbook = execs[j].playbook /\ execs[i].alert = execs[j].alert
        /\ execs[i].by = execs[j].by
        => i = j

\* Alert a, found to have address ip, triggers p and has a target for it.
Due(a, p, ip) ==
    Triggered(p, alerts[a].kind) /\ ~IsAllowlisted(Target(p, alerts[a].kind, ip))

Answered(b, a, p) ==
    \E i \in DOMAIN execs : execs[i].alert = a /\ execs[i].playbook = p /\ execs[i].by = b

\* While nothing fails, a worker that answered an alert with one execution answers it
\* with those of all playbooks that are due for the address it found, before it leaves
\* the alert: no later tick would see the alert again (main.go:180, soar.go:154-227).
AnsweredInFull ==
    faults = 0 =>
        \A i \in DOMAIN execs :
            LET a == execs[i].alert
                b == execs[i].by
            IN  \/ worker[b].alert = a /\ worker[b].todo # {}
                \/ \A p \in Playbooks : Due(a, p, execs[i].ip) => Answered(b, a, p)

\* An execution is decided once, and only an analyst who lifts an active block rolls it
\* back; a block that was released, by an analyst or by its expiry, stays released
\* (soar.go:253, 299, 329, 340, 356).
DecidedStep ==
    /\ \A i \in DOMAIN execs :
          execs'[i].status # execs[i].status =>
              \/ execs[i].status = "pending_approval" /\ execs'[i].status \in {"executed", "rejected"}
              \/ /\ execs[i].status = "executed" /\ execs'[i].status = "rolled_back"
                 /\ \E j \in BlocksOf(i) :
                       blocks[j].status = "active" /\ blocks'[j].status = "released"
    /\ \A j \in DOMAIN blocks : blocks[j].status = "released" => blocks'[j] = blocks[j]

DecidedOnce == [][DecidedStep]_vars

\* A block ends: once the time to live of its execution is over, a worker releases it
\* (soar.go:351-362).  OncePerBackend bounds the blocks.
ExpiredIsReleased ==
    \A j \in 1 .. MaxAlerts * Cardinality(Playbooks) * Cardinality(Backends) :
        (j \in DOMAIN blocks /\ execs[blocks[j].exec].expires <= clock)
            ~> (j \in DOMAIN blocks /\ blocks[j].status = "released")

=============================================================================
