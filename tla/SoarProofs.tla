----------------------------- MODULE SoarProofs -----------------------------
(***************************************************************************)
(* Proofs about Soar, for any backends, requests, playbooks and alerts.    *)
(* The inductive invariant IInv says what a worker may rely on between two *)
(* of its statements, although it holds no lock, and what an approval may  *)
(* rely on because it does.                                                *)
(***************************************************************************)
EXTENDS Soar, TLAPS, FiniteSetTheorems, SequenceTheorems

\* A worker evaluates alerts that exist, an alert once in a tick, and has one
\* permitted target for each playbook.
WorkerInv ==
    \A b \in Backends :
        /\ worker[b].pc \in {"idle", "query"} => worker[b].queue = {} /\ worker[b].todo = {}
        /\ worker[b].queue \subseteq DOMAIN alerts
        /\ worker[b].todo # {} =>
              worker[b].alert \in DOMAIN alerts /\ worker[b].alert \notin worker[b].queue
        /\ \A s \in worker[b].todo : ~IsAllowlisted(s[2])
        /\ \A s, u \in worker[b].todo : s[1] = u[1] => s = u

\* What a worker has yet to create, it did not create before.
OwnInv ==
    \A b \in Backends : \A i \in DOMAIN execs : execs[i].by = b =>
        /\ execs[i].alert \notin worker[b].queue
        /\ execs[i].alert = worker[b].alert =>
              \A s \in worker[b].todo : s[1] # execs[i].playbook

\* The execution a worker is about to apply is its own, needs no approval and has
\* no block yet.
ApplyInv ==
    \A b \in Backends : worker[b].pc = "apply" =>
        /\ worker[b].exec \in DOMAIN execs
        /\ execs[worker[b].exec].by = b
        /\ execs[worker[b].exec].status = "executed"
        /\ ~Approval[execs[worker[b].exec].playbook]
        /\ \A j \in DOMAIN blocks : blocks[j].exec # worker[b].exec

\* A request holds the row of an execution that waits, and no other request does.
ApprovingInv ==
    \A q \in Requests : approving[q] # 0 =>
        /\ approving[q] \in DOMAIN execs
        /\ execs[approving[q]].status = "pending_approval"
        /\ \A r \in Requests : approving[r] = approving[q] => r = q

ExecInv ==
    \A i \in DOMAIN execs :
        /\ execs[i].alert \in DOMAIN alerts
        /\ ~IsAllowlisted(execs[i].target)
        /\ execs[i].approved => \E j \in DOMAIN blocks : blocks[j].exec = i

\* A block belongs to an execution that was executed, with its approval if it needs
\* one, and to no other block's.
BlockInv ==
    \A j \in DOMAIN blocks :
        /\ blocks[j].exec \in DOMAIN execs
        /\ blocks[j].value = execs[blocks[j].exec].target
        /\ execs[blocks[j].exec].status \in {"executed", "rolled_back"}
        /\ Approval[execs[blocks[j].exec].playbook] => execs[blocks[j].exec].approved
        /\ \A k \in DOMAIN blocks : blocks[k].exec = blocks[j].exec => k = j

\* What a worker created for the alert it is in the middle of is for the same address.
AddressInv ==
    \A b \in Backends : \A i \in DOMAIN execs :
        /\ execs[i].by = b /\ execs[i].alert = worker[b].alert /\ worker[b].todo # {}
        => execs[i].ip = worker[b].ip

\* A worker in the middle of an alert has created, or still has to create, whatever is
\* due for it.
FullInv ==
    \A b \in Backends : worker[b].todo # {} =>
        \A p \in Playbooks : Due(worker[b].alert, p, worker[b].ip) =>
            (\E s \in worker[b].todo : s[1] = p) \/ Answered(b, worker[b].alert, p)

IInv ==
    /\ TypeOK
    /\ WorkerInv /\ OwnInv /\ ApplyInv /\ ApprovingInv /\ ExecInv /\ BlockInv
    /\ AddressInv /\ FullInv /\ OncePerBackend /\ AnsweredInFull

----------------------------------------------------------------------------
(* Types.                                                                  *)

LEMMA WorkerType ==
  ASSUME TypeOK, NEW b \in Backends
  PROVE  /\ worker[b] \in Worker
         /\ worker[b].pc \in {"idle", "query", "alerts", "apply"}
         /\ worker[b].queue \subseteq Nat \ {0}
         /\ worker[b].alert \in Nat
         /\ worker[b].ip \in Addressed
         /\ worker[b].todo \subseteq Playbooks \X Targets
         /\ worker[b].exec \in Nat
<1>1. worker[b] \in Worker
  BY DEF TypeOK
<1> QED
  BY <1>1 DEF Worker

LEMMA AlertType ==
  ASSUME TypeOK, NEW a \in DOMAIN alerts
  PROVE  a \in Nat \ {0} /\ alerts[a].kind \in Kinds /\ alerts[a].at \in Times
<1>1. alerts \in Seq(Alert)
  BY DEF TypeOK
<1>2. a \in Nat \ {0} /\ alerts[a] \in Alert
  BY <1>1
<1> QED
  BY <1>2 DEF Alert

LEMMA ExecType ==
  ASSUME TypeOK, NEW i \in DOMAIN execs
  PROVE  /\ i \in Nat \ {0}
         /\ execs[i] \in Execution
         /\ execs[i].playbook \in Playbooks
         /\ execs[i].alert \in Nat \ {0}
         /\ execs[i].target \in Targets
         /\ execs[i].status \in {"pending_approval", "executed", "rejected", "rolled_back"}
         /\ execs[i].expires \in Nat
         /\ execs[i].approved \in BOOLEAN
         /\ execs[i].by \in Backends
<1>1. execs \in Seq(Execution)
  BY DEF TypeOK
<1>2. i \in Nat \ {0} /\ execs[i] \in Execution
  BY <1>1
<1> QED
  BY <1>2 DEF Execution

LEMMA BlockType ==
  ASSUME TypeOK, NEW j \in DOMAIN blocks
  PROVE  /\ j \in Nat \ {0}
         /\ blocks[j] \in Block
         /\ blocks[j].type \in {"ip", "user"}
         /\ blocks[j].value \in Targets
         /\ blocks[j].exec \in Nat \ {0}
         /\ blocks[j].status \in {"active", "released"}
         /\ blocks[j].since \in Times
         /\ blocks[j].expires \in Nat
         /\ blocks[j].manual \in BOOLEAN
<1>1. blocks \in Seq(Block)
  BY DEF TypeOK
<1>2. j \in Nat \ {0} /\ blocks[j] \in Block
  BY <1>1
<1> QED
  BY <1>2 DEF Block

LEMMA IdleType == /\ Idle \in Worker
                  /\ Idle.pc = "idle" /\ Idle.queue = {} /\ Idle.todo = {}
BY DEF Idle, Worker, Addressed

\* A target that is not the empty string is one of an alert's.
LEMMA SelectedType ==
  ASSUME SoarAssumption, NEW k \in Kinds, NEW ip \in Addresses(k)
  PROVE  /\ ip \in Addressed
         /\ Selected(k, ip) \subseteq Playbooks \X Targets
         /\ \A s \in Selected(k, ip) : ~IsAllowlisted(s[2]) /\ s[2] = Target(s[1], k, ip)
         /\ \A s, u \in Selected(k, ip) : s[1] = u[1] => s = u
<1>1. ASSUME NEW x, x \in {k.key} \cup k.evidence, x # NoTarget PROVE x \in Targets
  BY <1>1 DEF Targets
<1>2. ip = NoTarget \/ ip \in {k.key} \cup k.evidence
  BY DEF Addresses
<1>3. ASSUME NEW p \in Playbooks, ~IsAllowlisted(Target(p, k, ip))
      PROVE  Target(p, k, ip) \in Targets
  <2>1. Target(p, k, ip) # NoTarget
    BY <1>3 DEF IsAllowlisted
  <2>2. Target(p, k, ip) = ip \/ Target(p, k, ip) = User(k)
    BY DEF Target, SoarAssumption
  <2>3. User(k) = NoTarget \/ User(k) = k.key
    BY DEF User
  <2> QED
    BY <1>1, <1>2, <2>1, <2>2, <2>3
<1>4. \A s \in Selected(k, ip) :
         \E p \in Playbooks : s = <<p, Target(p, k, ip)>> /\ ~IsAllowlisted(Target(p, k, ip))
  BY DEF Selected
<1>5. ip \in Addressed
  BY <1>1, <1>2 DEF Addressed
<1> QED
  BY <1>3, <1>4, <1>5

----------------------------------------------------------------------------
(* The effect of the steps.                                                *)

LEMMA WorkerReplaced ==
  ASSUME TypeOK, NEW b \in Backends, NEW t \in Worker, worker' = [worker EXCEPT ![b] = t]
  PROVE  /\ worker' \in [Backends -> Worker]
         /\ worker'[b] = t
         /\ \A c \in Backends : c # b => worker'[c] = worker[c]
BY DEF TypeOK

LEMMA ExecsReplaced ==
  ASSUME TypeOK, NEW i \in DOMAIN execs, NEW e \in Execution, execs' = [execs EXCEPT ![i] = e]
  PROVE  /\ execs' \in Seq(Execution)
         /\ DOMAIN execs' = DOMAIN execs
         /\ execs'[i] = e
         /\ \A k \in DOMAIN execs : k # i => execs'[k] = execs[k]
<1>1. execs \in Seq(Execution)
  BY DEF TypeOK
<1>2. /\ DOMAIN execs' = DOMAIN execs
      /\ execs'[i] = e
      /\ \A k \in DOMAIN execs : k # i => execs'[k] = execs[k]
  BY <1>1
<1>3. execs' \in Seq(Execution)
  BY <1>1, ExceptSeq
<1> QED
  BY <1>2, <1>3

LEMMA BlocksReplaced ==
  ASSUME TypeOK, NEW j \in DOMAIN blocks, NEW k \in Block, blocks' = [blocks EXCEPT ![j] = k]
  PROVE  /\ blocks' \in Seq(Block)
         /\ DOMAIN blocks' = DOMAIN blocks
         /\ blocks'[j] = k
         /\ \A i \in DOMAIN blocks : i # j => blocks'[i] = blocks[i]
<1>1. blocks \in Seq(Block)
  BY DEF TypeOK
<1>2. /\ DOMAIN blocks' = DOMAIN blocks
      /\ blocks'[j] = k
      /\ \A i \in DOMAIN blocks : i # j => blocks'[i] = blocks[i]
  BY <1>1
<1>3. blocks' \in Seq(Block)
  BY <1>1, ExceptSeq
<1> QED
  BY <1>2, <1>3

LEMMA BlocksAppended ==
  ASSUME TypeOK, NEW k \in Block, blocks' = Append(blocks, k)
  PROVE  /\ blocks' \in Seq(Block)
         /\ DOMAIN blocks' = DOMAIN blocks \cup {Len(blocks) + 1}
         /\ Len(blocks) + 1 \notin DOMAIN blocks
         /\ blocks'[Len(blocks) + 1] = k
         /\ \A i \in DOMAIN blocks : blocks'[i] = blocks[i]
<1>1. blocks \in Seq(Block)
  BY DEF TypeOK
<1> QED
  BY <1>1

\* The new block has the type of a block and the target of its execution.
LEMMA NewBlockType ==
  ASSUME SoarAssumption, TypeOK, NEW i \in DOMAIN execs
  PROVE  /\ NewBlock(i, clock) \in Block
         /\ NewBlock(i, clock).exec = i
         /\ NewBlock(i, clock).value = execs[i].target
<1>1. /\ i \in Nat \ {0} /\ execs[i].target \in Targets /\ execs[i].expires \in Nat
  BY ExecType
<1>2. clock \in Times
  BY DEF TypeOK
<1>3. EntityType(execs[i].playbook) \in {"ip", "user"}
  BY DEF EntityType
<1> QED
  BY <1>1, <1>2, <1>3 DEF NewBlock, Block

\* The record of a worker after a step that starts nothing new.
Quiet(c) ==
    /\ worker'[c].queue \subseteq worker[c].queue
    /\ worker'[c].todo = worker[c].todo \/ (worker'[c].todo = {} /\ faults' # 0)
    /\ worker'[c].todo # {} =>
          worker'[c].alert = worker[c].alert /\ worker'[c].ip = worker[c].ip
    /\ worker'[c].pc \in {"idle", "query"} => worker'[c].queue = {} /\ worker'[c].todo = {}
    /\ worker'[c].pc = "apply" => worker[c].pc = "apply" /\ worker'[c].exec = worker[c].exec

AllQuiet == worker' \in [Backends -> Worker] /\ \A c \in Backends : Quiet(c)

LEMMA SameIsQuiet ==
  ASSUME TypeOK, WorkerInv, NEW c \in Backends, worker'[c] = worker[c]
  PROVE  Quiet(c)
BY DEF WorkerInv, Quiet

LEMMA OneQuiet ==
  ASSUME TypeOK, WorkerInv, NEW b \in Backends, NEW t \in Worker,
         worker' = [worker EXCEPT ![b] = t], Quiet(b)
  PROVE  AllQuiet
BY WorkerReplaced, SameIsQuiet DEF AllQuiet

LEMMA UnchangedQuiet ==
  ASSUME TypeOK, WorkerInv, UNCHANGED worker
  PROVE  AllQuiet
BY SameIsQuiet DEF AllQuiet, TypeOK

LEMMA FaultNotZero ==
  ASSUME SoarAssumption, TypeOK, Fault
  PROVE  faults' # 0 /\ faults' \in 0 .. MaxFaults
BY DEF SoarAssumption, TypeOK, Fault

LEMMA QuietSteps ==
  ASSUME SoarAssumption, TypeOK, WorkerInv, NEW b \in Backends,
         \/ ReleaseExpired(b) \/ ReleaseFails(b)
         \/ \E a \in DOMAIN alerts : EvaluateFails(b, a)
         \/ CreateFails(b) \/ Apply(b) \/ ApplyFails(b) \/ Wait(b) \/ Crash(b)
  PROVE  AllQuiet
<1>0. worker[b] \in Worker
  BY WorkerType
<1>1. CASE ReleaseExpired(b) \/ ReleaseFails(b)
  <2> DEFINE t == [worker[b] EXCEPT !.pc = "query"]
  <2>1. worker' = [worker EXCEPT ![b] = t] /\ worker[b].pc = "idle"
    BY <1>1 DEF ReleaseExpired, ReleaseFails, TypeOK
  <2>2. /\ t \in Worker
        /\ t.pc = "query" /\ t.queue = worker[b].queue /\ t.todo = worker[b].todo
        /\ t.alert = worker[b].alert /\ t.ip = worker[b].ip
    BY <1>0 DEF Worker
  <2> HIDE DEF t
  <2>3. worker'[b] = t
    BY <2>1, <2>2, WorkerReplaced
  <2>4. Quiet(b)
    BY <2>1, <2>2, <2>3 DEF Quiet, WorkerInv
  <2> QED
    BY <2>1, <2>2, <2>4, OneQuiet
<1>2. CASE \E a \in DOMAIN alerts : EvaluateFails(b, a)
  <2>1. PICK a \in DOMAIN alerts : EvaluateFails(b, a)
    BY <1>2
  <2> DEFINE t == [worker[b] EXCEPT !.queue = worker[b].queue \ {a}]
  <2>2. worker' = [worker EXCEPT ![b] = t] /\ worker[b].pc = "alerts"
    BY <2>1 DEF EvaluateFails, TypeOK
  <2>3. /\ t \in Worker
        /\ t.pc = worker[b].pc /\ t.queue \subseteq worker[b].queue /\ t.todo = worker[b].todo
        /\ t.alert = worker[b].alert /\ t.ip = worker[b].ip
    BY <1>0 DEF Worker
  <2> HIDE DEF t
  <2>4. worker'[b] = t
    BY <2>2, <2>3, WorkerReplaced
  <2>5. Quiet(b)
    BY <2>2, <2>3, <2>4 DEF Quiet
  <2> QED
    BY <2>2, <2>3, <2>5, OneQuiet
<1>3. CASE CreateFails(b)
  <2> DEFINE t == [worker[b] EXCEPT !.todo = {}]
  <2>1. worker' = [worker EXCEPT ![b] = t] /\ worker[b].pc = "alerts" /\ Fault
    BY <1>3 DEF CreateFails, TypeOK
  <2>2. /\ t \in Worker
        /\ t.pc = worker[b].pc /\ t.queue = worker[b].queue /\ t.todo = {}
    BY <1>0 DEF Worker
  <2> HIDE DEF t
  <2>3. worker'[b] = t
    BY <2>1, <2>2, WorkerReplaced
  <2>4. Quiet(b)
    BY <2>1, <2>2, <2>3, FaultNotZero DEF Quiet
  <2> QED
    BY <2>1, <2>2, <2>4, OneQuiet
<1>4. CASE Apply(b) \/ ApplyFails(b)
  <2> DEFINE t == [worker[b] EXCEPT !.pc = "alerts", !.exec = 0]
  <2>1. worker' = [worker EXCEPT ![b] = t]
    BY <1>4 DEF Apply, ApplyFails, TypeOK
  <2>2. /\ t \in Worker
        /\ t.pc = "alerts" /\ t.queue = worker[b].queue /\ t.todo = worker[b].todo
        /\ t.alert = worker[b].alert /\ t.ip = worker[b].ip
    BY <1>0 DEF Worker
  <2> HIDE DEF t
  <2>3. worker'[b] = t
    BY <2>1, <2>2, WorkerReplaced
  <2>4. Quiet(b)
    BY <2>1, <2>2, <2>3 DEF Quiet
  <2> QED
    BY <2>1, <2>2, <2>4, OneQuiet
<1>5. CASE Wait(b) \/ Crash(b)
  <2>1. /\ worker' = [worker EXCEPT ![b] = Idle]
        /\ worker[b].todo = {} \/ Fault
    BY <1>5 DEF Wait, Crash
  <2>2. worker'[b] = Idle
    BY <2>1, IdleType, WorkerReplaced
  <2>3. Quiet(b)
    BY <2>1, <2>2, IdleType, FaultNotZero DEF Quiet
  <2> QED
    BY <2>1, <2>3, IdleType, OneQuiet
<1> QED
  BY <1>1, <1>2, <1>3, <1>4, <1>5

\* The records after the steps that do start something.
LEMMA QueryEffect ==
  ASSUME TypeOK, NEW b \in Backends, Query(b)
  PROVE  /\ worker' \in [Backends -> Worker]
         /\ worker[b].pc = "query" /\ worker'[b].pc = "alerts"
         /\ worker'[b].queue \subseteq Unanswered
         /\ worker'[b].todo = worker[b].todo /\ worker'[b].alert = worker[b].alert
         /\ worker'[b].ip = worker[b].ip
         /\ \A c \in Backends : c # b => worker'[c] = worker[c]
<1> DEFINE t == [worker[b] EXCEPT !.pc = "alerts", !.queue = Newest(Unanswered)]
<1>1. worker[b] \in Worker
  BY WorkerType
<1>2. Newest(Unanswered) \subseteq Unanswered /\ Unanswered \subseteq Nat \ {0}
  BY AlertType DEF Newest, Unanswered
<1>3. /\ t \in Worker
      /\ t.pc = "alerts" /\ t.queue \subseteq Unanswered
      /\ t.todo = worker[b].todo /\ t.alert = worker[b].alert /\ t.ip = worker[b].ip
  BY <1>1, <1>2 DEF Worker
<1>4. worker' = [worker EXCEPT ![b] = t] /\ worker[b].pc = "query"
  BY DEF Query, TypeOK
<1> HIDE DEF t
<1>5. /\ worker' \in [Backends -> Worker]
      /\ worker'[b] = t
      /\ \A c \in Backends : c # b => worker'[c] = worker[c]
  BY <1>3, <1>4, WorkerReplaced
<1> QED
  BY <1>3, <1>4, <1>5

LEMMA EvaluateEffect ==
  ASSUME SoarAssumption, TypeOK, NEW b \in Backends, NEW a \in DOMAIN alerts, Evaluate(b, a)
  PROVE  \E ip \in Addresses(alerts[a].kind) :
           /\ worker' \in [Backends -> Worker]
           /\ worker[b].pc = "alerts" /\ worker[b].todo = {} /\ a \in worker[b].queue
           /\ worker'[b].pc = "alerts"
           /\ worker'[b].queue = worker[b].queue \ {a}
           /\ worker'[b].alert = a
           /\ worker'[b].ip = ip
           /\ worker'[b].todo = Selected(alerts[a].kind, ip)
           /\ \A c \in Backends : c # b => worker'[c] = worker[c]
<1>1. PICK ip \in Addresses(alerts[a].kind) :
         worker' = [worker EXCEPT ![b].queue = worker[b].queue \ {a}, ![b].alert = a,
                                  ![b].ip = ip, ![b].todo = Selected(alerts[a].kind, ip)]
  BY DEF Evaluate, TypeOK
<1> DEFINE S == Selected(alerts[a].kind, ip)
           t == [worker[b] EXCEPT !.queue = worker[b].queue \ {a}, !.alert = a, !.ip = ip,
                               !.todo = S]
<1>2. /\ worker[b].pc = "alerts" /\ worker[b].todo = {} /\ a \in worker[b].queue
  BY DEF Evaluate, IsNext
<1>3. worker' = [worker EXCEPT ![b] = t]
  BY <1>1 DEF TypeOK
<1>4. S \subseteq Playbooks \X Targets /\ ip \in Addressed
  BY AlertType, SelectedType
<1>5. worker[b] \in Worker /\ a \in Nat
  BY WorkerType, AlertType
<1> HIDE DEF S
<1>6. /\ t \in Worker
      /\ t.pc = "alerts" /\ t.queue = worker[b].queue \ {a} /\ t.alert = a /\ t.ip = ip /\ t.todo = S
  BY <1>2, <1>4, <1>5 DEF Worker
<1> HIDE DEF t
<1>7. /\ worker' \in [Backends -> Worker]
      /\ worker'[b] = t
      /\ \A c \in Backends : c # b => worker'[c] = worker[c]
  BY <1>3, <1>6, WorkerReplaced
<1> QED
  BY <1>1, <1>2, <1>6, <1>7 DEF S

\* Worker b creates execution n, of playbook p for target x.
Created(b, p, x, n) ==
    /\ worker' \in [Backends -> Worker]
    /\ worker[b].pc = "alerts" /\ <<p, x>> \in worker[b].todo
    /\ worker'[b].queue = worker[b].queue /\ worker'[b].alert = worker[b].alert
    /\ worker'[b].ip = worker[b].ip
    /\ worker'[b].todo = worker[b].todo \ {<<p, x>>}
    /\ \/ Approval[p] /\ worker'[b].pc = "alerts"
       \/ ~Approval[p] /\ worker'[b].pc = "apply" /\ worker'[b].exec = n
    /\ \A c \in Backends : c # b => worker'[c] = worker[c]
    /\ execs' \in Seq(Execution)
    /\ n \notin DOMAIN execs /\ DOMAIN execs' = DOMAIN execs \cup {n}
    /\ \A i \in DOMAIN execs : execs'[i] = execs[i]
    /\ execs'[n].playbook = p /\ execs'[n].alert = worker[b].alert /\ execs'[n].target = x
    /\ execs'[n].by = b /\ execs'[n].ip = worker[b].ip /\ execs'[n].approved = FALSE
    /\ execs'[n].status = IF Approval[p] THEN "pending_approval" ELSE "executed"

LEMMA CreateEffect ==
  ASSUME SoarAssumption, TypeOK, WorkerInv, NEW b \in Backends, NEW p \in Playbooks,
         NEW x \in Targets, Create(b, p, x)
  PROVE  \E n : Created(b, p, x, n)
<1>0. PICK n : n = Len(execs) + 1
  OBVIOUS
<1> DEFINE t == [worker[b] EXCEPT !.todo = worker[b].todo \ {<<p, x>>},
                                  !.pc = IF Approval[p] THEN "alerts" ELSE "apply",
                                  !.exec = IF Approval[p] THEN 0 ELSE n]
           e == [playbook |-> p, alert |-> worker[b].alert, target |-> x,
                 status |-> IF Approval[p] THEN "pending_approval" ELSE "executed",
                 expires |-> clock + TTL[p], approved |-> FALSE, by |-> b,
                 ip |-> worker[b].ip]
<1>1. /\ worker[b].pc = "alerts" /\ <<p, x>> \in worker[b].todo
      /\ execs' = Append(execs, e)
      /\ worker' = [worker EXCEPT ![b] = t]
  BY <1>0 DEF Create, TypeOK
<1>2. execs \in Seq(Execution) /\ n \in Nat /\ Approval[p] \in BOOLEAN
  BY <1>0, LenProperties DEF TypeOK, SoarAssumption
<1>3. /\ t \in Worker
      /\ t.queue = worker[b].queue /\ t.alert = worker[b].alert /\ t.ip = worker[b].ip
      /\ t.todo = worker[b].todo \ {<<p, x>>}
      /\ \/ Approval[p] /\ t.pc = "alerts"
         \/ ~Approval[p] /\ t.pc = "apply" /\ t.exec = n
  <2>1. worker[b] \in Worker
    BY WorkerType
  <2> QED
    BY <1>2, <2>1 DEF Worker
<1>4. /\ e \in Execution
      /\ e.playbook = p /\ e.alert = worker[b].alert /\ e.target = x
      /\ e.by = b /\ e.ip = worker[b].ip /\ e.approved = FALSE
      /\ e.status = IF Approval[p] THEN "pending_approval" ELSE "executed"
  <2>1. worker[b].alert \in Nat \ {0}
    BY <1>1, AlertType DEF WorkerInv
  <2>2. clock + TTL[p] \in Nat
    BY DEF TypeOK, Times, SoarAssumption
  <2> QED
    BY <2>1, <2>2, WorkerType DEF Execution
<1> HIDE DEF t, e
<1>5. /\ worker' \in [Backends -> Worker]
      /\ worker'[b] = t
      /\ \A c \in Backends : c # b => worker'[c] = worker[c]
  BY <1>1, <1>3, WorkerReplaced
<1>6. /\ execs' \in Seq(Execution)
      /\ n \notin DOMAIN execs /\ DOMAIN execs' = DOMAIN execs \cup {n}
      /\ \A i \in DOMAIN execs : execs'[i] = execs[i]
      /\ execs'[n] = e
  BY <1>0, <1>1, <1>2, <1>4
<1>7. Created(b, p, x, n)
  BY <1>1, <1>3, <1>4, <1>5, <1>6 DEF Created
<1> QED
  BY <1>7

LEMMA ReleaseExpiredEffect ==
  ASSUME TypeOK, NEW b \in Backends, ReleaseExpired(b)
  PROVE  /\ blocks' \in Seq(Block)
         /\ DOMAIN blocks' = DOMAIN blocks
         /\ \A j \in DOMAIN blocks :
               /\ blocks'[j].exec = blocks[j].exec /\ blocks'[j].value = blocks[j].value
               /\ blocks[j].status = "released" => blocks'[j] = blocks[j]
<1> DEFINE f(j) == IF blocks[j].status = "active" /\ blocks[j].expires <= clock
                   THEN [blocks[j] EXCEPT !.status = "released"] ELSE blocks[j]
<1>1. blocks' = [j \in DOMAIN blocks |-> f(j)]
  BY DEF ReleaseExpired
<1>2. blocks \in Seq(Block) /\ Len(blocks) \in Nat /\ DOMAIN blocks = 1 .. Len(blocks)
  BY LenProperties DEF TypeOK
<1>3. \A j \in DOMAIN blocks :
         /\ f(j) \in Block
         /\ f(j).exec = blocks[j].exec /\ f(j).value = blocks[j].value
         /\ blocks[j].status = "released" => f(j) = blocks[j]
  <2>1. TAKE j \in DOMAIN blocks
  <2>2. blocks[j] \in Block
    BY BlockType
  <2> QED
    BY <2>2 DEF Block
<1> HIDE DEF f
<1>4. blocks' \in Seq(Block)
  BY <1>1, <1>2, <1>3
<1> QED
  BY <1>1, <1>3, <1>4

\* The steps that decide an execution change its status and its approval only.
Decides(i, st) ==
    /\ execs' \in Seq(Execution)
    /\ i \in DOMAIN execs /\ DOMAIN execs' = DOMAIN execs
    /\ \A k \in DOMAIN execs : k # i => execs'[k] = execs[k]
    /\ execs'[i].status = st
    /\ execs'[i].playbook = execs[i].playbook /\ execs'[i].alert = execs[i].alert
    /\ execs'[i].target = execs[i].target /\ execs'[i].by = execs[i].by
    /\ execs'[i].expires = execs[i].expires /\ execs'[i].ip = execs[i].ip

LEMMA RejectEffect ==
  ASSUME TypeOK, NEW i \in DOMAIN execs, Reject(i)
  PROVE  Decides(i, "rejected") /\ execs'[i].approved = execs[i].approved
<1> DEFINE e == [execs[i] EXCEPT !.status = "rejected"]
<1>1. execs[i] \in Execution
  BY ExecType
<1>2. /\ e \in Execution
      /\ e.status = "rejected" /\ e.playbook = execs[i].playbook /\ e.alert = execs[i].alert
      /\ e.target = execs[i].target /\ e.by = execs[i].by /\ e.approved = execs[i].approved
      /\ e.expires = execs[i].expires /\ e.ip = execs[i].ip
  BY <1>1 DEF Execution
<1>3. execs' = [execs EXCEPT ![i] = e]
  BY DEF Reject, TypeOK
<1> HIDE DEF e
<1> QED
  BY <1>2, <1>3, ExecsReplaced DEF Decides

LEMMA CommitApprovalEffect ==
  ASSUME SoarAssumption, TypeOK, ApprovingInv, NEW q \in Requests, CommitApproval(q)
  PROVE  LET i == approving[q]
             n == Len(blocks) + 1
         IN  /\ Decides(i, "executed") /\ execs'[i].approved = TRUE
             /\ execs[i].status = "pending_approval"
             /\ blocks' \in Seq(Block)
             /\ n \notin DOMAIN blocks /\ DOMAIN blocks' = DOMAIN blocks \cup {n}
             /\ \A j \in DOMAIN blocks : blocks'[j] = blocks[j]
             /\ blocks'[n].exec = i /\ blocks'[n].value = execs[i].target
             /\ approving' \in [Requests -> Nat]
             /\ approving'[q] = 0
             /\ \A r \in Requests : r # q => approving'[r] = approving[r]
<1>1. PICK i : i = approving[q]
  OBVIOUS
<1>2. i \in DOMAIN execs /\ execs[i].status = "pending_approval"
  BY <1>1 DEF CommitApproval, ApprovingInv
<1> DEFINE e == [execs[i] EXCEPT !.status = "executed", !.approved = TRUE]
<1>3. execs[i] \in Execution
  BY <1>2, ExecType
<1>4. /\ e \in Execution
      /\ e.status = "executed" /\ e.playbook = execs[i].playbook /\ e.alert = execs[i].alert
      /\ e.target = execs[i].target /\ e.by = execs[i].by /\ e.approved = TRUE
      /\ e.expires = execs[i].expires /\ e.ip = execs[i].ip
  BY <1>3 DEF Execution
<1>5. execs' = [execs EXCEPT ![i] = e] /\ blocks' = Append(blocks, NewBlock(i, clock))
  BY <1>1 DEF CommitApproval, TypeOK
<1>6. /\ NewBlock(i, clock) \in Block
      /\ NewBlock(i, clock).exec = i /\ NewBlock(i, clock).value = execs[i].target
  BY <1>2, NewBlockType
<1> HIDE DEF e
<1>7. Decides(i, "executed") /\ execs'[i].approved = TRUE
  BY <1>2, <1>4, <1>5, ExecsReplaced DEF Decides
<1>8. PICK k \in Block : k = NewBlock(i, clock) /\ k.exec = i /\ k.value = execs[i].target
  BY <1>6
<1>9. /\ blocks' \in Seq(Block)
      /\ Len(blocks) + 1 \notin DOMAIN blocks
      /\ DOMAIN blocks' = DOMAIN blocks \cup {Len(blocks) + 1}
      /\ \A j \in DOMAIN blocks : blocks'[j] = blocks[j]
      /\ blocks'[Len(blocks) + 1] = k
  BY <1>5, <1>8, BlocksAppended
<1>10. /\ approving' \in [Requests -> Nat]
       /\ approving'[q] = 0
       /\ \A r \in Requests : r # q => approving'[r] = approving[r]
  BY DEF CommitApproval, TypeOK
<1> QED
  BY <1>1, <1>2, <1>7, <1>8, <1>9, <1>10

LEMMA ApplyEffect ==
  ASSUME SoarAssumption, TypeOK, ApplyInv, NEW b \in Backends, Apply(b)
  PROVE  LET i == worker[b].exec
             n == Len(blocks) + 1
         IN  /\ worker[b].pc = "apply" /\ worker'[b].pc = "alerts" /\ i \in DOMAIN execs
             /\ \A c \in Backends : c # b => worker'[c] = worker[c]
             /\ blocks' \in Seq(Block)
             /\ n \notin DOMAIN blocks /\ DOMAIN blocks' = DOMAIN blocks \cup {n}
             /\ \A j \in DOMAIN blocks : blocks'[j] = blocks[j]
             /\ blocks'[n].exec = i /\ blocks'[n].value = execs[i].target
<1>1. PICK i : i = worker[b].exec
  OBVIOUS
<1>2. i \in DOMAIN execs /\ worker[b].pc = "apply"
  BY <1>1 DEF Apply, ApplyInv
<1>3. PICK k \in Block : k = NewBlock(i, clock) /\ k.exec = i /\ k.value = execs[i].target
  BY <1>2, NewBlockType
<1>4. blocks' = Append(blocks, k)
  BY <1>1, <1>3 DEF Apply
<1>5. /\ blocks' \in Seq(Block)
      /\ Len(blocks) + 1 \notin DOMAIN blocks
      /\ DOMAIN blocks' = DOMAIN blocks \cup {Len(blocks) + 1}
      /\ \A j \in DOMAIN blocks : blocks'[j] = blocks[j]
      /\ blocks'[Len(blocks) + 1] = k
  BY <1>4, BlocksAppended
<1>6. worker'[b].pc = "alerts" /\ \A c \in Backends : c # b => worker'[c] = worker[c]
  <2>1. worker[b] \in Worker
    BY WorkerType
  <2>2. worker' = [worker EXCEPT ![b] = [worker[b] EXCEPT !.pc = "alerts", !.exec = 0]]
    BY DEF Apply, TypeOK
  <2> QED
    BY <2>1, <2>2 DEF TypeOK, Worker
<1> QED
  BY <1>1, <1>2, <1>3, <1>5, <1>6

LEMMA ReleaseEffect ==
  ASSUME TypeOK, BlockInv, NEW j \in DOMAIN blocks, ReleaseBlockedEntity(j)
  PROVE  LET i == blocks[j].exec IN
         /\ Decides(i, "rolled_back") /\ execs'[i].approved = execs[i].approved
         /\ execs[i].status \in {"executed", "rolled_back"}
         /\ blocks' \in Seq(Block)
         /\ DOMAIN blocks' = DOMAIN blocks
         /\ blocks[j].status = "active" /\ blocks'[j].status = "released"
         /\ \A k \in DOMAIN blocks :
               /\ blocks'[k].exec = blocks[k].exec /\ blocks'[k].value = blocks[k].value
               /\ k # j => blocks'[k] = blocks[k]
<1>1. PICK i : i = blocks[j].exec
  OBVIOUS
<1>2. i \in DOMAIN execs /\ execs[i].status \in {"executed", "rolled_back"}
  BY <1>1 DEF BlockInv
<1> DEFINE e == [execs[i] EXCEPT !.status = "rolled_back"]
           k == [blocks[j] EXCEPT !.status = "released", !.manual = TRUE]
<1>3. execs[i] \in Execution /\ blocks[j] \in Block
  BY <1>2, ExecType, BlockType
<1>4. /\ e \in Execution
      /\ e.status = "rolled_back" /\ e.playbook = execs[i].playbook /\ e.alert = execs[i].alert
      /\ e.target = execs[i].target /\ e.by = execs[i].by /\ e.approved = execs[i].approved
      /\ e.expires = execs[i].expires /\ e.ip = execs[i].ip
  BY <1>3 DEF Execution
<1>5. k \in Block /\ k.exec = blocks[j].exec /\ k.value = blocks[j].value /\ k.status = "released"
  BY <1>3 DEF Block
<1>6. /\ blocks[j].status = "active"
      /\ execs' = [execs EXCEPT ![i] = e] /\ blocks' = [blocks EXCEPT ![j] = k]
  BY <1>1 DEF ReleaseBlockedEntity, TypeOK
<1> HIDE DEF e, k
<1>7. Decides(i, "rolled_back") /\ execs'[i].approved = execs[i].approved
  BY <1>2, <1>4, <1>6, ExecsReplaced DEF Decides
<1>8. /\ blocks' \in Seq(Block)
      /\ DOMAIN blocks' = DOMAIN blocks
      /\ blocks'[j] = k
      /\ \A m \in DOMAIN blocks : m # j => blocks'[m] = blocks[m]
  BY <1>5, <1>6, BlocksReplaced
<1> QED
  BY <1>1, <1>2, <1>5, <1>6, <1>7, <1>8

LEMMA RaiseEffect ==
  ASSUME TypeOK, NEW k \in Kinds, Raise(k)
  PROVE  /\ alerts' \in Seq(Alert)
         /\ DOMAIN alerts \subseteq DOMAIN alerts'
         /\ \A a \in DOMAIN alerts : alerts'[a] = alerts[a]
<1>1. alerts \in Seq(Alert) /\ [kind |-> k, at |-> clock] \in Alert
  BY DEF TypeOK, Alert
<1>2. alerts' = Append(alerts, [kind |-> k, at |-> clock])
  BY DEF Raise
<1> QED
  BY <1>1, <1>2

----------------------------------------------------------------------------
(* The steps, by what they change.                                         *)

Silent == AllQuiet /\ UNCHANGED <<alerts, execs, blocks, approving>>

Steps ==
    \/ Silent
    \/ \E b \in Backends : ReleaseExpired(b) \/ Query(b) \/ Apply(b)
    \/ \E b \in Backends, a \in DOMAIN alerts : Evaluate(b, a)
    \/ \E b \in Backends, p \in Playbooks, x \in Targets : Create(b, p, x)
    \/ \E q \in Requests, i \in DOMAIN execs : BeginApproval(q, i)
    \/ \E q \in Requests : CommitApproval(q) \/ AbortApproval(q)
    \/ \E i \in DOMAIN execs : Reject(i)
    \/ \E j \in DOMAIN blocks : ReleaseBlockedEntity(j)
    \/ \E k \in Kinds : Raise(k)

LEMMA StepCases ==
  ASSUME SoarAssumption, TypeOK, WorkerInv, [Next]_vars
  PROVE  Steps
<1>1. CASE UNCHANGED vars \/ Tick
  BY <1>1, UnchangedQuiet DEF vars, Tick, Steps, Silent
<1>2. ASSUME NEW b \in Backends, WorkerFails(b) PROVE Steps
  <2>1. CASE ReleaseFails(b) \/ CreateFails(b) \/ ApplyFails(b) \/ Crash(b)
    BY <2>1, QuietSteps DEF Steps, Silent, ReleaseFails, CreateFails, ApplyFails, Crash
  <2>2. CASE \E a \in DOMAIN alerts : EvaluateFails(b, a)
    BY <2>2, QuietSteps DEF Steps, Silent, EvaluateFails
  <2> QED
    BY <1>2, <2>1, <2>2 DEF WorkerFails
<1>3. ASSUME NEW b \in Backends, WorkerRuns(b) PROVE Steps
  <2>1. CASE Wait(b)
    BY <2>1, QuietSteps DEF Steps, Silent, Wait
  <2>2. CASE ~Wait(b)
    BY <1>3, <2>2 DEF Steps, WorkerRuns
  <2> QED
    BY <2>1, <2>2
<1>4. CASE Analyst
  BY <1>4 DEF Steps, Analyst
<1>5. CASE \E k \in Kinds : Raise(k)
  BY <1>5 DEF Steps
<1> QED
  BY <1>1, <1>2, <1>3, <1>4, <1>5 DEF Next

\* The clock and the count of faults.
LEMMA NextCounters ==
  ASSUME SoarAssumption, TypeOK, [Next]_vars
  PROVE  /\ clock' \in Times /\ faults' \in 0 .. MaxFaults
         /\ faults' = 0 => faults = 0
<1> SUFFICES /\ clock' = clock \/ Tick
             /\ faults' = faults \/ Fault
  BY FaultNotZero DEF TypeOK, SoarAssumption, Times, Tick
<1>1. CASE UNCHANGED vars \/ Tick \/ \E k \in Kinds : Raise(k)
  BY <1>1 DEF vars, Tick, Raise
<1>2. ASSUME NEW b \in Backends, WorkerRuns(b)
      PROVE  clock' = clock /\ faults' = faults
  BY <1>2 DEF WorkerRuns, ReleaseExpired, Query, Evaluate, Create, Apply, Wait
<1>3. ASSUME NEW b \in Backends, WorkerFails(b)
      PROVE  clock' = clock /\ Fault
  BY <1>3 DEF WorkerFails, ReleaseFails, EvaluateFails, CreateFails, ApplyFails,
              Crash
<1>4. CASE Analyst
  BY <1>4 DEF Analyst, BeginApproval, CommitApproval, AbortApproval, Reject,
              ReleaseBlockedEntity
<1> QED
  BY <1>1, <1>2, <1>3, <1>4 DEF Next

LEMMA NextType ==
  ASSUME SoarAssumption, TypeOK, WorkerInv, ApplyInv, ApprovingInv, BlockInv, [Next]_vars
  PROVE  TypeOK'
<1>1. clock' \in Times /\ faults' \in 0 .. MaxFaults
  BY NextCounters
<1>2. Steps
  BY StepCases
<1>3. alerts' \in Seq(Alert)
  BY <1>2, RaiseEffect
  DEF TypeOK, Steps, Silent, ReleaseExpired, Query, Apply, Evaluate, Create,
      BeginApproval, CommitApproval, AbortApproval, Reject, ReleaseBlockedEntity
<1>4. execs' \in Seq(Execution)
  BY <1>2, CreateEffect, CommitApprovalEffect, RejectEffect, ReleaseEffect
  DEF Created, TypeOK, Steps, Silent, ReleaseExpired, Query, Apply, Evaluate,
      BeginApproval, AbortApproval, Raise, Decides
<1>5. blocks' \in Seq(Block)
  BY <1>2, ReleaseExpiredEffect, ApplyEffect, CommitApprovalEffect, ReleaseEffect
  DEF TypeOK, Steps, Silent, Query, Evaluate, Create, BeginApproval,
      AbortApproval, Reject, Raise
<1>6. worker' \in [Backends -> Worker]
  <2>1. CASE \E b \in Backends : ReleaseExpired(b) \/ Apply(b)
    BY <2>1, QuietSteps DEF AllQuiet
  <2>2. CASE \E b \in Backends, a \in DOMAIN alerts : Evaluate(b, a)
    BY <2>2, EvaluateEffect
  <2> QED
    BY <1>2, <2>1, <2>2, QueryEffect, CreateEffect
    DEF Created, TypeOK, Steps, Silent, AllQuiet, BeginApproval, CommitApproval, AbortApproval, Reject,
        ReleaseBlockedEntity, Raise
<1>7. approving' \in [Requests -> Nat]
  <2>1. CASE \E q \in Requests, i \in DOMAIN execs : BeginApproval(q, i)
    BY <2>1, ExecType DEF BeginApproval, TypeOK
  <2>2. CASE \E q \in Requests : CommitApproval(q) \/ AbortApproval(q)
    BY <2>2 DEF CommitApproval, AbortApproval, TypeOK
  <2> QED
    BY <1>2, <2>1, <2>2
    DEF TypeOK, Steps, Silent, ReleaseExpired, Query, Apply, Evaluate, Create,
        Reject, ReleaseBlockedEntity, Raise
<1> QED
  BY <1>1, <1>3, <1>4, <1>5, <1>6, <1>7 DEF TypeOK

\* What was raised or created stays, and keeps what it is about.
Keeps ==
    /\ DOMAIN alerts \subseteq DOMAIN alerts'
    /\ \A a \in DOMAIN alerts : alerts'[a] = alerts[a]
    /\ DOMAIN execs \subseteq DOMAIN execs'
    /\ \A i \in DOMAIN execs :
          /\ execs'[i].playbook = execs[i].playbook /\ execs'[i].alert = execs[i].alert
          /\ execs'[i].target = execs[i].target /\ execs'[i].by = execs[i].by
          /\ execs'[i].ip = execs[i].ip
    /\ DOMAIN blocks \subseteq DOMAIN blocks'
    /\ \A j \in DOMAIN blocks :
          blocks'[j].exec = blocks[j].exec /\ blocks'[j].value = blocks[j].value

Creates == \E b \in Backends, p \in Playbooks, x \in Targets : Create(b, p, x)

LEMMA NextKeeps ==
  ASSUME SoarAssumption, TypeOK, WorkerInv, ApplyInv, ApprovingInv, BlockInv, [Next]_vars
  PROVE  /\ Keeps
         /\ Creates \/ DOMAIN execs' = DOMAIN execs
<1>1. Steps
  BY StepCases
<1>2. /\ DOMAIN alerts \subseteq DOMAIN alerts'
      /\ \A a \in DOMAIN alerts : alerts'[a] = alerts[a]
  BY <1>1, RaiseEffect
  DEF Steps, Silent, ReleaseExpired, Query, Apply, Evaluate, Create,
      BeginApproval, CommitApproval, AbortApproval, Reject, ReleaseBlockedEntity
<1>3. CASE Creates
  <2>1. PICK b \in Backends, p \in Playbooks, x \in Targets : Create(b, p, x)
    BY <1>3 DEF Creates
  <2>2. /\ DOMAIN execs \subseteq DOMAIN execs'
        /\ \A i \in DOMAIN execs : execs'[i] = execs[i]
    <3>1. PICK n : Created(b, p, x, n)
      BY <2>1, CreateEffect
    <3> QED
      BY <3>1 DEF Created
  <2>3. blocks' = blocks
    BY <2>1 DEF Create
  <2> QED
    BY <1>2, <1>3, <2>2, <2>3 DEF Keeps
<1>4. CASE ~Creates
  <2>1. \/ execs' = execs
        \/ \E i \in DOMAIN execs, st \in {"executed", "rejected", "rolled_back"} : Decides(i, st)
    <3>1. CASE \E q \in Requests : CommitApproval(q)
      <4>1. PICK q \in Requests : CommitApproval(q)
        BY <3>1
      <4>2. PICK i : i = approving[q]
        OBVIOUS
      <4>3. Decides(i, "executed")
        BY <4>1, <4>2, CommitApprovalEffect
      <4> QED
        BY <4>3 DEF Decides
    <3>2. CASE \E i \in DOMAIN execs : Reject(i)
      <4>1. PICK i \in DOMAIN execs : Reject(i)
        BY <3>2
      <4>2. Decides(i, "rejected")
        BY <4>1, RejectEffect
      <4> QED
        BY <4>2
    <3>3. CASE \E j \in DOMAIN blocks : ReleaseBlockedEntity(j)
      <4>1. PICK j \in DOMAIN blocks : ReleaseBlockedEntity(j)
        BY <3>3
      <4>2. PICK i : i = blocks[j].exec
        OBVIOUS
      <4>3. Decides(i, "rolled_back")
        BY <4>1, <4>2, ReleaseEffect
      <4> QED
        BY <4>3 DEF Decides
    <3> QED
      BY <1>1, <1>4, <3>1, <3>2, <3>3
      DEF Creates, Steps, Silent, ReleaseExpired, Query, Apply, Evaluate,
          BeginApproval, AbortApproval, Raise
  <2>2. /\ DOMAIN execs' = DOMAIN execs
        /\ \A i \in DOMAIN execs :
              /\ execs'[i].playbook = execs[i].playbook /\ execs'[i].alert = execs[i].alert
              /\ execs'[i].target = execs[i].target /\ execs'[i].by = execs[i].by
              /\ execs'[i].ip = execs[i].ip
    BY <2>1 DEF Decides
  <2>3. /\ DOMAIN blocks \subseteq DOMAIN blocks'
        /\ \A j \in DOMAIN blocks :
              blocks'[j].exec = blocks[j].exec /\ blocks'[j].value = blocks[j].value
    BY <1>1, ReleaseExpiredEffect, ApplyEffect, CommitApprovalEffect, ReleaseEffect
    DEF Steps, Silent, Query, Evaluate, Create, BeginApproval,
        AbortApproval, Reject, Raise
  <2> QED
    BY <1>2, <2>2, <2>3 DEF Keeps
<1> QED
  BY <1>3, <1>4

----------------------------------------------------------------------------
(* The worker's part of the invariant.                                     *)

\* The steps, by what they do to the workers.
LEMMA WorkerCases ==
  ASSUME SoarAssumption, TypeOK, WorkerInv, [Next]_vars
  PROVE  \/ AllQuiet
         \/ \E b \in Backends : Query(b)
         \/ \E b \in Backends, a \in DOMAIN alerts : Evaluate(b, a)
         \/ Creates
<1>1. Steps
  BY StepCases
<1>2. CASE \E b \in Backends : ReleaseExpired(b) \/ Apply(b)
  BY <1>2, QuietSteps
<1>3. CASE UNCHANGED worker
  BY <1>3, UnchangedQuiet
<1> QED
  BY <1>1, <1>2, <1>3
  DEF Steps, Silent, Creates, BeginApproval, CommitApproval, AbortApproval, Reject,
      ReleaseBlockedEntity, Raise

LEMMA NextWorkerInv ==
  ASSUME SoarAssumption, TypeOK, WorkerInv, Keeps, [Next]_vars
  PROVE  WorkerInv'
<1>1. CASE AllQuiet
  BY <1>1 DEF AllQuiet, Quiet, WorkerInv, Keeps
<1>2. ASSUME NEW b \in Backends, Query(b) PROVE WorkerInv'
  <2>1. /\ worker[b].pc = "query" /\ worker'[b].pc = "alerts"
        /\ worker'[b].queue \subseteq Unanswered
        /\ worker'[b].todo = worker[b].todo
        /\ \A c \in Backends : c # b => worker'[c] = worker[c]
    BY <1>2, QueryEffect
  <2>2. worker'[b].todo = {}
    BY <2>1 DEF WorkerInv
  <2>3. worker'[b].queue \subseteq DOMAIN alerts'
    BY <2>1 DEF Unanswered, Keeps
  <2> QED
    BY <2>1, <2>2, <2>3 DEF WorkerInv, Keeps
<1>3. ASSUME NEW b \in Backends, NEW a \in DOMAIN alerts, Evaluate(b, a) PROVE WorkerInv'
  <2>1. PICK ip \in Addresses(alerts[a].kind) :
           /\ worker[b].pc = "alerts" /\ a \in worker[b].queue
           /\ worker'[b].pc = "alerts"
           /\ worker'[b].queue = worker[b].queue \ {a}
           /\ worker'[b].alert = a
           /\ worker'[b].todo = Selected(alerts[a].kind, ip)
           /\ \A c \in Backends : c # b => worker'[c] = worker[c]
    BY <1>3, EvaluateEffect
  <2>2. alerts[a].kind \in Kinds
    BY AlertType
  <2>3. /\ \A s \in worker'[b].todo : ~IsAllowlisted(s[2])
        /\ \A s, u \in worker'[b].todo : s[1] = u[1] => s = u
    BY <2>1, <2>2, SelectedType
  <2> QED
    BY <2>1, <2>3 DEF WorkerInv, Keeps
<1>4. CASE Creates
  <2>1. PICK b \in Backends, p \in Playbooks, x \in Targets : Create(b, p, x)
    BY <1>4 DEF Creates
  <2>2. PICK n : Created(b, p, x, n)
    BY <2>1, CreateEffect
  <2>3. /\ worker[b].pc = "alerts"
        /\ worker'[b].pc \in {"alerts", "apply"}
        /\ worker'[b].queue = worker[b].queue /\ worker'[b].alert = worker[b].alert
        /\ worker'[b].todo \subseteq worker[b].todo
        /\ \A c \in Backends : c # b => worker'[c] = worker[c]
    BY <2>2 DEF Created
  <2> QED
    BY <2>3 DEF WorkerInv, Keeps
<1> QED
  BY <1>1, <1>2, <1>3, <1>4, WorkerCases

LEMMA NextOwnInv ==
  ASSUME SoarAssumption, TypeOK, WorkerInv, OwnInv, Keeps,
         Creates \/ DOMAIN execs' = DOMAIN execs, [Next]_vars
  PROVE  OwnInv'
<1>1. CASE Creates
  <2>1. PICK b \in Backends, p \in Playbooks, x \in Targets : Create(b, p, x)
    BY <1>1 DEF Creates
  <2>2. PICK n : Created(b, p, x, n)
    BY <2>1, CreateEffect
  <2>3. /\ <<p, x>> \in worker[b].todo
        /\ worker'[b].queue = worker[b].queue /\ worker'[b].alert = worker[b].alert
        /\ worker'[b].todo = worker[b].todo \ {<<p, x>>}
        /\ \A c \in Backends : c # b => worker'[c] = worker[c]
        /\ DOMAIN execs' = DOMAIN execs \cup {n}
        /\ \A i \in DOMAIN execs : execs'[i] = execs[i]
        /\ execs'[n].playbook = p /\ execs'[n].alert = worker[b].alert /\ execs'[n].by = b
    BY <2>2 DEF Created
  <2>4. \A s \in worker'[b].todo : s[1] # p
    <3>1. SUFFICES ASSUME NEW s \in worker'[b].todo, s[1] = p PROVE FALSE
      OBVIOUS
    <3>2. s \in worker[b].todo /\ s # <<p, x>>
      BY <2>3
    <3>3. <<p, x>>[1] = p
      OBVIOUS
    <3> QED
      BY <2>3, <3>1, <3>2, <3>3 DEF WorkerInv
  <2>5. worker[b].alert \notin worker[b].queue
    BY <2>3 DEF WorkerInv
  <2> SUFFICES ASSUME NEW c \in Backends, NEW i \in DOMAIN execs', execs'[i].by = c
               PROVE  /\ execs'[i].alert \notin worker'[c].queue
                      /\ execs'[i].alert = worker'[c].alert =>
                            \A s \in worker'[c].todo : s[1] # execs'[i].playbook
    BY DEF OwnInv
  <2>6. CASE i = n
    BY <2>3, <2>4, <2>5, <2>6
  <2>7. CASE i \in DOMAIN execs
    BY <2>3, <2>7 DEF OwnInv
  <2> QED
    BY <2>3, <2>6, <2>7
<1>2. CASE DOMAIN execs' = DOMAIN execs
  <2>0. \A i \in DOMAIN execs :
           /\ execs'[i].playbook = execs[i].playbook /\ execs'[i].alert = execs[i].alert
           /\ execs'[i].by = execs[i].by
    BY DEF Keeps
  <2>1. CASE AllQuiet
    <3> SUFFICES ASSUME NEW c \in Backends, NEW i \in DOMAIN execs, execs[i].by = c
                 PROVE  /\ execs[i].alert \notin worker'[c].queue
                        /\ execs[i].alert = worker'[c].alert =>
                              \A s \in worker'[c].todo : s[1] # execs[i].playbook
      BY <1>2, <2>0 DEF OwnInv
    <3>1. /\ worker'[c].queue \subseteq worker[c].queue
          /\ worker'[c].todo \subseteq worker[c].todo
          /\ worker'[c].todo # {} => worker'[c].alert = worker[c].alert
      BY <2>1 DEF AllQuiet, Quiet
    <3>2. CASE worker'[c].todo = {}
      BY <3>1, <3>2 DEF OwnInv
    <3>3. CASE worker'[c].todo # {}
      BY <3>1, <3>3 DEF OwnInv
    <3> QED
      BY <3>2, <3>3
  <2>2. ASSUME NEW b \in Backends, Query(b) PROVE OwnInv'
    <3>1. /\ worker[b].pc = "query"
          /\ worker'[b].queue \subseteq Unanswered
          /\ worker'[b].todo = worker[b].todo
          /\ \A c \in Backends : c # b => worker'[c] = worker[c]
      BY <2>2, QueryEffect
    <3>2. worker'[b].todo = {}
      BY <3>1 DEF WorkerInv
    <3>3. \A i \in DOMAIN execs : execs[i].alert \notin worker'[b].queue
      BY <3>1 DEF Unanswered
    <3> QED
      BY <1>2, <2>0, <3>1, <3>2, <3>3 DEF OwnInv
  <2>3. ASSUME NEW b \in Backends, NEW a \in DOMAIN alerts, Evaluate(b, a) PROVE OwnInv'
    <3>1. /\ a \in worker[b].queue
          /\ worker'[b].queue = worker[b].queue \ {a}
          /\ worker'[b].alert = a
          /\ \A c \in Backends : c # b => worker'[c] = worker[c]
      BY <2>3, EvaluateEffect
    <3>2. \A i \in DOMAIN execs : execs[i].by = b =>
             execs[i].alert \notin worker[b].queue /\ execs[i].alert # a
      BY <3>1 DEF OwnInv
    <3> QED
      BY <1>2, <2>0, <3>1, <3>2 DEF OwnInv
  <2> QED
    BY <1>1, <2>1, <2>2, <2>3, WorkerCases
<1> QED
  BY <1>1, <1>2

LEMMA NextOncePerBackend ==
  ASSUME SoarAssumption, TypeOK, WorkerInv, OwnInv, OncePerBackend, Keeps,
         Creates \/ DOMAIN execs' = DOMAIN execs, [Next]_vars
  PROVE  OncePerBackend'
<1>1. CASE Creates
  <2>1. PICK b \in Backends, p \in Playbooks, x \in Targets : Create(b, p, x)
    BY <1>1 DEF Creates
  <2>2. PICK n : Created(b, p, x, n)
    BY <2>1, CreateEffect
  <2>3. /\ <<p, x>> \in worker[b].todo
        /\ DOMAIN execs' = DOMAIN execs \cup {n}
        /\ \A i \in DOMAIN execs : execs'[i] = execs[i]
        /\ execs'[n].playbook = p /\ execs'[n].alert = worker[b].alert /\ execs'[n].by = b
    BY <2>2 DEF Created
  <2>4. <<p, x>>[1] = p
    OBVIOUS
  <2>5. \A i \in DOMAIN execs :
           ~(execs[i].by = b /\ execs[i].alert = worker[b].alert /\ execs[i].playbook = p)
    BY <2>3, <2>4 DEF OwnInv
  <2> SUFFICES ASSUME NEW i \in DOMAIN execs', NEW j \in DOMAIN execs',
                      execs'[i].playbook = execs'[j].playbook, execs'[i].alert = execs'[j].alert,
                      execs'[i].by = execs'[j].by
               PROVE  i = j
    BY DEF OncePerBackend
  <2>6. CASE i \in DOMAIN execs /\ j \in DOMAIN execs
    BY <2>3, <2>6 DEF OncePerBackend
  <2>7. CASE i = n \/ j = n
    BY <2>3, <2>5, <2>7
  <2> QED
    BY <2>3, <2>6, <2>7
<1>2. CASE DOMAIN execs' = DOMAIN execs
  BY <1>2 DEF OncePerBackend, Keeps
<1> QED
  BY <1>1, <1>2

----------------------------------------------------------------------------
(* Executions and blocks.                                                  *)

LEMMA NextApplyInv ==
  ASSUME SoarAssumption, TypeOK, WorkerInv, ApplyInv, ApprovingInv, BlockInv, [Next]_vars
  PROVE  ApplyInv'
<1>1. Steps
  BY StepCases
<1>2. CASE Creates
  <2>1. PICK b \in Backends, p \in Playbooks, x \in Targets : Create(b, p, x)
    BY <1>2 DEF Creates
  <2>2. PICK n : Created(b, p, x, n)
    BY <2>1, CreateEffect
  <2>3. blocks' = blocks
    BY <2>1 DEF Create
  <2>4. \A j \in DOMAIN blocks : blocks[j].exec # n
    BY <2>2 DEF Created, BlockInv
  <2> SUFFICES ASSUME NEW c \in Backends, worker'[c].pc = "apply"
               PROVE  /\ worker'[c].exec \in DOMAIN execs'
                      /\ execs'[worker'[c].exec].by = c
                      /\ execs'[worker'[c].exec].status = "executed"
                      /\ ~Approval[execs'[worker'[c].exec].playbook]
                      /\ \A j \in DOMAIN blocks : blocks[j].exec # worker'[c].exec
    BY <2>3 DEF ApplyInv
  <2>5. CASE c = b
    BY <2>2, <2>4, <2>5 DEF Created
  <2>6. CASE c # b
    <3>1. /\ worker'[c] = worker[c]
          /\ DOMAIN execs \subseteq DOMAIN execs' /\ \A i \in DOMAIN execs : execs'[i] = execs[i]
      BY <2>2, <2>6 DEF Created
    <3> QED
      BY <3>1 DEF ApplyInv
  <2> QED
    BY <2>5, <2>6
<1>3. ASSUME NEW b \in Backends, Query(b) \/ \E a \in DOMAIN alerts : Evaluate(b, a)
      PROVE  ApplyInv'
  <2>1. /\ worker'[b].pc = "alerts"
        /\ \A c \in Backends : c # b => worker'[c] = worker[c]
    BY <1>3, QueryEffect, EvaluateEffect
  <2>2. UNCHANGED <<execs, blocks>>
    BY <1>3 DEF Query, Evaluate
  <2> QED
    BY <2>1, <2>2 DEF ApplyInv
<1>4. CASE AllQuiet /\ ~Creates
  <2> SUFFICES ASSUME NEW c \in Backends, worker'[c].pc = "apply"
               PROVE  /\ worker'[c].exec \in DOMAIN execs'
                      /\ execs'[worker'[c].exec].by = c
                      /\ execs'[worker'[c].exec].status = "executed"
                      /\ ~Approval[execs'[worker'[c].exec].playbook]
                      /\ \A j \in DOMAIN blocks' : blocks'[j].exec # worker'[c].exec
    BY DEF ApplyInv
  <2>1. PICK i : i = worker[c].exec
    OBVIOUS
  <2>2. /\ worker[c].pc = "apply" /\ worker'[c].exec = i
        /\ i \in DOMAIN execs /\ execs[i].by = c /\ execs[i].status = "executed"
        /\ ~Approval[execs[i].playbook]
        /\ \A j \in DOMAIN blocks : blocks[j].exec # i
    BY <1>4, <2>1 DEF AllQuiet, Quiet, ApplyInv
  <2> SUFFICES /\ i \in DOMAIN execs' /\ execs'[i] = execs[i]
               /\ \A j \in DOMAIN blocks' : blocks'[j].exec # i
    BY <2>2
  <2>3. CASE UNCHANGED <<execs, blocks>>
    BY <2>2, <2>3
  <2>4. ASSUME NEW b \in Backends, ReleaseExpired(b)
        PROVE  i \in DOMAIN execs' /\ execs'[i] = execs[i]
               /\ \A j \in DOMAIN blocks' : blocks'[j].exec # i
    BY <2>2, <2>4, ReleaseExpiredEffect DEF ReleaseExpired
  <2>5. ASSUME NEW b \in Backends, Apply(b)
        PROVE  i \in DOMAIN execs' /\ execs'[i] = execs[i]
               /\ \A j \in DOMAIN blocks' : blocks'[j].exec # i
    <3>1. PICK k, n : k = worker[b].exec /\ n = Len(blocks) + 1
      OBVIOUS
    <3>2. /\ worker[b].pc = "apply" /\ worker'[b].pc = "alerts"
          /\ DOMAIN blocks' = DOMAIN blocks \cup {n}
          /\ \A j \in DOMAIN blocks : blocks'[j] = blocks[j]
          /\ blocks'[n].exec = k
      BY <2>5, <3>1, ApplyEffect
    <3>3. c # b /\ execs[k].by = b
      BY <3>1, <3>2 DEF ApplyInv
    <3> QED
      BY <2>2, <2>5, <3>2, <3>3 DEF Apply
  <2>6. ASSUME NEW q \in Requests, CommitApproval(q)
        PROVE  i \in DOMAIN execs' /\ execs'[i] = execs[i]
               /\ \A j \in DOMAIN blocks' : blocks'[j].exec # i
    <3>1. PICK k, n : k = approving[q] /\ n = Len(blocks) + 1
      OBVIOUS
    <3>2. /\ Decides(k, "executed") /\ execs[k].status = "pending_approval"
          /\ DOMAIN blocks' = DOMAIN blocks \cup {n}
          /\ \A j \in DOMAIN blocks : blocks'[j] = blocks[j]
          /\ blocks'[n].exec = k
      BY <2>6, <3>1, CommitApprovalEffect
    <3> QED
      BY <2>2, <3>2 DEF Decides
  <2>7. ASSUME NEW k \in DOMAIN execs, Reject(k)
        PROVE  i \in DOMAIN execs' /\ execs'[i] = execs[i]
               /\ \A j \in DOMAIN blocks' : blocks'[j].exec # i
    <3>1. Decides(k, "rejected") /\ execs[k].status = "pending_approval" /\ blocks' = blocks
      BY <2>7, RejectEffect DEF Reject
    <3> QED
      BY <2>2, <3>1 DEF Decides
  <2>8. ASSUME NEW j \in DOMAIN blocks, ReleaseBlockedEntity(j)
        PROVE  i \in DOMAIN execs' /\ execs'[i] = execs[i]
               /\ \A m \in DOMAIN blocks' : blocks'[m].exec # i
    <3>1. PICK k : k = blocks[j].exec
      OBVIOUS
    <3>2. /\ Decides(k, "rolled_back") /\ DOMAIN blocks' = DOMAIN blocks
          /\ \A m \in DOMAIN blocks : blocks'[m].exec = blocks[m].exec
      BY <2>8, <3>1, ReleaseEffect
    <3>3. k # i
      BY <2>2, <2>8, <3>1
    <3>4. i \in DOMAIN execs' /\ execs'[i] = execs[i]
      BY <2>2, <3>2, <3>3 DEF Decides
    <3>5. \A m \in DOMAIN blocks' : blocks'[m].exec # i
      BY <2>2, <3>2
    <3> QED
      BY <3>4, <3>5
  <2>9. CASE \/ Silent
             \/ \E b \in Backends : Query(b)
             \/ \E b \in Backends, a \in DOMAIN alerts : Evaluate(b, a)
             \/ \E q \in Requests, k \in DOMAIN execs : BeginApproval(q, k)
             \/ \E q \in Requests : AbortApproval(q)
             \/ \E k \in Kinds : Raise(k)
    BY <2>3, <2>9
    DEF Silent, Query, Evaluate, BeginApproval, AbortApproval, Raise
  <2> QED
    BY <1>1, <1>4, <2>4, <2>5, <2>6, <2>7, <2>8, <2>9 DEF Steps, Creates
<1> QED
  BY <1>2, <1>3, <1>4, WorkerCases

LEMMA NextApprovingInv ==
  ASSUME SoarAssumption, TypeOK, WorkerInv, ApprovingInv, BlockInv, [Next]_vars
  PROVE  ApprovingInv'
<1>1. Steps
  BY StepCases
<1>2. CASE Creates
  <2>1. PICK b \in Backends, p \in Playbooks, x \in Targets : Create(b, p, x)
    BY <1>2 DEF Creates
  <2>2. PICK n : Created(b, p, x, n)
    BY <2>1, CreateEffect
  <2>3. approving' = approving
    BY <2>1 DEF Create
  <2>4. DOMAIN execs \subseteq DOMAIN execs' /\ \A i \in DOMAIN execs : execs'[i] = execs[i]
    BY <2>2 DEF Created
  <2> QED
    BY <2>3, <2>4 DEF ApprovingInv
<1>3. CASE UNCHANGED <<execs, approving>>
  BY <1>3 DEF ApprovingInv
<1>4. ASSUME NEW q \in Requests, NEW i \in DOMAIN execs, BeginApproval(q, i) PROVE ApprovingInv'
  <2>1. /\ approving'[q] = i /\ \A r \in Requests : r # q => approving'[r] = approving[r]
        /\ execs' = execs /\ execs[i].status = "pending_approval"
        /\ \A r \in Requests : approving[r] # i
    BY <1>4 DEF BeginApproval, TypeOK
  <2> QED
    BY <2>1 DEF ApprovingInv
<1>5. ASSUME NEW q \in Requests, CommitApproval(q) PROVE ApprovingInv'
  <2>1. PICK k : k = approving[q]
    OBVIOUS
  <2>2. /\ Decides(k, "executed")
        /\ approving'[q] = 0
        /\ \A r \in Requests : r # q => approving'[r] = approving[r]
    BY <1>5, <2>1, CommitApprovalEffect
  <2>3. \A r \in Requests : r # q => approving[r] # k
    BY <1>5, <2>1 DEF ApprovingInv, CommitApproval
  <2> QED
    BY <2>2, <2>3 DEF Decides, ApprovingInv
<1>6. ASSUME NEW q \in Requests, AbortApproval(q) PROVE ApprovingInv'
  <2>1. /\ approving'[q] = 0 /\ \A r \in Requests : r # q => approving'[r] = approving[r]
        /\ execs' = execs
    BY <1>6 DEF AbortApproval, TypeOK
  <2> QED
    BY <2>1 DEF ApprovingInv
<1>7. ASSUME NEW i \in DOMAIN execs, Reject(i) PROVE ApprovingInv'
  <2>1. Decides(i, "rejected") /\ approving' = approving /\ \A q \in Requests : approving[q] # i
    BY <1>7, RejectEffect DEF Reject
  <2> QED
    BY <2>1 DEF Decides, ApprovingInv
<1>8. ASSUME NEW j \in DOMAIN blocks, ReleaseBlockedEntity(j) PROVE ApprovingInv'
  <2>1. PICK k : k = blocks[j].exec
    OBVIOUS
  <2>2. Decides(k, "rolled_back") /\ execs[k].status \in {"executed", "rolled_back"}
    BY <1>8, <2>1, ReleaseEffect
  <2>3. approving' = approving
    BY <1>8 DEF ReleaseBlockedEntity
  <2> QED
    BY <2>2, <2>3 DEF Decides, ApprovingInv
<1> QED
  BY <1>1, <1>2, <1>3, <1>4, <1>5, <1>6, <1>7, <1>8
  DEF Steps, Creates, Silent, ReleaseExpired, Query, Apply, Evaluate, Raise

LEMMA NextExecInv ==
  ASSUME SoarAssumption, TypeOK, WorkerInv, ApprovingInv, BlockInv, ExecInv, Keeps, [Next]_vars
  PROVE  ExecInv'
<1>1. Steps
  BY StepCases
<1>2. CASE Creates
  <2>1. PICK b \in Backends, p \in Playbooks, x \in Targets : Create(b, p, x)
    BY <1>2 DEF Creates
  <2>2. PICK n : Created(b, p, x, n)
    BY <2>1, CreateEffect
  <2>3. alerts' = alerts /\ blocks' = blocks
    BY <2>1 DEF Create
  <2>4. <<p, x>> \in worker[b].todo /\ <<p, x>>[2] = x
    BY <2>2 DEF Created
  <2>5. worker[b].alert \in DOMAIN alerts /\ ~IsAllowlisted(x)
    BY <2>4 DEF WorkerInv
  <2>6. /\ DOMAIN execs' = DOMAIN execs \cup {n}
        /\ \A i \in DOMAIN execs : execs'[i] = execs[i]
        /\ execs'[n].alert = worker[b].alert /\ execs'[n].target = x /\ execs'[n].approved = FALSE
    BY <2>2 DEF Created
  <2> SUFFICES ASSUME NEW i \in DOMAIN execs'
               PROVE  /\ execs'[i].alert \in DOMAIN alerts
                      /\ ~IsAllowlisted(execs'[i].target)
                      /\ execs'[i].approved => \E j \in DOMAIN blocks : blocks[j].exec = i
    BY <2>3 DEF ExecInv
  <2>7. CASE i = n
    BY <2>5, <2>6, <2>7
  <2>8. CASE i \in DOMAIN execs
    BY <2>6, <2>8 DEF ExecInv
  <2> QED
    BY <2>6, <2>7, <2>8
<1>3. ASSUME NEW k \in DOMAIN execs, DOMAIN execs' = DOMAIN execs,
             \A i \in DOMAIN execs : i # k => execs'[i] = execs[i],
             execs'[k].approved => execs[k].approved \/ \E j \in DOMAIN blocks' : blocks'[j].exec = k
      PROVE  ExecInv'
  <2> SUFFICES ASSUME NEW i \in DOMAIN execs, execs'[i].approved
               PROVE  \E j \in DOMAIN blocks' : blocks'[j].exec = i
    BY <1>3 DEF ExecInv, Keeps
  <2>1. CASE execs[i].approved
    <3>1. PICK j \in DOMAIN blocks : blocks[j].exec = i
      BY <2>1 DEF ExecInv
    <3> QED
      BY <3>1 DEF Keeps
  <2>2. CASE ~execs[i].approved
    <3>1. i = k
      BY <1>3, <2>2
    <3> QED
      BY <1>3, <2>2, <3>1
  <2> QED
    BY <2>1, <2>2
<1>4. CASE execs' = execs
  <2> SUFFICES ASSUME NEW i \in DOMAIN execs, execs[i].approved
               PROVE  \E j \in DOMAIN blocks' : blocks'[j].exec = i
    BY <1>4 DEF ExecInv, Keeps
  <2>1. PICK j \in DOMAIN blocks : blocks[j].exec = i
    BY DEF ExecInv
  <2> QED
    BY <2>1 DEF Keeps
<1>5. ASSUME NEW q \in Requests, CommitApproval(q) PROVE ExecInv'
  <2>1. PICK k, n : k = approving[q] /\ n = Len(blocks) + 1
    OBVIOUS
  <2>2. /\ Decides(k, "executed")
        /\ DOMAIN blocks' = DOMAIN blocks \cup {n} /\ blocks'[n].exec = k
    BY <1>5, <2>1, CommitApprovalEffect
  <2> QED
    BY <1>3, <2>2 DEF Decides
<1>6. ASSUME NEW i \in DOMAIN execs, Reject(i) PROVE ExecInv'
  <2>1. Decides(i, "rejected") /\ execs'[i].approved = execs[i].approved
    BY <1>6, RejectEffect
  <2> QED
    BY <1>3, <2>1 DEF Decides
<1>7. ASSUME NEW j \in DOMAIN blocks, ReleaseBlockedEntity(j) PROVE ExecInv'
  <2>1. PICK k : k = blocks[j].exec
    OBVIOUS
  <2>2. Decides(k, "rolled_back") /\ execs'[k].approved = execs[k].approved
    BY <1>7, <2>1, ReleaseEffect
  <2> QED
    BY <1>3, <2>2 DEF Decides
<1> QED
  BY <1>1, <1>2, <1>4, <1>5, <1>6, <1>7
  DEF Steps, Creates, Silent, ReleaseExpired, Query, Apply, Evaluate,
      BeginApproval, AbortApproval, Raise

\* A new block n, the first of execution k, which is executed and approved as needed.
LEMMA AddedBlock ==
  ASSUME TypeOK, BlockInv, NEW k \in DOMAIN execs, NEW n,
         DOMAIN execs \subseteq DOMAIN execs',
         \A i \in DOMAIN execs : i # k => execs'[i] = execs[i],
         execs'[k].status = "executed", execs'[k].target = execs[k].target,
         Approval[execs'[k].playbook] => execs'[k].approved,
         \A j \in DOMAIN blocks : blocks[j].exec # k,
         DOMAIN blocks' = DOMAIN blocks \cup {n},
         \A j \in DOMAIN blocks : blocks'[j] = blocks[j],
         blocks'[n].exec = k, blocks'[n].value = execs[k].target
  PROVE  BlockInv'
<1> SUFFICES ASSUME NEW j \in DOMAIN blocks'
             PROVE  /\ blocks'[j].exec \in DOMAIN execs'
                    /\ blocks'[j].value = execs'[blocks'[j].exec].target
                    /\ execs'[blocks'[j].exec].status \in {"executed", "rolled_back"}
                    /\ Approval[execs'[blocks'[j].exec].playbook] => execs'[blocks'[j].exec].approved
                    /\ \A m \in DOMAIN blocks' : blocks'[m].exec = blocks'[j].exec => m = j
  BY DEF BlockInv
<1>1. CASE j = n
  BY <1>1
<1>2. CASE j \in DOMAIN blocks
  BY <1>2 DEF BlockInv
<1> QED
  BY <1>1, <1>2

\* The blocks stay; an execution that changes was executed or has no block.
LEMMA SameBlocks ==
  ASSUME TypeOK, BlockInv, DOMAIN blocks' = DOMAIN blocks,
         \A j \in DOMAIN blocks :
            blocks'[j].exec = blocks[j].exec /\ blocks'[j].value = blocks[j].value,
         DOMAIN execs \subseteq DOMAIN execs',
         \A i \in DOMAIN execs :
            \/ execs'[i] = execs[i]
            \/ \A j \in DOMAIN blocks : blocks[j].exec # i
            \/ /\ execs'[i].status \in {"executed", "rolled_back"}
               /\ execs'[i].target = execs[i].target /\ execs'[i].playbook = execs[i].playbook
               /\ execs'[i].approved = execs[i].approved
  PROVE  BlockInv'
<1> SUFFICES ASSUME NEW j \in DOMAIN blocks
             PROVE  /\ blocks[j].exec \in DOMAIN execs'
                    /\ blocks[j].value = execs'[blocks[j].exec].target
                    /\ execs'[blocks[j].exec].status \in {"executed", "rolled_back"}
                    /\ Approval[execs'[blocks[j].exec].playbook] => execs'[blocks[j].exec].approved
                    /\ \A m \in DOMAIN blocks : blocks[m].exec = blocks[j].exec => m = j
  BY DEF BlockInv
<1>1. PICK i : i = blocks[j].exec
  OBVIOUS
<1>2. /\ i \in DOMAIN execs
      /\ blocks[j].value = execs[i].target
      /\ execs[i].status \in {"executed", "rolled_back"}
      /\ Approval[execs[i].playbook] => execs[i].approved
      /\ \A m \in DOMAIN blocks : blocks[m].exec = i => m = j
  BY <1>1 DEF BlockInv
<1>3. \/ execs'[i] = execs[i]
      \/ /\ execs'[i].status \in {"executed", "rolled_back"}
         /\ execs'[i].target = execs[i].target /\ execs'[i].playbook = execs[i].playbook
         /\ execs'[i].approved = execs[i].approved
  BY <1>1, <1>2
<1> QED
  BY <1>1, <1>2, <1>3

LEMMA NextBlockInv ==
  ASSUME SoarAssumption, TypeOK, WorkerInv, ApplyInv, ApprovingInv, BlockInv, [Next]_vars
  PROVE  BlockInv'
<1>1. Steps
  BY StepCases
<1>2. CASE Creates
  <2>1. PICK b \in Backends, p \in Playbooks, x \in Targets : Create(b, p, x)
    BY <1>2 DEF Creates
  <2>2. PICK n : Created(b, p, x, n)
    BY <2>1, CreateEffect
  <2>3. blocks' = blocks
    BY <2>1 DEF Create
  <2>4. DOMAIN execs \subseteq DOMAIN execs' /\ \A i \in DOMAIN execs : execs'[i] = execs[i]
    BY <2>2 DEF Created
  <2> QED
    BY <2>3, <2>4, SameBlocks
<1>3. CASE UNCHANGED <<execs, blocks>>
  BY <1>3, SameBlocks
<1>4. ASSUME NEW b \in Backends, ReleaseExpired(b) PROVE BlockInv'
  <2>1. execs' = execs
    BY <1>4 DEF ReleaseExpired
  <2> QED
    BY <1>4, <2>1, ReleaseExpiredEffect, SameBlocks
<1>5. ASSUME NEW b \in Backends, Apply(b) PROVE BlockInv'
  <2>1. PICK k, n : k = worker[b].exec /\ n = Len(blocks) + 1
    OBVIOUS
  <2>2. /\ worker[b].pc = "apply" /\ k \in DOMAIN execs
        /\ DOMAIN blocks' = DOMAIN blocks \cup {n}
        /\ \A j \in DOMAIN blocks : blocks'[j] = blocks[j]
        /\ blocks'[n].exec = k /\ blocks'[n].value = execs[k].target
    BY <1>5, <2>1, ApplyEffect
  <2>3. /\ execs[k].status = "executed" /\ ~Approval[execs[k].playbook]
        /\ \A j \in DOMAIN blocks : blocks[j].exec # k
    BY <2>1, <2>2 DEF ApplyInv
  <2>4. execs' = execs
    BY <1>5 DEF Apply
  <2> QED
    BY <2>2, <2>3, <2>4, AddedBlock
<1>6. ASSUME NEW q \in Requests, CommitApproval(q) PROVE BlockInv'
  <2>1. PICK k, n : k = approving[q] /\ n = Len(blocks) + 1
    OBVIOUS
  <2>2. /\ Decides(k, "executed") /\ execs'[k].approved = TRUE
        /\ execs[k].status = "pending_approval"
        /\ DOMAIN blocks' = DOMAIN blocks \cup {n}
        /\ \A j \in DOMAIN blocks : blocks'[j] = blocks[j]
        /\ blocks'[n].exec = k /\ blocks'[n].value = execs[k].target
    BY <1>6, <2>1, CommitApprovalEffect
  <2>3. \A j \in DOMAIN blocks : blocks[j].exec # k
    BY <2>2 DEF BlockInv
  <2>4. /\ k \in DOMAIN execs /\ DOMAIN execs' = DOMAIN execs
        /\ \A i \in DOMAIN execs : i # k => execs'[i] = execs[i]
        /\ execs'[k].status = "executed" /\ execs'[k].target = execs[k].target
    BY <2>2 DEF Decides
  <2> QED
    BY <2>2, <2>3, <2>4, AddedBlock
<1>7. ASSUME NEW i \in DOMAIN execs, Reject(i) PROVE BlockInv'
  <2>1. Decides(i, "rejected") /\ execs[i].status = "pending_approval" /\ blocks' = blocks
    BY <1>7, RejectEffect DEF Reject
  <2>2. \A j \in DOMAIN blocks : blocks[j].exec # i
    BY <2>1 DEF BlockInv
  <2>3. DOMAIN execs' = DOMAIN execs /\ \A k \in DOMAIN execs : k # i => execs'[k] = execs[k]
    BY <2>1 DEF Decides
  <2> QED
    BY <2>1, <2>2, <2>3, SameBlocks
<1>8. ASSUME NEW j \in DOMAIN blocks, ReleaseBlockedEntity(j) PROVE BlockInv'
  <2>1. PICK k : k = blocks[j].exec
    OBVIOUS
  <2>2. /\ Decides(k, "rolled_back") /\ execs'[k].approved = execs[k].approved
        /\ DOMAIN blocks' = DOMAIN blocks
        /\ \A m \in DOMAIN blocks :
              blocks'[m].exec = blocks[m].exec /\ blocks'[m].value = blocks[m].value
    BY <1>8, <2>1, ReleaseEffect
  <2>3. /\ DOMAIN execs' = DOMAIN execs
        /\ \A i \in DOMAIN execs : i # k => execs'[i] = execs[i]
        /\ execs'[k].status \in {"executed", "rolled_back"}
        /\ execs'[k].target = execs[k].target /\ execs'[k].playbook = execs[k].playbook
    BY <2>2 DEF Decides
  <2> QED
    BY <2>2, <2>3, SameBlocks
<1> QED
  BY <1>1, <1>2, <1>3, <1>4, <1>5, <1>6, <1>7, <1>8
  DEF Steps, Creates, Silent, Query, Evaluate, BeginApproval, AbortApproval,
      Raise

----------------------------------------------------------------------------
(* An alert is answered in full.                                           *)

\* What is due for an alert does not change, and what was answered stays answered.
LEMMA DueStays ==
  ASSUME Keeps, NEW a \in DOMAIN alerts, NEW p \in Playbooks, NEW ip, NEW b
  PROVE  /\ Due(a, p, ip)' <=> Due(a, p, ip)
         /\ Answered(b, a, p) => Answered(b, a, p)'
<1>1. Due(a, p, ip)' <=> Due(a, p, ip)
  <2>1. alerts'[a] = alerts[a]
    BY DEF Keeps
  <2> QED
    BY <2>1 DEF Due
<1>2. ASSUME Answered(b, a, p) PROVE Answered(b, a, p)'
  <2>1. PICK i \in DOMAIN execs :
           execs[i].alert = a /\ execs[i].playbook = p /\ execs[i].by = b
    BY <1>2 DEF Answered
  <2> QED
    BY <2>1 DEF Answered, Keeps
<1> QED
  BY <1>1, <1>2

\* Worker c goes on with what it has to create for its alert.
GoesOn(c) ==
    /\ worker'[c].todo # {} => worker[c].todo # {}
    /\ worker'[c].todo # {} =>
          /\ worker'[c].alert = worker[c].alert /\ worker'[c].ip = worker[c].ip
          /\ worker'[c].todo = worker[c].todo

\* The steps, by what they do to the worker c.
LEMMA GoesOnCases ==
  ASSUME SoarAssumption, TypeOK, WorkerInv, NEW c \in Backends, [Next]_vars
  PROVE  \/ GoesOn(c)
         \/ \E a \in DOMAIN alerts : Evaluate(c, a)
         \/ \E p \in Playbooks, x \in Targets : Create(c, p, x)
<1>1. CASE AllQuiet
  BY <1>1 DEF AllQuiet, Quiet, GoesOn
<1>2. CASE \E b \in Backends : Query(b)
  BY <1>2, QueryEffect DEF GoesOn
<1>3. ASSUME NEW b \in Backends, b # c, NEW a \in DOMAIN alerts, Evaluate(b, a)
      PROVE  GoesOn(c)
  BY <1>3, EvaluateEffect DEF GoesOn
<1>4. ASSUME NEW b \in Backends, b # c, NEW p \in Playbooks, NEW x \in Targets, Create(b, p, x)
      PROVE  GoesOn(c)
  <2>1. PICK n : Created(b, p, x, n)
    BY <1>4, CreateEffect
  <2>2. worker'[c] = worker[c]
    BY <1>4, <2>1 DEF Created
  <2> QED
    BY <2>2 DEF GoesOn
<1> QED
  BY <1>1, <1>2, <1>3, <1>4, WorkerCases DEF Creates

\* What was there before keeps its address; a new execution has its worker's.
LEMMA NextAddressInv ==
  ASSUME SoarAssumption, TypeOK, WorkerInv, OwnInv, AddressInv, Keeps,
         Creates \/ DOMAIN execs' = DOMAIN execs, [Next]_vars
  PROVE  AddressInv'
<1> SUFFICES ASSUME NEW c \in Backends, NEW i \in DOMAIN execs', execs'[i].by = c,
                    execs'[i].alert = worker'[c].alert, worker'[c].todo # {}
             PROVE  execs'[i].ip = worker'[c].ip
  BY DEF AddressInv
<1>1. ASSUME i \in DOMAIN execs, worker'[c].alert = worker[c].alert,
             worker'[c].ip = worker[c].ip, worker[c].todo # {}
      PROVE  execs'[i].ip = worker'[c].ip
  <2>1. /\ execs'[i].by = execs[i].by /\ execs'[i].alert = execs[i].alert
        /\ execs'[i].ip = execs[i].ip
    BY <1>1 DEF Keeps
  <2> QED
    BY <1>1, <2>1 DEF AddressInv
<1>2. ASSUME NEW p \in Playbooks, NEW x \in Targets, Create(c, p, x)
      PROVE  execs'[i].ip = worker'[c].ip
  <2>1. PICK n : Created(c, p, x, n)
    BY <1>2, CreateEffect
  <2>2. /\ worker'[c].alert = worker[c].alert /\ worker'[c].ip = worker[c].ip
        /\ worker[c].todo # {}
        /\ DOMAIN execs' = DOMAIN execs \cup {n} /\ execs'[n].ip = worker[c].ip
    BY <2>1 DEF Created
  <2> QED
    BY <1>1, <2>2
<1>3. ASSUME NEW a \in DOMAIN alerts, Evaluate(c, a) PROVE FALSE
  <2>1. a \in worker[c].queue /\ worker'[c].alert = a
    BY <1>3, EvaluateEffect
  <2>2. execs' = execs
    BY <1>3 DEF Evaluate
  <2> QED
    BY <2>1, <2>2 DEF OwnInv
<1>4. CASE GoesOn(c)
  <2>1. CASE i \in DOMAIN execs
    BY <1>1, <1>4, <2>1 DEF GoesOn
  <2>2. CASE i \notin DOMAIN execs
    <3>1. PICK b \in Backends, p \in Playbooks, x \in Targets : Create(b, p, x)
      BY <2>2 DEF Creates
    <3>2. PICK n : Created(b, p, x, n)
      BY <3>1, CreateEffect
    <3>3. b = c
      BY <2>2, <3>2 DEF Created
    <3> QED
      BY <1>2, <3>1, <3>3
  <2> QED
    BY <2>1, <2>2
<1> QED
  BY <1>2, <1>3, <1>4, GoesOnCases

LEMMA NextFullInv ==
  ASSUME SoarAssumption, TypeOK, WorkerInv, FullInv, Keeps, [Next]_vars
  PROVE  FullInv'
<1> SUFFICES ASSUME NEW c \in Backends, worker'[c].todo # {}, NEW p \in Playbooks,
                    Due(worker[c].alert, p, worker[c].ip)'
             PROVE  \/ \E s \in worker'[c].todo : s[1] = p
                    \/ Answered(c, worker[c].alert, p)'
  BY DEF FullInv
<1>1. PICK a, ip : a = worker'[c].alert /\ ip = worker'[c].ip
  OBVIOUS
<1>2. Due(a, p, ip)' /\ (Answered(c, worker[c].alert, p)' <=> Answered(c, a, p)')
  BY <1>1 DEF Due, Answered
<1>3. SUFFICES (\E s \in worker'[c].todo : s[1] = p) \/ Answered(c, a, p)'
  BY <1>2
<1>4. ASSUME worker[c].todo # {}, worker[c].alert = a, worker[c].ip = ip
      PROVE  (\E s \in worker[c].todo : s[1] = p) \/ Answered(c, a, p)'
  <2>1. a \in DOMAIN alerts
    BY <1>4 DEF WorkerInv
  <2>2. Due(a, p, ip)
    BY <1>2, <2>1, DueStays
  <2>3. (\E s \in worker[c].todo : s[1] = p) \/ Answered(c, a, p)
    BY <1>4, <2>2 DEF FullInv
  <2> QED
    BY <2>1, <2>3, DueStays
<1>5. CASE GoesOn(c)
  BY <1>1, <1>4, <1>5 DEF GoesOn
<1>6. ASSUME NEW x \in DOMAIN alerts, Evaluate(c, x)
      PROVE  \E s \in worker'[c].todo : s[1] = p
  <2>1. x = a /\ worker'[c].todo = Selected(alerts[a].kind, ip)
    BY <1>1, <1>6, EvaluateEffect
  <2>2. Due(a, p, ip)
    BY <1>2, <1>6, <2>1, DueStays
  <2>3. <<p, Target(p, alerts[a].kind, ip)>> \in worker'[c].todo
    BY <2>1, <2>2 DEF Due, Selected
  <2>4. <<p, Target(p, alerts[a].kind, ip)>>[1] = p
    OBVIOUS
  <2> QED
    BY <2>3, <2>4
<1>7. ASSUME NEW q \in Playbooks, NEW x \in Targets, Create(c, q, x)
      PROVE  (\E s \in worker'[c].todo : s[1] = p) \/ Answered(c, a, p)'
  <2>1. PICK n : Created(c, q, x, n)
    BY <1>7, CreateEffect
  <2>2. /\ <<q, x>> \in worker[c].todo
        /\ worker'[c].alert = worker[c].alert /\ worker'[c].ip = worker[c].ip
        /\ worker'[c].todo = worker[c].todo \ {<<q, x>>}
        /\ n \in DOMAIN execs' /\ execs'[n].playbook = q
        /\ execs'[n].alert = worker[c].alert /\ execs'[n].by = c
    BY <2>1 DEF Created
  <2>3. CASE p = q
    BY <1>1, <2>2, <2>3 DEF Answered
  <2>4. CASE p # q
    <3>1. (\E s \in worker[c].todo : s[1] = p) \/ Answered(c, a, p)'
      BY <1>1, <1>4, <2>2
    <3>2. <<q, x>>[1] = q
      OBVIOUS
    <3> QED
      BY <2>2, <2>4, <3>1, <3>2
  <2> QED
    BY <2>3, <2>4
<1> QED
  BY <1>5, <1>6, <1>7, GoesOnCases

LEMMA NextAnsweredInFull ==
  ASSUME SoarAssumption, TypeOK, WorkerInv, AddressInv, ExecInv, FullInv, AnsweredInFull, Keeps,
         Creates \/ DOMAIN execs' = DOMAIN execs, [Next]_vars
  PROVE  AnsweredInFull'
<1> SUFFICES ASSUME faults' = 0, NEW i \in DOMAIN execs',
                    NEW a, a = execs'[i].alert, NEW c, c = execs'[i].by,
                    NEW ip, ip = execs'[i].ip
             PROVE  \/ worker'[c].alert = a /\ worker'[c].todo # {}
                    \/ \A p \in Playbooks : Due(a, p, ip)' => Answered(c, a, p)'
  BY DEF AnsweredInFull
<1>1. faults = 0
  BY NextCounters
<1>2. CASE /\ i \in DOMAIN execs
           /\ worker[c].alert = a /\ worker[c].todo # {} =>
                 worker'[c].alert = a /\ worker'[c].todo # {}
  <2>1. a = execs[i].alert /\ c = execs[i].by /\ ip = execs[i].ip /\ a \in DOMAIN alerts
    BY <1>2 DEF Keeps, ExecInv
  <2>2. \/ worker[c].alert = a /\ worker[c].todo # {}
        \/ \A p \in Playbooks : Due(a, p, ip) => Answered(c, a, p)
    BY <1>1, <1>2, <2>1 DEF AnsweredInFull
  <2> QED
    BY <1>2, <2>1, <2>2, DueStays
\* The worker of the execution creates one for the same alert, perhaps the last.
<1>3. ASSUME NEW q \in Playbooks, NEW x \in Targets, Create(c, q, x), c \in Backends,
             worker[c].alert = a
      PROVE  \/ worker'[c].alert = a /\ worker'[c].todo # {}
             \/ \A p \in Playbooks : Due(a, p, ip)' => Answered(c, a, p)'
  <2>1. PICK n : Created(c, q, x, n)
    BY <1>3, CreateEffect
  <2>2. /\ <<q, x>> \in worker[c].todo
        /\ worker'[c].alert = worker[c].alert
        /\ worker'[c].todo = worker[c].todo \ {<<q, x>>}
        /\ DOMAIN execs' = DOMAIN execs \cup {n} /\ execs'[n].ip = worker[c].ip
        /\ execs'[n].playbook = q /\ execs'[n].alert = worker[c].alert /\ execs'[n].by = c
    BY <2>1 DEF Created
  <2>3. a \in DOMAIN alerts /\ worker[c].todo # {}
    BY <1>3, <2>2 DEF WorkerInv
  <2>4. ip = worker[c].ip
    BY <1>3, <2>2, <2>3 DEF AddressInv, Keeps
  <2> SUFFICES ASSUME worker'[c].todo = {}, NEW p \in Playbooks, Due(a, p, ip)'
               PROVE  Answered(c, a, p)'
    BY <1>3, <2>2
  <2>5. Due(a, p, ip)
    BY <2>3, DueStays
  <2>6. (\E s \in worker[c].todo : s[1] = p) \/ Answered(c, a, p)
    BY <1>3, <2>3, <2>4, <2>5 DEF FullInv
  <2>7. CASE Answered(c, a, p)
    BY <2>3, <2>7, DueStays
  <2>8. CASE \E s \in worker[c].todo : s[1] = p
    <3>1. <<q, x>>[1] = q
      OBVIOUS
    <3>2. p = q
      BY <2>2, <2>8, <3>1
    <3> QED
      BY <1>3, <2>2, <3>2 DEF Answered
  <2> QED
    BY <2>6, <2>7, <2>8
<1>4. CASE Creates
  <2>1. PICK b \in Backends, q \in Playbooks, x \in Targets : Create(b, q, x)
    BY <1>4 DEF Creates
  <2>2. PICK n : Created(b, q, x, n)
    BY <2>1, CreateEffect
  <2>3. /\ worker'[b].alert = worker[b].alert
        /\ \A d \in Backends : d # b => worker'[d] = worker[d]
        /\ DOMAIN execs' = DOMAIN execs \cup {n}
        /\ execs'[n].alert = worker[b].alert /\ execs'[n].by = b
    BY <2>2 DEF Created
  <2>4. CASE c = b /\ worker[b].alert = a
    BY <1>3, <2>1, <2>4
  <2>5. CASE ~(c = b /\ worker[b].alert = a)
    <3>1. i \in DOMAIN execs
      BY <2>3, <2>5
    <3>2. c \in Backends
      BY <3>1, ExecType DEF Keeps
    <3> QED
      BY <1>2, <2>3, <2>5, <3>1, <3>2
  <2> QED
    BY <2>4, <2>5
<1>5. CASE ~Creates
  <2>1. i \in DOMAIN execs
    BY <1>5
  <2>2. c \in Backends
    BY <2>1, ExecType DEF Keeps
  <2>3. CASE AllQuiet
    BY <1>2, <2>1, <2>2, <2>3 DEF AllQuiet, Quiet
  <2>4. ASSUME NEW b \in Backends, Query(b) \/ \E x \in DOMAIN alerts : Evaluate(b, x)
        PROVE  worker[b].todo = {} /\ \A d \in Backends : d # b => worker'[d] = worker[d]
    BY <2>4, QueryEffect, EvaluateEffect DEF WorkerInv
  <2> QED
    BY <1>2, <1>5, <2>1, <2>2, <2>3, <2>4, WorkerCases
<1> QED
  BY <1>4, <1>5

----------------------------------------------------------------------------
(* What a step may do to what was decided.                                 *)

LEMMA NextDecided ==
  ASSUME SoarAssumption, TypeOK, WorkerInv, ApplyInv, ApprovingInv, BlockInv, [Next]_vars
  PROVE  DecidedStep
<1>1. Steps
  BY StepCases
<1>2. ASSUME NEW j \in DOMAIN blocks, ReleaseBlockedEntity(j) PROVE DecidedStep
  <2>1. PICK i : i = blocks[j].exec
    OBVIOUS
  <2>2. /\ Decides(i, "rolled_back")
        /\ execs[i].status \in {"executed", "rolled_back"}
        /\ blocks[j].status = "active" /\ blocks'[j].status = "released"
        /\ \A k \in DOMAIN blocks : k # j => blocks'[k] = blocks[k]
    BY <1>2, <2>1, ReleaseEffect
  <2>3. j \in BlocksOf(i)
    BY <2>1 DEF BlocksOf
  <2>4. \A k \in DOMAIN execs : execs'[k].status # execs[k].status =>
           /\ execs[k].status = "executed" /\ execs'[k].status = "rolled_back"
           /\ k = i
    BY <2>2 DEF Decides
  <2>5. \A k \in DOMAIN blocks : blocks[k].status = "released" => blocks'[k] = blocks[k]
    BY <2>2
  <2> QED
    BY <2>2, <2>3, <2>4, <2>5 DEF DecidedStep
<1>3. ASSUME NEW q \in Requests, CommitApproval(q) PROVE DecidedStep
  <2>1. PICK i : i = approving[q]
    OBVIOUS
  <2>2. /\ Decides(i, "executed") /\ execs[i].status = "pending_approval"
        /\ \A j \in DOMAIN blocks : blocks'[j] = blocks[j]
    BY <1>3, <2>1, CommitApprovalEffect
  <2> QED
    BY <2>2 DEF DecidedStep, Decides
<1>4. ASSUME NEW i \in DOMAIN execs, Reject(i) PROVE DecidedStep
  <2>1. Decides(i, "rejected")
    BY <1>4, RejectEffect
  <2>2. execs[i].status = "pending_approval" /\ blocks' = blocks
    BY <1>4 DEF Reject
  <2> QED
    BY <2>1, <2>2 DEF DecidedStep, Decides
<1>5. CASE Creates
  <2>1. PICK b \in Backends, p \in Playbooks, x \in Targets : Create(b, p, x)
    BY <1>5 DEF Creates
  <2>2. PICK n : Created(b, p, x, n)
    BY <2>1, CreateEffect
  <2>3. blocks' = blocks /\ \A i \in DOMAIN execs : execs'[i] = execs[i]
    BY <2>1, <2>2 DEF Create, Created
  <2> QED
    BY <2>3 DEF DecidedStep
<1>6. ASSUME NEW b \in Backends, ReleaseExpired(b) \/ Apply(b) PROVE DecidedStep
  <2>1. \A j \in DOMAIN blocks : blocks[j].status = "released" => blocks'[j] = blocks[j]
    BY <1>6, ReleaseExpiredEffect, ApplyEffect
  <2>2. execs' = execs
    BY <1>6 DEF ReleaseExpired, Apply
  <2> QED
    BY <2>1, <2>2 DEF DecidedStep
<1>7. CASE execs' = execs /\ blocks' = blocks
  BY <1>7 DEF DecidedStep
<1> QED
  BY <1>1, <1>2, <1>3, <1>4, <1>5, <1>6, <1>7
  DEF Creates, Steps, Silent, Query, Evaluate, BeginApproval, AbortApproval,
      Raise

----------------------------------------------------------------------------
(* The theorems.                                                           *)

LEMMA InitIInv == ASSUME SoarAssumption, Init PROVE IInv
<1>1. TypeOK
  <2>1. \A S : <<>> \in Seq(S)
    OBVIOUS
  <2> QED
    BY <2>1, IdleType DEF Init, TypeOK, Times, SoarAssumption
<1>2. DOMAIN alerts = {} /\ DOMAIN execs = {} /\ DOMAIN blocks = {}
  BY DEF Init
<1>3. \A b \in Backends : worker[b].pc = "idle" /\ worker[b].queue = {} /\ worker[b].todo = {}
  BY IdleType DEF Init
<1>4. \A q \in Requests : approving[q] = 0
  BY DEF Init
<1>5. WorkerInv /\ OwnInv /\ ApplyInv /\ ApprovingInv
  BY <1>2, <1>3, <1>4 DEF WorkerInv, OwnInv, ApplyInv, ApprovingInv
<1>6. ExecInv /\ BlockInv /\ AddressInv /\ FullInv /\ OncePerBackend /\ AnsweredInFull
  BY <1>2, <1>3 DEF ExecInv, BlockInv, AddressInv, FullInv, OncePerBackend, AnsweredInFull
<1> QED
  BY <1>1, <1>5, <1>6 DEF IInv

LEMMA NextIInv == ASSUME SoarAssumption, IInv, [Next]_vars PROVE IInv'
<1> USE DEF IInv
<1>1. Keeps /\ (Creates \/ DOMAIN execs' = DOMAIN execs)
  BY NextKeeps
<1>2. TypeOK'
  BY NextType
<1>3. WorkerInv' /\ OwnInv' /\ OncePerBackend'
  BY <1>1, NextWorkerInv, NextOwnInv, NextOncePerBackend
<1>4. ApplyInv' /\ ApprovingInv' /\ BlockInv'
  BY NextApplyInv, NextApprovingInv, NextBlockInv
<1>5. ExecInv' /\ AddressInv' /\ FullInv' /\ AnsweredInFull'
  BY <1>1, NextExecInv, NextAddressInv, NextFullInv, NextAnsweredInFull
<1> QED
  BY <1>2, <1>3, <1>4, <1>5

\* IInv is an inductive invariant of the worker, the analysts and their faults.
THEOREM Invariance == Spec => []IInv
<1>1. Init => IInv
  BY InitIInv, SoarAssumption
<1>2. IInv /\ [Next]_vars => IInv'
  BY NextIInv, SoarAssumption
<1> QED
  BY <1>1, <1>2, PTL DEF Spec

\* Every statement of the worker and of the API keeps the rows well formed; a row names
\* only an alert, an execution or a backend that exists.
THEOREM TypeCorrect == Spec => []TypeOK
<1>1. IInv => TypeOK
  BY DEF IInv
<1> QED
  BY <1>1, Invariance, PTL

LEMMA GateFromInv == ASSUME IInv PROVE ApprovalGate
<1> SUFFICES ASSUME NEW i \in DOMAIN execs
             PROVE  /\ Cardinality(BlocksOf(i)) <= 1
                    /\ execs[i].approved => BlocksOf(i) # {}
                    /\ execs[i].status \in {"pending_approval", "rejected"} => BlocksOf(i) = {}
                    /\ Approval[execs[i].playbook] /\ BlocksOf(i) # {} => execs[i].approved
  BY DEF ApprovalGate
<1>1. ExecInv /\ BlockInv
  BY DEF IInv
<1>2. Cardinality(BlocksOf(i)) <= 1
  <2>1. CASE BlocksOf(i) = {}
    BY <2>1, FS_EmptySet
  <2>2. CASE BlocksOf(i) # {}
    <3>1. PICK j : j \in BlocksOf(i)
      BY <2>2
    <3>2. BlocksOf(i) = {j}
      BY <1>1, <3>1 DEF BlocksOf, BlockInv
    <3>3. Cardinality({j}) = 1
      BY FS_Singleton
    <3> QED
      BY <3>2, <3>3
  <2> QED
    BY <2>1, <2>2
<1>3. execs[i].approved => BlocksOf(i) # {}
  BY <1>1 DEF ExecInv, BlocksOf
<1>4. execs[i].status \in {"pending_approval", "rejected"} => BlocksOf(i) = {}
  BY <1>1 DEF BlockInv, BlocksOf
<1>5. Approval[execs[i].playbook] /\ BlocksOf(i) # {} => execs[i].approved
  BY <1>1 DEF BlockInv, BlocksOf
<1> QED
  BY <1>2, <1>3, <1>4, <1>5

\* However many requests race for an execution, and whatever fails, it is blocked once
\* at most, and never without the approval its playbook asks for (soar.go:232-314).
THEOREM GateHolds == Spec => []ApprovalGate
<1>1. IInv => ApprovalGate
  BY GateFromInv
<1> QED
  BY <1>1, Invariance, PTL

\* No block has a protected target: the worker checks it before it creates an
\* execution, and nothing changes the target after that (soar.go:87-104, 199-216).
THEOREM ProtectedHolds == Spec => []ProtectedNeverBlocked
<1>1. IInv => ProtectedNeverBlocked
  BY DEF IInv, ExecInv, BlockInv, ProtectedNeverBlocked
<1> QED
  BY <1>1, Invariance, PTL

\* A backend creates one execution at most of a playbook for an alert, for any number of
\* backends that evaluate the alert at the same time (main.go:175-222).
THEOREM OnceHolds == Spec => []OncePerBackend
<1>1. IInv => OncePerBackend
  BY DEF IInv
<1> QED
  BY <1>1, Invariance, PTL

\* Without a fault, an alert with an execution has one of every playbook that is due, or
\* a worker that is about to create it (main.go:180, soar.go:154-227).
THEOREM AnsweredHolds == Spec => []AnsweredInFull
<1>1. IInv => AnsweredInFull
  BY DEF IInv
<1> QED
  BY <1>1, Invariance, PTL

\* Every step leaves a decided execution and a released block as they are, except for
\* the analyst's release of an active block (soar.go:253, 299, 329, 340, 356).
THEOREM DecidedHolds == Spec => DecidedOnce
<1>1. IInv /\ [Next]_vars => [DecidedStep]_vars
  BY NextDecided, SoarAssumption DEF IInv
<1> QED
  BY <1>1, Invariance, PTL DEF Spec, DecidedOnce

=============================================================================
