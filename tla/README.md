# A verification of the mini SIEM platform

The modules in this directory model the Go backend of the platform
(`src/backend`): the way of a log from an agent through the checks of the ingest
endpoint and the pipeline on Redis streams, its enrichment, the two detection
engines on Postgres, the automated response, the health checks, and the console
of the analysts. TLC checks each of them on a small instance, and TLAPS proves
safety properties of the core for every value of the constants. Paths below are
relative to `src/backend` unless they start with `src/`.

| module | what it is |
| --- | --- |
| `Pipeline.tla` | raw stream, retry stream, dead-letter stream, and their goroutines |
| `Delivery.tla` | what the pipeline promises of a log; `Pipeline` implements it |
| `RuleEngine.tla` | `Process` and `recordAlert` of the rule engine, and the analysts' changes |
| `Correlation.tla` | `Process` and `Match` of the correlation engine |
| `CorrelationLoop.tla` | `Match` with its loops as they are written, to compare |
| `Soar.tla` | the response worker of every backend, approvals, releases, expiry |
| `Intake.tla` | API keys, rate limit, the checks of `ingestLog`, enrolment |
| `Intel.tla` | the enricher: cache, quota, budget of time |
| `Health.tla` | the health checks and the alerts about the queues |
| `Console.tla` | cases, links, notes, users, tokens, and the audit trail |
| `MC*.tla` | the instances TLC checks, with one or more `.cfg` files each |
| `*Proofs.tla` | theorems and proofs |
| `PROJECT.json` | runs, mutants, the map from definitions to source lines, hazards, findings, theorems |

To repeat the checks: `tlc -config MCSoar.cfg MCSoar.tla` for a run (they are
listed below), `tlapm PipelineProofs.tla` for the proofs.

Definitions whose comment starts with `Mutant:` are not part of the model. Each
is a definition of the model with a bug somebody could have written (a lock left
out, a comparison off by one, an acknowledgement before the hand-over), and each
breaks a property when it takes the place of the original. They show that the
property depends on the code it is about.

## 1. Inventory

### How the parts interact

    agent --HTTP--> ingest --XADD--> raw stream --XREADGROUP--> parser goroutine
                      |                                             |
                      | XADD failed                                 | processEvents
                      v                                             v
                  retry stream <------ batch failed ------ Elasticsearch, correlation,
                      |    ^                                rule engine (Postgres)
        retry goroutine    | replay                                 | alerts
                      v    |                                        v
                  dead-letter stream                         SOAR worker --> executions,
                      ^                                             ^        blocks
                      +------ analysts (HTTP) --- approve, reject, release

Several backends may run at once. They share one Redis and one Postgres and have
no other contact. In each, a parser goroutine, a retry goroutine, a SOAR worker
and a health checker run besides the HTTP handlers (`cmd/api/main.go:35-241`).

### Components

**Ingest publishing** (`internal/ingest`, `ingestLog` in `internal/api/handler.go`).
State: the raw stream, capped by `XADD MAXLEN ~ 50000`. Operations: publish one
log; on an error, queue it in the retry stream and answer 502. Hard: the reply
to an XADD may be lost after it took effect; the cap discards what nobody has
read. Correct if every accepted log is somewhere afterwards.

**Parser consumer** (`ConsumeBatchWithFailureHandler` and `consumeBatch` in
`internal/parser/parser.go`). State: the consumer group (what was not delivered
yet, what each consumer name has pending), the batch in memory, and whether the
next read is the recovery read of cursor `0`. Hard: a crash between delivery and
acknowledgement, a failing Redis call anywhere, the recovery read that happens
once only. Correct if nothing is lost and nothing stays pending.

**Retry and dead-letter queues** (`internal/dlq/manager.go`). State: the two
streams, the failure count in each entry, the pending entries of each retry
consumer. Operations: `SendToRetry`, `SendToDLQ`, `ConsumeRetry`,
`ReplayMessage`, `PurgeDLQ`. Hard: every hand-over is two calls (add there,
acknowledge or delete here), replays race with each other and with purges.
Correct if a log is given up only after its retries, and never without a
dead-letter entry.

**Rule engine** (`internal/ruleengine`). State: `rules`, `rule_event_receipts`,
`alerts`, `alert_events`. Operation: `Process`, one transaction per matching
rule, under an advisory lock per rule and entity. Hard: at-least-once delivery
to several goroutines, `now()` fixed before the lock is waited for, rules and
alerts changed meanwhile. Correct if every event counts once, thresholds are
neither missed nor met early, and alerts aggregate within their cooldown.

**Rule and alert administration** (`internal/api/admin.go`). State: the same
tables, `users`, `audit_logs`. Operations: create, change and delete rules,
change the status of alerts, manage users.

**Correlation engine** (`internal/correlation`). State: `detection_events` (kept
for 25 minutes), `detection_findings` and their alerts. Operation: `Process`,
one transaction per event under an advisory lock per host and user; it stores,
queries, matches and purges. Hard: events out of order and late, a purge that
concerns other entities too, a clock read before the lock. Correct if every
chain whose events came in time is found, exactly once, with the right evidence.

**SOAR engine and worker** (`internal/soar`, `cmd/api/main.go:165-226`). State:
`playbooks`, `playbook_executions`, `blocked_entities`. Operations: the tick of
the worker (expire, query alerts, evaluate, create, apply), `ApproveExecution`,
`RejectExecution`, `ReleaseBlockedEntity`. Hard: the worker uses no transaction
and runs in every backend; approvals, rejections and releases race. Correct if
nothing is blocked without the approval its playbook asks for, nothing protected
is blocked, every alert is answered once and in full, and every block ends.

**Rate limiter** (`internal/ratelimit`). A counter per hostname and minute in
Redis: INCR, then EXPIRE if the counter is new. Hard: the two calls are not
atomic, so a counter can be left without expiry; a window starts with a request.
Correct if the requests that pass are bounded in any minute, and a host is
refused for ever only if its EXPIRE was lost.

**API keys and ingest authentication** (`internal/apikey`, `withIngestAuth`,
`createIngestKey`). Rows with a hash, a state and an expiry; a key is stored
before its audit record is. Correct if no client holds a key that the audit trail
does not know, and a published log was sent in the name of the key's asset.

**Fleet enrolment and assets** (`internal/api/handler.go:217-638`). Assets, log
sources, policies and deployments, written by one enrolment in several
statements without a transaction, while requests rewrite the sources. Correct if
an enrolment that fails half-way leaves no deployment, and no agent sends for a
source it was never enrolled for.

**Threat intelligence** (`internal/intel`). A cache with positive and negative
entries, a quota per minute and a budget of time per event, shared by the parser
and the retry goroutine under one mutex that is not held during the look-up.
Correct if the calls of any minute are bounded, and evidence had not expired.

**Health checks** (`internal/health`, `internal/metrics`). Rows of
`pipeline_alerts`, opened and resolved from the stream lengths in two statements
to two databases. Correct if an answer is the worst of what the request met, and
an alert ends up in the state of its queue.

**Cases, audit and reports** (`internal/api/cases.go`) and **authentication**
(`internal/auth`, `login`, `usersRoute`). Every change is one transaction with
its audit record, and transactions commit in another order than their audit ids
are drawn in. A token is checked by its signature and expiry only. Correct if the
trail replays to the rows, and a disabled user stops.

**Duplicate groups** (`internal/dedup`, and the counters in
`parser.go:405-420`). Groups of equal logs in Redis, read, changed and written
without WATCH; nothing decides by them.

**Storage** (`internal/storage`): bulk indexing by event id into Elasticsearch.
**Parsing** (`Parse`, `EnrichIP`, `EnsureGroup`): text to record.
**Frontend** (`src/frontend`) and **scripts** (`src/scripts`): outside the backend.

`PROJECT.json` lists, under `hazards`, what can go wrong in each part and is hard
to reach with a test, and which property covers it.

## 2. Plan

In this order, the most important behaviour first:

1. `Pipeline` and its proofs: no accepted log is lost. *Done.*
2. `RuleEngine` and its proofs: at-least-once delivery, exactly-once counting. *Done.*
3. `Correlation` and its proofs: completeness of the detection under lateness and
   concurrency. *Done.*
4. `Soar` and its proofs: approval gate, answering once, expiry. *Done*; its
   liveness stays with TLC.
5. `Health`: the checks over the stream lengths, and the alerts they keep. *Done.*
6. `Intake`: keys, the fixed window of the rate limiter, the checks of
   `ingestLog`, enrolment in steps. *Done.*
7. `Console`: transactions with their audit records, and tokens. *Done.*
8. `Intel`: cache, quota and look-ups that run outside the mutex. *Done.*
9. `Delivery`, an abstract specification of what becomes of a log, which `Pipeline`
   implements through a refinement mapping. *Done*, and proved.
10. `Detection`, which would compose `Pipeline` with the two engines as idempotent
    sinks, the *effect* of a log being its receipt. Open: `RuleEngine` and
    `Correlation` take the same event from several goroutines any number of times,
    which is all that `Pipeline` does to them, so the composition would add states
    and no new interaction but the order of arrival, which both leave free.

Modules to be proved about declare their constants with a named assumption, have
one action per operation, and no recursive operator.

## 3. The modules and the code

### Pipeline

| state | code |
| --- | --- |
| `stream`, `unread`, `pel` | the entries of `siem:raw-logs`, what the group has not delivered, what each consumer name has pending |
| `pc`, `work` | where the parser goroutine of a backend is in `consumeBatch`, and its batch |
| `msg` | every entry ever added to the retry and the dead-letter stream, in order; both take their ids from the same clock |
| `runread`, `rpel`, `dlq` | the retry entries not delivered, those pending at a retry consumer, the dead-letter entries present |
| `rpc`, `rwork` | the retry goroutine in `ConsumeRetry`, and its batch |
| `replays` | replay requests under way, read but not sent, or sent but not deleted |
| `analysed`, `dropped`, `discarded`, `fails`, and the counters | history |

Every Redis call is a step of its own. `Publish`, `PublishToRetry` and
`PublishTwice` are the three outcomes of an ingest request: XADD succeeds; fails
without effect, so that the log is queued for retry; takes effect and its reply
is lost. `ReadPending` is the recovery read that `consumeBatch` makes once;
`ReadNew` every later one. `Analyse` gives one event after the other to
`processEvents`; `AnalyseFails` gives the whole batch to the failure handler,
whatever was analysed before. `Resend` and `Ack` alternate, message by message.
`ParserFault` and `RetryFault` are a failing call, with or without its effect: it
ends its goroutine, and `main` only logs that. `Crash` ends both goroutines and
their batches; `Start` is the restart of the same container, which keeps its
hostname and so its consumer name.

`Delivery` says the same without queues: a log is owed, then handled, shed or
given up, and an analyst may have one that was given up tried again or discard it.
`Fate` is the refinement mapping. It has a value `"lost"` that `Delivery` does not
know. Two of the moves are easily overlooked, and TLC finds each of them needed:
`owed -> discarded`, because a log that ran out of retries is added to the
dead-letter stream before its retry entry is acknowledged, and a purge may come in
between; and `discarded -> owed`, because a replay that read an entry before the
purge sends it all the same.

The waits (blocking reads, the delay before a retry) are stuttering. A retry is
taken when it is due or later; that order is the order of the stream, as in the
code, which sleeps in the loop.

### RuleEngine

| state | code |
| --- | --- |
| `rules` | `rules.enabled`, and whether the pattern compiles |
| `receipts` | `rule_event_receipts` with `observed_at` |
| `alerts`, `links` | `alerts` with status, `occurrence_count`, `triggered_at`, `last_seen_at`; `alert_events` |
| `tx[w]` | what goroutine `w` is doing: its snapshot of matching rules, the open transaction with its `now()`, the alert it chose, the POSTs that were not answered |
| `clock` | the clock of Postgres |

`recordAlert` is taken apart where others can come in: `Begin` fixes `now()`,
`Lock` waits for the advisory lock of the rule and the entity, `Duplicate`,
`BelowCount` and `ChooseAlert` are the three ways on from the insert of the
receipt, `CommitNew` and `CommitOccurrence` make everything visible. After the commit of a
new alert comes `Notify`, the notifier's `Send` POST by POST: one that arrives and
is answered ends it (`Answered`); one that is lost or refused, or whose answer is,
is tried again, up to `Attempts` times (`Unanswered`), so that one alert may be
announced by several messages; `GiveUp` is a notifier without a token, or a
context that ends. `notices` counts what has arrived. A transaction's own writes stay in its record
until it commits. `Abort` is every error and every crash. `UpdateRule`,
`DeleteRule` and `UpdateAlert` are the handlers of analysts, waiting for the row
locks they would wait for: the receipts of a deleted rule go with it, a rule that
has an alert cannot be deleted (its foreign key has no cascade).

The condition of a rule (count, window, cooldown) does not change in the model,
and window and cooldown are the same for all rules. `MaxTx` bounds how long a
transaction stays open; the assumption `MaxTx <= Cooldown` says that the cooldown
(seconds to hours) is longer than a transaction.

### Correlation

`stored` is `detection_events`, `findings` the findings with their alerts and
evidence. `Process` reads the clock and drops what is too old or in the future,
`Lock` waits for the advisory lock, `Find` inserts, queries and matches, `Commit`
writes the findings and purges. `Match` says what the loops of the code find: for
an escalation, the failures of the window before the first success that has
enough of them, and the last such success. The loops themselves, folds over the
events in the order of `Earlier`, are in `CorrelationLoop`, and `MatchIsScan`
says that the two agree in the rows of every transaction; the run checks that, and
that they are the same is proved for every set of events. `Abort` is every error
exit: a failing statement, more events than `Cap`, the missing rule of the
findings, a key used twice.

`Retention = Lateness + Window`, as in the code (25 = 15 + 10 minutes). All
backends read one clock: what their clocks differ by counts as delay. `onTime` is
the history that `ChainsFound` needs. An event accepted at the last moment, whose
transaction then waits, can find its evidence purged by another entity's
transaction; so completeness is claimed for events that were committed with
`MaxDelay` to spare, and the model shows the margin to be necessary: with
`onTime` extended to all committed events, `ChainsFound` fails.

### Soar

`worker[b]` is the worker of backend `b` between two of its statements:
`ReleaseExpired`, `Query`, `Evaluate` (look up the address, select the
playbooks), `Create`, `Apply`, `Wait`. Most have a failing variant that does what
the code does with the error, mostly nothing. The address that `Evaluate` finds
(`Addresses`) may be that of any event of the evidence, or none: the correlation
engine purges the rows behind it, and the error of the look-up is ignored. `Crash` ends it anywhere.
`BeginApproval` is the `SELECT ... FOR UPDATE`, `CommitApproval` the rest of the
transaction, `AbortApproval` its failure; `Reject` and `ReleaseBlockedEntity` are
one statement each, or one transaction that locks its row first.

A block approved after the hour of its execution is released by the next tick: its
expiry was fixed with the request. The model has it that way too.

Playbooks and the allowlist are constants: no handler changes a playbook, and
`main` passes no custom allowlist. Both playbooks that the migrations seed need
approval; `automatic` stands for one that an operator adds to the table without.
`Limit` and `Recent` are 20 and ten minutes in the code.

### Intake

| state | code |
| --- | --- |
| `asset`, `source` | rows of `assets`, and of `log_sources` with their `agent_id` |
| `keys` | `api_keys`; whether the audit record exists and the client has the key is history |
| `counter` | the counter `ratelimit:<hostname>` and when Redis drops it |
| `req`, `admin` | a request on its way through the middleware, an enrolment or key request between two statements |
| `deployed` | `fleet_policy_deployments` |
| `granted`, `admitted`, `lost`, `enrolled` | history |

An ingest request is `Authenticate` (`ValidateKey`), `Incr` and `Expire` (the two
calls of `Allow`), `CheckSource` (the comparison of the host, and the enrolled
agent), `UpdateSource` and `InsertSource` (`registerLogSource`), and `Publish`,
after which `Pipeline` takes over. An enrolment is `Enrol` (the asset), one
`RegisterSource` for each source, and `Deploy`; a key is `GenerateKey`, `Audit`,
and `RevokeKey` if the audit record could not be written. `RequestFails` and
`AdminFails` end them between any two statements. `Fold` is the lower case of a
host name: `UpdateSource` looks an asset up by it, while the column is unique by
the name as it is written.

### Intel

`caller[g]` is the event goroutine `g` enriches. `Lookup` picks the next
indicator and reads the clock; then the mutex is asked for, and time may pass.
`CacheHit`, `QuotaExceeded` and `Call` are the three ways out of the first
critical section, each one step, since it is under the mutex. `Answer` and `Fail`
are the provider, with the budget of the event as its deadline; `Store` is the
second critical section. All of them use the time that `Lookup` read. What a
provider answers is any set of the constant `Feed`; an observation of an address
prefix covers several indicators.

The order in which `Enrich` takes the indicators is left open; `status` is that
of the last one that was not ok, which is why it is a step's own effect.

### Health

`probe[p]` is a request with the services it asks for, the result of each check
that has returned, and where the two checks with several calls are. Checks of a
request run at the same time; requests overlap. `length` is XLEN of the retry
and the dead-letter stream, `row` the rows of `pipeline_alerts`. The read of a
stream (`ReadRetry`, `ReadDlq`) and the statement about its alert (`RetryAlert`,
`DlqAlert`) are two steps. `failed`, `met` and `unmet` collect what happened while the
request ran. `AddRetry` has no counterpart: XACK leaves an entry in its stream,
and nothing deletes or trims it.

### Console

`tx[r]` is the transaction of a request: `Begin` (the token and role are checked),
`Execute` (its statement, which waits for the row lock of another), `RecordAudit`
(which draws an audit id), and `Commit`, which makes it visible, or `Rollback`.
`CreateCase`, `UpdateCase`, `AddNote`, `LinkAlert` and `ChangeUser` are what the
handlers accept; by `Role`, a case is open to a viewer too, its notes and links to
an analyst, and users to an administrator. `Free` is the lock: an `UPDATE` or `DELETE` waits for the
transaction that changed its row, an `INSERT` for one with the same key; a
statement that meets no row waits for nobody and is no error. `Login` reads the
row of a user, `Token` follows when the password is checked.

## 4. What is checked

| run | instance | shows |
| --- | --- | --- |
| `intake` | two requests, one administrator, two hosts whose names differ in case only, two agents, one fault | `SlidingBound`, `CounterExpires`, `PublishedIsAuthorised`, `SourcesAreGranted`, `DeployedInFull`, `TypeOK` |
| `pipeline_backends` | two backends, two logs, `MaxLen` 1, one fault, one crash | `NothingLeftBehind`, `NoLoss` |
| `pipeline_replay` | one backend, one log, two replays, one fault, one crash | `DlqOnlyAfterBudget`, and `Delivered`: `Pipeline` implements `Delivery` |
| `pipeline_live` | one backend, two logs, one crash, fairness | `RawDrains`, `RetryDrainsWithoutCrash` |
| `pipeline_retry_crash` | one log, one crash, fairness | `RetryDrains` fails |
| `intel` | two goroutines, two public indicators and a private one, quota 1, cache 1, three ticks | `AnswerCurrent`, `QuotaHolds`, `TypeOK` |
| `rule_engine` | two goroutines, one rule that asks for two events, three events of one entity, four seconds, two changes by analysts, two attempts of a notification | `CountedOnce`, `AlertIffBurst`, `QuietBeforeNewAlert`, `AnnouncedByOneSend`, `TypeOK` |
| `correlation` | two goroutines, eight events of two users, six minutes | `ChainsFound`, `EvidenceIsChain`, `OneFinding`, `RetentionBounds`, `MatchIsScan`, `TypeOK` |
| `soar_response` | two backends, two requests, a playbook with approval and one without | `ApprovalGate`, `ProtectedNeverBlocked`, `OncePerBackend`, `DecidedOnce`, `TypeOK` |
| `soar_failures` | one backend, one request, three playbooks, one failure or crash, fairness | `AnsweredInFull`, `ExpiredIsReleased` |
| `health` | two overlapping requests that between them run all six checks, one entry in each stream, one fault, fairness | `AnswerExplained`, `AlertChangeWitnessed`, `AlertsConverge`, `TypeOK` |
| `console` | two requests, an administrator and a viewer, one case, one alert, three audit records, one fault | `AuditReplays`, `DisabledStops`, `TypeOK` |

### Why the bounds are enough

*Pipeline.* A batch of two holds a message that was handled and one that was not;
`MaxLen` 1 trims entries that are undelivered, pending, and acknowledged; one
fault and one crash meet every pair of calls, and a fault and a crash after each
other. Two concurrent replays are the least that race. One log is enough for the
budget, because the entries of different logs do not touch each other.

*Rule engine.* Two goroutines are the least that wait for each other. With three
events and a count of two there is an event before the burst, the burst, and one
after it to be aggregated or not; four seconds hold a window, a cooldown and the
first second after each. Two attempts hold a message whose answer is lost and the
one that repeats it, where `Send` has three. Rules do not interact, since every transaction locks its
own rule; an instance with two rules has more than five million states, and the
proof covers any number.

*Correlation.* The eight events hold a failure at the edge of the window of one
escalation and outside that of a later one; a failure, a success, another failure
and another success at the same time (ordered by id), so that a chain has two
successes to choose from and a failure that does not count, or none but the last
success; more events of one user than `Cap`; and an event of another user whose
purge concerns the first. `Window` 2, `Lateness` 2 and `MaxDelay` 1 leave room for
each to be crossed by one. `MatchIsScan` meets most sets of
these events, more than `Cap` of them included.

*Soar.* One alert suffices for the races of two backends and two requests, since
executions of different alerts share nothing but the `LIMIT` of the query. Two kinds of alert: one of the correlation engine,
and one whose target is protected.

*Intake.* Two requests are the least that race for one counter or one source, and
one enrolment at a time races with both. `Limit` 1 and `Window` 2 let a request
start a window, one be refused in it, and the next window start within the reach
of `SlidingBound`; `MaxEnrol` 2 enrols a source for one agent and then for
another, or both spellings of a host.

*Intel.* With a quota and a cache of one, every second look-up finds them used up.
The ticks let a look-up that waits for the mutex be a whole window behind, which
is what makes the bound of `QuotaHolds` as large as it is: with the one call for
another caller taken away, TLC finds it violated. `TTL` 2 and an
observation that expires after one tick tell the two limits of an entry apart.

*Health.* Two requests overtake each other. Thresholds of one are crossed by one
entry, and `Endpoints` gives every service to one of the requests and the queues
to both, so that a check of the queues meets another one between its statements.

*Console.* Two transactions are the least that wait and commit out of order; three
audit records tell a change, another, and one that undoes it. One tick is the
whole life of a token here.

### Fairness

`pipeline_live` assumes weak fairness of each goroutine (a goroutine that can run
is scheduled by the Go runtime) and of `Start` (`restart: unless-stopped` in
`src/docker-compose.yml`). The actions of failing calls have no fairness,
and a goroutine that ended after a failing call stays ended, as in the code. For
that reason the run assumes more than fairness: `MaxFaults` is 0 in its cfg, so that
no call fails. What it shows is that a crash and a restart lose no progress; after
a call that fails, only the safety properties of the other runs are claimed.
`soar_failures`, `health` and `console` do have a fault.
`soar_failures` assumes weak fairness of each worker: its ticker fires every ten
seconds. `health` assumes that a check that runs returns (weak fairness of each
request: the calls have the deadline of the request), and strong fairness of
requests that check the queues, since Docker asks for `/healthz` every five
seconds (`src/docker-compose.yml:99-104`). Strong, because a request slot of the
model may be taken by others again and again. No fairness is assumed of analysts, of the arrival of
logs or alerts, or of the clock.

### What the violated run shows

`pipeline_retry_crash`: an entry the retry goroutine held when its backend died is
never read again; `ConsumeRetry` lacks the recovery read that the parser has.

### Where code and documents differ, without a run

The models follow the code in each of these; no run is spent on them, because the
difference is plain once it is written down.

- A log is retried `MaxRetries + 1` times (`internal/dlq/manager.go:23-24, 326`).
  What is checked is that it is never given up before (`DlqOnlyAfterBudget`).
- `src/README.md:61` speaks of backpressure; XADD with `MAXLEN` sheds the oldest
  entries instead (`internal/ingest/ingest.go:67-70`).
- `src/README.md:131-132` promises an hour of isolation after the approval; the
  hour begins with the request (`internal/soar/soar.go:183, 280`).
- Twenty newer alerts that no playbook answers hide an older one from the worker
  (`cmd/api/main.go:175-182`), although `src/README.md:130` has it answered by itself.
- "Token bucket" (`internal/ratelimit/limiter.go:17`) is a fixed window; the bound
  that does hold in any minute is that of `SlidingBound`.
- The alert of a retry stream that once reached its threshold never closes, as
  nothing shortens that stream (`internal/health/checker.go:204-218`).
- The report of a case asks `alerts` for columns it does not have and drops the
  error, so that it never lists an alert (`internal/api/cases.go:316`).

## 5. What is proved

`PipelineProofs.tla`, for every set of backends and all bounds, from
`PipelineAssumption` only:

- `TypeCorrect`: `Spec => []TypeOK`.
- `NothingLost`: `Spec => []NoLoss`.
- `NoneLeftBehind`: `Spec => []NothingLeftBehind`.
- `DeliveryKept`: `Spec => Delivered`, the refinement of `Delivery`.
- `BudgetKept`: `Spec => []DlqOnlyAfterBudget`.

`NoLoss` is not inductive: the step that acknowledges an entry removes one of the
places the log is in, and nothing in `NoLoss` says it is in another. The
invariant `IInv` adds that reason for each place something is removed from:
`AckIsSafe` (what the parser is about to acknowledge was analysed or is in the
retry stream), `RetryAckIsSafe` and `ReplayIsSafe` (a *newer* entry stands for
what is about to be acknowledged or deleted), and `WorkIsPending` (the batch in
memory is all the name has pending, and no larger than the batch size, which is
why one recovery read suffices). The argument turns on `SafeAfter(p, id)`: a log
is analysed, discarded, or has an entry after position `p`. The lemma `NextKeeps`
shows that every step that removes an entry leaves a later one for the same log,
and `SafeStable` that the predicate is preserved by such steps.

For the refinement `NoLoss` is not enough, as it does not say where a log may go
from where it is. `Sources` does, for every step: what is analysed, given up or
sent on was held by a goroutine or queued, what is shed was in the raw stream and
not handled, and only new ids are new. `DInv` adds what that needs of the state
before: ids are given out in order (`BornInv`), an unread id is nowhere else
(`UnreadInv`), and the retry goroutine works on what it has not acknowledged
(`RetryWorkInv`). `FateStep` then goes through the fates of one log.

`DlqOnlyAfterBudget` compares a history, `fails`, with the entries of the
dead-letter stream, and copies of one log are counted apart in several retry
entries at once. What makes it inductive is a token for each failed retry: an
entry of the retry stream that has failed `n` times and is still to be retried
holds `n` of them, the one whose retry has just failed one more, and a dead-letter
entry `MaxRetries + 1` (`Spent`, `Tokens`). `Paid` says that a log never has more
tokens than failures. A failing retry makes one (`FailurePays`); sending the entry
on moves its tokens to the entry that takes its place, in the retry stream or the
dead-letter stream (`SendOnPays`, with the injection of `MovedTokens`); and a
replay, a crash or a failing call only gives tokens up (`FewerTokens`). Moved
tokens must not stay with the entry they come from. That is what `BatchInv` is
for: an entry is unread or in the batch of one goroutine, and one that was sent on
is not in hand any more, although it is acknowledged in a later step and may stay
pending for ever.

`RuleEngineProofs.tla`, for any number of goroutines, events, rules and entities,
any counts, and all times, from `RuleEngineAssumption`:

- `TypeCorrect`, `CountsOnce`, `ThresholdExact` (`AlertIffBurst`), `CooldownHolds`,
  `AnnouncesByOneSend` (`AnnouncedByOneSend`).

Its invariant says what a transaction may rely on: the lock is exclusive
(`LockInv`), what `ChooseAlert` saw still holds at the commit because of the lock
and the row lock (`ChosenInv`), receipts and alerts carry times that lie at most
`MaxTx` before the clock (`ReceiptInv`, `AlertInv`), a link has its receipt
(`LinkInv`), of an alert that a goroutine is announcing no more has arrived than
went unanswered, and of the others no more than `Attempts` (`NotifyInv`,
`NoticeInv`), and alerts of one rule and entity that nobody closed are a cooldown
apart (`SpacedInv`). The counting rests on the theorems about finite sets of the
library.

`CorrelationProofs.tla`, for any goroutines, events, entities and times, and any
window, lateness and delay with `MaxDelay <= Window` and
`Retention = Lateness + Window` (`CorrelationAssumption`):

- `TypeCorrect`, `Complete` (`ChainsFound`), `Sound` (`EvidenceIsChain`),
  `FoundOnce` (`OneFinding`), `Bounded` (`RetentionBounds`).
- `LoopsFindMatch`: `ScanAll(S) = Match(S)`, for every set of events `S`, and so
  `FindsWhatLoopsFind`: `Spec => []MatchIsScan`.

`ChainsFound` speaks of committed events only, so the invariant adds what the
transaction that commits the last event of a chain has already found
(`CompleteInv`). The argument: the lock keeps the committed events of its entity
as they are from its query to its commit (`LockInv`), and none of the chain's
events was purged before the query (`SeenWholeChain`), since a purge belongs to a
call that began no later than the clock of the query, which is at most
`MaxDelay` after the beginning of this one (`TxInv`, `KeptInv`), and the escalation
is no older than any event of its chain. That
`Match` reports a chain whenever there is one, and nothing but chains, are the
lemmas `MatchComplete` and `MatchSound`; they rest on finite sets with a strict
order having a maximal element (`Maximal`), which the library's theorem on strict
subsets yields.

`Match` is a definition, and `LoopsFindMatch` is why one may reason with it: the two
loops of the code compute it. `Loop` is a fold that takes the last event of a set
off and is applied to the rest, and no induction theorem of the library can be used
about it. The same theorem on strict subsets does instead. It gives `LeastSet`: of
the sets with a fault there is one whose subsets have none. With it, the fold is
defined for every set (`LoopExists`), and equal to `Result`, which says what the loop
has found so far without a loop (`LoopResult`). Both then need one round of it only
(`RoundResult`); there, the failures that were counted up to the first success that
completes the chain are enough for a later one exactly if all failures before that
one are.

`SoarProofs.tla`, for any backends, requests, playbooks, kinds of alerts and
bounds, from `SoarAssumption`:

- `TypeCorrect`, `GateHolds` (`ApprovalGate`), `ProtectedHolds`
  (`ProtectedNeverBlocked`), `OnceHolds` (`OncePerBackend`), `AnsweredHolds`
  (`AnsweredInFull`), `DecidedHolds` (`DecidedOnce`).

The worker holds no lock between its statements. What it relies on nevertheless
is what only it can disturb: it did not create before what it has yet to create
(`OwnInv`), and the execution it is about to apply is its own, needs no approval
and has no block (`ApplyInv`). An approval relies on the row it holds
(`ApprovingInv`). Together they give every block an execution of its own that was
executed, and approved where it must be (`BlockInv`). For `AnsweredInFull` the
invariant `FullInv` accounts for the alert a worker is in the middle of: each playbook
that is due for the address the worker found is created by it already or still to
do, as long as no statement failed; `AddressInv` says that the executions created
for that alert carry the address the worker goes on with.

`IntakeProofs.tla`, for any handlers, hosts, types, agents and keys, and all
bounds, from `IntakeAssumption`:

- `IntakeTypeOK`, `CounterExpiresAlways`, `PublishedIsAuthorisedAlways`,
  `SourcesAreGrantedAlways`, `DeployedInFullAlways`, `SlidingBoundAlways`.

A handler holds nothing between its statements, so the invariant says what each
stage of a request may rely on although others went on meanwhile: a key that
somebody has was audited (`KeyInv`), a request that is served has such a key
(`ServedInv`), past its checks its host has the name of the key's and its agent was
enrolled for a host of that name (`CheckedInv`), and an enrolment has stored what it
counts as stored (`AdminInv`). The run `intake` has a single key, as two do not fit
its time; the theorems are what says that keys do not disturb each other.

`SlidingBound` counts a whole history, of which a counter knows the present window
only. `RateInv` says how the two are related. A counter that is there began at a
time `s`, which no variable holds, and will not end before `s + Window` (`Since`):
what it has let pass is at `s` or later, one request of it at `s` itself, so that a
span that begins after `s` has less than the counter says, and one that begins in
the `Window` before `s` has at most the limit less one more. When there is none, the
spans that reach the present have less than the limit (`Over`). `EXPIRE` comes later
than `INCR`, which only makes the end later; that it never meets a counter other
than the one whose first request sends it is `Begun`: only one request is about to
set the end of a counter, and the counter has none until then.

`IntelProofs.tla`, for any goroutines, indicators, feeds and limits, from
`IntelAssumption`:

- `IntelTypeOK`, `AnswerCurrentAlways`, `QuotaHoldsAlways`.

The invariant follows an answer from the provider to the event: an entry of the
cache covers its key and ends no later than its observations and the TTL
(`EntryInv`), what a goroutine is about to store is such an entry (`StoringInv`),
the look-ups it has behind it were current (`LooksInv`), and those still to do are
the rest of the event (`OwedInv`).

`QuotaHolds` is about every minute, and the quota about windows that begin when
somebody with an old time renews them, so that a window may begin well before the
calls it counts. `Bounded` counts the calls of a minute that is not over by where
the present window began. Before the whole minute: every call of it renewed the
window with a time before the minute, hence its caller was late, and is not any
more; calls and late callers are at most as many as callers. In the minute before:
one of the late callers has renewed it, and there are `used` calls and one for each
other caller. In the minute itself: the calls of the windows before it are at most
a quota and one for each other caller, and there are `used` more. The run finds that
bound attained (section 4).

`HealthProofs.tla`, for any endpoints, thresholds, overlapping requests and
streams, from `HealthAssumption`:

- `HealthTypeOK`, `AnswerExplainedAlways`, `AlertChangeWitnessedAlways`.

`AnswerExplained` speaks of finished requests. The invariant says what each result
so far is evidence of, service by service (`ResultInv`, which needs that no
trouble belongs to two services), the same of the half-finished check of the
queues (`QueueCheck`), that a length which was read and is about to be acted on
was met (`FullInv`), and that a running request has noticed what holds now
(`NoticedInv`).

`ConsoleProofs.tla`, for any requests, users, alerts, statuses and bounds, from
`ConsoleAssumption`:

- `ConsoleTypeOK`, `AuditReplaysAlways`, `DisabledStopsAlways`.

Ids of audit records are drawn in one order and records appear in another. They
replay nevertheless, because a transaction draws its id after its statement has
taken the row: of two transactions on one row only one is under way (`LockInv`), so
a record that appears has the highest id of its row (`OrderInv`). What its statement
found still holds when it commits (`CaseInv`), and records of a row tell of nothing
before it was there (`TrailInv`). `BudgetInv` keeps the ids within their bound. A
token ends at most `TokenTTL` after its user was disabled, as there is no login
afterwards (`DisabledInv`). The theorem is what speaks of more than two requests.

Each proof has one step per action and cites no assumption but the named one.

### Model-checked only

- Liveness under fairness (`RawDrains`, `RetryDrainsWithoutCrash`,
  `ExpiredIsReleased`, `AlertsConverge`), which the prover does not do.
- Every invariant and every property of steps that a run checks is also a
  theorem; the four above are the only properties that are not.

## 6. What is not modelled

- Text: parsing and normalising logs, rendering reports, the wording of alerts.
- Elasticsearch: an event is indexed under its id, so that indexing it again
  changes nothing; `Analyse` relies on that.
- Duplicate groups (`internal/dedup`) and the counters of `internal/metrics`: they
  are shown to people, and no code decides by them.
- `ConsumeDLQ`, `TrackEvent` and `shouldAlert`: nothing calls them in production.
- The statistics and lists that only read.
- The parts of the plan that are open: see section 2, and `components` in
  `PROJECT.json` for each.
