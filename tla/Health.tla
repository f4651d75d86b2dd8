------------------------------- MODULE Health -------------------------------
(***************************************************************************)
(* The health checks (backend/internal/health, and their handlers in       *)
(* backend/internal/api/health_metrics.go).  A request runs its checks at  *)
(* the same time and answers with the worst result.  The check of the      *)
(* queues also keeps the rows of pipeline_alerts: it reads the length of a *)
(* stream, and in a second statement opens or resolves the alert of it.    *)
(* Probes overlap, in one backend and in several, and the streams change   *)
(* between the two statements.                                             *)
(*                                                                         *)
(* Any call may fail; a request that is cancelled is one whose remaining   *)
(* calls fail.  Of a stream only its length is modelled.                   *)
(***************************************************************************)
EXTENDS Integers, FiniteSets

CONSTANTS
    Probes,     \* health requests served at once
    Endpoints,  \* Endpoints[p]: the endpoints request p may be for, each the services it checks
    Threshold,  \* Threshold[q]: RetryQueueAlertThreshold, DLQAlertThreshold
    MaxRetry,   \* bound: entries added to the retry stream
    MaxDlq,     \* bound: entries added to the dead-letter stream
    MaxFaults   \* bound: failing calls

Services == {"postgres", "redis", "elasticsearch", "database", "queues", "connectors"}
Queues   == {"retry_queue", "dead_letter_queue"}

ASSUME HealthAssumption ==
    /\ Endpoints \in [Probes -> SUBSET ((SUBSET Services) \ {{}})]
    /\ Threshold \in [Queues -> Nat \ {0}]
    /\ MaxRetry \in Nat /\ MaxDlq \in Nat /\ MaxFaults \in Nat

VARIABLES
    group,   \* the parser's consumer group exists
    length,  \* length[q]: XLEN of the stream
    dead,    \* entries the dead-letter stream ever had
    row,     \* row[q]: the row of q in pipeline_alerts
    probe,   \* probe[p]: the request
    faults   \* failing calls so far

env  == <<group, length, dead>>
vars == <<group, length, dead, row, probe, faults>>

Status == {"healthy", "degraded", "unhealthy"}

\* What a check may find that can change while it runs, and the conditions endpoint e looks at.
Conditions  == Queues \cup {"no group"}
Relevant(e) == (IF "queues" \in e THEN Queues ELSE {}) \cup (IF "connectors" \in e THEN {"no group"} ELSE {})
Holds(c) == IF c = "no group" THEN ~group ELSE length[c] >= Threshold[c]

\* What a check may find besides: fewer than five tables, a required table missing, or the query
\* for the last migration failing.
Troubles == {"few tables", "missing table", "migrations"}

\* pc      where the check of the queues is
\* full    the length it has just read reached the threshold
\* status  the status of the queues so far
\* db      where the check of the schema is
\* asks    the services of the endpoint, {} if no request is served
\* result  the results so far, "none" for a check that runs
\* failed  history: the checks a call failed in, and what else went wrong (Troubles)
\* met     history: the conditions that held at some moment of the request
\* unmet   history: those that did not hold at some moment of it
Probe == [pc : {"ingest", "retry", "retry alert", "dlq", "dlq alert"},
          full : BOOLEAN, status : Status,
          db : {"acquire", "migrations", "tables", "done"},
          asks : SUBSET Services, result : [Services -> Status \cup {"none"}],
          failed : SUBSET (Services \cup Troubles),
          met : SUBSET Conditions, unmet : SUBSET Conditions]

TypeOK ==
    /\ group \in BOOLEAN
    /\ length \in [Queues -> Nat]
    /\ dead \in length["dead_letter_queue"] .. MaxDlq
    /\ row \in [Queues -> {"none", "open", "resolved"}]
    /\ probe \in [Probes -> Probe]
    /\ faults \in 0 .. MaxFaults

Idle == [pc |-> "ingest", full |-> FALSE, status |-> "healthy", db |-> "acquire", asks |-> {},
         result |-> [s \in Services |-> "none"], failed |-> {}, met |-> {}, unmet |-> {}]

Init ==
    /\ group = FALSE
    /\ length = [q \in Queues |-> 0] /\ dead = 0
    /\ row = [q \in Queues |-> "none"]
    /\ probe = [p \in Probes |-> Idle]
    /\ faults = 0

Fault == faults < MaxFaults /\ faults' = faults + 1

-----------------------------------------------------------------------------
(* A request.                                                               *)

Running(p)    == probe[p].asks # {}
Pending(p, s) == s \in probe[p].asks /\ probe[p].result[s] = "none"

\* A request arrives: its checks start, and it waits for all of them.
Begin(p, e) ==
    /\ ~Running(p)
    /\ probe' = [probe EXCEPT ![p] = [Idle EXCEPT !.asks = e,
                                                  !.met = {c \in Relevant(e) : Holds(c)},
                                                  !.unmet = {c \in Relevant(e) : ~Holds(c)}]]
    /\ UNCHANGED <<env, row, faults>>

Result(p, s, status) == probe' = [probe EXCEPT ![p].result[s] = status]

Finds(p, s, status, trouble) ==
    probe' = [probe EXCEPT ![p].result[s] = status, ![p].failed = @ \cup {trouble}]

Fails(p, s, status) == Finds(p, s, status, s) /\ Fault

CheckElasticsearch(p) ==
    /\ Pending(p, "elasticsearch")
    /\ \/ Result(p, "elasticsearch", "healthy") /\ UNCHANGED faults
       \/ Fails(p, "elasticsearch", "unhealthy")
    /\ UNCHANGED <<env, row>>

\* The key of the test is the probe's own, so that only a failing call matters.
CheckRedis(p) ==
    /\ Pending(p, "redis")
    /\ \/ Result(p, "redis", "healthy") /\ UNCHANGED faults
       \/ Fails(p, "redis", "unhealthy")
    /\ UNCHANGED <<env, row>>

CheckPostgres(p) ==
    /\ Pending(p, "postgres")
    /\ \/ Result(p, "postgres", "healthy") /\ UNCHANGED faults
       \/ Finds(p, "postgres", "degraded", "few tables") /\ UNCHANGED faults
       \/ Fails(p, "postgres", "unhealthy")
    /\ UNCHANGED <<env, row>>

\* The check of the schema takes a connection, asks for the last migration, and
\* asks for the tables.
Acquire(p) ==
    /\ Pending(p, "database") /\ probe[p].db = "acquire"
    /\ \/ probe' = [probe EXCEPT ![p].db = "migrations"] /\ UNCHANGED faults
       \/ Fails(p, "database", "unhealthy")
    /\ UNCHANGED <<env, row>>

Migrations(p) ==
    /\ Pending(p, "database") /\ probe[p].db = "migrations"
    /\ \/ probe' = [probe EXCEPT ![p].db = "tables"] /\ UNCHANGED faults
       \/ Finds(p, "database", "degraded", "migrations") /\ Fault
    /\ UNCHANGED <<env, row>>

Tables(p) ==
    /\ Pending(p, "database") /\ probe[p].db = "tables"
    /\ \/ Result(p, "database", "healthy") /\ UNCHANGED faults
       \/ Finds(p, "database", "unhealthy", "missing table") /\ UNCHANGED faults
       \/ Fails(p, "database", "unhealthy")
    /\ UNCHANGED <<env, row>>

\* CheckConnectorHealth asks for the groups of the stream, not for their consumers.
CheckConnectorHealth(p) ==
    /\ Pending(p, "connectors")
    /\ \/ /\ Result(p, "connectors", IF group THEN "healthy" ELSE "degraded")
          /\ UNCHANGED faults
       \/ Fails(p, "connectors", "degraded")
    /\ UNCHANGED <<env, row>>

-----------------------------------------------------------------------------
(* CheckQueueHealth, a step for each call.                                  *)

\* A stream that cannot be read makes the queues unhealthy, and its alert stays.
Unreadable(p, next) ==
    /\ Fault
    /\ probe' = [probe EXCEPT ![p].pc = next, ![p].status = "unhealthy",
                              ![p].failed = @ \cup {"queues"}]

ReadIngest(p) ==
    /\ Pending(p, "queues") /\ probe[p].pc = "ingest"
    /\ \/ probe' = [probe EXCEPT ![p].pc = "retry"] /\ UNCHANGED faults
       \/ Unreadable(p, "retry")
    /\ UNCHANGED <<env, row>>

\* Mutant: a stream that cannot be read counts as an empty one.
ReadRetryEmpty(p) ==
    /\ Pending(p, "queues") /\ probe[p].pc = "retry"
    /\ \/ /\ probe' = [probe EXCEPT ![p].pc = "retry alert",
                                    ![p].full = Holds("retry_queue"),
                                    ![p].status = IF Holds("retry_queue")
                                                  THEN "unhealthy" ELSE @]
          /\ UNCHANGED faults
       \/ Unreadable(p, "retry alert")
    /\ UNCHANGED <<env, row>>

ReadRetry(p) ==
    /\ Pending(p, "queues") /\ probe[p].pc = "retry"
    /\ \/ /\ probe' = [probe EXCEPT ![p].pc = "retry alert",
                                    ![p].full = Holds("retry_queue"),
                                    ![p].status = IF Holds("retry_queue")
                                                  THEN "unhealthy" ELSE @]
          /\ UNCHANGED faults
       \/ Unreadable(p, "dlq")
    /\ UNCHANGED <<env, row>>

\* Mutant: DLQAlertThreshold degrades a probe that was unhealthy before.
ReadDlqDegrades(p) ==
    /\ Pending(p, "queues") /\ probe[p].pc = "dlq"
    /\ \/ /\ probe' = [probe EXCEPT ![p].pc = "dlq alert",
                                    ![p].full = Holds("dead_letter_queue"),
                                    ![p].status = IF Holds("dead_letter_queue")
                                                  THEN "degraded" ELSE @]
          /\ UNCHANGED faults
       \/ Fails(p, "queues", "unhealthy")
    /\ UNCHANGED <<env, row>>

ReadDlq(p) ==
    /\ Pending(p, "queues") /\ probe[p].pc = "dlq"
    /\ \/ /\ probe' = [probe EXCEPT ![p].pc = "dlq alert",
                                    ![p].full = Holds("dead_letter_queue"),
                                    ![p].status = IF Holds("dead_letter_queue") /\ @ # "unhealthy"
                                                  THEN "degraded" ELSE @]
          /\ UNCHANGED faults
       \/ Fails(p, "queues", "unhealthy")
    /\ UNCHANGED <<env, row>>

\* Mutant: a status the column does not know.
AlertOfClosed(full, old) == IF full THEN "open" ELSE IF old = "open" THEN "closed" ELSE old

\* Mutant: a resolved alert is not opened again (DO NOTHING on a conflict).
AlertOfOnce(full, old) ==
    CASE full /\ old = "none"    -> "open"
      [] ~full /\ old = "open"   -> "resolved"
      [] OTHER                   -> old

\* recordPipelineAlert opens the row, again if need be; resolvePipelineAlert resolves one that
\* is open.
AlertOf(full, old) ==
    CASE full                    -> "open"
      [] ~full /\ old = "open"   -> "resolved"
      [] OTHER                   -> old

\* The error of the statement is dropped.
WriteAlert(p, q) ==
    \/ row' = [row EXCEPT ![q] = AlertOf(probe[p].full, @)] /\ UNCHANGED faults
    \/ Fault /\ UNCHANGED row

RetryAlert(p) ==
    /\ Pending(p, "queues") /\ probe[p].pc = "retry alert"
    /\ probe' = [probe EXCEPT ![p].pc = "dlq", ![p].full = FALSE]
    /\ WriteAlert(p, "retry_queue")
    /\ UNCHANGED env

DlqAlert(p) ==
    /\ Pending(p, "queues") /\ probe[p].pc = "dlq alert"
    /\ Result(p, "queues", probe[p].status)
    /\ WriteAlert(p, "dead_letter_queue")
    /\ UNCHANGED env

-----------------------------------------------------------------------------

OverallFromChecks(results) ==
    IF results = {} \/ "unhealthy" \in results THEN "unhealthy"
    ELSE IF "degraded" \in results THEN "degraded"
    ELSE "healthy"

Checked(p)  == Running(p) /\ \A s \in probe[p].asks : ~Pending(p, s)
Answered(p) == OverallFromChecks({probe[p].result[s] : s \in probe[p].asks})

\* Every check has returned, and the request is answered with the worst of them.
Answer(p) ==
    /\ Checked(p)
    /\ probe' = [probe EXCEPT ![p] = Idle]
    /\ UNCHANGED <<env, row, faults>>

-----------------------------------------------------------------------------
(* The streams.                                                             *)

\* Requests that run meet what holds now.
Noticed ==
    probe' = [p \in Probes |->
                [probe[p] EXCEPT !.met = @ \cup {c \in Relevant(probe[p].asks) : Holds(c)'},
                                 !.unmet = @ \cup {c \in Relevant(probe[p].asks) : ~Holds(c)'}]]

\* SendToRetry.  ConsumeRetry acknowledges the entry, which stays in the stream: this length never
\* gets smaller, and the alert of a retry stream that once reached its threshold is never resolved.
AddRetry ==
    /\ length["retry_queue"] < MaxRetry
    /\ length' = [length EXCEPT !["retry_queue"] = @ + 1]
    /\ UNCHANGED <<group, dead, row, faults>>
    /\ Noticed

\* SendToDLQ.
AddDlq ==
    /\ dead < MaxDlq /\ dead' = dead + 1
    /\ length' = [length EXCEPT !["dead_letter_queue"] = @ + 1]
    /\ UNCHANGED <<group, row, faults>>
    /\ Noticed

\* ReplayMessage deletes an entry; PurgeDLQ trims several.
RemoveDlq ==
    /\ \E n \in 1 .. length["dead_letter_queue"] :
          length' = [length EXCEPT !["dead_letter_queue"] = @ - n]
    /\ UNCHANGED <<group, dead, row, faults>>
    /\ Noticed

\* The parser creates its group when it starts.
EnsureGroup ==
    /\ ~group /\ group' = TRUE
    /\ UNCHANGED <<length, dead, row, faults>>
    /\ Noticed

-----------------------------------------------------------------------------

Check(p) ==
    \/ CheckElasticsearch(p) \/ CheckRedis(p) \/ CheckPostgres(p)
    \/ Acquire(p) \/ Migrations(p) \/ Tables(p) \/ CheckConnectorHealth(p)
    \/ ReadIngest(p) \/ ReadRetry(p) \/ RetryAlert(p) \/ ReadDlq(p)
    \/ DlqAlert(p) \/ Answer(p)

Next ==
    \/ \E p \in Probes : Check(p) \/ \E e \in Endpoints[p] : Begin(p, e)
    \/ AddRetry \/ AddDlq \/ RemoveDlq \/ EnsureGroup

Spec == Init /\ [][Next]_vars

Queued(p, e) == "queues" \in e /\ Begin(p, e)

\* Docker asks for /healthz every five seconds, whoever else does, and a check that runs returns.
FairSpec ==
    /\ Spec
    /\ SF_vars(\E p \in Probes : \E e \in Endpoints[p] : Queued(p, e))
    /\ \A p \in Probes : WF_vars(Check(p))

-----------------------------------------------------------------------------
(* Properties.                                                              *)

\* What only degrades a service, and what makes it unhealthy.
Mild   == {"connectors", "migrations", "few tables"}
Severe == (Services \cup Troubles) \ Mild

Asks(p, s) == s \in probe[p].asks

\* An answer is the worst of what the request met, however its checks overlapped with each other
\* and with the streams: unhealthy is never hidden by a check that went well or was merely
\* degraded, and nothing is reported that did not hold at some moment of the request
\* (CheckAll, OverallFromChecks, the order of the branches of CheckQueueHealth).
AnswerExplained ==
    \A p \in Probes : Checked(p) =>
        LET met == probe[p].met   unmet == probe[p].unmet   failed == probe[p].failed IN
        /\ Answered(p) = "unhealthy" =>
              failed \cap Severe # {} \/ "retry_queue" \in met
        /\ Answered(p) # "unhealthy" =>
              failed \subseteq Mild /\ (Asks(p, "queues") => "retry_queue" \in unmet)
        /\ Answered(p) = "degraded" =>
              failed \cap Mild # {} \/ "dead_letter_queue" \in met \/ "no group" \in met
        /\ Answered(p) = "healthy" =>
              /\ failed = {}
              /\ Asks(p, "queues") => "dead_letter_queue" \in unmet
              /\ Asks(p, "connectors") => "no group" \in unmet

\* The row of a queue changes only for a reason that held during the request that changes it: an
\* alert is opened by a probe that met the queue at its threshold, and resolved by one that met it
\* below, never because of a failure or of what the other queue holds (CheckQueueHealth).  The
\* reason may be over by then: the length is read in an earlier call.
AlertChangeWitnessed ==
    [][\A q \in Queues :
          /\ row[q] # "open" /\ row'[q] = "open" => \E p \in Probes : Running(p) /\ q \in probe[p].met
          /\ row[q] = "open" /\ row'[q] # "open" =>
                \E p \in Probes : Running(p) /\ q \in probe[p].unmet]_vars

\* Whatever overtaking probes write, the alert of a queue that stays at its threshold is open from
\* some time on, and that of one that stays below is not (recordPipelineAlert and
\* resolvePipelineAlert, whose errors are dropped: the next probe repeats them).
AlertsConverge ==
    \A q \in Queues :
        /\ <>[](Holds(q)) => <>[](row[q] = "open")
        /\ <>[](~Holds(q)) => <>[](row[q] # "open")

=============================================================================
