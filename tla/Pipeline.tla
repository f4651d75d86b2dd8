------------------------------ MODULE Pipeline ------------------------------
(***************************************************************************)
(* The ingest pipeline: the raw Redis stream siem:raw-logs read by the     *)
(* consumer group of the backends (backend/internal/parser/parser.go), the *)
(* retry stream and the dead-letter stream (backend/internal/dlq/          *)
(* manager.go), and the goroutines that connect them (backend/cmd/api/     *)
(* main.go:139-163).                                                       *)
(*                                                                         *)
(* A raw stream entry is its id, a number in order of XADD.  The retry and *)
(* the dead-letter stream are kept in one sequence msg, in order of XADD,  *)
(* because both take their ids from the clock of the same Redis; which of  *)
(* its entries are still undelivered, pending or present is in runread,    *)
(* rpel and dlq.  A Redis call that fails may or may not have had its      *)
(* effect, and a failing call ends the goroutine that made it.             *)
(***************************************************************************)
EXTENDS Naturals, Sequences, FiniteSets

CONSTANTS
    Backends,     \* backend containers; the name of each is its consumer name
    BatchSize,    \* PARSER_BATCH_SIZE, the COUNT of every XREADGROUP
    MaxRetries,   \* dlq.MaxRetries
    MaxLen,       \* MAXLEN of the raw stream
    MaxIds,       \* bound: entries accepted, directly or through the stream
    MaxFaults,    \* bound: Redis calls that fail
    MaxCrashes,   \* bound: crashes of a backend
    MaxReplays    \* bound: replays requested by analysts

ASSUME PipelineAssumption ==
    /\ BatchSize \in Nat \ {0}
    /\ MaxRetries \in Nat
    /\ MaxLen \in Nat \ {0}
    /\ MaxIds \in Nat
    /\ MaxFaults \in Nat
    /\ MaxCrashes \in Nat
    /\ MaxReplays \in Nat

VARIABLES
    lastId,     \* ids given out so far: 1 .. lastId were accepted
    stream,     \* ids present in the raw stream (acknowledged ones stay)
    unread,     \* ids of the raw stream not delivered to the group yet
    pel,        \* pel[b]: ids delivered to consumer b and not acknowledged
    pc,         \* pc[b]: where the parser goroutine of b is
    work,       \* work[b]: ids of the batch b holds and has not acknowledged
    msg,        \* entries ever added to the retry and dead-letter streams
    runread,    \* retry entries not delivered to the retry group yet
    rpel,       \* rpel[b]: retry entries delivered to b-retry, not acknowledged
    rpc,        \* rpc[b]: where the retry goroutine of b is
    rwork,      \* rwork[b]: retry entries b holds and has not settled
    dlq,        \* dead-letter entries present
    replays,    \* replay requests under way: [op, pos, stage]
    analysed,   \* ids indexed and given to the detector and the rule engine
    dropped,    \* ids whose body Redis discarded before it was handled
    discarded,  \* dead-letter entries removed by a purge
    fails,      \* fails[id]: retries of id that failed
    faults,     \* Redis faults so far
    crashes,    \* crashes so far
    replayed    \* replay requests so far

rawVars   == <<lastId, stream, unread, pel, pc, work>>
retryVars == <<msg, runread, rpel, rpc, rwork>>
dlqVars   == <<dlq, replays, replayed, discarded>>
vars == <<lastId, stream, unread, pel, pc, work, msg, runread, rpel, rpc, rwork,
          dlq, replays, analysed, dropped, discarded, fails, faults, crashes,
          replayed>>

Ids == 1 .. MaxIds

Message == [id : Ids, fc : 0 .. MaxRetries, to : {"retry", "dlq"}]

ParserState == {"down", "first", "read", "analyse", "ack", "resend", "fack", "stopped"}
RetryState  == {"down", "read", "analyse", "resend", "ack", "stopped"}

TypeOK ==
    /\ lastId \in 0 .. MaxIds
    /\ stream \subseteq Ids
    /\ unread \subseteq stream
    /\ pel \in [Backends -> SUBSET Ids]
    /\ pc \in [Backends -> ParserState]
    /\ work \in [Backends -> SUBSET Ids]
    /\ msg \in Seq(Message)
    /\ runread \subseteq DOMAIN msg
    /\ rpel \in [Backends -> SUBSET DOMAIN msg]
    /\ rpc \in [Backends -> RetryState]
    /\ rwork \in [Backends -> SUBSET DOMAIN msg]
    /\ dlq \subseteq DOMAIN msg
    /\ replays \subseteq [op : 1 .. MaxReplays, pos : DOMAIN msg, stage : {"read", "sent"}]
    /\ analysed \subseteq Ids
    /\ dropped \subseteq Ids
    /\ discarded \subseteq DOMAIN msg
    /\ fails \in [Ids -> Nat]
    /\ faults \in 0 .. MaxFaults
    /\ crashes \in 0 .. MaxCrashes
    /\ replayed \in 0 .. MaxReplays

----------------------------------------------------------------------------
(* Helpers.                                                                *)

\* x is the oldest entry of S, the one a loop over the batch takes next.
IsOldest(x, S) == x \in S /\ \A y \in S : x <= y

\* S is what XREADGROUP with COUNT n returns of the entries T: the oldest n.
IsBatchOf(S, T, n) ==
    /\ S \subseteq T
    /\ \A x \in S, y \in T \ S : x < y
    /\ Cardinality(S) <= n
    /\ S = T \/ Cardinality(S) = n

\* The retry or dead-letter stream receives id with failure count fc.
Entry(id, fc, to) == [id |-> id, fc |-> fc, to |-> to]
NextPos == Len(msg) + 1

\* The entries of the retry and dead-letter streams that stand for their log.
Open == runread \cup dlq \cup (UNION {rpel[b] : b \in Backends})

\* id needs no entry up to and including p of the streams: it was analysed, an
\* administrator discarded it, or a later entry stands for it.
SafeAfter(p, id) ==
    \/ id \in analysed
    \/ \E q \in Open \cup discarded : q > p /\ msg[q].id = id

Init ==
    /\ lastId = 0
    /\ stream = {}
    /\ unread = {}
    /\ pel = [b \in Backends |-> {}]
    /\ pc = [b \in Backends |-> "down"]
    /\ work = [b \in Backends |-> {}]
    /\ msg = <<>>
    /\ runread = {}
    /\ rpel = [b \in Backends |-> {}]
    /\ rpc = [b \in Backends |-> "down"]
    /\ rwork = [b \in Backends |-> {}]
    /\ dlq = {}
    /\ replays = {}
    /\ analysed = {}
    /\ dropped = {}
    /\ discarded = {}
    /\ fails = [id \in Ids |-> 0]
    /\ faults = 0
    /\ crashes = 0
    /\ replayed = 0

----------------------------------------------------------------------------
(* Publishing (internal/ingest/ingest.go Publish, internal/api/handler.go  *)
(* ingestLog).                                                             *)

\* XADD MAXLEN ~: the new entry is added and the oldest entries may go, as long
\* as MaxLen stay; the ones nobody has read are lost with their body.
AddRaw(id) ==
    \E kept \in SUBSET (stream \cup {id}) :
        /\ \A x \in kept, y \in (stream \cup {id}) \ kept : y < x
        /\ kept = stream \cup {id} \/ Cardinality(kept) >= MaxLen
        /\ id \in kept
        /\ stream' = kept
        /\ unread' = (unread \cup {id}) \cap kept
        /\ dropped' = dropped \cup (unread \ kept)

AddRetry(id, fc) ==
    /\ msg' = Append(msg, Entry(id, fc, "retry"))
    /\ runread' = runread \cup {NextPos}

Publish ==
    /\ lastId < MaxIds
    /\ lastId' = lastId + 1
    /\ AddRaw(lastId + 1)
    /\ UNCHANGED <<pel, pc, work, retryVars, dlqVars, analysed, fails, faults, crashes>>

\* XADD failed without effect; the handler queues the log in the retry stream
\* under an id of its own and still answers 502.
PublishToRetry ==
    /\ lastId < MaxIds
    /\ faults < MaxFaults
    /\ faults' = faults + 1
    /\ lastId' = lastId + 1
    /\ AddRetry(lastId + 1, 0)
    /\ UNCHANGED <<stream, unread, pel, pc, work, rpel, rpc, rwork, dlqVars,
                   analysed, dropped, fails, crashes>>

\* XADD took effect but its reply was lost: the same log is now in both streams
\* under two ids.
PublishTwice ==
    /\ lastId + 1 < MaxIds
    /\ faults < MaxFaults
    /\ faults' = faults + 1
    /\ lastId' = lastId + 2
    /\ AddRaw(lastId + 1)
    /\ AddRetry(lastId + 2, 0)
    /\ UNCHANGED <<pel, pc, work, rpel, rpc, rwork, dlqVars, analysed, fails, crashes>>

----------------------------------------------------------------------------
(* The parser goroutine (internal/parser/parser.go consumeBatch).          *)

\* Mutant: consumeBatch starts with readPending = false.
StartFresh(b) ==
    /\ pc[b] = "down"
    /\ pc' = [pc EXCEPT ![b] = "read"]
    /\ rpc' = [rpc EXCEPT ![b] = "read"]
    /\ UNCHANGED <<lastId, stream, unread, pel, work, msg, runread, rpel, rwork, dlqVars,
                   analysed, dropped, fails, faults, crashes>>

\* The container starts: the parser goroutine will first read its own pending
\* entries, the retry goroutine reads new entries only.
Start(b) ==
    /\ pc[b] = "down"
    /\ pc' = [pc EXCEPT ![b] = "first"]
    /\ rpc' = [rpc EXCEPT ![b] = "read"]
    /\ UNCHANGED <<lastId, stream, unread, pel, work, msg, runread, rpel, rwork, dlqVars,
                   analysed, dropped, fails, faults, crashes>>

\* XREADGROUP with cursor 0, once: up to BatchSize of the entries this name left
\* pending.  An entry trimmed meanwhile comes back without its body.
ReadPending(b) ==
    /\ pc[b] = "first"
    /\ \E S \in SUBSET pel[b] :
          /\ IsBatchOf(S, pel[b], BatchSize)
          /\ work' = [work EXCEPT ![b] = S]
          /\ pc' = [pc EXCEPT ![b] = IF S = {} THEN "read" ELSE "analyse"]
          /\ dropped' = dropped \cup (S \ (stream \cup analysed))
    /\ UNCHANGED <<lastId, stream, unread, pel, retryVars, dlqVars, analysed, fails, faults,
                   crashes>>

\* XREADGROUP with cursor >: entries nobody has read move to this consumer.
ReadNew(b) ==
    /\ pc[b] = "read"
    /\ \E S \in (SUBSET unread) \ {{}} :
          /\ IsBatchOf(S, unread, BatchSize)
          /\ unread' = unread \ S
          /\ pel' = [pel EXCEPT ![b] = @ \cup S]
          /\ work' = [work EXCEPT ![b] = S]
    /\ pc' = [pc EXCEPT ![b] = "analyse"]
    /\ UNCHANGED <<lastId, stream, retryVars, dlqVars, analysed, dropped, fails, faults,
                   crashes>>

\* processEvents: after the bulk request the events of the batch are given to the
\* detector and the rule engine one after the other.
Analyse(b) ==
    /\ pc[b] = "analyse"
    /\ \/ /\ work[b] \subseteq analysed
          /\ UNCHANGED analysed
       \/ \E id \in work[b] \ analysed :
             /\ IsOldest(id, work[b] \ analysed)
             /\ analysed' = analysed \cup {id}
    /\ pc' = [pc EXCEPT ![b] = IF work[b] \subseteq analysed' THEN "ack" ELSE @]
    /\ UNCHANGED <<lastId, stream, unread, pel, work, retryVars, dlqVars, dropped, fails,
                   faults, crashes>>

\* Mutant: the failure handler returns without an error and without having sent the batch.
AnalyseFailsAcks(b) ==
    /\ pc[b] = "analyse"
    /\ pc' = [pc EXCEPT ![b] = "fack"]
    /\ UNCHANGED <<lastId, stream, unread, pel, work, retryVars, dlqVars, analysed, dropped,
                   fails, faults, crashes>>

\* The bulk request or one event of the batch fails: the whole batch is handed to
\* the failure handler, whatever was analysed before.
AnalyseFails(b) ==
    /\ pc[b] = "analyse"
    /\ pc' = [pc EXCEPT ![b] = "resend"]
    /\ UNCHANGED <<lastId, stream, unread, pel, work, retryVars, dlqVars, analysed, dropped,
                   fails, faults, crashes>>

\* The failure handler of cmd/api/main.go: SendToRetry with failure count 0.
Resend(b) ==
    /\ pc[b] = "resend"
    /\ \E id \in work[b] : IsOldest(id, work[b]) /\ AddRetry(id, 0)
    /\ pc' = [pc EXCEPT ![b] = "fack"]
    /\ UNCHANGED <<lastId, stream, unread, pel, work, rpel, rpc, rwork, dlqVars, analysed,
                   dropped, fails, faults, crashes>>

\* XACK of the oldest entry of the batch; the loop ends with the batch.
Ack(b) ==
    /\ pc[b] \in {"ack", "fack"}
    /\ \E id \in work[b] :
          /\ IsOldest(id, work[b])
          /\ pel' = [pel EXCEPT ![b] = @ \ {id}]
          /\ work' = [work EXCEPT ![b] = @ \ {id}]
    /\ pc' = [pc EXCEPT ![b] = IF work'[b] = {} THEN "read"
                               ELSE IF @ = "fack" THEN "resend" ELSE "ack"]
    /\ UNCHANGED <<lastId, stream, unread, retryVars, dlqVars, analysed, dropped, fails,
                   faults, crashes>>

\* A Redis call of the parser goroutine fails: consumeBatch returns, main.go logs
\* "parser stopped" and nothing starts it again while the container lives.  The
\* failed call may have had its effect.
ParserFault(b) ==
    /\ faults < MaxFaults
    /\ faults' = faults + 1
    /\ pc' = [pc EXCEPT ![b] = "stopped"]
    /\ work' = [work EXCEPT ![b] = {}]
    /\ \/ /\ pc[b] \in {"first", "read", "resend", "ack", "fack"}
          /\ UNCHANGED <<unread, pel, msg, runread>>
       \/ /\ pc[b] = "read"
          /\ \E S \in (SUBSET unread) \ {{}} :
                /\ IsBatchOf(S, unread, BatchSize)
                /\ unread' = unread \ S
                /\ pel' = [pel EXCEPT ![b] = @ \cup S]
          /\ UNCHANGED <<msg, runread>>
       \/ /\ pc[b] = "resend"
          /\ \E id \in work[b] : IsOldest(id, work[b]) /\ AddRetry(id, 0)
          /\ UNCHANGED <<unread, pel>>
       \/ /\ pc[b] \in {"ack", "fack"}
          /\ \E id \in work[b] :
                /\ IsOldest(id, work[b])
                /\ pel' = [pel EXCEPT ![b] = @ \ {id}]
          /\ UNCHANGED <<unread, msg, runread>>
    /\ UNCHANGED <<lastId, stream, rpel, rpc, rwork, dlqVars, analysed, dropped, fails,
                   crashes>>

----------------------------------------------------------------------------
(* The retry goroutine (internal/dlq/manager.go ConsumeRetry).             *)

\* XREADGROUP with cursor > only: entries left pending by an earlier life of this
\* name are not read again.
RetryRead(b) ==
    /\ rpc[b] = "read"
    /\ \E S \in (SUBSET runread) \ {{}} :
          /\ IsBatchOf(S, runread, BatchSize)
          /\ runread' = runread \ S
          /\ rpel' = [rpel EXCEPT ![b] = @ \cup S]
          /\ rwork' = [rwork EXCEPT ![b] = S]
    /\ rpc' = [rpc EXCEPT ![b] = "analyse"]
    /\ UNCHANGED <<rawVars, msg, dlqVars, analysed, dropped, fails, faults, crashes>>

\* After waiting for retry_at, the callback processes the oldest entry held.
RetryAnalyse(b) ==
    /\ rpc[b] = "analyse"
    /\ \E p \in rwork[b] : IsOldest(p, rwork[b]) /\ analysed' = analysed \cup {msg[p].id}
    /\ rpc' = [rpc EXCEPT ![b] = "ack"]
    /\ UNCHANGED <<rawVars, msg, runread, rpel, rwork, dlqVars, dropped, fails, faults,
                   crashes>>

RetryAnalyseFails(b) ==
    /\ rpc[b] = "analyse"
    /\ \E p \in rwork[b] :
          /\ IsOldest(p, rwork[b])
          /\ fails' = [fails EXCEPT ![msg[p].id] = @ + 1]
    /\ rpc' = [rpc EXCEPT ![b] = "resend"]
    /\ UNCHANGED <<rawVars, msg, runread, rpel, rwork, dlqVars, analysed, dropped, faults,
                   crashes>>

\* Mutant: the count is compared after it was increased.
SendOnEarly(p) ==
    \/ /\ msg[p].fc + 1 >= MaxRetries
       /\ msg' = Append(msg, Entry(msg[p].id, 0, "dlq"))
       /\ dlq' = dlq \cup {NextPos}
       /\ UNCHANGED runread
    \/ /\ msg[p].fc + 1 < MaxRetries
       /\ AddRetry(msg[p].id, msg[p].fc + 1)
       /\ UNCHANGED dlq

\* An entry that failed goes to the dead-letter stream, with failure count 0, when
\* its own count has reached MaxRetries, and back to the retry stream otherwise.
SendOn(p) ==
    \/ /\ msg[p].fc >= MaxRetries
       /\ msg' = Append(msg, Entry(msg[p].id, 0, "dlq"))
       /\ dlq' = dlq \cup {NextPos}
       /\ UNCHANGED runread
    \/ /\ msg[p].fc < MaxRetries
       /\ AddRetry(msg[p].id, msg[p].fc + 1)
       /\ UNCHANGED dlq

RetryResend(b) ==
    /\ rpc[b] = "resend"
    /\ \E p \in rwork[b] : IsOldest(p, rwork[b]) /\ SendOn(p)
    /\ rpc' = [rpc EXCEPT ![b] = "ack"]
    /\ UNCHANGED <<rawVars, rpel, rwork, replays, replayed, discarded, analysed, dropped,
                   fails, faults, crashes>>

\* Mutant: the loop over the batch is left after its first entry.
RetryAckFirstOnly(b) ==
    /\ rpc[b] = "ack"
    /\ \E p \in rwork[b] :
          /\ IsOldest(p, rwork[b])
          /\ rpel' = [rpel EXCEPT ![b] = @ \ {p}]
    /\ rwork' = [rwork EXCEPT ![b] = {}]
    /\ rpc' = [rpc EXCEPT ![b] = "read"]
    /\ UNCHANGED <<rawVars, msg, runread, dlqVars, analysed, dropped, fails, faults, crashes>>

RetryAck(b) ==
    /\ rpc[b] = "ack"
    /\ \E p \in rwork[b] :
          /\ IsOldest(p, rwork[b])
          /\ rpel' = [rpel EXCEPT ![b] = @ \ {p}]
          /\ rwork' = [rwork EXCEPT ![b] = @ \ {p}]
    /\ rpc' = [rpc EXCEPT ![b] = IF rwork'[b] = {} THEN "read" ELSE "analyse"]
    /\ UNCHANGED <<rawVars, msg, runread, dlqVars, analysed, dropped, fails, faults, crashes>>

\* A Redis call of the retry goroutine fails, with or without its effect: main.go
\* logs "retry consumer stopped" and nothing starts it again.
RetryFault(b) ==
    /\ faults < MaxFaults
    /\ faults' = faults + 1
    /\ rpc' = [rpc EXCEPT ![b] = "stopped"]
    /\ rwork' = [rwork EXCEPT ![b] = {}]
    /\ \/ /\ rpc[b] \in {"read", "resend", "ack"}
          /\ UNCHANGED <<msg, runread, rpel, dlq>>
       \/ /\ rpc[b] = "read"
          /\ \E S \in (SUBSET runread) \ {{}} :
                /\ IsBatchOf(S, runread, BatchSize)
                /\ runread' = runread \ S
                /\ rpel' = [rpel EXCEPT ![b] = @ \cup S]
          /\ UNCHANGED <<msg, dlq>>
       \/ /\ rpc[b] = "resend"
          /\ \E p \in rwork[b] : IsOldest(p, rwork[b]) /\ SendOn(p)
          /\ UNCHANGED rpel
       \/ /\ rpc[b] = "ack"
          /\ \E p \in rwork[b] :
                IsOldest(p, rwork[b]) /\ rpel' = [rpel EXCEPT ![b] = @ \ {p}]
          /\ UNCHANGED <<msg, runread, dlq>>
    /\ UNCHANGED <<rawVars, replays, replayed, discarded, analysed, dropped, fails, crashes>>

\* The backend dies, or is told to stop, at any point: both goroutines end and the
\* batches they held in memory are gone.
Crash(b) ==
    /\ crashes < MaxCrashes
    /\ pc[b] # "down"
    /\ crashes' = crashes + 1
    /\ pc' = [pc EXCEPT ![b] = "down"]
    /\ work' = [work EXCEPT ![b] = {}]
    /\ rpc' = [rpc EXCEPT ![b] = "down"]
    /\ rwork' = [rwork EXCEPT ![b] = {}]
    /\ UNCHANGED <<lastId, stream, unread, pel, msg, runread, rpel, dlqVars, analysed,
                   dropped, fails, faults>>

----------------------------------------------------------------------------
(* The analysts' dead-letter operations (internal/api/health_metrics.go,   *)
(* internal/dlq/manager.go ReplayMessage and PurgeDLQ).                    *)

\* Mutant: the entry is deleted when it is read, before it is sent.
ReplayReadDeletes(p) ==
    /\ replayed < MaxReplays
    /\ p \in dlq
    /\ dlq' = dlq \ {p}
    /\ replayed' = replayed + 1
    /\ replays' = replays \cup {[op |-> replayed + 1, pos |-> p, stage |-> "read"]}
    /\ UNCHANGED <<rawVars, retryVars, discarded, analysed, dropped, fails, faults, crashes>>

\* ReplayMessage reads the entry ...
ReplayRead(p) ==
    /\ replayed < MaxReplays
    /\ p \in dlq
    /\ replayed' = replayed + 1
    /\ replays' = replays \cup {[op |-> replayed + 1, pos |-> p, stage |-> "read"]}
    /\ UNCHANGED <<rawVars, retryVars, dlq, discarded, analysed, dropped, fails, faults,
                   crashes>>

\* ... sends it to the retry stream with failure count 0 ...
ReplaySend(r) ==
    /\ r.stage = "read"
    /\ AddRetry(msg[r.pos].id, 0)
    /\ replays' = (replays \ {r}) \cup {[r EXCEPT !.stage = "sent"]}
    /\ UNCHANGED <<rawVars, rpel, rpc, rwork, dlq, replayed, discarded, analysed, dropped,
                   fails, faults, crashes>>

\* ... and deletes it; the error of the deletion is not looked at.
ReplayDelete(r) ==
    /\ r.stage = "sent"
    /\ replays' = replays \ {r}
    /\ \/ dlq' = dlq \ {r.pos} /\ UNCHANGED faults
       \/ faults < MaxFaults /\ faults' = faults + 1 /\ UNCHANGED dlq
    /\ UNCHANGED <<rawVars, retryVars, replayed, discarded, analysed, dropped, fails, crashes>>

\* A replay whose request ends early (a Redis error, a backend crash) stops there.
ReplayAborts(r) ==
    /\ faults < MaxFaults
    /\ faults' = faults + 1
    /\ replays' = replays \ {r}
    /\ UNCHANGED <<rawVars, retryVars, dlq, replayed, discarded, analysed, dropped, fails,
                   crashes>>

\* XTRIM MINID: every dead-letter entry older than the cut is discarded.
PurgeDLQ(p) ==
    /\ p \in dlq
    /\ dlq' = {q \in dlq : q > p}
    /\ discarded' = discarded \cup {q \in dlq : q <= p}
    /\ UNCHANGED <<rawVars, retryVars, replays, replayed, analysed, dropped, fails, faults,
                   crashes>>

----------------------------------------------------------------------------
ParserStep(b) ==
    ReadPending(b) \/ ReadNew(b) \/ Analyse(b) \/ AnalyseFails(b) \/ Resend(b) \/ Ack(b)

RetryStep(b) ==
    RetryRead(b) \/ RetryAnalyse(b) \/ RetryAnalyseFails(b) \/ RetryResend(b) \/ RetryAck(b)

Next ==
    \/ Publish
    \/ PublishToRetry
    \/ PublishTwice
    \/ \E b \in Backends :
          \/ Start(b)
          \/ ReadPending(b)
          \/ ReadNew(b)
          \/ Analyse(b)
          \/ AnalyseFails(b)
          \/ Resend(b)
          \/ Ack(b)
          \/ ParserFault(b)
          \/ RetryRead(b)
          \/ RetryAnalyse(b)
          \/ RetryAnalyseFails(b)
          \/ RetryResend(b)
          \/ RetryAck(b)
          \/ RetryFault(b)
          \/ Crash(b)
    \/ \E p \in dlq : ReplayRead(p) \/ PurgeDLQ(p)
    \/ \E r \in replays : ReplaySend(r) \/ ReplayDelete(r) \/ ReplayAborts(r)

Spec == Init /\ [][Next]_vars

\* A goroutine that can take a step is scheduled, and the restart policy of the
\* container (restart: unless-stopped) starts a backend that is down.
Fairness ==
    \A b \in Backends :
        /\ WF_vars(Start(b))
        /\ WF_vars(ParserStep(b))
        /\ WF_vars(RetryStep(b))

FairSpec == Spec /\ Fairness

----------------------------------------------------------------------------
(* Properties.                                                             *)

Pending == UNION {pel[b] : b \in Backends}
RetryPending == UNION {rpel[b] : b \in Backends}

\* Every log that was accepted is somewhere: unread, pending at a backend, in a
\* retry or dead-letter entry, analysed, discarded by a purge, or among the
\* entries Redis trimmed.  It holds across failing Redis calls, crashes between
\* any two calls, and concurrent replays of one dead-letter entry, because every
\* XACK and XDEL comes after the hand-over (parser.go:443-476,
\* manager.go:324-351 and 374-383).
NoLoss ==
    \A id \in 1 .. lastId : id \in unread \cup Pending \cup dropped \/ SafeAfter(0, id)

\* What has become of log id, in the words of Delivery.
Queued(id) ==
    id \in unread \cup Pending \/ \E p \in runread \cup RetryPending : msg[p].id = id
Fate(id) ==
    IF id > lastId THEN "new"
    ELSE IF id \in dropped THEN "shed"
    ELSE IF id \in analysed THEN "handled"
    ELSE IF Queued(id) THEN "owed"
    ELSE IF \E p \in dlq : msg[p].id = id THEN "given up"
    ELSE IF \E p \in discarded : msg[p].id = id THEN "discarded"
    ELSE "lost"

Promise == INSTANCE Delivery WITH Logs <- Ids, state <- [id \in Ids |-> Fate(id)]

\* The streams, groups and goroutines keep the promise of Delivery: whatever the interleaving of
\* batches, retries, replays, purges, failing calls and crashes, a log takes only the steps it
\* lists.  In particular a log is given up only out of the retries, whatever was handled stays
\* handled, and nothing that a queue still owes is counted as given up or discarded.
Delivered == Promise!Spec

\* A parser goroutine about to read new entries has left none of its name pending.
\* consumeBatch reads cursor 0 only once and then never again (parser.go:351-379):
\* this is sound only while a name never has more than one batch pending.
NothingLeftBehind ==
    \A b \in Backends : pc[b] = "read" => pel[b] = {}

\* A log reaches the dead-letter stream once for every MaxRetries + 1 retries that
\* failed: no interleaving of copies, replays and crashes gives one up early
\* (manager.go:324-346).
DlqOnlyAfterBudget ==
    \A id \in Ids :
        (MaxRetries + 1) * Cardinality({p \in DOMAIN msg : msg[p].to = "dlq" /\ msg[p].id = id})
            <= fails[id]

\* Every entry of the raw stream is eventually acknowledged or trimmed, though
\* backends crash while they hold a batch (parser.go:351-379).
RawDrains ==
    \A id \in Ids : (id \in unread \cup Pending) ~> (id \notin unread \cup Pending)

\* Without crashes every log in the retry stream is eventually analysed, or waits
\* in (or was purged from) the dead-letter stream.
RetryDrainsWithoutCrash ==
    \A id \in Ids :
        (\E p \in runread \cup RetryPending : msg[p].id = id)
            ~> (crashes > 0 \/ id \in analysed \/ \E p \in dlq \cup discarded : msg[p].id = id)

\* "ConsumeRetry reads messages from retry queue and reprocesses them"
\* (manager.go:262): every message of the retry queue is reprocessed in the end.
RetryDrains ==
    \A id \in Ids :
        (\E p \in runread \cup RetryPending : msg[p].id = id)
            ~> (id \in analysed \/ \E p \in dlq \cup discarded : msg[p].id = id)

=============================================================================
