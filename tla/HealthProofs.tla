---------------------------- MODULE HealthProofs ----------------------------
(***************************************************************************)
(* Proofs about Health, for any requests, endpoints, thresholds and        *)
(* streams.  The inductive invariant IInv says what each result so far,    *)
(* and each half-finished check of the queues, is evidence of.             *)
(***************************************************************************)
EXTENDS Health, TLAPS

\* What can go wrong in the check of s: badly, or not so badly.
Bad(s) ==
    CASE s = "connectors" -> {}
      [] s = "database"   -> {"database", "missing table"}
      [] OTHER            -> {s}
Minor(s) ==
    CASE s = "connectors" -> {"connectors"}
      [] s = "database"   -> {"migrations"}
      [] s = "postgres"   -> {"few tables"}
      [] OTHER            -> {}

\* A request has noticed what holds now of all that it asks for.
NoticedInv ==
    \A p \in Probes : \A c \in Relevant(probe[p].asks) :
        /\ Holds(c) => c \in probe[p].met
        /\ ~Holds(c) => c \in probe[p].unmet

\* What result r of service s is evidence of in request p.
Explained(p, s, r) ==
    /\ r = "unhealthy" =>
          Bad(s) \cap probe[p].failed # {} \/ (s = "queues" /\ "retry_queue" \in probe[p].met)
    /\ r # "unhealthy" => Bad(s) \cap probe[p].failed = {}
    /\ r \in {"healthy", "degraded"} /\ s = "queues" => "retry_queue" \in probe[p].unmet
    /\ r = "degraded" => \/ Minor(s) \cap probe[p].failed # {}
                         \/ s = "queues" /\ "dead_letter_queue" \in probe[p].met
                         \/ s = "connectors" /\ "no group" \in probe[p].met
    /\ r \in {"healthy", "none"} => Minor(s) \cap probe[p].failed = {}
    /\ r = "healthy" /\ s = "queues" => "dead_letter_queue" \in probe[p].unmet
    /\ r = "healthy" /\ s = "connectors" => "no group" \in probe[p].unmet

\* The check of the queues that is still running.
QueueCheck(p) ==
    /\ probe[p].status = "unhealthy" => "queues" \in probe[p].failed \/ "retry_queue" \in probe[p].met
    /\ probe[p].status # "unhealthy" =>
          /\ "queues" \notin probe[p].failed
          /\ probe[p].pc \in {"retry alert", "dlq", "dlq alert"} => "retry_queue" \in probe[p].unmet
    /\ probe[p].status = "degraded" => "dead_letter_queue" \in probe[p].met
    /\ probe[p].status = "healthy" /\ probe[p].pc = "dlq alert" =>
          "dead_letter_queue" \in probe[p].unmet

ResultOk(p) ==
    /\ probe[p].result["queues"] = "none" => QueueCheck(p)
    /\ \A s \in Services : \/ s = "queues" /\ probe[p].result[s] = "none"
                           \/ Explained(p, s, probe[p].result[s])
    /\ \A s \in Services : probe[p].result[s] # "none" => s \in probe[p].asks
    /\ "queues" \notin probe[p].asks => "queues" \notin probe[p].failed
ResultInv == \A p \in Probes : ResultOk(p)

\* A length that was read and is about to be acted on was met.
Seen(p, q) ==
    /\ probe[p].full => q \in probe[p].met
    /\ ~probe[p].full => q \in probe[p].unmet
FullOk(p) ==
    /\ probe[p].pc = "retry alert" => Seen(p, "retry_queue")
    /\ probe[p].pc = "dlq alert" => Seen(p, "dead_letter_queue")
FullInv == \A p \in Probes : FullOk(p)

IInv == TypeOK /\ NoticedInv /\ ResultInv /\ FullInv

-----------------------------------------------------------------------------

LEMMA Consts ==
    /\ Endpoints \in [Probes -> SUBSET (SUBSET Services)]
    /\ MaxRetry \in Nat /\ MaxDlq \in Nat /\ MaxFaults \in Nat
BY HealthAssumption DEF HealthAssumption

\* No trouble belongs to two services.
LEMMA TagsDisjoint ==
    ASSUME NEW s \in Services, NEW u \in Services, s # u
    PROVE  (Bad(s) \cup Minor(s)) \cap (Bad(u) \cup Minor(u)) = {}
<1>1. s = "postgres" => Bad(s) \cup Minor(s) = {"postgres", "few tables"}
  BY DEF Bad, Minor
<1>2. s = "database" => Bad(s) \cup Minor(s) = {"database", "missing table", "migrations"}
  BY DEF Bad, Minor
<1>3. s \notin {"postgres", "database"} => Bad(s) \cup Minor(s) = {s}
  BY DEF Services, Bad, Minor
<1>4. u = "postgres" => Bad(u) \cup Minor(u) = {"postgres", "few tables"}
  BY DEF Bad, Minor
<1>5. u = "database" => Bad(u) \cup Minor(u) = {"database", "missing table", "migrations"}
  BY DEF Bad, Minor
<1>6. u \notin {"postgres", "database"} => Bad(u) \cup Minor(u) = {u}
  BY DEF Services, Bad, Minor
<1>7. CASE s \notin {"postgres", "database"}
  BY <1>3, <1>4, <1>5, <1>6, <1>7 DEF Services
<1>8. CASE s = "postgres"
  BY <1>1, <1>5, <1>6, <1>8 DEF Services
<1>9. CASE s = "database"
  BY <1>2, <1>4, <1>6, <1>9 DEF Services
<1> QED
  BY <1>7, <1>8, <1>9

LEMMA OwnTags ==
    ASSUME NEW s \in Services
    PROVE  /\ Bad(s) \cap Minor(s) = {}
           /\ Bad(s) \cup Minor(s) \subseteq Services \cup Troubles
           /\ Bad(s) \subseteq Severe /\ Minor(s) \subseteq Mild
BY DEF Services, Bad, Minor, Troubles, Severe, Mild

LEMMA IdleType == Idle \in Probe
BY DEF Idle, Probe, Services, Status

LEMMA InitIInv == Init => IInv
<1> SUFFICES ASSUME Init PROVE IInv
  OBVIOUS
<1>1. TypeOK
  <2>1. length \in [Queues -> Nat] /\ length["dead_letter_queue"] = 0
    BY DEF Init, Queues
  <2>2. probe \in [Probes -> Probe] /\ row \in [Queues -> {"none", "open", "resolved"}]
    BY IdleType DEF Init
  <2> QED
    <3>1. dead \in length["dead_letter_queue"] .. MaxDlq /\ faults \in 0 .. MaxFaults
      BY <2>1, Consts DEF Init
    <3>2. group \in BOOLEAN
      BY DEF Init
    <3> QED
      BY <2>1, <2>2, <3>1, <3>2 DEF TypeOK
<1>2. NoticedInv
  BY DEF Init, NoticedInv, Relevant, Idle
<1>3. ResultInv
  <2> SUFFICES ASSUME NEW p \in Probes PROVE ResultOk(p)
    BY DEF ResultInv
  <2>1. probe[p] = Idle
    BY DEF Init
  <2>2. QueueCheck(p)
    BY <2>1 DEF QueueCheck, Idle
  <2>3. \A s \in Services : probe[p].result[s] = "none"
    BY <2>1 DEF Idle
  <2>4. \A s \in Services : Explained(p, s, "none")
    BY <2>1 DEF Explained, Idle
  <2>5. "queues" \notin probe[p].failed
    BY <2>1 DEF Idle
  <2> QED
    BY <2>2, <2>3, <2>4, <2>5 DEF ResultOk
<1>4. FullInv
  BY DEF Init, FullInv, FullOk, Idle
<1> QED
  BY <1>1, <1>2, <1>3, <1>4 DEF IInv

-----------------------------------------------------------------------------
(* Steps of a request.                                                      *)

\* The fields of a request that only some checks change.
SameFields(p) ==
    /\ probe'[p].pc = probe[p].pc /\ probe'[p].full = probe[p].full
    /\ probe'[p].status = probe[p].status
    /\ probe'[p].asks = probe[p].asks
    /\ probe'[p].met = probe[p].met /\ probe'[p].unmet = probe[p].unmet

Others(p) == \A q \in Probes \ {p} : probe'[q] = probe[q]

\* The check of s in p returns status st, with troubles F.
Recorded(p, s, st, F) ==
    /\ SameFields(p) /\ Others(p)
    /\ probe' \in [Probes -> Probe]
    /\ probe'[p].result = [probe[p].result EXCEPT ![s] = st]
    /\ probe'[p].failed = probe[p].failed \cup F

LEMMA FindsRecorded ==
    ASSUME TypeOK, NEW p \in Probes, NEW s \in Services, NEW st \in Status,
           NEW t \in Services \cup Troubles
    PROVE  /\ Result(p, s, st) => Recorded(p, s, st, {})
           /\ Finds(p, s, st, t) => Recorded(p, s, st, {t})
<1>0. probe[p] \in Probe /\ probe[p].result \in [Services -> Status \cup {"none"}]
  BY DEF TypeOK, Probe
<1>1. [probe[p].result EXCEPT ![s] = st] \in [Services -> Status \cup {"none"}]
  BY <1>0
<1>2. PICK res \in [Services -> Status \cup {"none"}] : res = [probe[p].result EXCEPT ![s] = st]
  BY <1>1
<1>3. Result(p, s, st) => probe' = [probe EXCEPT ![p] = [probe[p] EXCEPT !.result = res]]
  BY <1>0, <1>2 DEF Result, TypeOK
<1>4. Finds(p, s, st, t) =>
         probe' = [probe EXCEPT ![p] = [probe[p] EXCEPT !.result = res, !.failed = probe[p].failed \cup {t}]]
  BY <1>0, <1>2 DEF Finds, TypeOK
<1>5. [probe[p] EXCEPT !.result = res] \in Probe
  BY <1>0 DEF Probe
<1>6. [probe[p] EXCEPT !.result = res, !.failed = probe[p].failed \cup {t}] \in Probe
  BY <1>0 DEF Probe
<1>7. ASSUME Result(p, s, st) PROVE Recorded(p, s, st, {})
  <2>1. PICK q \in Probe : q = [probe[p] EXCEPT !.result = res]
    BY <1>5
  <2>2. /\ q.pc = probe[p].pc /\ q.full = probe[p].full /\ q.status = probe[p].status
        /\ q.asks = probe[p].asks /\ q.met = probe[p].met /\ q.unmet = probe[p].unmet
        /\ q.result = res /\ q.failed = probe[p].failed
    BY <1>0, <2>1 DEF Probe
  <2>3. probe' = [probe EXCEPT ![p] = q]
    BY <1>3, <1>7, <2>1
  <2>4. probe' \in [Probes -> Probe] /\ probe'[p] = q /\ Others(p)
    BY <2>3 DEF TypeOK, Others
  <2> QED
    BY <1>2, <2>2, <2>4 DEF Recorded, SameFields
<1>8. ASSUME Finds(p, s, st, t) PROVE Recorded(p, s, st, {t})
  <2>1. PICK q \in Probe : q = [probe[p] EXCEPT !.result = res, !.failed = probe[p].failed \cup {t}]
    BY <1>6
  <2>2. /\ q.pc = probe[p].pc /\ q.full = probe[p].full /\ q.status = probe[p].status
        /\ q.asks = probe[p].asks /\ q.met = probe[p].met /\ q.unmet = probe[p].unmet
        /\ q.result = res /\ q.failed = probe[p].failed \cup {t}
    BY <1>0, <2>1 DEF Probe
  <2>3. probe' = [probe EXCEPT ![p] = q]
    BY <1>4, <1>8, <2>1
  <2>4. probe' \in [Probes -> Probe] /\ probe'[p] = q /\ Others(p)
    BY <2>3 DEF TypeOK, Others
  <2> QED
    BY <1>2, <2>2, <2>4 DEF Recorded, SameFields
<1> QED
  BY <1>7, <1>8

\* A result that its troubles justify.
Justified(p, s, st, F) ==
    \/ st = "unhealthy" /\ F # {} /\ F \subseteq Bad(s)
    \/ st = "degraded" /\ F \subseteq Minor(s)
          /\ (F # {} \/ (s = "connectors" /\ "no group" \in probe[p].met))
    \/ st = "healthy" /\ F = {} /\ (s = "connectors" => "no group" \in probe[p].unmet)

\* The checks other than that of the queues.
Simple(p) ==
    CheckElasticsearch(p) \/ CheckRedis(p) \/ CheckPostgres(p) \/ Acquire(p) \/ Migrations(p)
        \/ Tables(p) \/ CheckConnectorHealth(p)

LEMMA SimpleCases ==
    ASSUME TypeOK, NoticedInv, NEW p \in Probes, Simple(p)
    PROVE  \/ SameFields(p) /\ Others(p) /\ probe' \in [Probes -> Probe]
                 /\ probe'[p].result = probe[p].result /\ probe'[p].failed = probe[p].failed
           \/ \E s \in Services \ {"queues"}, st \in Status, F \in SUBSET (Services \cup Troubles) :
                 Pending(p, s) /\ Recorded(p, s, st, F) /\ Justified(p, s, st, F)
<1> DEFINE P(s, st, F) == Pending(p, s) /\ Recorded(p, s, st, F) /\ Justified(p, s, st, F)
           G == \E s \in Services \ {"queues"}, st \in Status, F \in SUBSET (Services \cup Troubles) :
                   P(s, st, F)
<1>1. CASE CheckElasticsearch(p)
  <2>1. Pending(p, "elasticsearch")
    BY <1>1 DEF CheckElasticsearch
  <2>2. CASE Result(p, "elasticsearch", "healthy")
    <3>1. P("elasticsearch", "healthy", {})
      BY <2>1, <2>2, FindsRecorded DEF Services, Status, Justified
    <3> QED
      BY <3>1 DEF Services, Status
  <2>3. CASE Finds(p, "elasticsearch", "unhealthy", "elasticsearch")
    <3>1. P("elasticsearch", "unhealthy", {"elasticsearch"})
      BY <2>1, <2>3, FindsRecorded DEF Services, Status, Justified, Bad
    <3> QED
      BY <3>1 DEF Services, Status
  <2> QED
    BY <1>1, <2>2, <2>3 DEF CheckElasticsearch, Fails
<1>2. CASE CheckRedis(p)
  <2>1. Pending(p, "redis")
    BY <1>2 DEF CheckRedis
  <2>2. CASE Result(p, "redis", "healthy")
    <3>1. P("redis", "healthy", {})
      BY <2>1, <2>2, FindsRecorded DEF Services, Status, Justified
    <3> QED
      BY <3>1 DEF Services, Status
  <2>3. CASE Finds(p, "redis", "unhealthy", "redis")
    <3>1. P("redis", "unhealthy", {"redis"})
      BY <2>1, <2>3, FindsRecorded DEF Services, Status, Justified, Bad
    <3> QED
      BY <3>1 DEF Services, Status
  <2> QED
    BY <1>2, <2>2, <2>3 DEF CheckRedis, Fails
<1>3. CASE CheckPostgres(p)
  <2>1. Pending(p, "postgres")
    BY <1>3 DEF CheckPostgres
  <2>2. CASE Result(p, "postgres", "healthy")
    <3>1. P("postgres", "healthy", {})
      BY <2>1, <2>2, FindsRecorded DEF Services, Status, Justified
    <3> QED
      BY <3>1 DEF Services, Status
  <2>3. CASE Finds(p, "postgres", "degraded", "few tables")
    <3>1. P("postgres", "degraded", {"few tables"})
      BY <2>1, <2>3, FindsRecorded DEF Services, Status, Justified, Minor, Troubles
    <3> QED
      BY <3>1 DEF Services, Status, Troubles
  <2>4. CASE Finds(p, "postgres", "unhealthy", "postgres")
    <3>1. P("postgres", "unhealthy", {"postgres"})
      BY <2>1, <2>4, FindsRecorded DEF Services, Status, Justified, Bad
    <3> QED
      BY <3>1 DEF Services, Status
  <2> QED
    BY <1>3, <2>2, <2>3, <2>4 DEF CheckPostgres, Fails
<1>4. CASE Acquire(p) \/ Migrations(p) \/ Tables(p)
  <2>1. Pending(p, "database") /\ probe[p] \in Probe
    BY <1>4 DEF Acquire, Migrations, Tables, TypeOK
  <2>2. ASSUME NEW db \in {"migrations", "tables"}, probe' = [probe EXCEPT ![p].db = db]
        PROVE  /\ SameFields(p) /\ Others(p) /\ probe' \in [Probes -> Probe]
               /\ probe'[p].result = probe[p].result /\ probe'[p].failed = probe[p].failed
    <3>1. [probe[p] EXCEPT !.db = db] \in Probe
      BY <2>1 DEF Probe
    <3>2. probe' = [probe EXCEPT ![p] = [probe[p] EXCEPT !.db = db]]
      BY <2>2 DEF TypeOK
    <3> QED
      BY <2>1, <3>1, <3>2 DEF SameFields, Others, TypeOK, Probe
  <2>3. CASE Result(p, "database", "healthy")
    <3>1. P("database", "healthy", {})
      BY <2>1, <2>3, FindsRecorded DEF Services, Status, Justified
    <3> QED
      BY <3>1 DEF Services, Status
  <2>4. CASE Finds(p, "database", "degraded", "migrations")
    <3>1. P("database", "degraded", {"migrations"})
      BY <2>1, <2>4, FindsRecorded DEF Services, Status, Justified, Minor, Troubles
    <3> QED
      BY <3>1 DEF Services, Status, Troubles
  <2>5. ASSUME NEW t \in {"database", "missing table"}, Finds(p, "database", "unhealthy", t)
        PROVE  G
    <3>1. P("database", "unhealthy", {t})
      BY <2>1, <2>5, FindsRecorded DEF Services, Status, Justified, Bad, Troubles
    <3> QED
      BY <3>1 DEF Services, Status, Troubles
  <2> QED
    BY <1>4, <2>2, <2>3, <2>4, <2>5 DEF Acquire, Migrations, Tables, Fails
<1>5. CASE CheckConnectorHealth(p)
  <2>1. Pending(p, "connectors") /\ "no group" \in Relevant(probe[p].asks)
    BY <1>5 DEF CheckConnectorHealth, Pending, Relevant
  <2>2. /\ ~group => "no group" \in probe[p].met
        /\ group => "no group" \in probe[p].unmet
    BY <2>1 DEF NoticedInv, Holds
  <2>3. CASE Result(p, "connectors", "healthy") /\ group
    <3>1. P("connectors", "healthy", {})
      BY <2>1, <2>2, <2>3, FindsRecorded DEF Services, Status, Justified
    <3> QED
      BY <3>1 DEF Services, Status
  <2>4. CASE Result(p, "connectors", "degraded") /\ ~group
    <3>1. P("connectors", "degraded", {})
      BY <2>1, <2>2, <2>4, FindsRecorded DEF Services, Status, Justified
    <3> QED
      BY <3>1 DEF Services, Status
  <2>5. CASE Finds(p, "connectors", "degraded", "connectors")
    <3>1. P("connectors", "degraded", {"connectors"})
      BY <2>1, <2>5, FindsRecorded DEF Services, Status, Justified, Minor
    <3> QED
      BY <3>1 DEF Services, Status
  <2> QED
    BY <1>5, <2>3, <2>4, <2>5 DEF CheckConnectorHealth, Fails
<1> QED
  BY <1>1, <1>2, <1>3, <1>4, <1>5 DEF Simple

\* The check of the queues goes on.
Moved(p, pc, full, st, F) ==
    /\ Others(p) /\ probe' \in [Probes -> Probe]
    /\ probe'[p].pc = pc /\ probe'[p].full = full /\ probe'[p].status = st
    /\ probe'[p].asks = probe[p].asks /\ probe'[p].result = probe[p].result
    /\ probe'[p].met = probe[p].met /\ probe'[p].unmet = probe[p].unmet
    /\ probe'[p].failed = probe[p].failed \cup F

LEMMA HoldsBoolean == \A q \in Queues : \E f \in BOOLEAN : f = Holds(q)
<1> SUFFICES ASSUME NEW q \in Queues PROVE \E f \in BOOLEAN : f = Holds(q)
  OBVIOUS
<1>1. Holds(q) <=> length[q] >= Threshold[q]
  BY DEF Holds, Queues
<1>2. (length[q] >= Threshold[q]) = TRUE \/ (length[q] >= Threshold[q]) = FALSE
  OBVIOUS
<1>3. Holds(q) = (length[q] >= Threshold[q])
  BY DEF Holds, Queues
<1> QED
  BY <1>2, <1>3

LEMMA MovedBy ==
    ASSUME TypeOK, NEW p \in Probes, NEW q \in Probe,
           probe' = [probe EXCEPT ![p] = q],
           NEW F, q.failed = probe[p].failed \cup F,
           q.asks = probe[p].asks, q.met = probe[p].met, q.unmet = probe[p].unmet,
           q.result = probe[p].result
    PROVE  Moved(p, q.pc, q.full, q.status, F)
<1>1. probe' \in [Probes -> Probe] /\ probe'[p] = q /\ Others(p)
  BY DEF TypeOK, Others
<1> QED
  BY <1>1 DEF Moved

QueueCall(p) == ReadIngest(p) \/ ReadRetry(p) \/ RetryAlert(p) \/ ReadDlq(p) \/ DlqAlert(p)

LEMMA QueueCases ==
    ASSUME TypeOK, NEW p \in Probes, QueueCall(p)
    PROVE  /\ Pending(p, "queues")
           /\ \/ Moved(p, "retry", probe[p].full, probe[p].status, {})
              \/ \E pc \in {"retry", "dlq"} : Moved(p, pc, probe[p].full, "unhealthy", {"queues"})
              \/ Moved(p, "retry alert", Holds("retry_queue"),
                       IF Holds("retry_queue") THEN "unhealthy" ELSE probe[p].status, {})
              \/ probe[p].pc = "retry alert" /\ Moved(p, "dlq", FALSE, probe[p].status, {})
              \/ probe[p].pc = "dlq"
                    /\ Moved(p, "dlq alert", Holds("dead_letter_queue"),
                             IF Holds("dead_letter_queue") /\ probe[p].status # "unhealthy"
                             THEN "degraded" ELSE probe[p].status, {})
              \/ Recorded(p, "queues", "unhealthy", {"queues"})
              \/ probe[p].pc = "dlq alert" /\ Recorded(p, "queues", probe[p].status, {})
<1>0. /\ probe[p] \in Probe /\ probe[p].status \in Status /\ probe[p].full \in BOOLEAN
      /\ Pending(p, "queues")
  BY DEF TypeOK, Probe, QueueCall, ReadIngest, ReadRetry, RetryAlert, ReadDlq, DlqAlert
<1>1. ASSUME NEW next \in {"retry", "dlq"}, Unreadable(p, next)
      PROVE  Moved(p, next, probe[p].full, "unhealthy", {"queues"})
  <2>1. PICK q : q = [probe[p] EXCEPT !.pc = next, !.status = "unhealthy", !.failed = probe[p].failed \cup {"queues"}]
    OBVIOUS
  <2>2. /\ q \in Probe /\ q.asks = probe[p].asks /\ q.met = probe[p].met /\ q.unmet = probe[p].unmet
        /\ q.result = probe[p].result
        /\ q.pc = next /\ q.full = probe[p].full /\ q.status = "unhealthy"
        /\ q.failed = probe[p].failed \cup {"queues"}
    BY <1>0, <2>1 DEF Probe, Services, Status
  <2>3. probe' = [probe EXCEPT ![p] = q]
    BY <1>0, <1>1, <2>1 DEF Unreadable, TypeOK
  <2> QED
    <3>1. Moved(p, q.pc, q.full, q.status, {"queues"})
      BY <2>2, <2>3, MovedBy
    <3> QED
      BY <2>2, <3>1
<1>2. ASSUME ReadIngest(p), ~Unreadable(p, "retry")
      PROVE  Moved(p, "retry", probe[p].full, probe[p].status, {})
  <2>1. PICK q : q = [probe[p] EXCEPT !.pc = "retry"]
    OBVIOUS
  <2>2. /\ q \in Probe /\ q.asks = probe[p].asks /\ q.met = probe[p].met /\ q.unmet = probe[p].unmet
        /\ q.result = probe[p].result
        /\ q.pc = "retry" /\ q.full = probe[p].full /\ q.status = probe[p].status
        /\ q.failed = probe[p].failed \cup {}
    BY <1>0, <2>1 DEF Probe, Services, Status
  <2>3. probe' = [probe EXCEPT ![p] = q]
    BY <1>0, <1>2, <2>1 DEF ReadIngest, TypeOK
  <2> QED
    <3>1. Moved(p, q.pc, q.full, q.status, {})
      BY <2>2, <2>3, MovedBy
    <3> QED
      BY <2>2, <3>1
<1>3. ASSUME ReadRetry(p), ~Unreadable(p, "dlq")
      PROVE  Moved(p, "retry alert", Holds("retry_queue"),
                   IF Holds("retry_queue") THEN "unhealthy" ELSE probe[p].status, {})
  <2>0. PICK f \in BOOLEAN : f = Holds("retry_queue")
    BY HoldsBoolean DEF Queues
  <2>1. PICK q : q = [probe[p] EXCEPT !.pc = "retry alert", !.full = f,
                                          !.status = IF f THEN "unhealthy" ELSE probe[p].status]
    OBVIOUS
  <2>2. /\ q \in Probe /\ q.asks = probe[p].asks /\ q.met = probe[p].met /\ q.unmet = probe[p].unmet
        /\ q.result = probe[p].result
        /\ q.pc = "retry alert" /\ q.full = f
        /\ q.status = IF f THEN "unhealthy" ELSE probe[p].status
        /\ q.failed = probe[p].failed \cup {}
    BY <1>0, <2>1 DEF Probe, Services, Status
  <2>3. probe' = [probe EXCEPT ![p] = q]
    BY <1>0, <1>3, <2>1, <2>0 DEF ReadRetry, TypeOK
  <2> QED
    <3>1. Moved(p, q.pc, q.full, q.status, {})
      BY <2>2, <2>3, MovedBy
    <3> QED
      BY <2>0, <2>2, <3>1
<1>4. ASSUME RetryAlert(p)
      PROVE  probe[p].pc = "retry alert" /\ Moved(p, "dlq", FALSE, probe[p].status, {})
  <2>1. PICK q : q = [probe[p] EXCEPT !.pc = "dlq", !.full = FALSE]
    OBVIOUS
  <2>2. /\ q \in Probe /\ q.asks = probe[p].asks /\ q.met = probe[p].met /\ q.unmet = probe[p].unmet
        /\ q.result = probe[p].result
        /\ q.pc = "dlq" /\ q.full = FALSE /\ q.status = probe[p].status
        /\ q.failed = probe[p].failed \cup {}
    BY <1>0, <2>1 DEF Probe, Services, Status
  <2>3. probe' = [probe EXCEPT ![p] = q]
    BY <1>0, <1>4, <2>1 DEF RetryAlert, TypeOK
  <2> QED
    <3>1. Moved(p, q.pc, q.full, q.status, {})
      BY <2>2, <2>3, MovedBy
    <3> QED
      BY <1>4, <2>2, <3>1 DEF RetryAlert
<1>5. ASSUME ReadDlq(p), ~Fails(p, "queues", "unhealthy")
      PROVE  /\ probe[p].pc = "dlq"
             /\ Moved(p, "dlq alert", Holds("dead_letter_queue"),
                      IF Holds("dead_letter_queue") /\ probe[p].status # "unhealthy"
                      THEN "degraded" ELSE probe[p].status, {})
  <2>0. PICK f \in BOOLEAN : f = Holds("dead_letter_queue")
    BY HoldsBoolean DEF Queues
  <2>1. PICK q : q = [probe[p] EXCEPT !.pc = "dlq alert", !.full = f,
                                          !.status = IF f /\ probe[p].status # "unhealthy"
                                                     THEN "degraded" ELSE probe[p].status]
    OBVIOUS
  <2>2. /\ q \in Probe /\ q.asks = probe[p].asks /\ q.met = probe[p].met /\ q.unmet = probe[p].unmet
        /\ q.result = probe[p].result
        /\ q.pc = "dlq alert" /\ q.full = f
        /\ q.status = IF f /\ probe[p].status # "unhealthy" THEN "degraded" ELSE probe[p].status
        /\ q.failed = probe[p].failed \cup {}
    BY <1>0, <2>1 DEF Probe, Services, Status
  <2>3. probe' = [probe EXCEPT ![p] = q]
    BY <1>0, <1>5, <2>1, <2>0 DEF ReadDlq, TypeOK
  <2> QED
    <3>1. Moved(p, q.pc, q.full, q.status, {})
      BY <2>2, <2>3, MovedBy
    <3> QED
      BY <1>5, <2>0, <2>2, <3>1 DEF ReadDlq
<1>7. Fails(p, "queues", "unhealthy") => Recorded(p, "queues", "unhealthy", {"queues"})
  BY FindsRecorded DEF Fails, Services, Status
<1>6. ASSUME DlqAlert(p)
      PROVE  probe[p].pc = "dlq alert" /\ Recorded(p, "queues", probe[p].status, {})
  <2>1. Result(p, "queues", probe[p].status) /\ probe[p].pc = "dlq alert"
    BY <1>6 DEF DlqAlert
  <2> QED
    BY <1>0, <2>1, FindsRecorded DEF Services
<1> QED
  BY <1>0, <1>1, <1>2, <1>3, <1>4, <1>5, <1>6, <1>7 DEF QueueCall, ReadIngest, ReadRetry

-----------------------------------------------------------------------------
(* A check keeps what the results are evidence of.                          *)

\* What a result is evidence of depends on the troubles of its service alone, and more conditions
\* that were met do not take it back.
LEMMA ExplainedKeeps ==
    ASSUME NEW p \in Probes, NEW s \in Services, NEW r, Explained(p, s, r),
           probe[p].met \subseteq probe'[p].met, probe[p].unmet \subseteq probe'[p].unmet,
           Bad(s) \cap probe'[p].failed = Bad(s) \cap probe[p].failed,
           Minor(s) \cap probe'[p].failed = Minor(s) \cap probe[p].failed
    PROVE  Explained(p, s, r)'
BY DEF Explained

LEMMA QueueCheckKeeps ==
    ASSUME NEW p \in Probes, QueueCheck(p),
           probe'[p].pc = probe[p].pc, probe'[p].status = probe[p].status,
           probe[p].met \subseteq probe'[p].met, probe[p].unmet \subseteq probe'[p].unmet,
           "queues" \in probe'[p].failed <=> "queues" \in probe[p].failed
    PROVE  QueueCheck(p)'
BY DEF QueueCheck

\* A result that is justified joins the others.
LEMMA RecordedKeeps ==
    ASSUME TypeOK, NEW p \in Probes, ResultOk(p),
           NEW s \in Services, NEW st \in Status, NEW F, F \subseteq Bad(s) \cup Minor(s),
           Pending(p, s), Recorded(p, s, st, F), Explained(p, s, st)'
    PROVE  ResultOk(p)'
<1>0. probe[p].result \in [Services -> Status \cup {"none"}]
  BY DEF TypeOK, Probe
<1>1. /\ probe'[p].result = [probe[p].result EXCEPT ![s] = st]
      /\ probe'[p].failed = probe[p].failed \cup F /\ SameFields(p)
  BY DEF Recorded
<1>2. /\ probe'[p].result[s] = st /\ st # "none"
      /\ \A u \in Services \ {s} : probe'[p].result[u] = probe[p].result[u]
  BY <1>0, <1>1 DEF Status
<1>3. ASSUME NEW u \in Services, u # s
      PROVE  \/ u = "queues" /\ probe'[p].result[u] = "none"
             \/ Explained(p, u, probe[p].result[u])'
  <2>1. CASE u = "queues" /\ probe[p].result[u] = "none"
    BY <1>2, <1>3, <2>1
  <2>2. CASE ~(u = "queues" /\ probe[p].result[u] = "none")
    <3>1. PICK r : r = probe[p].result[u]
      OBVIOUS
    <3>2. Explained(p, u, r)
      BY <2>2, <3>1 DEF ResultOk
    <3>3. /\ Bad(u) \cap probe'[p].failed = Bad(u) \cap probe[p].failed
          /\ Minor(u) \cap probe'[p].failed = Minor(u) \cap probe[p].failed
      BY <1>1, <1>3, TagsDisjoint
    <3>4. probe'[p].met = probe[p].met /\ probe'[p].unmet = probe[p].unmet
      BY <1>1 DEF SameFields
    <3>5. Explained(p, u, r)'
      BY <3>2, <3>3, <3>4, ExplainedKeeps
    <3>6. probe'[p].result[u] = r
      BY <1>2, <1>3, <3>1
    <3> QED
      BY <3>5, <3>6 DEF Explained
  <2> QED
    BY <2>1, <2>2
<1>4. probe'[p].result["queues"] = "none" => QueueCheck(p)'
  <2>1. CASE s = "queues"
    BY <1>2, <2>1
  <2>2. CASE s # "queues" /\ probe'[p].result["queues"] = "none"
    <3>1. probe[p].result["queues"] = "none"
      BY <1>2, <2>2 DEF Services
    <3>2. QueueCheck(p)
      BY <3>1 DEF ResultOk
    <3>3. "queues" \notin F
      BY <2>2 DEF Services, Bad, Minor
    <3> QED
      BY <1>1, <3>2, <3>3, QueueCheckKeeps DEF SameFields
  <2> QED
    BY <2>1, <2>2
<1>5. \A u \in Services : probe'[p].result[u] # "none" => u \in probe'[p].asks
  BY <1>1, <1>2 DEF SameFields, ResultOk, Pending
<1>6. Explained(p, s, probe[p].result[s])'
  BY <1>2 DEF Explained
<1>7. "queues" \notin probe'[p].asks => "queues" \notin probe'[p].failed
  <2>1. s = "queues" => "queues" \in probe'[p].asks
    BY <1>1 DEF SameFields, Pending
  <2>2. s # "queues" => "queues" \notin F
    BY DEF Services, Bad, Minor
  <2> QED
    BY <1>1, <2>1, <2>2 DEF SameFields, ResultOk
<1> QED
  BY <1>3, <1>4, <1>5, <1>6, <1>7 DEF ResultOk

\* A verdict on a service other than the queues.
LEMMA SimpleExplained ==
    ASSUME NEW p \in Probes, ResultOk(p),
           NEW s \in Services \ {"queues"}, NEW st \in Status, NEW F,
           Pending(p, s), Recorded(p, s, st, F), Justified(p, s, st, F)
    PROVE  Explained(p, s, st)' /\ F \subseteq Bad(s) \cup Minor(s)
<1>1. Explained(p, s, "none")
  BY DEF ResultOk, Pending
<1>2. Bad(s) \cap probe[p].failed = {} /\ Minor(s) \cap probe[p].failed = {}
  BY <1>1 DEF Explained
<1>3. /\ probe'[p].failed = probe[p].failed \cup F
      /\ probe'[p].met = probe[p].met /\ probe'[p].unmet = probe[p].unmet
  BY DEF Recorded, SameFields
<1>4. CASE st = "unhealthy" /\ F # {} /\ F \subseteq Bad(s)
  BY <1>3, <1>4 DEF Explained
<1>5. CASE st = "degraded" /\ F \subseteq Minor(s)
             /\ (F # {} \/ (s = "connectors" /\ "no group" \in probe[p].met))
  <2>1. Bad(s) \cap probe'[p].failed = {}
    BY <1>2, <1>3, <1>5, OwnTags
  <2>2. Minor(s) \cap probe'[p].failed # {} \/ (s = "connectors" /\ "no group" \in probe'[p].met)
    BY <1>3, <1>5
  <2> QED
    BY <1>5, <2>1, <2>2 DEF Explained
<1>6. CASE st = "healthy" /\ F = {} /\ (s = "connectors" => "no group" \in probe[p].unmet)
  <2>1. Bad(s) \cap probe'[p].failed = {} /\ Minor(s) \cap probe'[p].failed = {}
    BY <1>2, <1>3, <1>6
  <2> QED
    BY <1>3, <1>6, <2>1 DEF Explained
<1> QED
  BY <1>4, <1>5, <1>6 DEF Justified

\* The check of the queues, between its calls and at its end.
LEMMA QueueStep ==
    ASSUME TypeOK, NoticedInv, NEW p \in Probes, ResultOk(p), FullOk(p), QueueCall(p)
    PROVE  ResultOk(p)' /\ FullOk(p)'
<1>0. /\ QueueCheck(p) /\ Pending(p, "queues") /\ probe[p].result["queues"] = "none"
      /\ probe[p].status \in Status
  BY QueueCases DEF ResultOk, Pending, TypeOK, Probe
<1>1. /\ Holds("retry_queue") => "retry_queue" \in probe[p].met
      /\ ~Holds("retry_queue") => "retry_queue" \in probe[p].unmet
      /\ Holds("dead_letter_queue") => "dead_letter_queue" \in probe[p].met
      /\ ~Holds("dead_letter_queue") => "dead_letter_queue" \in probe[p].unmet
  BY <1>0 DEF NoticedInv, Relevant, Pending, Queues, Holds
<1>2. ASSUME NEW F \in SUBSET {"queues"}, \E pc, full, st : Moved(p, pc, full, st, F),
             QueueCheck(p)'
      PROVE  ResultOk(p)'
  <2>1. /\ probe'[p].result = probe[p].result /\ probe'[p].asks = probe[p].asks
        /\ probe'[p].met = probe[p].met /\ probe'[p].unmet = probe[p].unmet
        /\ probe'[p].failed = probe[p].failed \cup F
    BY <1>2 DEF Moved
  <2>2. ASSUME NEW u \in Services, u # "queues" PROVE Explained(p, u, probe[p].result[u])'
    <3>1. PICK r : r = probe[p].result[u]
      OBVIOUS
    <3>2. Explained(p, u, r)
      BY <2>2, <3>1 DEF ResultOk
    <3>3. "queues" \notin Bad(u) \cup Minor(u)
      BY <2>2 DEF Services, Bad, Minor
    <3>4. /\ Bad(u) \cap probe'[p].failed = Bad(u) \cap probe[p].failed
          /\ Minor(u) \cap probe'[p].failed = Minor(u) \cap probe[p].failed
      BY <1>2, <2>1, <3>3
    <3>5. Explained(p, u, r)'
      BY <2>1, <3>2, <3>4, ExplainedKeeps
    <3> QED
      BY <2>1, <3>1, <3>5 DEF Explained
  <2>3. \A u \in Services : probe'[p].result[u] # "none" => u \in probe'[p].asks
    BY <2>1 DEF ResultOk
  <2>4. probe'[p].result["queues"] = "none" /\ "queues" \in probe'[p].asks
    BY <1>0, <2>1 DEF Pending
  <2> QED
    BY <1>2, <2>2, <2>3, <2>4 DEF ResultOk
<1>3. ASSUME NEW st \in Status, NEW F, F \subseteq {"queues"}, Recorded(p, "queues", st, F),
             Explained(p, "queues", st)'
      PROVE  ResultOk(p)' /\ FullOk(p)'
  <2>1. ResultOk(p)'
    BY <1>0, <1>3, RecordedKeeps DEF Services, Bad
  <2>2. FullOk(p)'
    BY <1>3 DEF Recorded, SameFields, FullOk, Seen
  <2> QED
    BY <2>1, <2>2
<1>4. CASE Moved(p, "retry", probe[p].full, probe[p].status, {})
  <2>1. QueueCheck(p)'
    BY <1>0, <1>4 DEF Moved, QueueCheck
  <2>2. FullOk(p)'
    BY <1>4 DEF Moved, FullOk
  <2> QED
    BY <1>2, <1>4, <2>1, <2>2
<1>5. ASSUME NEW pc \in {"retry", "dlq"}, Moved(p, pc, probe[p].full, "unhealthy", {"queues"})
      PROVE  ResultOk(p)' /\ FullOk(p)'
  <2>1. QueueCheck(p)'
    BY <1>5 DEF Moved, QueueCheck
  <2>2. FullOk(p)'
    BY <1>5 DEF Moved, FullOk
  <2> QED
    BY <1>2, <1>5, <2>1, <2>2
<1>6. CASE Moved(p, "retry alert", Holds("retry_queue"),
                 IF Holds("retry_queue") THEN "unhealthy" ELSE probe[p].status, {})
  <2>1. PICK f \in BOOLEAN : f = Holds("retry_queue")
    BY HoldsBoolean DEF Queues
  <2>2. PICK st : st = IF f THEN "unhealthy" ELSE probe[p].status
    OBVIOUS
  <2>3. Moved(p, "retry alert", f, st, {})
    BY <1>6, <2>1, <2>2
  <2>4. (f => "retry_queue" \in probe[p].met) /\ (~f => "retry_queue" \in probe[p].unmet)
    <3>1. Holds("retry_queue") <=> f
      BY <2>1, Zenon
    <3> QED
      BY <1>1, <3>1, Zenon
  <2>5. QueueCheck(p)'
    BY <1>0, <2>2, <2>3, <2>4 DEF Moved, QueueCheck
  <2>6. FullOk(p)'
    BY <2>3, <2>4 DEF Moved, FullOk, Seen
  <2>7. \E pc, full, status : Moved(p, pc, full, status, {})
    BY <2>3
  <2>8. ResultOk(p)'
    BY <1>2, <2>5, <2>7
  <2> QED
    BY <2>6, <2>8
<1>7. CASE probe[p].pc = "retry alert" /\ Moved(p, "dlq", FALSE, probe[p].status, {})
  <2>1. QueueCheck(p)'
    BY <1>0, <1>7 DEF Moved, QueueCheck
  <2>2. FullOk(p)'
    BY <1>7 DEF Moved, FullOk
  <2>3. PICK f, st : Moved(p, "dlq", f, st, {})
    BY <1>7
  <2> QED
    BY <1>2, <2>1, <2>2, <2>3
<1>8. CASE probe[p].pc = "dlq"
             /\ Moved(p, "dlq alert", Holds("dead_letter_queue"),
                      IF Holds("dead_letter_queue") /\ probe[p].status # "unhealthy"
                      THEN "degraded" ELSE probe[p].status, {})
  <2>1. PICK f \in BOOLEAN : f = Holds("dead_letter_queue")
    BY HoldsBoolean DEF Queues
  <2>2. PICK st : st = IF f /\ probe[p].status # "unhealthy" THEN "degraded" ELSE probe[p].status
    OBVIOUS
  <2>3. Moved(p, "dlq alert", f, st, {})
    BY <1>8, <2>1, <2>2
  <2>4. /\ f => "dead_letter_queue" \in probe[p].met
        /\ ~f => "dead_letter_queue" \in probe[p].unmet
    <3>1. Holds("dead_letter_queue") <=> f
      BY <2>1, Zenon
    <3> QED
      BY <1>1, <3>1, Zenon
  <2>5. QueueCheck(p)'
    BY <1>0, <1>8, <2>2, <2>3, <2>4 DEF Moved, QueueCheck
  <2>6. FullOk(p)'
    BY <2>3, <2>4 DEF Moved, FullOk, Seen
  <2>7. \E pc, full, status : Moved(p, pc, full, status, {})
    BY <2>3
  <2>8. ResultOk(p)'
    BY <1>2, <2>5, <2>7
  <2> QED
    BY <2>6, <2>8
<1>9. CASE Recorded(p, "queues", "unhealthy", {"queues"})
  <2>1. Explained(p, "queues", "unhealthy")'
    BY <1>9 DEF Recorded, Explained, Bad
  <2> QED
    BY <1>3, <1>9, <2>1 DEF Status
<1>10. CASE probe[p].pc = "dlq alert" /\ Recorded(p, "queues", probe[p].status, {})
  <2>1. /\ probe'[p].failed = probe[p].failed
        /\ probe'[p].met = probe[p].met /\ probe'[p].unmet = probe[p].unmet
    BY <1>10 DEF Recorded, SameFields
  <2>2. PICK st \in Status : st = probe[p].status
    BY <1>0
  <2>3. Bad("queues") = {"queues"} /\ Minor("queues") = {}
    BY DEF Bad, Minor
  <2>4. Explained(p, "queues", st)'
    BY <1>0, <1>10, <2>1, <2>2, <2>3 DEF Explained, QueueCheck, Status
  <2>5. Recorded(p, "queues", st, {})
    BY <1>10, <2>2
  <2> QED
    BY <1>3, <2>4, <2>5
<1> QED
  BY <1>4, <1>5, <1>6, <1>7, <1>8, <1>9, <1>10, QueueCases

-----------------------------------------------------------------------------
(* Every step keeps the invariant.                                          *)

LEMMA SameKeeps ==
    ASSUME NEW q \in Probes, probe'[q] = probe[q], ResultOk(q), FullOk(q)
    PROVE  ResultOk(q)' /\ FullOk(q)'
BY DEF ResultOk, QueueCheck, Explained, FullOk, Seen

\* What holds of a condition changes with env alone.
LEMMA HoldsSame ==
    ASSUME NEW c, UNCHANGED env
    PROVE  Holds(c)' <=> Holds(c)
BY DEF Holds, env

LEMMA AlertOfType ==
    ASSUME NEW full, NEW old \in {"none", "open", "resolved"}
    PROVE  AlertOf(full, old) \in {"none", "open", "resolved"}
BY DEF AlertOf

LEMMA WriteAlertType ==
    ASSUME TypeOK, NEW p \in Probes, NEW q \in Queues, WriteAlert(p, q)
    PROVE  /\ row' \in [Queues -> {"none", "open", "resolved"}]
           /\ faults' \in 0 .. MaxFaults
           /\ row' = row \/ row' = [row EXCEPT ![q] = AlertOf(probe[p].full, row[q])]
<1>1. row \in [Queues -> {"none", "open", "resolved"}] /\ faults \in 0 .. MaxFaults
  BY DEF TypeOK
<1>2. CASE row' = [row EXCEPT ![q] = AlertOf(probe[p].full, @)] /\ UNCHANGED faults
  <2>1. AlertOf(probe[p].full, row[q]) \in {"none", "open", "resolved"}
    BY <1>1, AlertOfType
  <2> QED
    BY <1>1, <1>2, <2>1
<1>3. CASE Fault /\ UNCHANGED row
  BY <1>1, <1>3, Consts DEF Fault
<1> QED
  BY <1>2, <1>3 DEF WriteAlert

\* What the checks leave alone.
LEMMA CheckFrame ==
    ASSUME TypeOK, NEW p \in Probes, Simple(p) \/ QueueCall(p)
    PROVE  /\ UNCHANGED env /\ faults' \in 0 .. MaxFaults
           /\ row' \in [Queues -> {"none", "open", "resolved"}]
<1>1. CASE RetryAlert(p)
  BY <1>1, WriteAlertType DEF RetryAlert, Queues
<1>2. CASE DlqAlert(p)
  BY <1>2, WriteAlertType DEF DlqAlert, Queues
<1>3. CASE Simple(p) \/ ReadIngest(p) \/ ReadRetry(p) \/ ReadDlq(p)
  <2>1. UNCHANGED <<env, row>>
    BY <1>3 DEF Simple, CheckElasticsearch, CheckRedis, CheckPostgres, Acquire, Migrations, Tables,
                CheckConnectorHealth, ReadIngest, ReadRetry, ReadDlq
  <2>2. faults' = faults \/ Fault
    BY <1>3 DEF Simple, CheckElasticsearch, CheckRedis, CheckPostgres, Acquire, Migrations, Tables,
                CheckConnectorHealth, ReadIngest, ReadRetry, ReadDlq, Fails, Unreadable
  <2> QED
    BY <2>1, <2>2, Consts DEF Fault, TypeOK
<1> QED
  BY <1>1, <1>2, <1>3 DEF QueueCall

LEMMA CheckStep ==
    ASSUME IInv, NEW p \in Probes, Simple(p) \/ QueueCall(p)
    PROVE  IInv'
<1>0. TypeOK /\ NoticedInv /\ ResultOk(p) /\ FullOk(p)
  BY DEF IInv, ResultInv, FullInv
<1>1. /\ UNCHANGED env /\ faults' \in 0 .. MaxFaults
      /\ row' \in [Queues -> {"none", "open", "resolved"}]
  BY <1>0, CheckFrame
<1>2. /\ Others(p) /\ probe' \in [Probes -> Probe]
      /\ probe'[p].asks = probe[p].asks
      /\ probe'[p].met = probe[p].met /\ probe'[p].unmet = probe[p].unmet
  <2>1. CASE Simple(p)
    BY <1>0, <2>1, SimpleCases DEF Recorded, SameFields
  <2>2. CASE QueueCall(p)
    BY <1>0, <2>2, QueueCases DEF Recorded, SameFields, Moved
  <2> QED
    BY <2>1, <2>2
<1>3. ResultOk(p)' /\ FullOk(p)'
  <2>1. CASE QueueCall(p)
    BY <1>0, <2>1, QueueStep
  <2>2. CASE Simple(p)
    <3>1. CASE /\ SameFields(p) /\ Others(p) /\ probe' \in [Probes -> Probe]
               /\ probe'[p].result = probe[p].result /\ probe'[p].failed = probe[p].failed
      <4>1. FullOk(p)'
        BY <1>0, <3>1 DEF FullOk, Seen, SameFields
      <4>2. ResultOk(p)'
        <5>1. QueueCheck(p) => QueueCheck(p)'
          BY <3>1 DEF QueueCheck, SameFields
        <5>2. ASSUME NEW s \in Services PROVE Explained(p, s, probe[p].result[s]) =>
                                              Explained(p, s, probe[p].result[s])'
          BY <3>1 DEF Explained, SameFields
        <5>3. /\ probe'[p].result = probe[p].result /\ probe'[p].failed = probe[p].failed
              /\ probe'[p].asks = probe[p].asks
          BY <3>1 DEF SameFields
        <5> QED
          BY <1>0, <5>1, <5>2, <5>3 DEF ResultOk
      <4> QED
        BY <4>1, <4>2
    <3>2. ASSUME NEW s \in Services \ {"queues"}, NEW st \in Status,
                 NEW F \in SUBSET (Services \cup Troubles),
                 Pending(p, s), Recorded(p, s, st, F), Justified(p, s, st, F)
          PROVE  ResultOk(p)' /\ FullOk(p)'
      <4>1. Explained(p, s, st)' /\ F \subseteq Bad(s) \cup Minor(s)
        BY <1>0, <3>2, SimpleExplained
      <4>2. ResultOk(p)'
        BY <1>0, <3>2, <4>1, RecordedKeeps
      <4>3. FullOk(p)'
        BY <1>0, <3>2 DEF FullOk, Seen, SameFields, Recorded
      <4> QED
        BY <4>2, <4>3
    <3> QED
      BY <1>0, <2>2, <3>1, <3>2, SimpleCases
  <2> QED
    BY <2>1, <2>2
<1>4. TypeOK'
  BY <1>0, <1>1, <1>2 DEF TypeOK, env
<1>5. NoticedInv'
  <2> SUFFICES ASSUME NEW r \in Probes, NEW c \in Relevant(probe'[r].asks)
               PROVE  /\ Holds(c)' => c \in probe'[r].met
                      /\ ~Holds(c)' => c \in probe'[r].unmet
    BY DEF NoticedInv, Relevant
  <2>1. /\ probe'[r].asks = probe[r].asks
        /\ probe'[r].met = probe[r].met /\ probe'[r].unmet = probe[r].unmet
    BY <1>2 DEF Others
  <2>2. Holds(c)' <=> Holds(c)
    BY <1>1, HoldsSame
  <2> QED
    BY <1>0, <2>1, <2>2 DEF NoticedInv
<1>6. ResultInv' /\ FullInv'
  <2>1. ASSUME NEW r \in Probes PROVE ResultOk(r)' /\ FullOk(r)'
    <3>1. CASE r = p
      BY <1>3, <3>1
    <3>2. CASE r # p
      BY <1>2, <3>2, SameKeeps DEF Others, IInv, ResultInv, FullInv
    <3> QED
      BY <3>1, <3>2
  <2> QED
    BY <2>1 DEF ResultInv, FullInv
<1> QED
  BY <1>4, <1>5, <1>6 DEF IInv

\* A request that starts, or is over, is nothing's evidence yet.
LEMMA FreshKeeps ==
    ASSUME NEW p \in Probes,
           probe'[p].pc = "ingest", probe'[p].status = "healthy", probe'[p].failed = {},
           probe'[p].result = [s \in Services |-> "none"]
    PROVE  ResultOk(p)' /\ FullOk(p)'
<1>1. QueueCheck(p)'
  BY DEF QueueCheck
<1>2. \A s \in Services : probe'[p].result[s] = "none"
  OBVIOUS
<1>3. ASSUME NEW s \in Services PROVE Explained(p, s, probe[p].result[s])'
  BY <1>2 DEF Explained
<1>4. FullOk(p)'
  BY DEF FullOk
<1> QED
  BY <1>1, <1>2, <1>3, <1>4 DEF ResultOk

\* Answer and Begin: request p is set to q.
LEMMA SetStep ==
    ASSUME IInv, NEW p \in Probes, NEW q \in Probe, probe' = [probe EXCEPT ![p] = q],
           UNCHANGED <<env, row, faults>>,
           q.pc = "ingest", q.status = "healthy", q.failed = {},
           q.result = [s \in Services |-> "none"],
           \A c \in Relevant(q.asks) : (Holds(c) => c \in q.met) /\ (~Holds(c) => c \in q.unmet)
    PROVE  IInv'
<1>0. TypeOK /\ NoticedInv
  BY DEF IInv
<1>1. /\ probe' \in [Probes -> Probe] /\ probe'[p] = q
      /\ \A r \in Probes \ {p} : probe'[r] = probe[r]
  BY <1>0 DEF TypeOK
<1>2. TypeOK'
  BY <1>0, <1>1 DEF TypeOK, env
<1>3. NoticedInv'
  <2> SUFFICES ASSUME NEW r \in Probes, NEW c \in Relevant(probe'[r].asks)
               PROVE  /\ Holds(c)' => c \in probe'[r].met
                      /\ ~Holds(c)' => c \in probe'[r].unmet
    BY DEF NoticedInv, Relevant
  <2>1. Holds(c)' <=> Holds(c)
    BY HoldsSame
  <2>2. CASE r = p
    BY <1>1, <2>1, <2>2
  <2>3. CASE r # p
    BY <1>0, <1>1, <2>1, <2>3 DEF NoticedInv
  <2> QED
    BY <2>2, <2>3
<1>4. ResultInv' /\ FullInv'
  <2>1. ASSUME NEW r \in Probes PROVE ResultOk(r)' /\ FullOk(r)'
    <3>1. CASE r = p
      BY <1>1, <3>1, FreshKeeps
    <3>2. CASE r # p
      BY <1>1, <3>2, SameKeeps DEF IInv, ResultInv, FullInv
    <3> QED
      BY <3>1, <3>2
  <2> QED
    BY <2>1 DEF ResultInv, FullInv
<1> QED
  BY <1>2, <1>3, <1>4 DEF IInv

LEMMA AnswerStep ==
    ASSUME IInv, NEW p \in Probes, Answer(p)
    PROVE  IInv'
<1>1. Relevant(Idle.asks) = {}
  BY DEF Relevant, Idle
<1>2. /\ Idle.pc = "ingest" /\ Idle.status = "healthy" /\ Idle.failed = {}
      /\ Idle.result = [s \in Services |-> "none"]
  BY DEF Idle
<1>3. probe' = [probe EXCEPT ![p] = Idle] /\ UNCHANGED <<env, row, faults>>
  BY DEF Answer
<1> QED
  BY <1>1, <1>2, <1>3, IdleType, SetStep

LEMMA BeginStep ==
    ASSUME IInv, NEW p \in Probes, NEW e \in Endpoints[p], Begin(p, e)
    PROVE  IInv'
<1> DEFINE m == {c \in Relevant(e) : Holds(c)}   u == {c \in Relevant(e) : ~Holds(c)}
<1>1. e \in SUBSET Services /\ Relevant(e) \subseteq Conditions
  BY Consts DEF Relevant, Conditions
<1>2. PICK q : q = [Idle EXCEPT !.asks = e, !.met = m, !.unmet = u]
  OBVIOUS
<1>3. m \in SUBSET Conditions /\ u \in SUBSET Conditions
  BY <1>1
<1>4. q \in Probe
  BY <1>1, <1>2, <1>3, IdleType DEF Probe
<1>5. /\ q.pc = "ingest" /\ q.status = "healthy" /\ q.failed = {}
      /\ q.result = [s \in Services |-> "none"] /\ q.asks = e /\ q.met = m /\ q.unmet = u
  BY <1>2 DEF Idle
<1>6. probe' = [probe EXCEPT ![p] = q] /\ UNCHANGED <<env, row, faults>>
  BY <1>2 DEF Begin
<1>7. \A c \in Relevant(q.asks) : (Holds(c) => c \in q.met) /\ (~Holds(c) => c \in q.unmet)
  BY <1>5
<1> QED
  BY <1>4, <1>5, <1>6, <1>7, SetStep

\* Requests that run notice what holds after a step of the streams.
LEMMA NoticedFields ==
    ASSUME TypeOK, Noticed
    PROVE  /\ probe' \in [Probes -> Probe]
           /\ \A p \in Probes :
                 /\ probe'[p].pc = probe[p].pc /\ probe'[p].full = probe[p].full
                 /\ probe'[p].status = probe[p].status /\ probe'[p].asks = probe[p].asks
                 /\ probe'[p].result = probe[p].result /\ probe'[p].failed = probe[p].failed
                 /\ probe'[p].met = probe[p].met \cup {c \in Relevant(probe[p].asks) : Holds(c)'}
                 /\ probe'[p].unmet = probe[p].unmet \cup {c \in Relevant(probe[p].asks) : ~Holds(c)'}
<1> DEFINE m(p) == probe[p].met \cup {c \in Relevant(probe[p].asks) : Holds(c)'}
           u(p) == probe[p].unmet \cup {c \in Relevant(probe[p].asks) : ~Holds(c)'}
<1>1. ASSUME NEW p \in Probes
      PROVE  /\ probe'[p] = [probe[p] EXCEPT !.met = m(p), !.unmet = u(p)]
             /\ probe[p] \in Probe /\ m(p) \in SUBSET Conditions /\ u(p) \in SUBSET Conditions
  <2>1. probe[p] \in Probe
    BY DEF TypeOK
  <2>2. Relevant(probe[p].asks) \subseteq Conditions
    BY DEF Relevant, Conditions
  <2>3. probe'[p] = [probe[p] EXCEPT !.met = m(p), !.unmet = u(p)]
    BY <2>1 DEF Noticed
  <2>4. probe[p].met \in SUBSET Conditions /\ probe[p].unmet \in SUBSET Conditions
    BY <2>1 DEF Probe
  <2> QED
    BY <2>1, <2>2, <2>3, <2>4
<1>2. ASSUME NEW p \in Probes
      PROVE  /\ probe'[p] \in Probe
             /\ probe'[p].pc = probe[p].pc /\ probe'[p].full = probe[p].full
             /\ probe'[p].status = probe[p].status /\ probe'[p].asks = probe[p].asks
             /\ probe'[p].result = probe[p].result /\ probe'[p].failed = probe[p].failed
             /\ probe'[p].met = m(p) /\ probe'[p].unmet = u(p)
  <2> HIDE DEF m, u
  <2>1. PICK x \in SUBSET Conditions, y \in SUBSET Conditions : x = m(p) /\ y = u(p)
    BY <1>1
  <2>2. PICK q : q = [probe[p] EXCEPT !.met = x, !.unmet = y]
    OBVIOUS
  <2>3. /\ q \in Probe
        /\ q.pc = probe[p].pc /\ q.full = probe[p].full
        /\ q.status = probe[p].status /\ q.asks = probe[p].asks
        /\ q.result = probe[p].result /\ q.failed = probe[p].failed
        /\ q.met = x /\ q.unmet = y
    BY <1>1, <2>2 DEF Probe
  <2> QED
    BY <1>1, <2>1, <2>2, <2>3
<1>3. probe' = [p \in Probes |-> probe'[p]]
  BY DEF Noticed
<1> QED
  BY <1>2, <1>3

LEMMA StreamStep ==
    ASSUME IInv, AddRetry \/ AddDlq \/ RemoveDlq \/ EnsureGroup
    PROVE  IInv'
<1>0. TypeOK /\ ResultInv /\ FullInv /\ NoticedInv
  BY DEF IInv
<1>1. Noticed /\ row' = row /\ faults' = faults
  BY DEF AddRetry, AddDlq, RemoveDlq, EnsureGroup
<1>2. /\ group' \in BOOLEAN /\ length' \in [Queues -> Nat]
      /\ dead' \in length'["dead_letter_queue"] .. MaxDlq
  <2>0. /\ group \in BOOLEAN /\ length \in [Queues -> Nat]
        /\ dead \in length["dead_letter_queue"] .. MaxDlq
        /\ length["dead_letter_queue"] \in Nat /\ length["retry_queue"] \in Nat
        /\ dead \in Int /\ MaxDlq \in Nat
    BY <1>0, Consts DEF TypeOK, Queues
  <2>1. CASE AddRetry
    BY <2>0, <2>1 DEF AddRetry, Queues
  <2>2. CASE AddDlq
    BY <2>0, <2>2 DEF AddDlq, Queues
  <2>3. CASE RemoveDlq
    <3>1. PICK n \in 1 .. length["dead_letter_queue"] :
             length' = [length EXCEPT !["dead_letter_queue"] = length["dead_letter_queue"] - n]
      BY <2>0, <2>3 DEF RemoveDlq, Queues
    <3>2. length["dead_letter_queue"] - n \in Nat
      BY <2>0
    <3> QED
      BY <2>0, <2>3, <3>1, <3>2 DEF RemoveDlq, Queues
  <2>4. CASE EnsureGroup
    BY <2>0, <2>4 DEF EnsureGroup
  <2> QED
    BY <2>1, <2>2, <2>3, <2>4
<1>3. TypeOK'
  BY <1>0, <1>1, <1>2, NoticedFields DEF TypeOK
<1>4. NoticedInv'
  <2> SUFFICES ASSUME NEW r \in Probes, NEW c \in Relevant(probe'[r].asks)
               PROVE  /\ Holds(c)' => c \in probe'[r].met
                      /\ ~Holds(c)' => c \in probe'[r].unmet
    BY DEF NoticedInv, Relevant
  <2>1. c \in Relevant(probe[r].asks)
    BY <1>0, <1>1, NoticedFields
  <2> QED
    BY <1>0, <1>1, <2>1, NoticedFields
<1>5. ASSUME NEW p \in Probes PROVE ResultOk(p)' /\ FullOk(p)'
  <2>1. /\ probe'[p].pc = probe[p].pc /\ probe'[p].full = probe[p].full
        /\ probe'[p].status = probe[p].status /\ probe'[p].asks = probe[p].asks
        /\ probe'[p].result = probe[p].result /\ probe'[p].failed = probe[p].failed
        /\ probe[p].met \subseteq probe'[p].met /\ probe[p].unmet \subseteq probe'[p].unmet
    BY <1>0, <1>1, NoticedFields
  <2>2. ResultOk(p) /\ FullOk(p)
    BY <1>0 DEF ResultInv, FullInv
  <2>3. FullOk(p)'
    BY <2>1, <2>2 DEF FullOk, Seen
  <2>4. QueueCheck(p) => QueueCheck(p)'
    BY <2>1, QueueCheckKeeps
  <2>5. ASSUME NEW s \in Services PROVE Explained(p, s, probe[p].result[s]) =>
                                        Explained(p, s, probe[p].result[s])'
    <3>1. PICK r : r = probe[p].result[s]
      OBVIOUS
    <3>2. Explained(p, s, r) => Explained(p, s, r)'
      BY <2>1, ExplainedKeeps
    <3> QED
      BY <2>1, <3>1, <3>2 DEF Explained
  <2>6. ResultOk(p)'
    <3>1. \A s \in Services : \/ s = "queues" /\ probe'[p].result[s] = "none"
                              \/ Explained(p, s, probe[p].result[s])'
      BY <2>1, <2>2, <2>5 DEF ResultOk
    <3> QED
      BY <2>1, <2>2, <2>4, <3>1 DEF ResultOk
  <2> QED
    BY <2>3, <2>6
<1> QED
  BY <1>3, <1>4, <1>5 DEF IInv, ResultInv, FullInv

LEMMA NextIInv == IInv /\ [Next]_vars => IInv'
<1> SUFFICES ASSUME IInv, [Next]_vars PROVE IInv'
  OBVIOUS
<1>1. CASE UNCHANGED vars
  <2>1. UNCHANGED <<env, row, probe, faults>> /\ UNCHANGED <<group, length, dead>>
    BY <1>1 DEF vars, env
  <2>2. TypeOK'
    BY <2>1 DEF IInv, TypeOK
  <2>3. NoticedInv'
    BY <2>1 DEF IInv, NoticedInv, Holds
  <2>4. ASSUME NEW p \in Probes PROVE ResultOk(p)' /\ FullOk(p)'
    BY <2>1, SameKeeps DEF IInv, ResultInv, FullInv
  <2> QED
    BY <2>2, <2>3, <2>4 DEF IInv, ResultInv, FullInv
<1>2. ASSUME NEW p \in Probes, Check(p) PROVE IInv'
  BY <1>2, CheckStep, AnswerStep DEF Check, Simple, QueueCall
<1>3. ASSUME NEW p \in Probes, NEW e \in Endpoints[p], Begin(p, e) PROVE IInv'
  BY <1>3, BeginStep
<1>4. CASE AddRetry \/ AddDlq \/ RemoveDlq \/ EnsureGroup
  BY <1>4, StreamStep
<1> QED
  BY <1>1, <1>2, <1>3, <1>4 DEF Next

\* What the results and the half-finished checks are evidence of, in every reachable state
\* (CheckQueueHealth and the other checks).
THEOREM HealthInvariant == Spec => []IInv
BY InitIInv, NextIInv, PTL DEF Spec

\* The requests, the rows and the streams keep their types, whatever overlaps (Checker).
THEOREM HealthTypeOK == Spec => []TypeOK
<1>1. IInv => TypeOK
  BY DEF IInv
<1> QED
  BY <1>1, HealthInvariant, PTL

-----------------------------------------------------------------------------

LEMMA AnsweredCases ==
    ASSUME TypeOK, NEW p \in Probes, Checked(p)
    PROVE  /\ \A s \in probe[p].asks : s \in Services /\ probe[p].result[s] \in Status
           /\ Answered(p) = "unhealthy" =>
                 \E s \in probe[p].asks : probe[p].result[s] = "unhealthy"
           /\ Answered(p) # "unhealthy" =>
                 \A s \in probe[p].asks : probe[p].result[s] \in {"healthy", "degraded"}
           /\ Answered(p) = "degraded" =>
                 \E s \in probe[p].asks : probe[p].result[s] = "degraded"
           /\ Answered(p) = "healthy" =>
                 \A s \in probe[p].asks : probe[p].result[s] = "healthy"
<1>0. probe[p] \in Probe
  BY DEF TypeOK
<1>1. \A s \in probe[p].asks : s \in Services /\ probe[p].result[s] \in Status
  BY <1>0 DEF Checked, Pending, Probe
<1>2. PICK R : R = {probe[p].result[s] : s \in probe[p].asks}
  OBVIOUS
<1>3. R # {} /\ Answered(p) = OverallFromChecks(R)
  BY <1>2 DEF Answered, Checked, Running
<1>4. \A x : x \in R <=> \E s \in probe[p].asks : probe[p].result[s] = x
  BY <1>2
<1>5. /\ OverallFromChecks(R) = "unhealthy" => "unhealthy" \in R
      /\ OverallFromChecks(R) = "degraded" => "degraded" \in R
      /\ OverallFromChecks(R) # "unhealthy" => "unhealthy" \notin R
      /\ OverallFromChecks(R) = "healthy" => "unhealthy" \notin R /\ "degraded" \notin R
  BY <1>3 DEF OverallFromChecks
<1> QED
  BY <1>1, <1>3, <1>4, <1>5 DEF Status

LEMMA AnswerExplainedFromIInv == IInv => AnswerExplained
<1> SUFFICES ASSUME IInv, NEW p \in Probes, Checked(p)
             PROVE  LET met == probe[p].met   unmet == probe[p].unmet   failed == probe[p].failed IN
        /\ Answered(p) = "unhealthy" =>
              failed \cap Severe # {} \/ "retry_queue" \in met
        /\ Answered(p) # "unhealthy" =>
              failed \subseteq Mild /\ (Asks(p, "queues") => "retry_queue" \in unmet)
        /\ Answered(p) = "degraded" =>
              failed \cap Mild # {} \/ "dead_letter_queue" \in met \/ "no group" \in met
        /\ Answered(p) = "healthy" =>
              /\ failed = {}
              /\ Asks(p, "queues") => "dead_letter_queue" \in unmet
              /\ Asks(p, "connectors") => "no group" \in unmet
  BY DEF AnswerExplained
<1>0. TypeOK /\ ResultOk(p) /\ probe[p] \in Probe /\ probe[p].failed \subseteq Services \cup Troubles
  BY DEF IInv, ResultInv, TypeOK, Probe
<1>1. ASSUME NEW s \in Services, s \in probe[p].asks PROVE Explained(p, s, probe[p].result[s])
  BY <1>0, <1>1, AnsweredCases DEF ResultOk, Status
<1>2. ASSUME NEW s \in Services, s \notin probe[p].asks
      PROVE  (Bad(s) \cup Minor(s)) \cap probe[p].failed = {}
  <2>1. probe[p].result[s] = "none"
    BY <1>0, <1>2 DEF ResultOk
  <2>2. CASE s = "queues"
    BY <1>0, <1>2, <2>2 DEF ResultOk, Bad, Minor
  <2>3. CASE s # "queues"
    BY <1>0, <2>1, <2>3 DEF ResultOk, Explained
  <2> QED
    BY <2>2, <2>3
\* Every trouble belongs to a service.
<1>3. ASSUME NEW t \in Services \cup Troubles
      PROVE  \/ \E s \in Services : t \in Bad(s)
             \/ t \in Mild /\ \E s \in Services : t \in Minor(s)
  BY DEF Services, Troubles, Bad, Minor, Mild
<1>4. CASE Answered(p) = "unhealthy"
  <2>1. PICK s \in probe[p].asks : probe[p].result[s] = "unhealthy"
    BY <1>0, <1>4, AnsweredCases
  <2>2. s \in Services /\ Explained(p, s, "unhealthy")
    BY <1>0, <1>1, <2>1, AnsweredCases
  <2> QED
    BY <1>4, <2>2, OwnTags DEF Explained
<1>5. CASE Answered(p) # "unhealthy"
  <2>1. \A s \in probe[p].asks : probe[p].result[s] \in {"healthy", "degraded"}
    BY <1>0, <1>5, AnsweredCases
  <2>2. \A s \in Services : Bad(s) \cap probe[p].failed = {}
    BY <1>1, <1>2, <2>1 DEF Explained
  <2>3. probe[p].failed \subseteq Mild
    BY <1>0, <1>3, <2>2
  <2>4. Asks(p, "queues") => "retry_queue" \in probe[p].unmet
    BY <1>1, <2>1 DEF Asks, Explained, Services
  <2>5. CASE Answered(p) = "degraded"
    <3>1. PICK s \in probe[p].asks : probe[p].result[s] = "degraded"
      BY <1>0, <2>5, AnsweredCases
    <3>2. s \in Services /\ Explained(p, s, "degraded")
      BY <1>0, <1>1, <3>1, AnsweredCases
    <3>3. \/ probe[p].failed \cap Mild # {} \/ "dead_letter_queue" \in probe[p].met
          \/ "no group" \in probe[p].met
      BY <3>2, OwnTags DEF Explained
    <3> QED
      BY <2>3, <2>4, <2>5, <3>3
  <2>6. CASE Answered(p) = "healthy"
    <3>1. \A s \in probe[p].asks : probe[p].result[s] = "healthy"
      BY <1>0, <2>6, AnsweredCases
    <3>2. \A s \in Services : Minor(s) \cap probe[p].failed = {}
      BY <1>1, <1>2, <3>1 DEF Explained
    <3>3. probe[p].failed = {}
      BY <1>0, <1>3, <2>2, <3>2
    <3>4. /\ Asks(p, "queues") => "dead_letter_queue" \in probe[p].unmet
          /\ Asks(p, "connectors") => "no group" \in probe[p].unmet
      BY <1>1, <3>1 DEF Asks, Explained, Services
    <3> QED
      BY <2>3, <2>4, <2>6, <3>3, <3>4
  <2> QED
    BY <1>5, <2>3, <2>4, <2>5, <2>6
<1> QED
  BY <1>4, <1>5

\* The answer of a request is the worst of what it met, for any endpoints, thresholds and number
\* of overlapping requests (CheckAll, OverallFromChecks, CheckQueueHealth).
THEOREM AnswerExplainedAlways == Spec => []AnswerExplained
BY HealthInvariant, AnswerExplainedFromIInv, PTL

LEMMA AlertChange ==
    ASSUME IInv, [Next]_vars
    PROVE  \A q \in Queues :
          /\ row[q] # "open" /\ row'[q] = "open" => \E p \in Probes : Running(p) /\ q \in probe[p].met
          /\ row[q] = "open" /\ row'[q] # "open" =>
                \E p \in Probes : Running(p) /\ q \in probe[p].unmet
<1> SUFFICES ASSUME NEW q \in Queues
             PROVE  /\ row[q] # "open" /\ row'[q] = "open" =>
                          \E p \in Probes : Running(p) /\ q \in probe[p].met
                    /\ row[q] = "open" /\ row'[q] # "open" =>
                          \E p \in Probes : Running(p) /\ q \in probe[p].unmet
  OBVIOUS
<1>0. TypeOK /\ FullInv /\ row \in [Queues -> {"none", "open", "resolved"}]
  BY DEF IInv, TypeOK
<1>1. ASSUME NEW p \in Probes, NEW k \in Queues, Pending(p, "queues"), WriteAlert(p, k), Seen(p, k)
      PROVE  /\ row[q] # "open" /\ row'[q] = "open" => Running(p) /\ q \in probe[p].met
             /\ row[q] = "open" /\ row'[q] # "open" => Running(p) /\ q \in probe[p].unmet
  <2>1. Running(p)
    BY <1>1 DEF Pending, Running
  <2>2. row' = row \/ row' = [row EXCEPT ![k] = AlertOf(probe[p].full, row[k])]
    BY <1>0, <1>1, WriteAlertType
  <2> QED
    BY <1>0, <1>1, <2>1, <2>2 DEF AlertOf, Seen
<1>2. ASSUME NEW p \in Probes, RetryAlert(p)
      PROVE  Pending(p, "queues") /\ WriteAlert(p, "retry_queue") /\ Seen(p, "retry_queue")
  BY <1>0, <1>2 DEF RetryAlert, FullInv, FullOk
<1>3. ASSUME NEW p \in Probes, DlqAlert(p)
      PROVE  Pending(p, "queues") /\ WriteAlert(p, "dead_letter_queue")
             /\ Seen(p, "dead_letter_queue")
  BY <1>0, <1>3 DEF DlqAlert, FullInv, FullOk
<1>4. CASE \E p \in Probes : RetryAlert(p) \/ DlqAlert(p)
  BY <1>1, <1>2, <1>3, <1>4 DEF Queues
<1>5. CASE ~\E p \in Probes : RetryAlert(p) \/ DlqAlert(p)
  <2>1. row' = row
    BY <1>5 DEF Next, Check, vars, CheckElasticsearch, CheckRedis, CheckPostgres, Acquire, Migrations,
                Tables, CheckConnectorHealth, ReadIngest, ReadRetry, ReadDlq, Answer, Begin,
                AddRetry, AddDlq, RemoveDlq, EnsureGroup
  <2> QED
    BY <2>1
<1> QED
  BY <1>4, <1>5

\* An alert changes for a reason that held during the request that changes it
\* (recordPipelineAlert, resolvePipelineAlert).
THEOREM AlertChangeWitnessedAlways == Spec => AlertChangeWitnessed
<1>1. IInv /\ [Next]_vars =>
         [\A q \in Queues :
          /\ row[q] # "open" /\ row'[q] = "open" => \E p \in Probes : Running(p) /\ q \in probe[p].met
          /\ row[q] = "open" /\ row'[q] # "open" =>
                \E p \in Probes : Running(p) /\ q \in probe[p].unmet]_vars
  BY AlertChange
<1> QED
  BY <1>1, HealthInvariant, PTL DEF Spec, AlertChangeWitnessed

=============================================================================
