------------------------------- MODULE Intake -------------------------------
(***************************************************************************)
(* The way of a log from an agent to the raw stream, and the enrolment     *)
(* that opens it: the API key (backend/internal/apikey, withIngestAuth in  *)
(* backend/internal/api/middleware.go), the rate limit (backend/internal/  *)
(* ratelimit), the checks of ingestLog, and fleetAgentEnroll, createAsset, *)
(* and createIngestKey (backend/internal/api/handler.go and operations.go). *)
(*                                                                         *)
(* Neither a request nor an enrolment is a transaction: every statement is *)
(* a step, and any of them may fail or be the last the backend executes.   *)
(***************************************************************************)
EXTENDS Integers, Sequences, FiniteSets

CONSTANTS
    Requests,    \* ingest requests served at once
    Admins,      \* enrolments and key requests served at once
    Hosts,       \* host names a log may carry
    Assets,      \* those a row of assets may have
    Fold,        \* Fold[h]: the name h in lower case
    Types,       \* source types
    Agents,      \* agent ids
    NoAgent,     \* a log source that is not there
    Limit,       \* RequestLimit of the rate limiter
    Window,      \* its window
    KeyTTL,      \* 90 days
    MaxClock,    \* bound: time observed
    MaxKeys,     \* bound: keys issued
    MaxEnrol,    \* bound: enrolments
    MaxFaults    \* bound: failing calls and crashes

ASSUME IntakeAssumption ==
    /\ Assets \subseteq Hosts /\ Fold \in [Hosts -> STRING]
    /\ Assets # {} /\ Types # {} /\ Agents # {}
    /\ NoAgent \notin Agents
    /\ Limit \in Nat \ {0} /\ Window \in Nat \ {0} /\ KeyTTL \in Nat
    /\ MaxClock \in Nat /\ MaxKeys \in Nat /\ MaxEnrol \in Nat /\ MaxFaults \in Nat

VARIABLES
    clock,
    asset,     \* the assets that have a row
    source,    \* source[a][t]: agent_id of the log source, or NoAgent
    keys,      \* api_keys, by api_key_id
    counter,   \* counter[a]: the counter of a in Redis
    req,       \* req[r]: where request r is
    admin,     \* admin[d]: where the enrolment or key request d is
    deployed,  \* fleet_policy_deployments: [asset, agent, types]
    granted,   \* history: the sources an enrolment has stored, <<asset, type, agent>>
    admitted,  \* history: the requests the limiter has let pass, [asset, at]
    enrolled,  \* history: enrolments begun
    lost,      \* history: the assets whose EXPIRE did not happen
    faults     \* failing calls and crashes so far

fleet == <<asset, source, deployed, granted, enrolled>>
vars  == <<clock, asset, source, keys, counter, req, admin, deployed, granted, admitted,
           enrolled, lost, faults>>

Times == 0 .. MaxClock
Never == -1
None  == [n |-> 0, until |-> Never]

Key     == [asset : Assets, active : BOOLEAN, expires : Nat,
            audited : BOOLEAN, given : BOOLEAN]  \* history: the client has the key
Request == [pc : {"idle", "limit", "expire", "source", "update", "insert", "publish"},
            key : 0 .. MaxKeys, host : Hosts, type : Types, agent : Agents]
Admin   == [pc : {"idle", "source", "deploy", "audit", "revoke"},
            asset : Assets, agent : Agents, types : SUBSET Types, todo : SUBSET Types,
            key : 0 .. MaxKeys]

Free  == CHOOSE q \in Request : q.pc = "idle" /\ q.key = 0
Ready == CHOOSE d \in Admin : d.pc = "idle" /\ d.key = 0 /\ d.types = {} /\ d.todo = {}

TypeOK ==
    /\ clock \in Times
    /\ asset \subseteq Assets
    /\ source \in [Assets -> [Types -> Agents \cup {NoAgent}]]
    /\ keys \in Seq(Key) /\ Len(keys) <= MaxKeys
    /\ counter \in [Assets -> [n : 0 .. Limit + 1, until : {Never} \cup Nat]]
    /\ req \in [Requests -> Request]
    /\ admin \in [Admins -> Admin]
    /\ deployed \subseteq [asset : Assets, agent : Agents, types : SUBSET Types]
    /\ granted \subseteq Assets \X Types \X Agents
    /\ admitted \in Seq([asset : Assets, at : Times])
    /\ enrolled \in 0 .. MaxEnrol /\ lost \subseteq Assets /\ faults \in 0 .. MaxFaults

Init ==
    /\ clock = 0
    /\ asset = {}
    /\ source = [a \in Assets |-> [t \in Types |-> NoAgent]]
    /\ keys = <<>>
    /\ counter = [a \in Assets |-> None]
    /\ req = [r \in Requests |-> Free]
    /\ admin = [d \in Admins |-> Ready]
    /\ deployed = {} /\ granted = {} /\ admitted = <<>> /\ enrolled = 0 /\ lost = {} /\ faults = 0

Fault == faults < MaxFaults /\ faults' = faults + 1

-----------------------------------------------------------------------------
(* A log arrives.                                                           *)

At(r, pc)  == req[r].pc = pc
Goto(r, pc) == req' = [req EXCEPT ![r].pc = pc]
Refuse(r)  == req' = [req EXCEPT ![r] = Free]
AssetOf(r) == keys[req[r].key].asset   \* X-Asset-ID, and by its hostname X-Hostname

\* ValidateKey.  A request without a valid key is answered 401 and leaves no trace.
Authenticate(r) ==
    /\ At(r, "idle")
    /\ \E k \in DOMAIN keys, h \in Hosts, t \in Types, g \in Agents :
          /\ keys[k].given /\ keys[k].active /\ clock <= keys[k].expires
          /\ req' = [req EXCEPT ![r] = [pc |-> "limit", key |-> k, host |-> h, type |-> t, agent |-> g]]
    /\ UNCHANGED <<fleet, clock, keys, counter, admin, admitted, lost, faults>>

\* Counts past the limit are all alike.
Upto(n) == IF n > Limit THEN Limit + 1 ELSE n

\* Mutant: EXPIRE is sent before INCR, to a counter that is not there yet.
IncrAfterExpire(r) ==
    LET a == AssetOf(r)   val == Upto(counter[a].n + 1) IN
    /\ At(r, "limit")
    /\ counter' = [counter EXCEPT ![a].n = val]
    /\ admitted' = IF val <= Limit THEN Append(admitted, [asset |-> a, at |-> clock]) ELSE admitted
    /\ IF val <= Limit THEN Goto(r, "source") ELSE Refuse(r)
    /\ UNCHANGED <<fleet, clock, keys, admin, lost, faults>>

\* The first half of Allow.  The first request of a window has to set its end.
Incr(r) ==
    LET a == AssetOf(r)   val == Upto(counter[a].n + 1) IN
    /\ At(r, "limit")
    /\ counter' = [counter EXCEPT ![a].n = val]
    /\ admitted' = IF val <= Limit THEN Append(admitted, [asset |-> a, at |-> clock]) ELSE admitted
    /\ CASE val = 1              -> Goto(r, "expire")
         [] val \in 2 .. Limit    -> Goto(r, "source")
         [] OTHER                 -> Refuse(r)
    /\ UNCHANGED <<fleet, clock, keys, admin, lost, faults>>

\* Mutant: a window that ends a tick early.
ExpireEarly(r) ==
    /\ At(r, "expire")
    /\ Goto(r, "source")
    /\ \/ /\ counter' = [counter EXCEPT ![AssetOf(r)].until = clock + Window - 1]
          /\ UNCHANGED <<lost, faults>>
       \/ Fault /\ lost' = lost \cup {AssetOf(r)} /\ UNCHANGED counter
    /\ UNCHANGED <<fleet, clock, keys, admin, admitted>>

\* Its second half; the error of EXPIRE is not looked at.
Expire(r) ==
    /\ At(r, "expire")
    /\ Goto(r, "source")
    /\ \/ /\ counter' = [counter EXCEPT ![AssetOf(r)].until = clock + Window]
          /\ UNCHANGED <<lost, faults>>
       \/ Fault /\ lost' = lost \cup {AssetOf(r)} /\ UNCHANGED counter
    /\ UNCHANGED <<fleet, clock, keys, admin, admitted>>

\* Mutant: any agent may send for a source that is enrolled.
CheckSourceAny(r) ==
    /\ At(r, "source")
    /\ IF /\ Fold[req[r].host] = Fold[AssetOf(r)]
          /\ source[AssetOf(r)][req[r].type] # NoAgent
       THEN Goto(r, "update") ELSE Refuse(r)
    /\ UNCHANGED <<fleet, clock, keys, counter, admin, admitted, lost, faults>>

\* The host of the payload is that of the key, and its agent the one enrolled for the source.
CheckSource(r) ==
    /\ At(r, "source")
    /\ IF /\ Fold[req[r].host] = Fold[AssetOf(r)]
          /\ source[AssetOf(r)][req[r].type] = req[r].agent
       THEN Goto(r, "update") ELSE Refuse(r)
    /\ UNCHANGED <<fleet, clock, keys, counter, admin, admitted, lost, faults>>

\* registerLogSource looks for the asset by its name, whatever the case, and writes its source.
UpdateSource(r) ==
    LET t == req[r].type IN
    /\ At(r, "update")
    /\ \E b \in Assets :
          /\ b \in asset /\ Fold[b] = Fold[req[r].host]
          /\ IF source[b][t] # NoAgent
             THEN /\ source' = [source EXCEPT ![b][t] = req[r].agent]
                  /\ Goto(r, "publish")
             ELSE /\ req' = [req EXCEPT ![r].pc = "insert", ![r].host = b]
                  /\ UNCHANGED source
    /\ UNCHANGED <<clock, asset, keys, counter, admin, deployed, granted, admitted, enrolled, lost, faults>>

InsertSource(r) ==
    LET b == req[r].host   t == req[r].type IN
    /\ At(r, "insert")
    /\ IF source[b][t] = NoAgent
       THEN source' = [source EXCEPT ![b][t] = req[r].agent] /\ Goto(r, "publish")
       ELSE Refuse(r) /\ UNCHANGED source
    /\ UNCHANGED <<clock, asset, keys, counter, admin, deployed, granted, admitted, enrolled, lost, faults>>

\* The log goes to the raw stream (Pipeline), and the request is answered.
Publish(r) ==
    /\ At(r, "publish") /\ Refuse(r)
    /\ UNCHANGED <<fleet, clock, keys, counter, admin, admitted, lost, faults>>

\* A call fails, and the request with it; or the backend dies.
RequestFails(r) ==
    /\ ~At(r, "idle") /\ Fault
    /\ Refuse(r)
    /\ lost' = IF At(r, "expire") THEN lost \cup {AssetOf(r)} ELSE lost
    /\ UNCHANGED <<fleet, clock, keys, counter, admin, admitted>>

-----------------------------------------------------------------------------
(* An agent is enrolled.                                                    *)

Doing(d, pc) == admin[d].pc = pc
Proceed(d, pc) == admin' = [admin EXCEPT ![d].pc = pc]
Finish(d)     == admin' = [admin EXCEPT ![d] = Ready]

\* Mutant: an enrolment without an agent_id is accepted.
NormalizedAnyone == [asset : Assets, agent : Agents \cup {NoAgent}, types : (SUBSET Types) \ {{}}]

\* What normalizeFleetEnrollment lets pass: an agent is named, and there is one source at least.
Normalized == [asset : Assets, agent : Agents, types : (SUBSET Types) \ {{}}]

\* upsertFleetAsset.
Enrol(d) ==
    /\ Doing(d, "idle") /\ enrolled < MaxEnrol /\ enrolled' = enrolled + 1
    /\ \E e \in Normalized :
          /\ asset' = asset \cup {e.asset}
          /\ admin' = [admin EXCEPT ![d] = [pc |-> "source", asset |-> e.asset, agent |-> e.agent,
                                            types |-> e.types, todo |-> e.types, key |-> 0]]
    /\ UNCHANGED <<clock, source, keys, counter, req, deployed, granted, admitted, lost, faults>>

\* Mutant: a source that cannot be stored does not end the enrolment.
RegisterSourceIgnored(d) ==
    LET a == admin[d].asset   g == admin[d].agent IN
    /\ Doing(d, "source")
    /\ \E t \in admin[d].todo :
          /\ \/ /\ source' = [source EXCEPT ![a][t] = g]
                /\ granted' = granted \cup {<<a, t, g>>}
                /\ UNCHANGED faults
             \/ Fault /\ UNCHANGED <<source, granted>>
          /\ admin' = [admin EXCEPT ![d].todo = @ \ {t},
                                    ![d].pc = IF admin[d].todo = {t} THEN "deploy" ELSE @]
    /\ UNCHANGED <<clock, asset, keys, counter, req, deployed, admitted, enrolled, lost>>

\* registerLogSourceWithAssetID, for each source of the request.
RegisterSource(d) ==
    LET a == admin[d].asset   g == admin[d].agent IN
    /\ Doing(d, "source")
    /\ \E t \in admin[d].todo :
          /\ source' = [source EXCEPT ![a][t] = g]
          /\ granted' = granted \cup {<<a, t, g>>}
          /\ admin' = [admin EXCEPT ![d].todo = @ \ {t},
                                    ![d].pc = IF admin[d].todo = {t} THEN "deploy" ELSE @]
    /\ UNCHANGED <<clock, asset, keys, counter, req, deployed, admitted, enrolled, lost, faults>>

\* The statements in between, on agent_status, last_seen and fleet_policies, change nothing that
\* is modelled.
Deploy(d) ==
    /\ Doing(d, "deploy") /\ Finish(d)
    /\ deployed' = deployed \cup {[asset |-> admin[d].asset, agent |-> admin[d].agent,
                                   types |-> admin[d].types]}
    /\ UNCHANGED <<clock, asset, source, keys, counter, req, granted, admitted, enrolled, lost, faults>>

-----------------------------------------------------------------------------
(* A key is issued.                                                         *)

\* GenerateKey stores the key; nobody has it yet.
GenerateKey(d) ==
    /\ Doing(d, "idle") /\ Len(keys) < MaxKeys
    /\ \E a \in Assets :
          /\ a \in asset
          /\ keys' = Append(keys, [asset |-> a, active |-> TRUE, expires |-> clock + KeyTTL,
                                   audited |-> FALSE, given |-> FALSE])
    /\ admin' = [admin EXCEPT ![d].pc = "audit", ![d].key = Len(keys')]
    /\ UNCHANGED <<fleet, clock, counter, req, admitted, lost, faults>>

\* Mutant: the key is answered although its audit record was not written.
AuditIgnored(d) ==
    LET k == admin[d].key IN
    /\ Doing(d, "audit") /\ Finish(d)
    /\ \/ keys' = [keys EXCEPT ![k].audited = TRUE, ![k].given = TRUE] /\ UNCHANGED faults
       \/ keys' = [keys EXCEPT ![k].given = TRUE] /\ Fault
    /\ UNCHANGED <<fleet, clock, counter, req, admitted, lost>>

\* The audit record, and the answer with the key; or an error, and the key is taken back.
Audit(d) ==
    LET k == admin[d].key IN
    /\ Doing(d, "audit")
    /\ \/ /\ keys' = [keys EXCEPT ![k].audited = TRUE, ![k].given = TRUE]
          /\ Finish(d) /\ UNCHANGED faults
       \/ Proceed(d, "revoke") /\ Fault /\ UNCHANGED keys
    /\ UNCHANGED <<fleet, clock, counter, req, admitted, lost>>

RevokeKey(d) ==
    /\ Doing(d, "revoke") /\ Finish(d)
    /\ keys' = [keys EXCEPT ![admin[d].key].active = FALSE]
    /\ UNCHANGED <<fleet, clock, counter, req, admitted, lost, faults>>

\* A statement of an enrolment fails, or the last one of a key; or the backend dies.
AdminFails(d) ==
    /\ ~Doing(d, "idle") /\ Fault
    /\ Finish(d)
    /\ UNCHANGED <<fleet, clock, keys, counter, req, admitted, lost>>

-----------------------------------------------------------------------------

\* createAsset, or the rows ensureSeedData writes.
CreateAsset ==
    /\ \E a \in Assets \ asset : asset' = asset \cup {a}
    /\ UNCHANGED <<clock, source, keys, counter, req, admin, deployed, granted, admitted,
                   enrolled, lost, faults>>

\* Time passes, and Redis drops the counters whose time is over.
Tick ==
    /\ clock < MaxClock /\ clock' = clock + 1
    /\ counter' = [a \in Assets |-> IF counter[a].until \in 0 .. clock' THEN None ELSE counter[a]]
    /\ UNCHANGED <<fleet, keys, req, admin, admitted, lost, faults>>

Serve(r) ==
    \/ Authenticate(r) \/ Incr(r) \/ Expire(r) \/ CheckSource(r) \/ UpdateSource(r)
    \/ InsertSource(r) \/ Publish(r) \/ RequestFails(r)

Administer(d) ==
    \/ Enrol(d) \/ RegisterSource(d) \/ Deploy(d)
    \/ GenerateKey(d) \/ Audit(d) \/ RevokeKey(d) \/ AdminFails(d)

Next ==
    \/ \E r \in Requests : Serve(r)
    \/ \E d \in Admins : Administer(d)
    \/ CreateAsset \/ Tick

Spec == Init /\ [][Next]_vars

-----------------------------------------------------------------------------
(* Properties.                                                              *)

\* The limit is a window that starts with a request, not one that slides: in any Window ticks
\* fewer than twice the limit of one host pass, however its requests, the start of the window and
\* a lost EXPIRE fall (Allow, with its two calls).
SlidingBound ==
    \A a \in Assets, t \in Times :
        Cardinality({i \in DOMAIN admitted : /\ admitted[i].asset = a
                                             /\ admitted[i].at \in t .. t + Window - 1})
            < 2 * Limit

\* A counter without an end refuses its host for ever once it is past the limit.  There is one
\* only while the request that created it is about to set its end, unless that call was lost
\* (Allow).
CounterExpires ==
    \A a \in Assets \ lost :
        counter[a].n > 0 /\ counter[a].until = Never =>
            \E r \in Requests : At(r, "expire") /\ AssetOf(r) = a

\* A log that reaches the raw stream was sent with a key that its asset's audit trail knows, names
\* the host of that key, and comes from an agent that an administrator has enrolled for this
\* source of a host of this name, whatever enrolments, failures and other requests did between the
\* checks of the handlers and the hand-over (withIngestAuth, ingestLog, registerLogSource,
\* createIngestKey).  Of two hosts that differ in case only it need not be the one of the key: a
\* request with the key of the other one may have rewritten the row.
PublishedIsAuthorised ==
    \A r \in Requests : At(r, "publish") =>
        /\ keys[req[r].key].audited
        /\ Fold[req[r].host] = Fold[AssetOf(r)]
        /\ \E b \in Assets : /\ Fold[b] = Fold[AssetOf(r)]
                             /\ <<b, req[r].type, req[r].agent>> \in granted

\* Requests rewrite the row of their source, and look for it by a name without its case.  Whatever
\* row they meet, the agent they write was enrolled for this source of a host of that name
\* (registerLogSource; when two hosts differ in case only, it need not be the same host).
SourcesAreGranted ==
    \A a \in Assets, t \in Types : source[a][t] # NoAgent =>
        \E b \in Assets : Fold[b] = Fold[a] /\ <<b, t, source[a][t]>> \in granted

\* A deployment is recorded only when every source of its request was stored: an enrolment that
\* fails half-way leaves no deployment (fleetAgentEnroll, which is not a transaction).
DeployedInFull ==
    \A x \in deployed : \A t \in x.types : <<x.asset, t, x.agent>> \in granted

=============================================================================
