---------------------------- MODULE IntakeProofs ----------------------------
(***************************************************************************)
(* Proofs about Intake, for any requests, administrators, hosts and keys.  *)
(* The inductive invariant IInv says what a request has made sure of by    *)
(* the time it has passed its checks, and which part of it no other        *)
(* request, enrolment or key request can take back.                        *)
(***************************************************************************)
EXTENDS Intake, TLAPS, SequenceTheorems, FiniteSetTheorems

\* An administrator has enrolled agent g for source t of a host with the name of h.
GrantedByName(h, t, g) == \E b \in Assets : Fold[b] = Fold[h] /\ <<b, t, g>> \in granted

\* A client has a key only when its audit record was written.
KeyInv == \A k \in DOMAIN keys : keys[k].given => keys[k].audited

\* A request that is served has a key that was given.
ServedInv ==
    \A r \in Requests : ~At(r, "idle") => req[r].key \in DOMAIN keys /\ keys[req[r].key].given

\* Past CheckSource its host is that of its key, and its agent is enrolled.
Past(r) == req[r].pc \in {"update", "insert", "publish"}
CheckedInv ==
    \A r \in Requests : Past(r) =>
        /\ Fold[req[r].host] = Fold[AssetOf(r)]
        /\ GrantedByName(AssetOf(r), req[r].type, req[r].agent)

\* An enrolment has stored every source that it has nothing left to do for; a key request works on
\* a key that exists.
AdminInv ==
    \A d \in Admins :
        /\ admin[d].pc \in {"source", "deploy"} =>
              \A t \in admin[d].types \ admin[d].todo : <<admin[d].asset, t, admin[d].agent>> \in granted
        /\ Doing(d, "deploy") => admin[d].todo = {}
        /\ admin[d].pc \in {"audit", "revoke"} => admin[d].key \in DOMAIN keys

IInv ==
    /\ TypeOK /\ KeyInv /\ ServedInv /\ CheckedInv /\ AdminInv
    /\ CounterExpires /\ SourcesAreGranted /\ DeployedInFull

-----------------------------------------------------------------------------

LEMMA Consts ==
    /\ Limit \in Nat /\ Limit >= 1 /\ Window \in Nat /\ Window >= 1 /\ KeyTTL \in Nat
    /\ MaxClock \in Nat /\ MaxKeys \in Nat /\ MaxEnrol \in Nat /\ MaxFaults \in Nat
    /\ NoAgent \notin Agents /\ Assets \subseteq Hosts
BY IntakeAssumption DEF IntakeAssumption

\* A request that is over leaves a well-formed place behind.
LEMMA FreeType == Free \in Request /\ Free.pc = "idle"
<1>1. PICK h \in Hosts, t \in Types, g \in Agents : TRUE
  BY IntakeAssumption DEF IntakeAssumption
<1>2. 0 \in 0 .. MaxKeys
  BY Consts
<1>3. [pc |-> "idle", key |-> 0, host |-> h, type |-> t, agent |-> g] \in Request
  BY <1>2 DEF Request
<1>4. \E q \in Request : q.pc = "idle" /\ q.key = 0
  BY <1>3
<1> QED
  BY <1>4 DEF Free

LEMMA ReadyType == Ready \in Admin /\ Ready.pc = "idle"
<1>1. PICK a \in Assets, g \in Agents : TRUE
  BY IntakeAssumption DEF IntakeAssumption
<1>2. 0 \in 0 .. MaxKeys
  BY Consts
<1>3. [pc |-> "idle", asset |-> a, agent |-> g, types |-> {}, todo |-> {}, key |-> 0] \in Admin
  BY <1>2 DEF Admin
<1>4. \E d \in Admin : d.pc = "idle" /\ d.key = 0 /\ d.types = {} /\ d.todo = {}
  BY <1>3
<1> QED
  BY <1>4 DEF Ready

LEMMA InitIInv == Init => IInv
<1> SUFFICES ASSUME Init PROVE IInv
  OBVIOUS
<1> USE DEF Init
<1>1. TypeOK
  <2>1. keys \in Seq(Key) /\ Len(keys) <= MaxKeys /\ admitted \in Seq([asset : Assets, at : Times])
    BY Consts
  <2>2. req \in [Requests -> Request] /\ admin \in [Admins -> Admin]
    BY FreeType, ReadyType
  <2>3. counter \in [Assets -> [n : 0 .. Limit + 1, until : {Never} \cup Nat]]
    BY Consts DEF None, Never
  <2>4. source \in [Assets -> [Types -> Agents \cup {NoAgent}]]
    OBVIOUS
  <2> QED
    BY <2>1, <2>2, <2>3, <2>4, Consts DEF TypeOK, Times
<1>2. KeyInv /\ DeployedInFull
  BY DEF KeyInv, DeployedInFull
<1>3. ServedInv /\ CheckedInv
  BY FreeType DEF ServedInv, CheckedInv, Past, At
<1>4. AdminInv
  BY ReadyType DEF AdminInv, Doing
<1>5. CounterExpires
  BY DEF CounterExpires, None
<1>6. SourcesAreGranted
  BY DEF SourcesAreGranted
<1> QED
  BY <1>1, <1>2, <1>3, <1>4, <1>5, <1>6 DEF IInv

-----------------------------------------------------------------------------
(* Types.                                                                   *)

\* What a request reads of its key is there.
LEMMA ServedKey ==
    ASSUME TypeOK, ServedInv, NEW r \in Requests, ~At(r, "idle")
    PROVE  /\ req[r].key \in DOMAIN keys /\ AssetOf(r) \in Assets /\ keys[req[r].key].given
           /\ req[r] \in Request
<1>1. req[r].key \in DOMAIN keys /\ keys[req[r].key].given
  BY DEF ServedInv
<1>2. keys[req[r].key] \in Key
  BY <1>1, ElementOfSeq DEF TypeOK
<1> QED
  BY <1>1, <1>2 DEF TypeOK, AssetOf, Key

LEMMA GotoType ==
    ASSUME TypeOK, NEW r \in Requests,
           NEW pc \in {"idle", "limit", "expire", "source", "update", "insert", "publish"}
    PROVE  /\ Goto(r, pc) => req' \in [Requests -> Request]
           /\ Refuse(r) => req' \in [Requests -> Request]
<1>1. [req EXCEPT ![r].pc = pc] \in [Requests -> Request]
  BY DEF TypeOK, Request
<1>2. [req EXCEPT ![r] = Free] \in [Requests -> Request]
  BY FreeType DEF TypeOK
<1> QED
  BY <1>1, <1>2 DEF Goto, Refuse

LEMMA FinishType ==
    ASSUME TypeOK, NEW d \in Admins, NEW pc \in {"idle", "source", "deploy", "audit", "revoke"}
    PROVE  /\ Proceed(d, pc) => admin' \in [Admins -> Admin]
           /\ Finish(d) => admin' \in [Admins -> Admin]
<1>1. [admin EXCEPT ![d].pc = pc] \in [Admins -> Admin]
  BY DEF TypeOK, Admin
<1>2. [admin EXCEPT ![d] = Ready] \in [Admins -> Admin]
  BY ReadyType DEF TypeOK
<1> QED
  BY <1>1, <1>2 DEF Proceed, Finish

LEMMA FaultType == TypeOK /\ (Fault \/ UNCHANGED faults) => faults' \in 0 .. MaxFaults
BY Consts DEF TypeOK, Fault

LEMMA CounterType ==
    ASSUME TypeOK, NEW a \in Assets
    PROVE  /\ [counter EXCEPT ![a].n = Upto(counter[a].n + 1)]
                  \in [Assets -> [n : 0 .. Limit + 1, until : {Never} \cup Nat]]
           /\ [counter EXCEPT ![a].until = clock + Window]
                  \in [Assets -> [n : 0 .. Limit + 1, until : {Never} \cup Nat]]
<1>1. Upto(counter[a].n + 1) \in 0 .. Limit + 1 /\ clock + Window \in Nat
  BY Consts DEF TypeOK, Upto, Times
<1> QED
  BY <1>1 DEF TypeOK

LEMMA ServeType ==
    ASSUME TypeOK, ServedInv, NEW r \in Requests, Serve(r)
    PROVE  TypeOK'
<1>1. CASE Authenticate(r)
  <2>1. PICK k \in DOMAIN keys, h \in Hosts, t \in Types, g \in Agents :
           req' = [req EXCEPT ![r] = [pc |-> "limit", key |-> k, host |-> h, type |-> t, agent |-> g]]
    BY <1>1 DEF Authenticate
  <2>2. k \in 0 .. MaxKeys
    BY Consts DEF TypeOK
  <2>3. req' \in [Requests -> Request]
    BY <2>1, <2>2 DEF TypeOK, Request
  <2> QED
    BY <1>1, <2>3 DEF Authenticate, TypeOK, fleet
<1>2. CASE Incr(r)
  <2>1. AssetOf(r) \in Assets
    BY <1>2, ServedKey DEF Incr, At
  <2>2. req' \in [Requests -> Request]
    BY <1>2, GotoType DEF Incr
  <2>3. counter' \in [Assets -> [n : 0 .. Limit + 1, until : {Never} \cup Nat]]
    BY <1>2, <2>1, CounterType DEF Incr
  <2>4. admitted' \in Seq([asset : Assets, at : Times])
    <3>1. [asset |-> AssetOf(r), at |-> clock] \in [asset : Assets, at : Times]
      BY <2>1 DEF TypeOK
    <3>2. admitted' = Append(admitted, [asset |-> AssetOf(r), at |-> clock]) \/ admitted' = admitted
      BY <1>2 DEF Incr
    <3> QED
      <4>1. admitted \in Seq([asset : Assets, at : Times])
        BY DEF TypeOK
      <4>2. Append(admitted, [asset |-> AssetOf(r), at |-> clock]) \in Seq([asset : Assets, at : Times])
        BY <3>1, <4>1, AppendProperties
      <4> QED
        BY <3>2, <4>1, <4>2
  <2> QED
    BY <1>2, <2>2, <2>3, <2>4 DEF Incr, TypeOK, fleet
<1>3. CASE Expire(r)
  <2>1. AssetOf(r) \in Assets
    BY <1>3, ServedKey DEF Expire, At
  <2>2. req' \in [Requests -> Request]
    BY <1>3, GotoType DEF Expire
  <2>3. counter' \in [Assets -> [n : 0 .. Limit + 1, until : {Never} \cup Nat]]
    <3>1. counter' = [counter EXCEPT ![AssetOf(r)].until = clock + Window] \/ counter' = counter
      BY <1>3 DEF Expire
    <3>2. CASE counter' = counter
      BY <3>2 DEF TypeOK
    <3> QED
      BY <2>1, <3>1, <3>2, CounterType
  <2>4. faults' \in 0 .. MaxFaults /\ lost' \subseteq Assets
    BY <1>3, <2>1, FaultType DEF Expire, TypeOK
  <2> QED
    BY <1>3, <2>2, <2>3, <2>4 DEF Expire, TypeOK, fleet
<1>4. CASE CheckSource(r)
  <2>1. req' \in [Requests -> Request]
    BY <1>4, GotoType DEF CheckSource
  <2> QED
    BY <1>4, <2>1 DEF CheckSource, TypeOK, fleet
<1>5. CASE UpdateSource(r)
  <2>1. req[r].type \in Types /\ req[r].agent \in Agents
    BY DEF TypeOK, Request
  <2>2. PICK b \in Assets :
           \/ /\ source' = [source EXCEPT ![b][req[r].type] = req[r].agent]
              /\ Goto(r, "publish")
           \/ /\ req' = [req EXCEPT ![r].pc = "insert", ![r].host = b]
              /\ UNCHANGED source
    BY <1>5 DEF UpdateSource
  <2>3. req' \in [Requests -> Request]
    <3>1. [req EXCEPT ![r].pc = "insert", ![r].host = b] \in [Requests -> Request]
      BY Consts DEF TypeOK, Request
    <3> QED
      BY <2>2, <3>1, GotoType
  <2>4. source' \in [Assets -> [Types -> Agents \cup {NoAgent}]]
    <3>1. source[b] \in [Types -> Agents \cup {NoAgent}]
      BY DEF TypeOK
    <3>2. [source[b] EXCEPT ![req[r].type] = req[r].agent] \in [Types -> Agents \cup {NoAgent}]
      BY <2>1, <3>1
    <3>3. [source EXCEPT ![b][req[r].type] = req[r].agent]
             \in [Assets -> [Types -> Agents \cup {NoAgent}]]
      BY <3>2 DEF TypeOK
    <3> QED
      BY <2>2, <3>3 DEF TypeOK
  <2> QED
    BY <1>5, <2>3, <2>4 DEF UpdateSource, TypeOK
<1>6. CASE InsertSource(r)
  <2>1. req[r].type \in Types /\ req[r].agent \in Agents
    BY DEF TypeOK, Request
  <2>2. req' \in [Requests -> Request]
    BY <1>6, GotoType DEF InsertSource
  <2>3. source' \in [Assets -> [Types -> Agents \cup {NoAgent}]]
    <3>1. source' = source
             \/ source' = [source EXCEPT ![req[r].host][req[r].type] = req[r].agent]
      BY <1>6 DEF InsertSource
    <3>2. ASSUME NEW b, source' = [source EXCEPT ![b][req[r].type] = req[r].agent]
          PROVE  source' \in [Assets -> [Types -> Agents \cup {NoAgent}]]
      <4>1. CASE b \in Assets
        <5>1. source[b] \in [Types -> Agents \cup {NoAgent}]
          BY <4>1 DEF TypeOK
        <5>2. [source[b] EXCEPT ![req[r].type] = req[r].agent] \in [Types -> Agents \cup {NoAgent}]
          BY <2>1, <5>1
        <5> QED
          BY <3>2, <5>2 DEF TypeOK
      <4>2. CASE b \notin Assets
        BY <3>2, <4>2 DEF TypeOK
      <4> QED
        BY <4>1, <4>2
    <3> QED
      BY <3>1, <3>2 DEF TypeOK
  <2> QED
    BY <1>6, <2>2, <2>3 DEF InsertSource, TypeOK
<1>7. CASE Publish(r)
  <2>1. req' \in [Requests -> Request]
    BY <1>7, GotoType DEF Publish
  <2> QED
    BY <1>7, <2>1 DEF Publish, TypeOK, fleet
<1>8. CASE RequestFails(r)
  <2>1. AssetOf(r) \in Assets
    BY <1>8, ServedKey DEF RequestFails
  <2>2. req' \in [Requests -> Request]
    BY <1>8, GotoType DEF RequestFails
  <2>3. faults' \in 0 .. MaxFaults /\ lost' \subseteq Assets
    BY <1>8, <2>1, FaultType DEF RequestFails, TypeOK
  <2> QED
    BY <1>8, <2>2, <2>3 DEF RequestFails, TypeOK, fleet
<1> QED
  BY <1>1, <1>2, <1>3, <1>4, <1>5, <1>6, <1>7, <1>8 DEF Serve

\* Marks on a key leave the sequence of the keys as long as it was.
LEMMA KeyUpdType ==
    ASSUME TypeOK, NEW k
    PROVE  /\ [keys EXCEPT ![k].audited = TRUE, ![k].given = TRUE] \in Seq(Key)
           /\ Len([keys EXCEPT ![k].audited = TRUE, ![k].given = TRUE]) = Len(keys)
           /\ [keys EXCEPT ![k].active = FALSE] \in Seq(Key)
           /\ Len([keys EXCEPT ![k].active = FALSE]) = Len(keys)
<1>1. CASE k \in 1 .. Len(keys)
  <2>1. keys \in Seq(Key) /\ keys[k] \in Key
    BY <1>1, ElementOfSeq DEF TypeOK
  <2>2. [keys[k] EXCEPT !.audited = TRUE, !.given = TRUE] \in Key
    BY <2>1 DEF Key
  <2>3. [keys[k] EXCEPT !.active = FALSE] \in Key
    BY <2>1 DEF Key
  <2>4. [keys EXCEPT ![k].audited = TRUE, ![k].given = TRUE]
           = [keys EXCEPT ![k] = [keys[k] EXCEPT !.audited = TRUE, !.given = TRUE]]
    BY <2>1
  <2>5. [keys EXCEPT ![k].active = FALSE]
           = [keys EXCEPT ![k] = [keys[k] EXCEPT !.active = FALSE]]
    BY <2>1
  <2> QED
    <3>1. /\ [keys EXCEPT ![k] = [keys[k] EXCEPT !.audited = TRUE, !.given = TRUE]] \in Seq(Key)
          /\ Len([keys EXCEPT ![k] = [keys[k] EXCEPT !.audited = TRUE, !.given = TRUE]]) = Len(keys)
      BY <1>1, <2>1, <2>2, ExceptSeq
    <3>2. /\ [keys EXCEPT ![k] = [keys[k] EXCEPT !.active = FALSE]] \in Seq(Key)
          /\ Len([keys EXCEPT ![k] = [keys[k] EXCEPT !.active = FALSE]]) = Len(keys)
      BY <1>1, <2>1, <2>3, ExceptSeq
    <3> QED
      BY <2>4, <2>5, <3>1, <3>2
<1>2. CASE k \notin 1 .. Len(keys)
  <2>1. keys \in Seq(Key) /\ DOMAIN keys = 1 .. Len(keys)
    BY DEF TypeOK
  <2>2. [keys EXCEPT ![k].audited = TRUE, ![k].given = TRUE] = keys
    BY <1>2, <2>1
  <2>3. [keys EXCEPT ![k].active = FALSE] = keys
    BY <1>2, <2>1
  <2> QED
    BY <2>1, <2>2, <2>3
<1> QED
  BY <1>1, <1>2

LEMMA AdministerType ==
    ASSUME TypeOK, AdminInv, NEW d \in Admins, Administer(d)
    PROVE  TypeOK'
<1>0. admin[d] \in Admin
  BY DEF TypeOK
<1>1. CASE Enrol(d)
  <2>1. PICK e \in Normalized :
           /\ asset' = asset \cup {e.asset}
           /\ admin' = [admin EXCEPT ![d] = [pc |-> "source", asset |-> e.asset, agent |-> e.agent,
                                             types |-> e.types, todo |-> e.types, key |-> 0]]
    BY <1>1 DEF Enrol
  <2>2. admin' \in [Admins -> Admin] /\ asset' \subseteq Assets /\ enrolled' \in 0 .. MaxEnrol
    BY <1>1, <2>1, Consts DEF Enrol, Normalized, TypeOK, Admin
  <2> QED
    BY <1>1, <2>2 DEF Enrol, TypeOK
<1>2. CASE RegisterSource(d)
  <2>1. PICK t \in admin[d].todo :
           /\ source' = [source EXCEPT ![admin[d].asset][t] = admin[d].agent]
           /\ granted' = granted \cup {<<admin[d].asset, t, admin[d].agent>>}
           /\ admin' = [admin EXCEPT ![d].todo = @ \ {t},
                                     ![d].pc = IF admin[d].todo = {t} THEN "deploy" ELSE @]
    BY <1>2 DEF RegisterSource
  <2>2. t \in Types
    BY <1>0 DEF Admin
  <2>3. source' \in [Assets -> [Types -> Agents \cup {NoAgent}]]
    BY <1>0, <2>1, <2>2 DEF TypeOK, Admin
  <2>4. granted' \subseteq Assets \X Types \X Agents
    BY <1>0, <2>1, <2>2 DEF TypeOK, Admin
  <2>5. admin' \in [Admins -> Admin]
    <3>1. PICK pc \in {"source", "deploy", "idle", "audit", "revoke"} :
             pc = IF admin[d].todo = {t} THEN "deploy" ELSE admin[d].pc
      BY <1>0 DEF Admin
    <3>2. [admin[d] EXCEPT !.todo = admin[d].todo \ {t}, !.pc = pc] \in Admin
      BY <1>0 DEF Admin
    <3>3. admin' = [admin EXCEPT ![d] = [admin[d] EXCEPT !.todo = admin[d].todo \ {t}, !.pc = pc]]
      BY <2>1, <3>1 DEF TypeOK
    <3> QED
      BY <3>2, <3>3 DEF TypeOK
  <2> QED
    BY <1>2, <2>3, <2>4, <2>5 DEF RegisterSource, TypeOK
<1>3. CASE Deploy(d)
  <2>1. admin' \in [Admins -> Admin]
    BY <1>3, FinishType DEF Deploy
  <2>2. deployed' \subseteq [asset : Assets, agent : Agents, types : SUBSET Types]
    BY <1>0, <1>3 DEF Deploy, TypeOK, Admin
  <2> QED
    BY <1>3, <2>1, <2>2 DEF Deploy, TypeOK
<1>4. CASE GenerateKey(d)
  <2>1. PICK a \in Assets :
           keys' = Append(keys, [asset |-> a, active |-> TRUE, expires |-> clock + KeyTTL,
                                 audited |-> FALSE, given |-> FALSE])
    BY <1>4 DEF GenerateKey
  <2>2. clock + KeyTTL \in Nat
    BY Consts DEF TypeOK, Times
  <2>3. [asset |-> a, active |-> TRUE, expires |-> clock + KeyTTL,
         audited |-> FALSE, given |-> FALSE] \in Key
    BY <2>2 DEF Key
  <2>4. keys' \in Seq(Key) /\ Len(keys') = Len(keys) + 1
    BY <2>1, <2>3 DEF TypeOK
  <2>5. Len(keys') <= MaxKeys /\ Len(keys') \in 0 .. MaxKeys
    BY <1>4, <2>4, Consts, LenProperties DEF GenerateKey, TypeOK
  <2>6. admin' \in [Admins -> Admin]
    <3>1. PICK n \in 0 .. MaxKeys : n = Len(keys')
      BY <2>5
    <3>2. admin' = [admin EXCEPT ![d].pc = "audit", ![d].key = n]
      BY <1>4, <3>1 DEF GenerateKey
    <3> QED
      BY <1>0, <3>2 DEF TypeOK, Admin
  <2> QED
    BY <1>4, <2>4, <2>5, <2>6 DEF GenerateKey, TypeOK, fleet
<1>5. CASE Audit(d)
  <2>1. admin' \in [Admins -> Admin]
    BY <1>5, FinishType DEF Audit
  <2>2. keys' \in Seq(Key) /\ Len(keys') = Len(keys)
    BY <1>5, KeyUpdType DEF Audit, TypeOK
  <2>3. faults' \in 0 .. MaxFaults
    BY <1>5, FaultType DEF Audit
  <2> QED
    BY <1>5, <2>1, <2>2, <2>3 DEF Audit, TypeOK, fleet
<1>6. CASE RevokeKey(d)
  <2>1. admin' \in [Admins -> Admin]
    BY <1>6, FinishType DEF RevokeKey
  <2>2. keys' \in Seq(Key) /\ Len(keys') = Len(keys)
    BY <1>6, KeyUpdType DEF RevokeKey, TypeOK
  <2> QED
    BY <1>6, <2>1, <2>2 DEF RevokeKey, TypeOK, fleet
<1>7. CASE AdminFails(d)
  <2>1. admin' \in [Admins -> Admin] /\ faults' \in 0 .. MaxFaults
    BY <1>7, FinishType, FaultType DEF AdminFails
  <2> QED
    BY <1>7, <2>1 DEF AdminFails, TypeOK, fleet
<1> QED
  BY <1>1, <1>2, <1>3, <1>4, <1>5, <1>6, <1>7 DEF Administer

LEMMA TypeStep == TypeOK /\ ServedInv /\ AdminInv /\ [Next]_vars => TypeOK'
<1> SUFFICES ASSUME TypeOK, ServedInv, AdminInv, [Next]_vars PROVE TypeOK'
  OBVIOUS
<1>1. ASSUME NEW r \in Requests, Serve(r) PROVE TypeOK'
  BY <1>1, ServeType
<1>2. ASSUME NEW d \in Admins, Administer(d) PROVE TypeOK'
  BY <1>2, AdministerType
<1>3. CASE CreateAsset
  BY <1>3 DEF CreateAsset, TypeOK
<1>4. CASE Tick
  <2>1. clock' \in Times
    BY <1>4, Consts DEF Tick, TypeOK, Times
  <2>2. counter' \in [Assets -> [n : 0 .. Limit + 1, until : {Never} \cup Nat]]
    BY <1>4, Consts DEF Tick, TypeOK, None, Never
  <2> QED
    BY <1>4, <2>1, <2>2 DEF Tick, TypeOK, fleet
<1>5. CASE UNCHANGED vars
  BY <1>5 DEF vars, TypeOK
<1> QED
  BY <1>1, <1>2, <1>3, <1>4, <1>5 DEF Next

-----------------------------------------------------------------------------
(* What no step takes back.                                                 *)

\* A key is never taken away from the client that has it, and keeps its asset; an enrolled source
\* stays enrolled.
Lasting ==
    /\ DOMAIN keys \subseteq DOMAIN keys'
    /\ \A k \in DOMAIN keys : /\ keys'[k].asset = keys[k].asset
                              /\ keys[k].given => keys'[k].given
    /\ granted \subseteq granted'

\* The steps that write api_keys.
LEMMA AppendedKey ==
    ASSUME TypeOK, KeyInv, NEW d \in Admins, GenerateKey(d)
    PROVE  Lasting /\ KeyInv' /\ Len(keys') \in DOMAIN keys'
<1>1. PICK a \in Assets :
         keys' = Append(keys, [asset |-> a, active |-> TRUE, expires |-> clock + KeyTTL,
                               audited |-> FALSE, given |-> FALSE])
  BY DEF GenerateKey
<1> DEFINE e == [asset |-> a, active |-> TRUE, expires |-> clock + KeyTTL,
                 audited |-> FALSE, given |-> FALSE]
<1>2. e \in Key
  BY Consts DEF TypeOK, Times, Key
<1>3. keys \in Seq(Key)
  BY DEF TypeOK
<1>4. e.given = FALSE
  OBVIOUS
<1> HIDE DEF e
<1>5. /\ keys' \in Seq(Key) /\ Len(keys') = Len(keys) + 1
      /\ \A k \in 1 .. Len(keys) : keys'[k] = keys[k]
      /\ keys'[Len(keys) + 1] = e
  BY <1>1, <1>2, <1>3, AppendProperties DEF e
<1>6. /\ DOMAIN keys = 1 .. Len(keys) /\ DOMAIN keys' = 1 .. Len(keys) + 1 /\ Len(keys) \in Nat
  BY <1>3, <1>5
<1>7. KeyInv'
  BY <1>4, <1>5, <1>6 DEF KeyInv
<1>8. UNCHANGED granted
  BY DEF GenerateKey, fleet
<1>9. Lasting
  BY <1>5, <1>6, <1>8 DEF Lasting
<1> QED
  BY <1>5, <1>6, <1>7, <1>9

LEMMA MarkedKey ==
    ASSUME TypeOK, KeyInv, NEW d \in Admins, Audit(d) \/ RevokeKey(d)
    PROVE  Lasting /\ KeyInv'
<1>1. keys \in Seq(Key) /\ UNCHANGED granted
  BY DEF TypeOK, Audit, RevokeKey, fleet
<1>2. PICK k : \/ keys' = [keys EXCEPT ![k].audited = TRUE, ![k].given = TRUE]
               \/ keys' = [keys EXCEPT ![k].active = FALSE]
               \/ keys' = keys
  BY DEF Audit, RevokeKey
<1>3. \A j \in DOMAIN keys : keys[j] \in Key
  BY <1>1, ElementOfSeq
<1>4. DOMAIN keys' = DOMAIN keys
  BY <1>2
<1>5. \A j \in DOMAIN keys : /\ keys'[j].asset = keys[j].asset
                             /\ keys[j].given => keys'[j].given
                             /\ keys'[j].given => keys'[j].audited
  BY <1>2, <1>3 DEF Key, KeyInv
<1> QED
  BY <1>1, <1>4, <1>5 DEF Lasting, KeyInv

LEMMA LastingStep == TypeOK /\ KeyInv /\ [Next]_vars => Lasting /\ KeyInv'
<1> SUFFICES ASSUME TypeOK, KeyInv, [Next]_vars PROVE Lasting /\ KeyInv'
  OBVIOUS
<1>1. ASSUME keys' = keys, granted \subseteq granted' PROVE Lasting /\ KeyInv'
  BY <1>1 DEF Lasting, KeyInv
<1>2. ASSUME NEW r \in Requests, Serve(r) PROVE keys' = keys /\ granted \subseteq granted'
  BY <1>2 DEF Serve, Authenticate, Incr, Expire, CheckSource, UpdateSource, InsertSource, Publish,
              RequestFails, fleet
<1>3. ASSUME NEW d \in Admins, Administer(d) PROVE Lasting /\ KeyInv'
  <2>1. CASE Enrol(d) \/ RegisterSource(d) \/ Deploy(d) \/ AdminFails(d)
    BY <1>1, <2>1 DEF Enrol, RegisterSource, Deploy, AdminFails, fleet
  <2>2. CASE GenerateKey(d)
    BY <2>2, AppendedKey
  <2>3. CASE Audit(d) \/ RevokeKey(d)
    BY <2>3, MarkedKey
  <2> QED
    BY <1>3, <2>1, <2>2, <2>3 DEF Administer
<1>4. CASE CreateAsset \/ Tick \/ UNCHANGED vars
  BY <1>1, <1>4 DEF CreateAsset, Tick, vars, fleet
<1> QED
  BY <1>1, <1>2, <1>3, <1>4 DEF Next

-----------------------------------------------------------------------------
(* Requests.                                                                *)

\* Only a step of a request changes where it is.
Others(r) == \A s \in Requests \ {r} : req'[s] = req[s]

LEMMA ServeOthers == ASSUME TypeOK, NEW r \in Requests, Serve(r) PROVE Others(r)
<1>1. PICK q : req' = [req EXCEPT ![r] = q]
  <2>1. CASE Authenticate(r)
    BY <2>1 DEF Authenticate
  <2>2. ASSUME NEW pc PROVE Goto(r, pc) \/ Refuse(r) => \E q : req' = [req EXCEPT ![r] = q]
    BY DEF Goto, Refuse
  <2>3. CASE UpdateSource(r)
    BY <2>2, <2>3 DEF UpdateSource
  <2>4. CASE Incr(r) \/ Expire(r) \/ CheckSource(r) \/ InsertSource(r) \/ Publish(r) \/ RequestFails(r)
    BY <2>2, <2>4 DEF Incr, Expire, CheckSource, InsertSource, Publish, RequestFails
  <2> QED
    BY <2>1, <2>3, <2>4 DEF Serve
<1> QED
  BY <1>1 DEF TypeOK, Others

LEMMA OtherActorsKeepRequests ==
    ASSUME \/ \E d \in Admins : Administer(d)
           \/ CreateAsset \/ Tick \/ UNCHANGED vars
    PROVE  UNCHANGED req
<1>1. ASSUME NEW d \in Admins, Administer(d) PROVE UNCHANGED req
  BY <1>1 DEF Administer, Enrol, RegisterSource, Deploy, GenerateKey, Audit, RevokeKey, AdminFails
<1>2. CASE CreateAsset \/ Tick \/ UNCHANGED vars
  BY <1>2 DEF CreateAsset, Tick, vars
<1> QED
  BY <1>1, <1>2

\* After each step of a request it is idle, or has the key that it had before, or has
\* just been let in.
LEMMA ServeRequest ==
    ASSUME TypeOK, ServedInv, NEW r \in Requests, Serve(r)
    PROVE  \/ req'[r].pc = "idle"
           \/ ~At(r, "idle") /\ req'[r].key = req[r].key
           \/ /\ req'[r].pc = "limit" /\ req'[r].key \in DOMAIN keys /\ keys[req'[r].key].given
<1>1. CASE Authenticate(r)
  BY <1>1 DEF Authenticate, TypeOK
<1>2. ASSUME NEW pc, Goto(r, pc) PROVE req'[r].key = req[r].key
  BY <1>2 DEF Goto, TypeOK, Request
<1>3. Refuse(r) => req'[r].pc = "idle"
  BY FreeType DEF Refuse, TypeOK
<1>4. CASE UpdateSource(r)
  BY <1>2, <1>4 DEF UpdateSource, At, TypeOK, Request
<1>5. CASE Incr(r) \/ Expire(r) \/ CheckSource(r) \/ InsertSource(r) \/ Publish(r) \/ RequestFails(r)
  BY <1>2, <1>3, <1>5 DEF Incr, Expire, CheckSource, InsertSource, Publish, RequestFails, At
<1> QED
  BY <1>1, <1>4, <1>5 DEF Serve

LEMMA ServedStep ==
    TypeOK /\ KeyInv /\ ServedInv /\ [Next]_vars => ServedInv'
<1> SUFFICES ASSUME TypeOK, KeyInv, ServedInv, [Next]_vars PROVE ServedInv'
  OBVIOUS
<1>1. Lasting
  BY LastingStep
<1>2. ASSUME NEW s \in Requests, req'[s] = req[s]
      PROVE  req'[s].pc # "idle" => req'[s].key \in DOMAIN keys' /\ keys'[req'[s].key].given
  BY <1>1, <1>2 DEF ServedInv, At, Lasting
<1>3. ASSUME NEW r \in Requests, Serve(r) PROVE ServedInv'
  <2>1. Others(r) /\ req'[r].pc # "idle" => req'[r].key \in DOMAIN keys' /\ keys'[req'[r].key].given
    BY <1>1, <1>3, ServeRequest DEF Lasting, ServedInv
  <2>2. Others(r)
    BY <1>3, ServeOthers
  <2> QED
    BY <1>2, <2>1, <2>2 DEF ServedInv, At, Others
<1>4. CASE UNCHANGED req
  BY <1>2, <1>4 DEF ServedInv, At
<1> QED
  BY <1>3, <1>4, OtherActorsKeepRequests DEF Next

\* Names of hosts that an enrolment has stored a source for stay such names.
LEMMA GrantedLasts ==
    ASSUME Lasting, NEW h, NEW t, NEW g
    PROVE  GrantedByName(h, t, g) => GrantedByName(h, t, g)'
BY DEF Lasting, GrantedByName

\* What a request that moves on within its checks knows, it knew before or has just found.
LEMMA ServeChecked ==
    ASSUME TypeOK, ServedInv, CheckedInv, SourcesAreGranted, NEW r \in Requests, Serve(r),
           Past(r)'
    PROVE  /\ ~At(r, "idle") /\ req'[r].key = req[r].key
           /\ Fold[req'[r].host] = Fold[AssetOf(r)]
           /\ GrantedByName(AssetOf(r), req'[r].type, req'[r].agent)
<1>1. CASE Authenticate(r) \/ Incr(r) \/ Expire(r) \/ Publish(r) \/ RequestFails(r)
  <2>1. CASE Authenticate(r)
    BY <2>1 DEF Authenticate, TypeOK, Past
  <2>2. ASSUME Refuse(r) \/ Goto(r, "expire") \/ Goto(r, "source") PROVE FALSE
    BY <2>2, FreeType DEF Refuse, Goto, TypeOK, Request, Past
  <2>3. CASE Incr(r) \/ Expire(r) \/ Publish(r) \/ RequestFails(r)
    BY <2>2, <2>3 DEF Incr, Expire, Publish, RequestFails
  <2> QED
    BY <1>1, <2>1, <2>3
<1>2. ~Refuse(r)
  BY FreeType DEF Refuse, TypeOK, Past
<1>3. CASE CheckSource(r)
  <2>1. /\ At(r, "source") /\ Goto(r, "update")
        /\ Fold[req[r].host] = Fold[AssetOf(r)]
        /\ source[AssetOf(r)][req[r].type] = req[r].agent
    BY <1>2, <1>3 DEF CheckSource
  <2>2. AssetOf(r) \in Assets /\ req[r].type \in Types /\ req[r].agent # NoAgent
    BY <2>1, ServedKey, Consts DEF At, Request
  <2>3. GrantedByName(AssetOf(r), req[r].type, req[r].agent)
    BY <2>1, <2>2 DEF SourcesAreGranted, GrantedByName
  <2> QED
    BY <2>1, <2>3 DEF Goto, TypeOK, Request, At
<1>4. CASE UpdateSource(r)
  <2>1. /\ At(r, "update")
        /\ Fold[req[r].host] = Fold[AssetOf(r)]
        /\ GrantedByName(AssetOf(r), req[r].type, req[r].agent)
    BY <1>4 DEF UpdateSource, At, CheckedInv, Past
  <2>2. PICK b \in Assets :
           /\ Fold[b] = Fold[req[r].host]
           /\ \/ Goto(r, "publish")
              \/ req' = [req EXCEPT ![r].pc = "insert", ![r].host = b]
    BY <1>4 DEF UpdateSource
  <2>3. /\ req'[r].key = req[r].key /\ req'[r].type = req[r].type /\ req'[r].agent = req[r].agent
        /\ req'[r].host = req[r].host \/ req'[r].host = b
    BY <2>2 DEF Goto, TypeOK, Request
  <2>4. Fold[req'[r].host] = Fold[AssetOf(r)]
    BY <2>1, <2>2, <2>3
  <2> QED
    BY <2>1, <2>3, <2>4 DEF At
<1>5. CASE InsertSource(r)
  <2>1. At(r, "insert") /\ Goto(r, "publish")
    BY <1>2, <1>5 DEF InsertSource
  <2>2. /\ Fold[req[r].host] = Fold[AssetOf(r)]
        /\ GrantedByName(AssetOf(r), req[r].type, req[r].agent)
    BY <2>1 DEF At, CheckedInv, Past
  <2> QED
    BY <2>1, <2>2 DEF Goto, TypeOK, Request, At
<1> QED
  BY <1>1, <1>3, <1>4, <1>5 DEF Serve

LEMMA CheckedStep ==
    TypeOK /\ KeyInv /\ ServedInv /\ CheckedInv /\ SourcesAreGranted /\ [Next]_vars => CheckedInv'
<1> SUFFICES ASSUME TypeOK, KeyInv, ServedInv, CheckedInv, SourcesAreGranted, [Next]_vars,
                    NEW s \in Requests, Past(s)'
             PROVE  /\ Fold[req'[s].host] = Fold[AssetOf(s)']
                    /\ GrantedByName(AssetOf(s), req[s].type, req[s].agent)'
  BY DEF CheckedInv
<1>1. Lasting
  BY LastingStep
<1>2. ASSUME ~At(s, "idle"), req'[s].key = req[s].key PROVE AssetOf(s)' = AssetOf(s)
  BY <1>1, <1>2 DEF ServedInv, Lasting, AssetOf
<1>3. CASE req'[s] = req[s]
  <2>1. Past(s) /\ ~At(s, "idle")
    BY <1>3 DEF Past, At
  <2>2. AssetOf(s)' = AssetOf(s)
    BY <1>2, <1>3, <2>1
  <2>3. /\ Fold[req[s].host] = Fold[AssetOf(s)]
        /\ GrantedByName(AssetOf(s), req[s].type, req[s].agent)
    BY <2>1 DEF CheckedInv
  <2> QED
    BY <1>1, <1>3, <2>2, <2>3 DEF Lasting, GrantedByName
<1>4. ASSUME Serve(s)
      PROVE  /\ Fold[req'[s].host] = Fold[AssetOf(s)']
             /\ GrantedByName(AssetOf(s), req[s].type, req[s].agent)'
  <2>1. /\ ~At(s, "idle") /\ req'[s].key = req[s].key
        /\ Fold[req'[s].host] = Fold[AssetOf(s)]
        /\ GrantedByName(AssetOf(s), req'[s].type, req'[s].agent)
    BY <1>4, ServeChecked
  <2>2. AssetOf(s)' = AssetOf(s)
    BY <1>2, <2>1
  <2> QED
    BY <1>1, <2>1, <2>2 DEF Lasting, GrantedByName
<1>5. ASSUME NEW r \in Requests, Serve(r), r # s PROVE req'[s] = req[s]
  BY <1>5, ServeOthers DEF Others
<1> QED
  BY <1>3, <1>4, <1>5, OtherActorsKeepRequests DEF Next

\* Every row of log_sources holds an agent that was enrolled for it by its name.
LEMMA SourcesStep ==
    TypeOK /\ KeyInv /\ ServedInv /\ CheckedInv /\ SourcesAreGranted /\ [Next]_vars
        => SourcesAreGranted'
<1> SUFFICES ASSUME TypeOK, KeyInv, ServedInv, CheckedInv, SourcesAreGranted, [Next]_vars,
                    NEW a \in Assets, NEW t \in Types, source'[a][t] # NoAgent
             PROVE  GrantedByName(a, t, source[a][t])'
  BY DEF SourcesAreGranted, GrantedByName
<1>1. Lasting
  BY LastingStep
<1>2. CASE source'[a][t] = source[a][t]
  <2>1. GrantedByName(a, t, source[a][t])
    BY <1>2 DEF SourcesAreGranted, GrantedByName
  <2> QED
    BY <1>1, <1>2, <2>1 DEF Lasting, GrantedByName
<1>3. ASSUME NEW r \in Requests, Past(r), NEW b, Fold[b] = Fold[req[r].host],
             source' = [source EXCEPT ![b][req[r].type] = req[r].agent]
      PROVE  GrantedByName(a, t, source[a][t])'
  <2>1. CASE b = a /\ req[r].type = t
    <3>1. source'[a][t] = req[r].agent
      BY <1>3, <2>1 DEF TypeOK
    <3>2. GrantedByName(AssetOf(r), req[r].type, req[r].agent) /\ Fold[a] = Fold[AssetOf(r)]
      BY <1>3, <2>1 DEF CheckedInv
    <3> QED
      BY <1>1, <2>1, <3>1, <3>2 DEF Lasting, GrantedByName
  <2>2. CASE ~(b = a /\ req[r].type = t)
    BY <1>2, <1>3, <2>2 DEF TypeOK
  <2> QED
    BY <2>1, <2>2
<1>4. ASSUME NEW r \in Requests, Serve(r) PROVE GrantedByName(a, t, source[a][t])'
  <2>1. CASE UNCHANGED source
    BY <1>2, <2>1
  <2>2. CASE UpdateSource(r) /\ ~UNCHANGED source
    <3>1. Past(r)
      BY <2>2 DEF UpdateSource, At, Past
    <3>2. PICK b \in Assets : /\ Fold[b] = Fold[req[r].host]
                              /\ source' = [source EXCEPT ![b][req[r].type] = req[r].agent]
      BY <2>2 DEF UpdateSource
    <3> QED
      BY <1>3, <3>1, <3>2
  <2>3. CASE InsertSource(r) /\ ~UNCHANGED source
    <3>1. Past(r)
      BY <2>3 DEF InsertSource, At, Past
    <3>2. source' = [source EXCEPT ![req[r].host][req[r].type] = req[r].agent]
      BY <2>3 DEF InsertSource
    <3> QED
      BY <1>3, <3>1, <3>2
  <2> QED
    BY <1>4, <2>1, <2>2, <2>3
       DEF Serve, Authenticate, Incr, Expire, CheckSource, Publish, RequestFails, fleet
<1>5. ASSUME NEW d \in Admins, RegisterSource(d) PROVE GrantedByName(a, t, source[a][t])'
  <2>1. PICK u \in admin[d].todo :
           /\ source' = [source EXCEPT ![admin[d].asset][u] = admin[d].agent]
           /\ granted' = granted \cup {<<admin[d].asset, u, admin[d].agent>>}
    BY <1>5 DEF RegisterSource
  <2>2. CASE admin[d].asset = a /\ u = t
    <3>1. source'[a][t] = admin[d].agent
      BY <2>1, <2>2 DEF TypeOK
    <3> QED
      BY <2>1, <2>2, <3>1 DEF GrantedByName
  <2>3. CASE ~(admin[d].asset = a /\ u = t)
    BY <1>2, <2>1, <2>3 DEF TypeOK
  <2> QED
    BY <2>2, <2>3
<1>6. ASSUME NEW d \in Admins, Administer(d), ~RegisterSource(d) PROVE UNCHANGED source
  BY <1>6 DEF Administer, Enrol, Deploy, GenerateKey, Audit, RevokeKey, AdminFails, fleet
<1>7. CASE CreateAsset \/ Tick \/ UNCHANGED vars
  BY <1>2, <1>7 DEF CreateAsset, Tick, vars, fleet
<1> QED
  BY <1>2, <1>4, <1>5, <1>6, <1>7 DEF Next

-----------------------------------------------------------------------------
(* The counter of the rate limiter.                                         *)

\* Somebody is about to set the end of the counter of a.
Due(a) == \E r \in Requests : At(r, "expire") /\ AssetOf(r) = a

\* A request that is about to set an end keeps its asset until it takes a step.
LEMMA DueLasts ==
    ASSUME TypeOK, KeyInv, ServedInv, [Next]_vars, NEW s \in Requests, At(s, "expire"),
           req'[s] = req[s]
    PROVE  At(s, "expire")' /\ AssetOf(s)' = AssetOf(s)
<1>1. Lasting
  BY LastingStep
<1> QED
  BY <1>1 DEF At, ServedInv, Lasting, AssetOf

LEMMA CounterStep ==
    TypeOK /\ KeyInv /\ ServedInv /\ CounterExpires /\ [Next]_vars => CounterExpires'
<1> SUFFICES ASSUME TypeOK, KeyInv, ServedInv, CounterExpires, [Next]_vars,
                    NEW a \in Assets, a \notin lost', counter'[a].n > 0, counter'[a].until = Never
             PROVE  Due(a)'
  BY DEF CounterExpires, Due
<1>1. ASSUME a \notin lost, counter'[a] = counter[a] PROVE Due(a)
  BY <1>1 DEF CounterExpires, Due
<1>2. CASE UNCHANGED <<req, counter, lost>>
  <2>1. PICK s \in Requests : At(s, "expire") /\ AssetOf(s) = a
    BY <1>1, <1>2 DEF Due
  <2> QED
    BY <1>2, <2>1, DueLasts DEF Due
<1>3. ASSUME NEW r \in Requests, Others(r), a \notin lost, counter'[a] = counter[a],
             ~(At(r, "expire") /\ AssetOf(r) = a)
      PROVE  Due(a)'
  <2>1. PICK s \in Requests : At(s, "expire") /\ AssetOf(s) = a
    BY <1>1, <1>3 DEF Due
  <2>2. req'[s] = req[s]
    BY <1>3, <2>1 DEF Others
  <2> QED
    BY <2>1, <2>2, DueLasts DEF Due
<1>4. ASSUME NEW r \in Requests, Serve(r) PROVE Due(a)'
  <2>0. Others(r)
    BY <1>4, ServeOthers
  <2>1. CASE Incr(r)
    <3>0. lost' = lost /\ At(r, "limit") /\ ~At(r, "expire") /\ AssetOf(r) \in Assets
      BY <2>1, ServedKey DEF Incr, At
    <3>1. CASE AssetOf(r) # a
      <4>1. counter'[a] = counter[a]
        BY <2>1, <3>1 DEF Incr, TypeOK
      <4> QED
        BY <1>3, <2>0, <3>0, <4>1
    <3>2. CASE AssetOf(r) = a
      <4>1. counter[a].n \in Nat /\ counter'[a].until = counter[a].until
        BY <2>1, <3>2, Consts DEF Incr, TypeOK
      <4>2. CASE counter[a].n = 0
        <5>1. Upto(counter[a].n + 1) = 1
          BY <4>2, Consts DEF Upto
        <5>2. Goto(r, "expire")
          BY <2>1, <3>2, <5>1 DEF Incr
        <5>3. req'[r].pc = "expire" /\ req'[r].key = req[r].key /\ UNCHANGED keys
          BY <2>1, <5>2 DEF Goto, Incr, TypeOK, Request
        <5> QED
          BY <3>2, <5>3 DEF Due, At, AssetOf
      <4>3. CASE counter[a].n > 0
        <5>1. Due(a)
          BY <3>0, <4>1, <4>3 DEF CounterExpires, Due
        <5>2. PICK s \in Requests : At(s, "expire") /\ AssetOf(s) = a
          BY <5>1 DEF Due
        <5>3. req'[s] = req[s]
          BY <2>0, <3>0, <5>2 DEF Others
        <5> QED
          BY <5>2, <5>3, DueLasts DEF Due
      <4> QED
        BY <4>1, <4>2, <4>3
    <3> QED
      BY <3>1, <3>2
  <2>2. CASE Expire(r)
    <3>0. AssetOf(r) \in Assets
      BY <2>2, ServedKey DEF Expire, At
    <3>1. CASE AssetOf(r) = a
      <4>1. counter' = [counter EXCEPT ![a].until = clock + Window]
        BY <2>2, <3>1 DEF Expire
      <4>2. counter'[a].until = clock + Window
        BY <4>1 DEF TypeOK
      <4> QED
        BY <4>2, Consts DEF TypeOK, Times, Never
    <3>2. CASE AssetOf(r) # a
      <4>1. counter'[a] = counter[a] /\ a \notin lost
        BY <2>2, <3>2 DEF Expire, TypeOK
      <4> QED
        BY <1>3, <2>0, <3>2, <4>1
    <3> QED
      BY <3>1, <3>2
  <2>3. CASE RequestFails(r)
    <3>1. a \notin lost /\ counter'[a] = counter[a] /\ ~(At(r, "expire") /\ AssetOf(r) = a)
      BY <2>3 DEF RequestFails
    <3> QED
      BY <1>3, <2>0, <3>1
  <2>4. CASE Authenticate(r) \/ CheckSource(r) \/ UpdateSource(r) \/ InsertSource(r) \/ Publish(r)
    <3>1. UNCHANGED <<counter, lost>> /\ ~At(r, "expire")
      BY <2>4 DEF Authenticate, CheckSource, UpdateSource, InsertSource, Publish, At
    <3> QED
      BY <1>3, <2>0, <3>1
  <2> QED
    BY <1>4, <2>1, <2>2, <2>3, <2>4 DEF Serve
<1>5. ASSUME NEW d \in Admins, Administer(d) PROVE Due(a)'
  <2>1. UNCHANGED <<req, counter, lost>>
    BY <1>5 DEF Administer, Enrol, RegisterSource, Deploy, GenerateKey, Audit, RevokeKey, AdminFails
  <2> QED
    BY <1>2, <2>1
<1>6. CASE Tick
  <2>1. lost' = lost /\ req' = req /\ (counter'[a] = counter[a] \/ counter'[a] = None)
    BY <1>6 DEF Tick
  <2>2. counter'[a] = counter[a]
    BY <2>1 DEF None
  <2>3. PICK s \in Requests : At(s, "expire") /\ AssetOf(s) = a
    BY <1>1, <2>1, <2>2 DEF Due
  <2> QED
    BY <2>1, <2>3, DueLasts DEF Due
<1>7. CASE CreateAsset \/ UNCHANGED vars
  BY <1>2, <1>7 DEF CreateAsset, vars
<1> QED
  BY <1>4, <1>5, <1>6, <1>7 DEF Next

-----------------------------------------------------------------------------
(* Enrolments and key requests.                                             *)

\* The part of AdminInv about d.
AdminOk(d) ==
    /\ admin[d].pc \in {"source", "deploy"} =>
          \A t \in admin[d].types \ admin[d].todo : <<admin[d].asset, t, admin[d].agent>> \in granted
    /\ Doing(d, "deploy") => admin[d].todo = {}
    /\ admin[d].pc \in {"audit", "revoke"} => admin[d].key \in DOMAIN keys

LEMMA AdminKeeps ==
    ASSUME Lasting, NEW d \in Admins, AdminOk(d), admin'[d] = admin[d]
    PROVE  AdminOk(d)'
BY DEF Lasting, AdminOk, Doing

LEMMA AdminMoves ==
    ASSUME TypeOK, KeyInv, AdminInv, NEW d \in Admins, Administer(d), Lasting
    PROVE  AdminOk(d)'
<1>0. AdminOk(d) /\ admin[d] \in Admin
  BY DEF AdminInv, AdminOk, TypeOK
<1>1. CASE Enrol(d)
  <2>1. PICK e \in Normalized :
           admin' = [admin EXCEPT ![d] = [pc |-> "source", asset |-> e.asset, agent |-> e.agent,
                                          types |-> e.types, todo |-> e.types, key |-> 0]]
    BY <1>1 DEF Enrol
  <2>2. admin'[d].pc = "source" /\ admin'[d].types = admin'[d].todo
    BY <2>1 DEF TypeOK
  <2> QED
    BY <2>2 DEF AdminOk, Doing
<1>2. CASE RegisterSource(d)
  <2>1. PICK t \in admin[d].todo :
           /\ granted' = granted \cup {<<admin[d].asset, t, admin[d].agent>>}
           /\ admin' = [admin EXCEPT ![d].todo = @ \ {t},
                                     ![d].pc = IF admin[d].todo = {t} THEN "deploy" ELSE @]
    BY <1>2 DEF RegisterSource
  <2>2. /\ admin'[d].todo = admin[d].todo \ {t}
        /\ admin'[d].pc = IF admin[d].todo = {t} THEN "deploy" ELSE admin[d].pc
        /\ admin'[d].types = admin[d].types /\ admin'[d].asset = admin[d].asset
        /\ admin'[d].agent = admin[d].agent /\ admin[d].pc = "source"
    BY <1>0, <1>2, <2>1 DEF TypeOK, Admin, RegisterSource, Doing
  <2> QED
    <3>1. ASSUME NEW u \in admin'[d].types \ admin'[d].todo
          PROVE  <<admin'[d].asset, u, admin'[d].agent>> \in granted'
      <4>1. u = t \/ u \in admin[d].types \ admin[d].todo
        BY <2>2, <3>1
      <4>2. u \in admin[d].types \ admin[d].todo => <<admin[d].asset, u, admin[d].agent>> \in granted
        BY <1>0, <2>2 DEF AdminOk
      <4> QED
        BY <2>1, <2>2, <4>1, <4>2
    <3>2. Doing(d, "deploy")' => admin'[d].todo = {}
      BY <2>2 DEF Doing
    <3>3. admin'[d].pc \in {"source", "deploy"}
      BY <2>2
    <3> QED
      BY <3>1, <3>2, <3>3 DEF AdminOk
<1>3. CASE GenerateKey(d)
  <2>1. Len(keys') \in DOMAIN keys'
    BY <1>3, AppendedKey
  <2>2. PICK n : n = Len(keys')
    OBVIOUS
  <2>3. admin' = [admin EXCEPT ![d].pc = "audit", ![d].key = n]
    BY <1>3, <2>2 DEF GenerateKey
  <2>4. admin'[d].pc = "audit" /\ admin'[d].key = n
    BY <1>0, <2>3 DEF TypeOK, Admin
  <2> QED
    BY <2>1, <2>2, <2>4 DEF AdminOk, Doing
<1>4. CASE Audit(d) /\ Proceed(d, "revoke")
  <2>1. admin'[d].pc = "revoke" /\ admin'[d].key = admin[d].key /\ admin[d].pc = "audit"
    BY <1>0, <1>4 DEF Proceed, Audit, Doing, TypeOK, Admin
  <2> QED
    BY <1>0, <2>1 DEF AdminOk, Doing, Lasting
<1>5. CASE Finish(d)
  <2>1. admin'[d].pc = "idle"
    BY <1>5, ReadyType DEF Finish, TypeOK
  <2> QED
    BY <2>1 DEF AdminOk, Doing
<1> QED
  BY <1>1, <1>2, <1>3, <1>4, <1>5 DEF Administer, Deploy, Audit, RevokeKey, AdminFails

LEMMA AdminStep == TypeOK /\ KeyInv /\ AdminInv /\ [Next]_vars => AdminInv'
<1> SUFFICES ASSUME TypeOK, KeyInv, AdminInv, [Next]_vars, NEW d \in Admins PROVE AdminOk(d)'
  BY DEF AdminInv, AdminOk
<1>1. Lasting
  BY LastingStep
<1>2. AdminOk(d)
  BY DEF AdminInv, AdminOk
<1>3. ASSUME NEW c \in Admins, Administer(c), c # d PROVE admin'[d] = admin[d]
  <2>1. PICK q : admin' = [admin EXCEPT ![c] = q]
    <3>1. CASE Enrol(c)
      BY <3>1 DEF Enrol
    <3>2. CASE RegisterSource(c)
      BY <3>2 DEF RegisterSource
    <3>3. CASE GenerateKey(c)
      <4>1. PICK n : n = Len(keys')
        OBVIOUS
      <4>2. admin' = [admin EXCEPT ![c].pc = "audit", ![c].key = n]
        BY <3>3, <4>1 DEF GenerateKey
      <4> QED
        BY <4>2
    <3>4. CASE Deploy(c) \/ Audit(c) \/ RevokeKey(c) \/ AdminFails(c)
      BY <3>4 DEF Deploy, Audit, RevokeKey, AdminFails, Finish, Proceed
    <3> QED
      BY <1>3, <3>1, <3>2, <3>3, <3>4 DEF Administer
  <2> QED
    BY <1>3, <2>1 DEF TypeOK
<1>4. ASSUME NEW r \in Requests, Serve(r) PROVE UNCHANGED admin
  BY <1>4 DEF Serve, Authenticate, Incr, Expire, CheckSource, UpdateSource, InsertSource, Publish,
              RequestFails
<1>5. CASE CreateAsset \/ Tick \/ UNCHANGED vars
  BY <1>1, <1>2, <1>5, AdminKeeps DEF CreateAsset, Tick, vars
<1> QED
  BY <1>1, <1>2, <1>3, <1>4, <1>5, AdminKeeps, AdminMoves DEF Next

LEMMA DeployedStep == TypeOK /\ KeyInv /\ AdminInv /\ DeployedInFull /\ [Next]_vars => DeployedInFull'
<1> SUFFICES ASSUME TypeOK, KeyInv, AdminInv, DeployedInFull, [Next]_vars PROVE DeployedInFull'
  OBVIOUS
<1>1. Lasting
  BY LastingStep
<1>2. CASE UNCHANGED deployed
  BY <1>1, <1>2 DEF DeployedInFull, Lasting
<1>3. ASSUME NEW d \in Admins, Deploy(d) PROVE DeployedInFull'
  <2>1. \A t \in admin[d].types : <<admin[d].asset, t, admin[d].agent>> \in granted
    BY <1>3 DEF Deploy, AdminInv, Doing
  <2> QED
    <3>1. PICK y : /\ y = [asset |-> admin[d].asset, agent |-> admin[d].agent, types |-> admin[d].types]
                   /\ deployed' = deployed \cup {y}
      BY <1>3 DEF Deploy
    <3>2. ASSUME NEW x \in deployed', NEW t \in x.types PROVE <<x.asset, t, x.agent>> \in granted'
      <4>1. CASE x \in deployed
        BY <1>1, <3>2, <4>1 DEF DeployedInFull, Lasting
      <4>2. CASE x = y
        BY <1>1, <2>1, <3>1, <3>2, <4>2 DEF Lasting
      <4> QED
        BY <3>1, <4>1, <4>2
    <3> QED
      BY <3>2 DEF DeployedInFull
<1>4. ASSUME NEW d \in Admins, Administer(d), ~Deploy(d) PROVE UNCHANGED deployed
  BY <1>4 DEF Administer, Enrol, RegisterSource, GenerateKey, Audit, RevokeKey, AdminFails, fleet
<1>5. ASSUME NEW r \in Requests, Serve(r) PROVE UNCHANGED deployed
  BY <1>5 DEF Serve, Authenticate, Incr, Expire, CheckSource, UpdateSource, InsertSource, Publish,
              RequestFails, fleet
<1> QED
  BY <1>2, <1>3, <1>4, <1>5 DEF Next, CreateAsset, Tick, vars, fleet

-----------------------------------------------------------------------------
(* The rate limit.                                                          *)

\* Requests of a that the limiter let pass in the Window ticks from t on.
Passed(a, t) == {i \in DOMAIN admitted : admitted[i].asset = a /\ admitted[i].at \in t .. t + Window - 1}

\* What the counter of a has let pass.
Counted(a) == IF counter[a].n > Limit THEN Limit ELSE counter[a].n

\* The counter of a began at s, and will not end before s + Window: all it let pass is at s or
\* later, the first of it at s, and no more than the limit less one is of the Window before.
Since(a, s) ==
    /\ s <= clock
    /\ counter[a].until = Never \/ counter[a].until >= s + Window
    /\ \A t \in Times :
          /\ t > s => Cardinality(Passed(a, t)) <= Counted(a) - 1
          /\ s - Window < t /\ t <= s => Cardinality(Passed(a, t)) <= Counted(a) - 1 + Limit

\* Without a counter, the one before has let its first request pass a Window ago or more.
Over(a) == \A t \in Times : t > clock - Window => Cardinality(Passed(a, t)) <= Limit - 1

Rate(a) == IF counter[a].n = 0 THEN Over(a) ELSE \E s \in Times : Since(a, s)

\* Only one request sets the end of a counter, and the counter is there until it does.
Begun(q) ==
    /\ counter[AssetOf(q)].n > 0 /\ counter[AssetOf(q)].until = Never
    /\ \A s \in Requests : At(s, "expire") /\ AssetOf(s) = AssetOf(q) => s = q

RateInv ==
    /\ \A i \in DOMAIN admitted : admitted[i].at <= clock
    /\ \A q \in Requests : At(q, "expire") => Begun(q)
    /\ \A a \in Assets : counter[a].n = 0 => counter[a].until = Never
    /\ \A a \in Assets : Rate(a)
    /\ SlidingBound

LEMMA PassedType ==
    ASSUME TypeOK, NEW a \in Assets, NEW t \in Times
    PROVE  IsFiniteSet(Passed(a, t)) /\ Cardinality(Passed(a, t)) \in Nat
<1>1. DOMAIN admitted = 1 .. Len(admitted) /\ Len(admitted) \in Nat
  BY DEF TypeOK
<1>2. IsFiniteSet(DOMAIN admitted)
  BY <1>1, FS_Interval
<1> QED
  BY <1>2, FS_Subset, FS_CardinalityType DEF Passed

LEMMA AdmittedTimes == TypeOK => \A i \in DOMAIN admitted : admitted[i].at \in Nat
<1> SUFFICES ASSUME TypeOK, NEW i \in DOMAIN admitted PROVE admitted[i].at \in Nat
  OBVIOUS
<1>1. PICK S : S = [asset : Assets, at : Times]
  OBVIOUS
<1>2. admitted \in Seq(S)
  BY <1>1 DEF TypeOK
<1>3. admitted[i] \in S
  BY <1>2, ElementOfSeq
<1> QED
  BY <1>1, <1>3 DEF Times

LEMMA CountedType ==
    ASSUME TypeOK, NEW a \in Assets
    PROVE  /\ Counted(a) \in 0 .. Limit /\ counter[a].n \in Nat
           /\ counter[a].n > 0 => Counted(a) >= 1
BY Consts DEF TypeOK, Counted

LEMMA InitRateInv == Init => RateInv
<1> SUFFICES ASSUME Init PROVE RateInv
  OBVIOUS
<1>1. \A a \in Assets, t \in Times : Passed(a, t) = {} /\ Cardinality(Passed(a, t)) = 0
  BY FS_EmptySet DEF Init, Passed
<1>2. SlidingBound
  BY <1>1, Consts DEF SlidingBound, Passed
<1>3. \A a \in Assets : counter[a].n = 0 /\ Over(a)
  BY <1>1, Consts DEF Init, None, Over
<1>4. \A q \in Requests : ~At(q, "expire")
  BY FreeType DEF Init, At
<1> QED
  <2>1. \A i \in DOMAIN admitted : admitted[i].at <= clock
    BY DEF Init
  <2>2. \A a \in Assets : counter[a].until = Never
    BY DEF Init, None
  <2> QED
    BY <1>2, <1>3, <1>4, <2>1, <2>2 DEF RateInv, Rate

\* What a step of r does to the counters: INCR and EXPIRE, and nothing else.
LEMMA CounterMoves ==
    ASSUME TypeOK, ServedInv, NEW r \in Requests, Serve(r), NEW a \in Assets
    PROVE  \/ counter'[a] = counter[a]
           \/ /\ Incr(r) /\ AssetOf(r) = a
              /\ counter'[a].n = Upto(counter[a].n + 1) /\ counter'[a].until = counter[a].until
           \/ /\ Expire(r) /\ AssetOf(r) = a
              /\ counter'[a].n = counter[a].n /\ counter'[a].until = clock + Window
<1>0. counter \in [Assets -> [n : 0 .. Limit + 1, until : {Never} \cup Nat]]
  BY DEF TypeOK
<1>1. CASE Incr(r)
  <2>1. counter' = [counter EXCEPT ![AssetOf(r)].n = Upto(counter[AssetOf(r)].n + 1)]
    BY <1>1 DEF Incr
  <2> QED
    BY <1>0, <1>1, <2>1
<1>2. CASE Expire(r)
  <2>1. counter' = [counter EXCEPT ![AssetOf(r)].until = clock + Window] \/ counter' = counter
    BY <1>2 DEF Expire
  <2> QED
    BY <1>0, <1>2, <2>1
<1>3. CASE ~Incr(r) /\ ~Expire(r)
  <2>1. UNCHANGED counter
    BY <1>3 DEF Serve, Authenticate, CheckSource, UpdateSource, InsertSource, Publish, RequestFails
  <2> QED
    BY <2>1
<1> QED
  BY <1>1, <1>2, <1>3

\* Who is about to set an end was so before, or has just created the counter.
LEMMA ExpireMoves ==
    ASSUME TypeOK, NEW r \in Requests, Serve(r), NEW q \in Requests, At(q, "expire")'
    PROVE  \/ q # r /\ At(q, "expire") /\ req'[q] = req[q]
           \/ /\ q = r /\ Incr(r) /\ Upto(counter[AssetOf(r)].n + 1) = 1
              /\ AssetOf(r)' = AssetOf(r)
<1>0. Others(r)
  BY ServeOthers
<1>1. CASE q # r
  BY <1>0, <1>1 DEF Others, At
<1>2. CASE q = r
  <2>1. ASSUME NEW pc, Goto(r, pc) PROVE req'[r].pc = pc /\ req'[r].key = req[r].key
    BY <2>1 DEF Goto, TypeOK, Request
  <2>2. ~Refuse(r)
    BY <1>2, FreeType DEF Refuse, TypeOK, At
  <2>3. Incr(r)
    <3>1. ~Authenticate(r)
      BY <1>2 DEF Authenticate, TypeOK, At
    <3>2. ~UpdateSource(r)
      <4> SUFFICES ASSUME UpdateSource(r) PROVE FALSE
        OBVIOUS
      <4>1. req'[r].pc \in {"publish", "insert"}
        BY <2>1 DEF UpdateSource, TypeOK, Request
      <4> QED
        BY <1>2, <4>1 DEF At
    <3>3. ~Expire(r) /\ ~CheckSource(r)
      BY <1>2, <2>1, <2>2 DEF Expire, CheckSource, At
    <3>4. ~InsertSource(r) /\ ~Publish(r) /\ ~RequestFails(r)
      BY <1>2, <2>1, <2>2 DEF InsertSource, Publish, RequestFails, At
    <3> QED
      BY <3>1, <3>2, <3>3, <3>4 DEF Serve
  <2>4. PICK v : v = Upto(counter[AssetOf(r)].n + 1)
    OBVIOUS
  <2>5. v = 1
    <3>1. v = 1 \/ Goto(r, "source") \/ Refuse(r)
      BY <2>3, <2>4 DEF Incr
    <3>2. ~Goto(r, "source")
      BY <1>2, <2>1 DEF At
    <3> QED
      BY <2>2, <3>1, <3>2
  <2>6. Goto(r, "expire") /\ UNCHANGED keys
    BY <2>3, <2>4, <2>5 DEF Incr
  <2>7. AssetOf(r)' = AssetOf(r)
    BY <2>1, <2>6 DEF AssetOf
  <2> QED
    BY <1>2, <2>3, <2>4, <2>5, <2>7
<1> QED
  BY <1>1, <1>2

LEMMA BegunStep ==
    ASSUME TypeOK, KeyInv, ServedInv, RateInv, [Next]_vars, NEW q \in Requests, At(q, "expire")'
    PROVE  Begun(q)'
<1>0. counter \in [Assets -> [n : 0 .. Limit + 1, until : {Never} \cup Nat]]
  BY DEF TypeOK
<1>1. ASSUME UNCHANGED req,
             \A a \in Assets : counter[a].until = Never => counter'[a] = counter[a]
      PROVE  Begun(q)'
  <2>1. \A s \in Requests : At(s, "expire")' =>
           At(s, "expire") /\ AssetOf(s)' = AssetOf(s) /\ AssetOf(s) \in Assets
    BY <1>1, DueLasts, ServedKey DEF At
  <2>2. Begun(q)
    BY <2>1 DEF RateInv
  <2> QED
    BY <1>1, <2>1, <2>2 DEF Begun
<1>2. ASSUME NEW r \in Requests, Serve(r) PROVE Begun(q)'
  <2>1. \A s \in Requests : At(s, "expire")' =>
           \/ /\ s # r /\ At(s, "expire") /\ AssetOf(s)' = AssetOf(s) /\ AssetOf(s) \in Assets
           \/ /\ s = r /\ Incr(r) /\ Upto(counter[AssetOf(r)].n + 1) = 1
              /\ AssetOf(r)' = AssetOf(r) /\ AssetOf(r) \in Assets
    <3> SUFFICES ASSUME NEW s \in Requests, At(s, "expire")'
                 PROVE  \/ /\ s # r /\ At(s, "expire") /\ AssetOf(s)' = AssetOf(s)
                           /\ AssetOf(s) \in Assets
                        \/ /\ s = r /\ Incr(r) /\ Upto(counter[AssetOf(r)].n + 1) = 1
                           /\ AssetOf(r)' = AssetOf(r) /\ AssetOf(r) \in Assets
      OBVIOUS
    <3>1. CASE s # r /\ At(s, "expire") /\ req'[s] = req[s]
      BY <3>1, DueLasts, ServedKey DEF At
    <3>2. CASE s = r /\ Incr(r) /\ Upto(counter[AssetOf(r)].n + 1) = 1 /\ AssetOf(r)' = AssetOf(r)
      BY <3>2, ServedKey DEF Incr, At
    <3> QED
      BY <1>2, <3>1, <3>2, ExpireMoves
  <2>2. CASE q # r
    <3>1. At(q, "expire") /\ AssetOf(q)' = AssetOf(q) /\ AssetOf(q) \in Assets
      BY <2>1, <2>2
    <3>2. Begun(q)
      BY <3>1 DEF RateInv
    <3>3. \A s \in Requests : At(s, "expire")' /\ AssetOf(s)' = AssetOf(q)' => s = q
      <4> SUFFICES ASSUME NEW s \in Requests, At(s, "expire")', AssetOf(s)' = AssetOf(q)' PROVE s = q
        OBVIOUS
      <4>1. CASE s # r
        BY <2>1, <3>1, <3>2, <4>1 DEF Begun
      <4>2. CASE s = r
        <5>1. Upto(counter[AssetOf(q)].n + 1) = 1
          BY <2>1, <3>1, <4>2
        <5>2. counter[AssetOf(q)].n \in Nat /\ counter[AssetOf(q)].n > 0
          BY <1>0, <3>1, <3>2, Consts DEF Begun
        <5> QED
          BY <5>1, <5>2, Consts DEF Upto
      <4> QED
        BY <4>1, <4>2
    <3>4. counter'[AssetOf(q)].n > 0 /\ counter'[AssetOf(q)].until = Never
      <4>1. ~(Expire(r) /\ AssetOf(r) = AssetOf(q))
        BY <2>2, <3>1, <3>2 DEF Begun, Expire
      <4>2. counter[AssetOf(q)].n \in Nat /\ Upto(counter[AssetOf(q)].n + 1) > 0
        BY <1>0, <3>1, Consts DEF Upto
      <4> QED
        BY <1>2, <3>1, <3>2, <4>1, <4>2, CounterMoves DEF Begun
    <3> QED
      BY <3>1, <3>3, <3>4 DEF Begun
  <2>3. CASE q = r
    <3>1. PICK a \in Assets : a = AssetOf(r)
      BY <2>1, <2>3
    <3>2. Incr(r) /\ Upto(counter[a].n + 1) = 1 /\ AssetOf(r)' = a
      BY <2>1, <2>3, <3>1
    <3>3. counter[a].n = 0
      BY <1>0, <3>1, <3>2, Consts DEF Upto
    <3>4. \A s \in Requests : At(s, "expire")' /\ AssetOf(s)' = a => s = r
      BY <2>1, <3>3 DEF RateInv, Begun
    <3>5. counter'[a].n = 1 /\ counter'[a].until = counter[a].until
      BY <1>0, <3>1, <3>2 DEF Incr
    <3>6. counter[a].until = Never
      BY <3>3 DEF RateInv
    <3> QED
      BY <2>3, <3>2, <3>4, <3>5, <3>6 DEF Begun
  <2> QED
    BY <2>2, <2>3
<1>3. CASE Tick
  <2>1. UNCHANGED req /\ \A a \in Assets : counter[a].until = Never => counter'[a] = counter[a]
    BY <1>3 DEF Tick, Never
  <2> QED
    BY <1>1, <2>1
<1>4. ASSUME NEW d \in Admins, Administer(d) PROVE UNCHANGED <<req, counter>>
  BY <1>4 DEF Administer, Enrol, RegisterSource, Deploy, GenerateKey, Audit, RevokeKey, AdminFails
<1>5. CASE CreateAsset \/ UNCHANGED vars
  BY <1>1, <1>5 DEF CreateAsset, vars
<1> QED
  BY <1>1, <1>2, <1>3, <1>4, <1>5 DEF Next

\* A counter that did not change, and requests that had passed.
LEMMA SameRate ==
    ASSUME TypeOK, NEW a \in Assets, Rate(a), counter'[a] = counter[a], clock' = clock,
           \A t \in Times : Passed(a, t)' = Passed(a, t)
    PROVE  Rate(a)'
<1>1. Counted(a)' = Counted(a)
  BY DEF Counted
<1>2. CASE counter[a].n = 0
  <2>1. Over(a)'
    BY <1>2 DEF Rate, Over
  <2> QED
    BY <1>2, <2>1 DEF Rate
<1>3. CASE counter[a].n # 0
  <2>1. PICK s \in Times : Since(a, s)
    BY <1>3 DEF Rate
  <2>2. Since(a, s)'
    BY <1>1, <2>1 DEF Since
  <2> QED
    BY <1>3, <2>2 DEF Rate
<1> QED
  BY <1>2, <1>3

\* A request that is let pass: it counts for the minutes it is in, and for no other asset.
LEMMA PassedAppend ==
    ASSUME TypeOK, NEW a \in Assets, admitted' = Append(admitted, [asset |-> a, at |-> clock]),
           NEW b \in Assets, NEW t \in Times
    PROVE  IF b = a /\ clock \in t .. t + Window - 1
           THEN Cardinality(Passed(b, t)') = Cardinality(Passed(b, t)) + 1
           ELSE Passed(b, t)' = Passed(b, t)
<1>1. PICK e : e = [asset |-> a, at |-> clock]
  OBVIOUS
<1>2. e \in [asset : Assets, at : Times] /\ e.asset = a /\ e.at = clock
  BY <1>1 DEF TypeOK
<1>3. admitted \in Seq([asset : Assets, at : Times]) /\ admitted' = Append(admitted, e)
  BY <1>1 DEF TypeOK
<1>4. PICK k : k = Len(admitted) + 1
  OBVIOUS
<1>5. /\ DOMAIN admitted' = DOMAIN admitted \cup {k} /\ k \notin DOMAIN admitted /\ admitted'[k] = e
      /\ \A i \in DOMAIN admitted : admitted'[i] = admitted[i]
  BY <1>2, <1>3, <1>4
<1>6. CASE b = a /\ clock \in t .. t + Window - 1
  <2>1. Passed(b, t)' = Passed(b, t) \cup {k} /\ k \notin Passed(b, t)
    BY <1>2, <1>5, <1>6 DEF Passed
  <2> QED
    BY <1>6, <2>1, PassedType, FS_AddElement
<1>7. CASE ~(b = a /\ clock \in t .. t + Window - 1)
  BY <1>2, <1>5, <1>7 DEF Passed
<1> QED
  BY <1>6, <1>7

LEMMA IncrRate ==
    ASSUME TypeOK, ServedInv, RateInv, NEW r \in Requests, Incr(r)
    PROVE  (\A a \in Assets : Rate(a)') /\ SlidingBound'
<1>1. PICK a \in Assets : a = AssetOf(r)
  BY ServedKey DEF Incr, At
<1>2. PICK val : val = Upto(counter[a].n + 1)
  OBVIOUS
<1>3. /\ counter \in [Assets -> [n : 0 .. Limit + 1, until : {Never} \cup Nat]]
      /\ counter[a].n \in 0 .. Limit + 1 /\ clock \in Nat /\ clock \in Times
  BY DEF TypeOK, Times
<1>4. /\ counter' = [counter EXCEPT ![a].n = val] /\ clock' = clock
      /\ admitted' = IF val <= Limit THEN Append(admitted, [asset |-> a, at |-> clock]) ELSE admitted
  BY <1>1, <1>2 DEF Incr
<1>5. /\ counter'[a].n = val /\ counter'[a].until = counter[a].until
      /\ \A b \in Assets \ {a} : counter'[b] = counter[b]
  BY <1>3, <1>4
<1>6. val \in Nat /\ val >= 1
  BY <1>2, <1>3, Consts DEF Upto
<1>7. Rate(a)
  BY DEF RateInv
<1>8. CASE val > Limit
  <2>1. admitted' = admitted /\ counter[a].n >= Limit
    BY <1>2, <1>3, <1>4, <1>8, Consts DEF Upto
  <2>2. \A b \in Assets, t \in Times : Passed(b, t)' = Passed(b, t)
    BY <2>1 DEF Passed
  <2>3. Counted(a)' = Limit /\ Counted(a) = Limit
    BY <1>3, <1>5, <1>8, <2>1, Consts DEF Counted
  <2>4. PICK s \in Times : Since(a, s)
    BY <1>3, <1>7, <2>1, Consts DEF Rate
  <2>5. Since(a, s)'
    BY <1>4, <1>5, <2>2, <2>3, <2>4 DEF Since
  <2>6. Rate(a)'
    BY <1>5, <1>6, <2>5 DEF Rate
  <2>7. ASSUME NEW b \in Assets PROVE Rate(b)'
    <3>1. CASE b # a
      BY <1>4, <1>5, <2>2, <3>1, SameRate DEF RateInv
    <3> QED
      BY <2>6, <3>1
  <2>8. SlidingBound'
    BY <2>1 DEF RateInv, SlidingBound
  <2> QED
    BY <2>7, <2>8
<1>9. CASE val <= Limit
  <2>1. /\ admitted' = Append(admitted, [asset |-> a, at |-> clock])
        /\ val = counter[a].n + 1 /\ Counted(a) = val - 1 /\ Counted(a)' = val
    <3>1. val = counter[a].n + 1
      BY <1>2, <1>3, <1>9, Consts DEF Upto
    <3>2. Counted(a) = val - 1
      BY <1>3, <1>9, <3>1, Consts DEF Counted
    <3>3. Counted(a)' = val
      BY <1>5, <1>6, <1>9, Consts DEF Counted
    <3> QED
      BY <1>4, <1>9, <3>1, <3>2, <3>3
  <2>2. \A b \in Assets, t \in Times :
           IF b = a /\ clock \in t .. t + Window - 1
           THEN Cardinality(Passed(b, t)') = Cardinality(Passed(b, t)) + 1
           ELSE Passed(b, t)' = Passed(b, t)
    BY <2>1, PassedAppend
  <2>3. \E s \in Times :
           /\ s <= clock /\ (counter[a].until = Never \/ counter[a].until >= s + Window)
           /\ \A t \in Times : clock \in t .. t + Window - 1 =>
                 /\ t > s => Cardinality(Passed(a, t)) <= val - 2
                 /\ t <= s => Cardinality(Passed(a, t)) <= val - 2 + Limit
           /\ \A t \in Times : clock \notin t .. t + Window - 1 =>
                 /\ t > s => Cardinality(Passed(a, t)) <= val - 1
                 /\ s - Window < t /\ t <= s => Cardinality(Passed(a, t)) <= val - 1 + Limit
    <3>1. CASE counter[a].n = 0
      <4>1. counter[a].until = Never /\ Over(a) /\ val = 1
        BY <1>7, <2>1, <3>1 DEF Rate, RateInv
      <4>2. ASSUME NEW t \in Times
            PROVE  /\ clock \in t .. t + Window - 1 =>
                        t <= clock /\ Cardinality(Passed(a, t)) <= val - 2 + Limit
                   /\ clock \notin t .. t + Window - 1 =>
                        /\ t > clock => Cardinality(Passed(a, t)) <= val - 1
                        /\ ~(clock - Window < t /\ t <= clock)
        <5>1. t \in Nat /\ Cardinality(Passed(a, t)) \in Nat
          BY PassedType DEF Times
        <5>2. clock \in t .. t + Window - 1 => clock - Window < t /\ t <= clock
          BY <1>3, <5>1, Consts
        <5>3. clock \notin t .. t + Window - 1 => ~(clock - Window < t /\ t <= clock)
          BY <1>3, <5>1, Consts
        <5>4. ASSUME t > clock PROVE Cardinality(Passed(a, t)) = 0
          <6>1. Passed(a, t) = {}
            <7>1. \A i \in DOMAIN admitted : admitted[i].at \in Nat /\ admitted[i].at <= clock
              BY AdmittedTimes DEF RateInv
            <7> QED
              BY <1>3, <5>1, <5>4, <7>1, Consts DEF Passed
          <6> QED
            BY <6>1, FS_EmptySet
        <5>5. clock - Window < t => Cardinality(Passed(a, t)) <= Limit - 1
          BY <4>1 DEF Over
        <5> QED
          BY <1>3, <4>1, <5>1, <5>2, <5>3, <5>4, <5>5, Consts
      <4>3. /\ \A t \in Times : clock \in t .. t + Window - 1 =>
                  /\ t > clock => Cardinality(Passed(a, t)) <= val - 2
                  /\ t <= clock => Cardinality(Passed(a, t)) <= val - 2 + Limit
            /\ \A t \in Times : clock \notin t .. t + Window - 1 =>
                  /\ t > clock => Cardinality(Passed(a, t)) <= val - 1
                  /\ clock - Window < t /\ t <= clock => Cardinality(Passed(a, t)) <= val - 1 + Limit
        BY <1>3, <4>2 DEF Times
      <4> QED
        BY <1>3, <4>1, <4>3
    <3>2. CASE counter[a].n # 0
      <4>1. PICK s \in Times : Since(a, s)
        BY <1>7, <3>2 DEF Rate
      <4>2. ASSUME NEW t \in Times
            PROVE  /\ clock \in t .. t + Window - 1 =>
                        /\ t > s => Cardinality(Passed(a, t)) <= val - 2
                        /\ t <= s => Cardinality(Passed(a, t)) <= val - 2 + Limit
                   /\ clock \notin t .. t + Window - 1 =>
                        /\ t > s => Cardinality(Passed(a, t)) <= val - 1
                        /\ s - Window < t /\ t <= s => Cardinality(Passed(a, t)) <= val - 1 + Limit
        <5>1. t \in Nat /\ Cardinality(Passed(a, t)) \in Nat /\ s \in Nat
          BY PassedType DEF Times
        <5>2. clock \in t .. t + Window - 1 => s - Window < t
          BY <1>3, <4>1, <5>1, Consts DEF Since
        <5>3. /\ t > s => Cardinality(Passed(a, t)) <= val - 2
              /\ s - Window < t /\ t <= s => Cardinality(Passed(a, t)) <= val - 2 + Limit
          BY <2>1, <1>6, <4>1, <5>1, Consts DEF Since
        <5> QED
          BY <1>6, <5>1, <5>2, <5>3, Consts
      <4> QED
        BY <4>1, <4>2 DEF Since
    <3> QED
      BY <3>1, <3>2
  <2>4. PICK s \in Times :
           /\ s <= clock /\ (counter[a].until = Never \/ counter[a].until >= s + Window)
           /\ \A t \in Times : clock \in t .. t + Window - 1 =>
                 /\ t > s => Cardinality(Passed(a, t)) <= val - 2
                 /\ t <= s => Cardinality(Passed(a, t)) <= val - 2 + Limit
           /\ \A t \in Times : clock \notin t .. t + Window - 1 =>
                 /\ t > s => Cardinality(Passed(a, t)) <= val - 1
                 /\ s - Window < t /\ t <= s => Cardinality(Passed(a, t)) <= val - 1 + Limit
    BY <2>3
  <2>5. ASSUME NEW t \in Times
        PROVE  /\ t > s => Cardinality(Passed(a, t)') <= val - 1
               /\ s - Window < t /\ t <= s => Cardinality(Passed(a, t)') <= val - 1 + Limit
               /\ clock \in t .. t + Window - 1 => Cardinality(Passed(a, t)') < 2 * Limit
    <3>1. t \in Nat /\ s \in Nat /\ Cardinality(Passed(a, t)) \in Nat
      BY PassedType DEF Times
    <3>2. CASE clock \in t .. t + Window - 1
      <4>1. Cardinality(Passed(a, t)') = Cardinality(Passed(a, t)) + 1
        BY <2>2, <3>2
      <4>2. /\ t > s => Cardinality(Passed(a, t)) <= val - 2
            /\ t <= s => Cardinality(Passed(a, t)) <= val - 2 + Limit
        BY <2>4, <3>2
      <4> QED
        BY <1>6, <1>9, <3>1, <3>2, <4>1, <4>2, Consts
    <3>3. CASE clock \notin t .. t + Window - 1
      <4>1. Passed(a, t)' = Passed(a, t)
        BY <2>2, <3>3
      <4> QED
        BY <2>4, <3>3, <4>1
    <3> QED
      BY <3>2, <3>3
  <2>6. Since(a, s)'
    <3>1. /\ s <= clock' /\ (counter'[a].until = Never \/ counter'[a].until >= s + Window)
      BY <1>4, <1>5, <2>4
    <3>2. \A t \in Times :
             /\ t > s => Cardinality(Passed(a, t)') <= Counted(a)' - 1
             /\ s - Window < t /\ t <= s => Cardinality(Passed(a, t)') <= Counted(a)' - 1 + Limit
      BY <2>1, <2>5
    <3> QED
      BY <3>1, <3>2 DEF Since
  <2>7. Rate(a)'
    BY <1>5, <1>6, <2>6 DEF Rate
  <2>8. ASSUME NEW b \in Assets PROVE Rate(b)'
    <3>1. CASE b # a
      BY <1>4, <1>5, <2>2, <3>1, SameRate DEF RateInv
    <3> QED
      BY <2>7, <3>1
  <2>9. SlidingBound'
    <3> SUFFICES ASSUME NEW b \in Assets, NEW t \in Times PROVE Cardinality(Passed(b, t)') < 2 * Limit
      BY DEF SlidingBound, Passed
    <3>1. CASE b = a /\ clock \in t .. t + Window - 1
      BY <2>5, <3>1
    <3>2. CASE ~(b = a /\ clock \in t .. t + Window - 1)
      <4>1. Passed(b, t)' = Passed(b, t)
        BY <2>2, <3>2
      <4>2. Cardinality(Passed(b, t)) < 2 * Limit
        BY DEF RateInv, SlidingBound, Passed
      <4> QED
        BY <4>1, <4>2
    <3> QED
      BY <3>1, <3>2
  <2> QED
    BY <2>8, <2>9
<1> QED
  BY <1>3, <1>6, <1>8, <1>9, Consts

\* The end that EXPIRE sets is a Window or more after the counter began.
LEMMA ExpireRate ==
    ASSUME TypeOK, ServedInv, RateInv, NEW r \in Requests, Expire(r), NEW a \in Assets
    PROVE  Rate(a)'
<1>1. clock' = clock /\ admitted' = admitted
  BY DEF Expire
<1>2. \A t \in Times : Passed(a, t)' = Passed(a, t)
  BY <1>1 DEF Passed
<1>3. CASE counter'[a] = counter[a]
  BY <1>1, <1>2, <1>3, SameRate DEF RateInv
<1>4. CASE /\ AssetOf(r) = a
           /\ counter'[a].n = counter[a].n /\ counter'[a].until = clock + Window
  <2>1. counter[a].n > 0
    BY <1>4 DEF Expire, RateInv, Begun
  <2>2. PICK s \in Times : Since(a, s)
    BY <2>1 DEF RateInv, Rate
  <2>3. clock + Window >= s + Window
    BY <2>2, Consts DEF Since, TypeOK, Times
  <2>4. Counted(a)' = Counted(a)
    BY <1>4 DEF Counted
  <2>5. Since(a, s)'
    BY <1>1, <1>2, <1>4, <2>2, <2>3, <2>4 DEF Since
  <2> QED
    BY <1>4, <2>1, <2>5 DEF Rate
<1>5. ~Incr(r)
  BY DEF Expire, Incr, At
<1>6. Serve(r)
  BY DEF Serve
<1> QED
  BY <1>3, <1>4, <1>5, <1>6, CounterMoves

\* A counter is dropped when its first request is a Window old.
LEMMA TickRate ==
    ASSUME TypeOK, RateInv, Tick, NEW a \in Assets
    PROVE  Rate(a)'
<1>1. clock' = clock + 1 /\ admitted' = admitted /\ clock \in Nat
  BY DEF Tick, TypeOK, Times
<1>2. \A t \in Times : Passed(a, t)' = Passed(a, t)
  BY <1>1 DEF Passed
<1>3. Counted(a) \in 0 .. Limit /\ Rate(a)
  BY CountedType DEF RateInv
<1>4. CASE counter[a].n = 0
  <2>1. Over(a)
    BY <1>3, <1>4 DEF Rate
  <2>2. counter'[a].n = 0
    BY <1>4 DEF Tick, None
  <2>3. Over(a)'
    <3>1. ASSUME NEW t \in Times, t > clock' - Window
          PROVE  Cardinality(Passed(a, t)') <= Limit - 1
      <4>1. t > clock - Window
        BY <1>1, <3>1, Consts DEF Times
      <4> QED
        BY <1>2, <2>1, <4>1 DEF Over
    <3> QED
      BY <3>1 DEF Over
  <2> QED
    BY <2>2, <2>3 DEF Rate
<1>5. CASE counter[a].n # 0
  <2>1. PICK s \in Times : Since(a, s)
    BY <1>3, <1>5 DEF Rate
  <2>2. CASE counter[a].until \in 0 .. clock'
    <3>1. counter'[a].n = 0
      BY <2>2 DEF Tick, None
    <3>2. clock + 1 >= s + Window
      <4>1. /\ counter[a].until \in 0 .. clock + 1 /\ counter[a].until # Never
            /\ counter[a].until >= s + Window
        BY <1>1, <2>1, <2>2 DEF Since, Never
      <4> QED
        BY <1>1, <4>1, Consts DEF Times
    <3>3. ASSUME NEW t \in Times, t > clock' - Window
          PROVE  Cardinality(Passed(a, t)') <= Limit - 1
      <4>1. t > s /\ Cardinality(Passed(a, t)) \in Nat
        BY <1>1, <3>2, <3>3, PassedType, Consts DEF Times
      <4>2. Cardinality(Passed(a, t)) <= Counted(a) - 1
        BY <2>1, <4>1 DEF Since
      <4>3. Cardinality(Passed(a, t)) <= Limit - 1
        BY <1>3, <4>1, <4>2, Consts
      <4> QED
        BY <1>2, <4>3
    <3>4. Over(a)'
      BY <3>3 DEF Over
    <3> QED
      BY <3>1, <3>4 DEF Rate
  <2>3. CASE counter[a].until \notin 0 .. clock'
    <3>1. counter'[a] = counter[a]
      BY <2>3 DEF Tick
    <3>2. Counted(a)' = Counted(a)
      BY <3>1 DEF Counted
    <3>3. s <= clock'
      BY <1>1, <2>1 DEF Since, Times
    <3>4. Since(a, s)'
      BY <1>2, <2>1, <3>1, <3>2, <3>3 DEF Since
    <3> QED
      BY <1>5, <3>1, <3>4 DEF Rate
  <2> QED
    BY <2>2, <2>3
<1> QED
  BY <1>4, <1>5

LEMMA RateStep == TypeOK /\ KeyInv /\ ServedInv /\ RateInv /\ [Next]_vars => RateInv'
<1> SUFFICES ASSUME TypeOK, KeyInv, ServedInv, RateInv, [Next]_vars PROVE RateInv'
  OBVIOUS
<1>1. \A q \in Requests : At(q, "expire")' => Begun(q)'
  BY BegunStep
<1>2. ASSUME UNCHANGED <<clock, counter, admitted>> PROVE RateInv'
  <2>1. \A a \in Assets, t \in Times : Passed(a, t)' = Passed(a, t)
    BY <1>2 DEF Passed
  <2>2. \A a \in Assets : Rate(a)'
    BY <1>2, <2>1, SameRate DEF RateInv
  <2>3. SlidingBound'
    BY <1>2 DEF RateInv, SlidingBound
  <2> QED
    BY <1>1, <1>2, <2>2, <2>3 DEF RateInv
<1>3. ASSUME NEW r \in Requests, Incr(r) PROVE RateInv'
  <2>1. PICK a \in Assets : a = AssetOf(r)
    BY <1>3, ServedKey DEF Incr, At
  <2>2. /\ clock' = clock
        /\ \/ admitted' = admitted
           \/ admitted' = Append(admitted, [asset |-> a, at |-> clock])
    BY <1>3, <2>1 DEF Incr
  <2>3. \A i \in DOMAIN admitted' : admitted'[i].at <= clock
    <3>1. CASE admitted' = admitted
      BY <3>1 DEF RateInv
    <3>2. CASE admitted' = Append(admitted, [asset |-> a, at |-> clock])
      <4>1. PICK e : e = [asset |-> a, at |-> clock]
        OBVIOUS
      <4>2. e \in [asset : Assets, at : Times] /\ e.at = clock /\ clock \in Nat
        BY <4>1 DEF TypeOK, Times
      <4>3. admitted \in Seq([asset : Assets, at : Times]) /\ admitted' = Append(admitted, e)
        BY <3>2, <4>1 DEF TypeOK
      <4>4. \A i \in DOMAIN admitted' :
               admitted'[i] = e \/ (i \in DOMAIN admitted /\ admitted'[i] = admitted[i])
        BY <4>2, <4>3
      <4> QED
        BY <4>2, <4>4 DEF RateInv
    <3> QED
      BY <2>2, <3>1, <3>2
  <2>4. \A b \in Assets : counter'[b].n = 0 => counter'[b].until = Never
    <3>1. counter' = [counter EXCEPT ![a].n = Upto(counter[a].n + 1)]
      BY <1>3, <2>1 DEF Incr
    <3>2. Upto(counter[a].n + 1) # 0
      BY Consts DEF TypeOK, Upto
    <3> QED
      BY <3>1, <3>2 DEF RateInv, TypeOK
  <2> QED
    BY <1>1, <1>3, <2>2, <2>3, <2>4, IncrRate DEF RateInv
<1>4. ASSUME NEW r \in Requests, Expire(r) PROVE RateInv'
  <2>1. clock' = clock /\ admitted' = admitted /\ Serve(r)
    BY <1>4 DEF Expire, Serve
  <2>2. \A a \in Assets : counter'[a].n = 0 => counter'[a].until = Never
    <3> SUFFICES ASSUME NEW a \in Assets, counter'[a].n = 0 PROVE counter'[a].until = Never
      OBVIOUS
    <3>1. ~(AssetOf(r) = a /\ counter'[a].n = counter[a].n)
      BY <1>4 DEF Expire, RateInv, Begun
    <3>2. ~Incr(r)
      BY <1>4 DEF Expire, Incr, At
    <3> QED
      BY <2>1, <3>1, <3>2, CounterMoves DEF RateInv
  <2>3. SlidingBound'
    BY <2>1 DEF RateInv, SlidingBound
  <2>4. \A i \in DOMAIN admitted' : admitted'[i].at <= clock'
    BY <2>1 DEF RateInv
  <2> QED
    BY <1>1, <1>4, <2>2, <2>3, <2>4, ExpireRate DEF RateInv
<1>5. CASE Tick
  <2>1. clock' = clock + 1 /\ admitted' = admitted /\ clock \in Nat
    BY <1>5 DEF Tick, TypeOK, Times
  <2>2. \A i \in DOMAIN admitted : admitted[i].at \in Nat
    BY AdmittedTimes
  <2>3. \A i \in DOMAIN admitted' : admitted'[i].at <= clock'
    BY <2>1, <2>2 DEF RateInv
  <2>4. \A a \in Assets : counter'[a].n = 0 => counter'[a].until = Never
    BY <1>5 DEF Tick, None, RateInv
  <2>5. SlidingBound'
    BY <2>1 DEF RateInv, SlidingBound
  <2> QED
    BY <1>1, <1>5, <2>3, <2>4, <2>5, TickRate DEF RateInv
<1>6. ASSUME NEW r \in Requests, Serve(r), ~Incr(r), ~Expire(r)
      PROVE  UNCHANGED <<clock, counter, admitted>>
  BY <1>6 DEF Serve, Authenticate, CheckSource, UpdateSource, InsertSource, Publish, RequestFails
<1>7. ASSUME NEW d \in Admins, Administer(d) PROVE UNCHANGED <<clock, counter, admitted>>
  BY <1>7 DEF Administer, Enrol, RegisterSource, Deploy, GenerateKey, Audit, RevokeKey, AdminFails
<1>8. CASE CreateAsset \/ UNCHANGED vars
  BY <1>2, <1>8 DEF CreateAsset, vars
<1> QED
  BY <1>2, <1>3, <1>4, <1>5, <1>6, <1>7, <1>8 DEF Next

-----------------------------------------------------------------------------
(* Theorems.                                                                *)

\* The invariant is inductive: each part of it holds after a step because all of it held before.
THEOREM IntakeInvariant == Spec => []IInv
<1>1. IInv /\ [Next]_vars => IInv'
  BY TypeStep, LastingStep, ServedStep, CheckedStep, SourcesStep, CounterStep, AdminStep,
     DeployedStep DEF IInv
<1> QED
  BY InitIInv, <1>1, PTL DEF Spec

\* Every variable keeps its type, the counters and the rows of the schema among them.
THEOREM IntakeTypeOK == Spec => []TypeOK
BY IntakeInvariant, PTL DEF IInv

\* A counter of the rate limiter that has no end belongs to a request that is about to set it, or
\* to one that failed in between the two calls of Allow.
THEOREM CounterExpiresAlways == Spec => []CounterExpires
BY IntakeInvariant, PTL DEF IInv

\* Whatever reaches the raw stream was sent with an audited key of a host of that name, by an agent
\* enrolled for its source there: for any number of keys, hosts and requests (ingestLog).
THEOREM PublishedIsAuthorisedAlways == Spec => []PublishedIsAuthorised
<1>1. IInv => PublishedIsAuthorised
  BY DEF IInv, PublishedIsAuthorised, KeyInv, ServedInv, CheckedInv, GrantedByName, At, Past
<1> QED
  BY <1>1, IntakeInvariant, PTL

\* No request writes an agent to a row of log_sources that was not enrolled for a host of that
\* name (registerLogSource).
THEOREM SourcesAreGrantedAlways == Spec => []SourcesAreGranted
BY IntakeInvariant, PTL DEF IInv

\* A deployment is recorded only behind the last of its sources (fleetAgentEnroll).
THEOREM DeployedInFullAlways == Spec => []DeployedInFull
BY IntakeInvariant, PTL DEF IInv

\* In any Window ticks fewer than twice the limit of one host pass, wherever in them its counter
\* begins or ends, and whatever becomes of the EXPIRE (Allow): for any limit, window and number of
\* requests.
THEOREM SlidingBoundAlways == Spec => []SlidingBound
<1>1. Init => IInv /\ RateInv
  BY InitIInv, InitRateInv
<1>2. IInv /\ RateInv /\ [Next]_vars => (IInv /\ RateInv)'
  BY TypeStep, LastingStep, ServedStep, CheckedStep, SourcesStep, CounterStep, AdminStep,
     DeployedStep, RateStep DEF IInv
<1>3. RateInv => SlidingBound
  BY DEF RateInv
<1> QED
  BY <1>1, <1>2, <1>3, PTL DEF Spec

=============================================================================
