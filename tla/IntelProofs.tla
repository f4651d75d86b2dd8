---------------------------- MODULE IntelProofs ----------------------------
(***************************************************************************)
(* Proofs about Intel, for any goroutines, indicators and observations.    *)
(* The inductive invariant IInv says what a cache entry vouches for, and   *)
(* what a goroutine still owes the event it enriches between two of its    *)
(* critical sections.                                                      *)
(***************************************************************************)
EXTENDS Intel, TLAPS, FiniteSetTheorems

\* What was found about i at time at is evidence that had not expired then.
Evidence(found, i, at) == \A o \in found : o.attributed /\ i \in o.covers /\ o.expires > at

\* The provider was asked about i less than a TTL before at, and answered.
Recent(i, at) == \E t \in answered[i] : at < t + TTL

\* A positive entry holds evidence that outlives it, and an answer that is no older than its TTL.
EntryInv ==
    \A i \in Indicators : cache[i].status = "ok" =>
        /\ \A o \in cache[i].found : o.attributed /\ i \in o.covers /\ cache[i].until <= o.expires
        /\ \E t \in answered[i] : cache[i].until <= t + TTL

\* What a goroutine is about to store.
StoringInv ==
    \A g \in Callers : caller[g].pc = "storing" /\ caller[g].result = "ok" =>
        /\ Evidence(caller[g].found, caller[g].of, caller[g].at)
        /\ caller[g].at \in answered[caller[g].of]

\* A look-up that was ok saw current evidence, and a recent answer.
LooksInv ==
    \A g \in Callers : \A l \in caller[g].looks : Evidence(l.found, l.of, l.at) /\ Recent(l.of, l.at)

\* An event whose look-ups were all ok has one for each indicator that is not left to do.
Owed(g, i) ==
    \/ i \in caller[g].todo
    \/ caller[g].pc \in {"locked", "calling", "storing"} /\ i = caller[g].of
    \/ \E l \in caller[g].looks : l.of = i
OwedInv ==
    \A g \in Callers :
        /\ caller[g].pc = "done" => caller[g].todo = {}
        /\ caller[g].status = "ok" => \A i \in caller[g].event : Owed(g, i)

IInv == TypeOK /\ EntryInv /\ StoringInv /\ LooksInv /\ OwedInv

-----------------------------------------------------------------------------

\* A set of natural numbers has a least one.
LEMMA MinNat ==
    ASSUME NEW S, S \subseteq Nat, S # {}
    PROVE  Min(S) \in S /\ \A n \in S : Min(S) <= n
<1> DEFINE T == {0 .. n : n \in S}
<1>1. T \subseteq FiniteSubsetsOf(Nat) /\ T # {}
  <2>1. ASSUME NEW n \in S PROVE 0 .. n \in FiniteSubsetsOf(Nat)
    <3>1. 0 .. n \subseteq Nat /\ IsFiniteSet(0 .. n)
      BY FS_Interval
    <3> QED
      BY <3>1 DEF FiniteSubsetsOf
  <2> QED
    BY <2>1
<1>2. PICK x \in T : \A y \in T : <<y, x>> \notin StrictSubsetOrdering(Nat)
  <2> HIDE DEF T
  <2> QED
    BY <1>1, FS_StrictSubsetOrderingWellFounded, WFMin
<1>3. PICK m \in S : x = 0 .. m
  OBVIOUS
<1>4. ASSUME NEW n \in S, n < m PROVE FALSE
  <2>1. 0 .. n \in SUBSET Nat /\ 0 .. m \in SUBSET Nat
    OBVIOUS
  <2>2. 0 .. n \subseteq 0 .. m /\ m \in 0 .. m /\ m \notin 0 .. n
    BY <1>4
  <2>3. <<0 .. n, 0 .. m>> \in StrictSubsetOrdering(Nat)
    BY <2>1, <2>2 DEF StrictSubsetOrdering
  <2> QED
    BY <1>2, <1>3, <2>3
<1>5. \A n \in S : m <= n
  BY <1>4
<1> QED
  BY <1>5 DEF Min


LEMMA Consts ==
    /\ Minute \in Nat /\ Minute >= 1 /\ TTL \in Nat /\ TTL >= 1 /\ NegativeTTL \in Nat
    /\ CacheLimit \in Nat /\ CacheLimit >= 1 /\ MaxPerMinute \in Nat /\ Timeout \in Nat
    /\ MaxClock \in Nat /\ MaxEvents \in Nat
    /\ Feed \subseteq Observation /\ Private \subseteq Indicators
    /\ IsFiniteSet(Indicators) /\ Indicators # {}
    /\ IsFiniteSet(Callers) /\ Callers # {}
BY IntelAssumption DEF IntelAssumption

LEMMA FreshType == Fresh \in Caller
<1>1. (CHOOSE i \in Indicators : TRUE) \in Indicators
  BY Consts
<1> QED
  BY <1>1, Consts DEF Fresh, Caller, Times, Status

LEMMA InitIInv == Init => IInv
<1> SUFFICES ASSUME Init PROVE IInv
  OBVIOUS
<1> USE DEF Init
<1>1. Cached = {}
  BY DEF Cached
<1>2. TypeOK
  <2>1. Cardinality(Cached) <= CacheLimit
    BY <1>1, FS_EmptySet, Consts
  <2>2. caller \in [Callers -> Caller]
    BY FreshType
  <2>3. answered \in [Indicators -> SUBSET Times] /\ calls \in Seq(Times)
    OBVIOUS
  <2> QED
    BY <2>1, <2>2, <2>3, Consts DEF TypeOK, Times
<1>3. EntryInv
  BY DEF EntryInv, NoEntry
<1>4. StoringInv /\ LooksInv /\ OwedInv
  BY DEF StoringInv, LooksInv, OwedInv, Fresh
<1> QED
  BY <1>2, <1>3, <1>4 DEF IInv

-----------------------------------------------------------------------------
(* Look-ups.                                                                *)

LEMMA ReturnedType ==
    ASSUME NEW c \in Caller, NEW found \in SUBSET Feed, NEW status \in Status
    PROVE  Returned(c, found, status) \in Caller
<1> DEFINE looks == IF status = "ok" THEN c.looks \cup {[of |-> c.of, at |-> c.at, found |-> found]}
                    ELSE c.looks
           st == IF status = "ok" THEN c.status ELSE status
<1>1. [of |-> c.of, at |-> c.at, found |-> found] \in Look
  BY DEF Caller, Look
<1>2. looks \in SUBSET Look /\ st \in Status
  BY <1>1 DEF Caller
<1>3. /\ c.event \in SUBSET Indicators /\ c.todo \in SUBSET Indicators /\ c.deadline \in Nat
  BY DEF Caller
<1>4. Returned(c, found, status) =
         [Fresh EXCEPT !.pc = "next", !.event = c.event, !.todo = c.todo, !.deadline = c.deadline,
                       !.status = st, !.looks = looks]
  BY DEF Returned
<1> HIDE DEF looks, st
<1> QED
  BY <1>2, <1>3, <1>4, FreshType DEF Caller

\* A hit is one of an entry.
LEMMA HitEntry == ASSUME TypeOK, NEW g \in Callers, Hit(g) PROVE cache[caller[g].of] \in Entry
<1>1. caller[g].of \in Indicators /\ caller[g].at \in Nat
  BY DEF TypeOK, Caller, Times
<1>2. cache[caller[g].of] # NoEntry
  BY <1>1 DEF Hit, NoEntry
<1> QED
  BY <1>1, <1>2 DEF TypeOK

\* No entry is kept longer than its TTL, or than its observations are valid.
LEMMA UntilBounds ==
    ASSUME NEW c \in Caller
    PROVE  /\ Until(c) \in Nat
           /\ c.result = "ok" => Until(c) <= c.at + TTL /\ \A o \in c.found : Until(c) <= o.expires
<1> DEFINE S == {c.at + TTL} \cup {o.expires : o \in c.found}
<1>1. c.at \in Nat /\ c.found \subseteq Observation
  BY Consts DEF Caller, Times
<1>2. S \subseteq Nat /\ S # {}
  BY <1>1, Consts DEF Observation
<1>3. c.at + TTL \in S /\ \A o \in c.found : o.expires \in S
  OBVIOUS
<1>4. CASE c.result = "ok"
  <2>1. Until(c) = Min(S)
    BY <1>4 DEF Until
  <2> HIDE DEF S
  <2>2. Min(S) \in S /\ \A n \in S : Min(S) <= n
    BY <1>2, MinNat
  <2> QED
    BY <1>2, <1>3, <2>1, <2>2
<1>5. CASE c.result # "ok"
  BY <1>1, <1>5, Consts DEF Until
<1> QED
  BY <1>4, <1>5

\* The cache, with what a goroutine stores in it.
LEMMA StoredType ==
    ASSUME TypeOK, NEW i \in Indicators, NEW e \in Entry, cache' = [Room EXCEPT ![i] = e]
    PROVE  /\ cache' \in [Indicators -> Entry \cup {NoEntry}]
           /\ Cardinality(Cached') <= CacheLimit
           /\ cache'[i] = e
           /\ \A j \in Indicators \ {i} : cache'[j] = cache[j] \/ cache'[j] = NoEntry
<1>1. Room \in [Indicators -> Entry \cup {NoEntry}]
  BY DEF Room, TypeOK
<1>2. /\ cache' \in [Indicators -> Entry \cup {NoEntry}]
      /\ cache'[i] = e /\ \A j \in Indicators \ {i} : cache'[j] = Room[j]
  BY <1>1
<1>3. \A j \in Indicators : Room[j] = cache[j] \/ Room[j] = NoEntry
  BY DEF Room
<1>4. Cardinality(Cached') <= CacheLimit
  <2>0. IsFiniteSet(Cached) /\ Cardinality(Cached) \in Nat
    BY Consts, FS_Subset, FS_CardinalityType DEF Cached
  <2>1. CASE Cardinality(Cached) >= CacheLimit
    <3>1. Room = [j \in Indicators |-> NoEntry]
      BY <2>1 DEF Room
    <3>2. Cached' \subseteq {i}
      BY <1>2, <3>1 DEF Cached
    <3>3. IsFiniteSet({i}) /\ Cardinality({i}) = 1
      BY FS_Singleton
    <3>4. Cardinality(Cached') <= 1 /\ Cardinality(Cached') \in Nat
      BY <3>2, <3>3, FS_Subset, FS_CardinalityType
    <3> QED
      BY <3>4, Consts
  <2>2. CASE Cardinality(Cached) < CacheLimit
    <3>1. Cached' \subseteq Cached \cup {i}
      BY <1>2, <1>3 DEF Cached
    <3>2. IsFiniteSet(Cached \cup {i}) /\ Cardinality(Cached \cup {i}) <= Cardinality(Cached) + 1
      BY <2>0, FS_AddElement
    <3>3. /\ Cardinality(Cached') <= Cardinality(Cached \cup {i})
          /\ Cardinality(Cached') \in Nat /\ Cardinality(Cached \cup {i}) \in Nat
      BY <3>1, <3>2, FS_Subset, FS_CardinalityType
    <3> QED
      BY <2>0, <2>2, <3>2, <3>3, Consts
  <2> QED
    BY <2>0, <2>1, <2>2, Consts
<1> QED
  BY <1>2, <1>3, <1>4

-----------------------------------------------------------------------------
(* Types.                                                                   *)

Step(g) ==
    Enrich(g) \/ Lookup(g) \/ CacheHit(g) \/ QuotaExceeded(g) \/ Call(g) \/ Answer(g)
        \/ Fail(g) \/ Store(g) \/ Enriched(g)

LEMMA WindowType ==
    ASSUME TypeOK, NEW g \in Callers
    PROVE  /\ Window(g).since \in Times \cup {-Minute}
           /\ Window(g).used \in 0 .. MaxPerMinute
BY Consts DEF TypeOK, Window, Caller, Times

LEMMA CallerType ==
    ASSUME TypeOK, NEW g \in Callers, Step(g)
    PROVE  caller' \in [Callers -> Caller]
<1>0. caller[g] \in Caller
  BY DEF TypeOK
<1>1. ASSUME NEW c \in Caller, caller' = [caller EXCEPT ![g] = c]
      PROVE  caller' \in [Callers -> Caller]
  BY <1>1 DEF TypeOK
<1>2. CASE Enrich(g)
  <2>1. PICK S \in SUBSET Indicators :
           caller' = [caller EXCEPT ![g] = [Fresh EXCEPT !.pc = "next", !.event = S, !.todo = S,
                                                         !.deadline = clock + Timeout]]
    BY <1>2 DEF Enrich, Extracted
  <2>2. clock + Timeout \in Nat
    BY Consts DEF TypeOK, Times
  <2>3. [Fresh EXCEPT !.pc = "next", !.event = S, !.todo = S, !.deadline = clock + Timeout] \in Caller
    BY <2>2, FreshType DEF Caller
  <2> QED
    BY <1>1, <2>1, <2>3
<1>3. CASE Lookup(g)
  <2>1. PICK i \in caller[g].todo :
           LET c == [caller[g] EXCEPT !.todo = @ \ {i}, !.of = i, !.at = clock] IN
           \/ caller' = [caller EXCEPT ![g] = Returned(c, {}, "non_public")]
           \/ caller' = [caller EXCEPT ![g] = [c EXCEPT !.pc = "locked"]]
    BY <1>3 DEF Lookup
  <2> DEFINE c == [caller[g] EXCEPT !.todo = @ \ {i}, !.of = i, !.at = clock]
  <2>2. c \in Caller
    BY <1>0 DEF Caller, TypeOK
  <2>3. caller' = [caller EXCEPT ![g] = Returned(c, {}, "non_public")]
           \/ caller' = [caller EXCEPT ![g] = [c EXCEPT !.pc = "locked"]]
    BY <2>1
  <2> HIDE DEF c
  <2>4. [c EXCEPT !.pc = "locked"] \in Caller /\ Returned(c, {}, "non_public") \in Caller
    BY <2>2, ReturnedType DEF Caller, Status
  <2> QED
    BY <1>1, <2>3, <2>4
<1>4. CASE CacheHit(g)
  <2>1. cache[caller[g].of].found \in SUBSET Feed /\ cache[caller[g].of].status \in Status
    BY <1>4, HitEntry DEF CacheHit, Entry, Status
  <2>2. caller' = [caller EXCEPT ![g] = Returned(caller[g], cache[caller[g].of].found,
                                                 cache[caller[g].of].status)]
    BY <1>4 DEF CacheHit
  <2> QED
    BY <1>0, <1>1, <2>1, <2>2, ReturnedType
<1>5. CASE QuotaExceeded(g)
  <2>1. caller' = [caller EXCEPT ![g] = Returned(caller[g], {}, "quota_exceeded")]
    BY <1>5 DEF QuotaExceeded
  <2> QED
    BY <1>0, <1>1, <2>1, ReturnedType DEF Status
<1>6. CASE Call(g) \/ Enriched(g) \/ Fail(g)
  <2>1. [caller[g] EXCEPT !.pc = "calling"] \in Caller
    BY <1>0 DEF Caller
  <2>2. [caller[g] EXCEPT !.pc = "done", !.deadline = 0] \in Caller
    BY <1>0 DEF Caller
  <2>3. [caller[g] EXCEPT !.pc = "storing", !.result = "unavailable"] \in Caller
    BY <1>0 DEF Caller
  <2>4. \/ caller' = [caller EXCEPT ![g] = [caller[g] EXCEPT !.pc = "calling"]]
        \/ caller' = [caller EXCEPT ![g] = [caller[g] EXCEPT !.pc = "done", !.deadline = 0]]
        \/ caller' = [caller EXCEPT ![g] = [caller[g] EXCEPT !.pc = "storing", !.result = "unavailable"]]
    BY <1>6 DEF Call, Enriched, Fail, TypeOK
  <2> QED
    BY <1>1, <2>1, <2>2, <2>3, <2>4
<1>7. CASE Answer(g)
  <2>1. PICK f \in SUBSET Feed :
           caller' = [caller EXCEPT ![g] = [caller[g] EXCEPT !.pc = "storing", !.found = f]]
    BY <1>7 DEF Answer, Valid, TypeOK
  <2>2. [caller[g] EXCEPT !.pc = "storing", !.found = f] \in Caller
    BY <1>0 DEF Caller
  <2> QED
    BY <1>1, <2>1, <2>2
<1>8. CASE Store(g)
  <2>1. caller' = [caller EXCEPT ![g] = Returned(caller[g], caller[g].found, caller[g].result)]
    BY <1>8 DEF Store
  <2>2. caller[g].found \in SUBSET Feed /\ caller[g].result \in Status
    BY <1>0 DEF Caller, Status
  <2> QED
    BY <1>0, <1>1, <2>1, <2>2, ReturnedType
<1> QED
  BY <1>2, <1>3, <1>4, <1>5, <1>6, <1>7, <1>8 DEF Step

LEMMA StoreEntry ==
    ASSUME TypeOK, NEW g \in Callers, Store(g)
    PROVE  [found |-> caller[g].found, until |-> Until(caller[g]), status |-> caller[g].result] \in Entry
<1>1. caller[g] \in Caller
  BY DEF TypeOK
<1> QED
  BY <1>1, UntilBounds DEF Caller, Entry

LEMMA TypeStep == TypeOK /\ [Next]_vars => TypeOK'
<1> SUFFICES ASSUME TypeOK, [Next]_vars PROVE TypeOK'
  OBVIOUS
<1>1. ASSUME NEW g \in Callers, Step(g) PROVE TypeOK'
  <2>1. caller' \in [Callers -> Caller]
    BY <1>1, CallerType
  <2>0. caller[g].of \in Indicators /\ caller[g].at \in Times
    BY DEF TypeOK, Caller
  <2>2. CASE Enrich(g)
    <3>1. events' \in 0 .. MaxEvents
      BY <2>2, Consts DEF Enrich, TypeOK
    <3> QED
      BY <2>1, <2>2, <3>1 DEF Enrich, TypeOK, Cached
  <2>3. CASE Lookup(g) \/ CacheHit(g) \/ Fail(g) \/ Enriched(g)
    BY <2>1, <2>3 DEF Lookup, CacheHit, Fail, Enriched, TypeOK, Cached
  <2>4. CASE QuotaExceeded(g)
    <3>1. window' \in Times \cup {-Minute} /\ used' \in 0 .. MaxPerMinute
      BY <2>4, WindowType DEF QuotaExceeded
    <3> QED
      BY <2>1, <2>4, <3>1 DEF QuotaExceeded, TypeOK, Cached
  <2>5. CASE Call(g)
    <3>1. window' \in Times \cup {-Minute}
      BY <2>5, WindowType DEF Call
    <3>2. used' \in 0 .. MaxPerMinute
      BY <2>5, WindowType, Consts DEF Call
    <3>3. calls' \in Seq(Times)
      BY <2>5 DEF Call, TypeOK
    <3> QED
      BY <2>1, <2>5, <3>1, <3>2, <3>3 DEF Call, TypeOK, Cached
  <2>6. CASE Answer(g)
    <3>1. answered' \in [Indicators -> SUBSET Times]
      BY <2>0, <2>6 DEF Answer, TypeOK
    <3> QED
      BY <2>1, <2>6, <3>1 DEF Answer, TypeOK, Cached
  <2>7. CASE Store(g)
    <3>1. PICK e \in Entry : cache' = [Room EXCEPT ![caller[g].of] = e]
      BY <2>7, StoreEntry DEF Store
    <3>2. cache' \in [Indicators -> Entry \cup {NoEntry}] /\ Cardinality(Cached') <= CacheLimit
      BY <2>0, <3>1, StoredType
    <3> QED
      BY <2>1, <2>7, <3>2 DEF Store, TypeOK
  <2> QED
    BY <1>1, <2>2, <2>3, <2>4, <2>5, <2>6, <2>7 DEF Step
<1>2. CASE Tick
  <2>1. clock' \in Times
    BY <1>2, Consts DEF Tick, TypeOK, Times
  <2> QED
    BY <1>2, <2>1 DEF Tick, TypeOK, Cached
<1>3. CASE UNCHANGED vars
  BY <1>3 DEF vars, TypeOK, Cached
<1> QED
  BY <1>1, <1>2, <1>3 DEF Next, Step

-----------------------------------------------------------------------------
(* The cache and the answers.                                               *)

\* Answers are not forgotten.
Remembered == \A i \in Indicators : answered[i] \subseteq answered'[i]

LEMMA RememberedStep == TypeOK /\ [Next]_vars => Remembered
<1> SUFFICES ASSUME TypeOK, [Next]_vars PROVE Remembered
  OBVIOUS
<1>1. ASSUME NEW g \in Callers, Answer(g) PROVE Remembered
  BY <1>1 DEF Answer, TypeOK, Remembered
<1>2. ASSUME NEW g \in Callers, Step(g), ~Answer(g) PROVE UNCHANGED answered
  BY <1>2 DEF Step, Enrich, Lookup, CacheHit, QuotaExceeded, Call, Fail, Store, Enriched
<1>3. CASE Tick \/ UNCHANGED vars
  BY <1>3 DEF Tick, vars, Remembered
<1> QED
  BY <1>1, <1>2, <1>3 DEF Next, Step, Remembered

LEMMA EntryStep == TypeOK /\ EntryInv /\ StoringInv /\ [Next]_vars => EntryInv'
<1> SUFFICES ASSUME TypeOK, EntryInv, StoringInv, [Next]_vars PROVE EntryInv'
  OBVIOUS
<1>0. Remembered
  BY RememberedStep
<1>1. ASSUME NEW i \in Indicators, cache'[i] = cache[i] \/ cache'[i] = NoEntry, cache'[i].status = "ok"
      PROVE  /\ \A o \in cache'[i].found : o.attributed /\ i \in o.covers /\ cache'[i].until <= o.expires
             /\ \E t \in answered'[i] : cache'[i].until <= t + TTL
  BY <1>0, <1>1 DEF EntryInv, NoEntry, Remembered
<1>2. CASE UNCHANGED cache
  BY <1>1, <1>2 DEF EntryInv
<1>3. ASSUME NEW g \in Callers, Store(g) PROVE EntryInv'
  <2> DEFINE e == [found |-> caller[g].found, until |-> Until(caller[g]), status |-> caller[g].result]
  <2>1. caller[g] \in Caller /\ caller[g].of \in Indicators
    BY DEF TypeOK, Caller
  <2>2. e \in Entry /\ cache' = [Room EXCEPT ![caller[g].of] = e]
    BY <1>3, StoreEntry DEF Store
  <2>3. e.status = "ok" =>
          /\ \A o \in e.found : o.attributed /\ caller[g].of \in o.covers /\ e.until <= o.expires
          /\ \E t \in answered'[caller[g].of] : e.until <= t + TTL
    BY <1>0, <1>3, <2>1, UntilBounds DEF Store, StoringInv, Evidence, Remembered
  <2> HIDE DEF e
  <2>4. /\ cache'[caller[g].of] = e
        /\ \A j \in Indicators \ {caller[g].of} : cache'[j] = cache[j] \/ cache'[j] = NoEntry
    BY <2>1, <2>2, StoredType
  <2> QED
    BY <1>1, <2>1, <2>3, <2>4 DEF EntryInv
<1>4. ASSUME NEW g \in Callers, Step(g), ~Store(g) PROVE UNCHANGED cache
  BY <1>4 DEF Step, Enrich, Lookup, CacheHit, QuotaExceeded, Call, Answer, Fail, Enriched
<1>5. CASE Tick \/ UNCHANGED vars
  BY <1>2, <1>5 DEF Tick, vars
<1> QED
  BY <1>2, <1>3, <1>4, <1>5 DEF Next, Step

-----------------------------------------------------------------------------
(* Goroutines.                                                              *)

\* The goroutine that takes a step is the only one that changes.
LEMMA OnlyOneMoves ==
    ASSUME TypeOK, NEW g \in Callers, Step(g), NEW h \in Callers, h # g
    PROVE  caller'[h] = caller[h]
<1>1. PICK c : caller' = [caller EXCEPT ![g] = c]
  BY DEF Step, Enrich, Lookup, CacheHit, QuotaExceeded, Call, Answer, Fail, Store, Enriched
<1> QED
  BY <1>1 DEF TypeOK

LEMMA StillStep ==
    ASSUME Tick \/ UNCHANGED vars
    PROVE  UNCHANGED <<cache, caller, answered>>
BY DEF Tick, vars

\* A look-up that ends adds itself to the event when it is ok, and its status when it is not.
Ends(g, status, found) ==
    \E c : /\ c.event = caller[g].event /\ c.todo \subseteq caller[g].todo
           /\ c.todo = caller[g].todo \/ status # "ok"
           /\ c.status = caller[g].status
           /\ c.looks = caller[g].looks
           /\ status = "ok" => c.of = caller[g].of /\ c.at = caller[g].at
           /\ caller'[g] = Returned(c, found, status)

LEMMA LookupEnds ==
    ASSUME TypeOK, NEW g \in Callers, Lookup(g), caller'[g].pc = "next"
    PROVE  Ends(g, "non_public", {})
<1>0. caller[g] \in Caller
  BY DEF TypeOK
<1>1. PICK i \in caller[g].todo :
         LET c == [caller[g] EXCEPT !.todo = @ \ {i}, !.of = i, !.at = clock] IN
         \/ caller' = [caller EXCEPT ![g] = Returned(c, {}, "non_public")]
         \/ caller' = [caller EXCEPT ![g] = [c EXCEPT !.pc = "locked"]]
  BY DEF Lookup
<1> DEFINE c == [caller[g] EXCEPT !.todo = @ \ {i}, !.of = i, !.at = clock]
<1>2. /\ c \in Caller /\ c.event = caller[g].event /\ c.todo \subseteq caller[g].todo
      /\ c.status = caller[g].status /\ c.looks = caller[g].looks
  BY <1>0 DEF Caller, TypeOK
<1>3. caller'[g] = Returned(c, {}, "non_public") \/ caller'[g] = [c EXCEPT !.pc = "locked"]
  BY <1>1 DEF TypeOK
<1> HIDE DEF c
<1>4. [c EXCEPT !.pc = "locked"].pc = "locked"
  BY <1>2 DEF Caller
<1> QED
  BY <1>2, <1>3, <1>4 DEF Ends

LEMMA LookupLocks ==
    ASSUME TypeOK, NEW g \in Callers, Lookup(g), caller'[g].pc # "next"
    PROVE  /\ caller'[g].pc = "locked"
           /\ caller'[g].event = caller[g].event /\ caller'[g].status = caller[g].status
           /\ caller'[g].looks = caller[g].looks
           /\ caller[g].todo \subseteq caller'[g].todo \cup {caller'[g].of}
<1>0. caller[g] \in Caller
  BY DEF TypeOK
<1>1. PICK i \in caller[g].todo :
         LET c == [caller[g] EXCEPT !.todo = @ \ {i}, !.of = i, !.at = clock] IN
         \/ caller' = [caller EXCEPT ![g] = Returned(c, {}, "non_public")]
         \/ caller' = [caller EXCEPT ![g] = [c EXCEPT !.pc = "locked"]]
  BY DEF Lookup
<1> DEFINE c == [caller[g] EXCEPT !.todo = @ \ {i}, !.of = i, !.at = clock]
<1>2. /\ c \in Caller /\ c.event = caller[g].event /\ c.todo = caller[g].todo \ {i}
      /\ c.status = caller[g].status /\ c.looks = caller[g].looks /\ c.of = i
  BY <1>0 DEF Caller, TypeOK
<1>3. caller'[g] = Returned(c, {}, "non_public") \/ caller'[g] = [c EXCEPT !.pc = "locked"]
  BY <1>1 DEF TypeOK
<1> HIDE DEF c
<1>4. caller'[g] = [c EXCEPT !.pc = "locked"]
  <2>1. Returned(c, {}, "non_public").pc = "next"
    BY DEF Returned, Fresh
  <2> QED
    BY <1>3, <2>1
<1> QED
  BY <1>2, <1>4 DEF Caller

LEMMA OthersEnd ==
    ASSUME TypeOK, NEW g \in Callers
    PROVE  /\ CacheHit(g) => Ends(g, cache[caller[g].of].status, cache[caller[g].of].found)
           /\ QuotaExceeded(g) => Ends(g, "quota_exceeded", {})
           /\ Store(g) => Ends(g, caller[g].result, caller[g].found)
<1>1. ASSUME NEW status, NEW found, caller' = [caller EXCEPT ![g] = Returned(caller[g], found, status)]
      PROVE  Ends(g, status, found)
  BY <1>1 DEF Ends, TypeOK
<1>2. CacheHit(g) => caller' = [caller EXCEPT ![g] = Returned(caller[g], cache[caller[g].of].found,
                                                             cache[caller[g].of].status)]
  BY DEF CacheHit
<1>3. QuotaExceeded(g) => caller' = [caller EXCEPT ![g] = Returned(caller[g], {}, "quota_exceeded")]
  BY DEF QuotaExceeded
<1>4. Store(g) => caller' = [caller EXCEPT ![g] = Returned(caller[g], caller[g].found, caller[g].result)]
  BY DEF Store
<1> QED
  BY <1>1, <1>2, <1>3, <1>4

\* Steps in the middle of a look-up, and the last one of an event.
LEMMA MiddleFields ==
    ASSUME TypeOK, NEW g \in Callers, Call(g) \/ Answer(g) \/ Fail(g) \/ Enriched(g)
    PROVE  /\ caller'[g].event = caller[g].event /\ caller'[g].todo = caller[g].todo
           /\ caller'[g].looks = caller[g].looks /\ caller'[g].status = caller[g].status
           /\ caller'[g].of = caller[g].of /\ caller'[g].at = caller[g].at
           /\ Call(g) => caller[g].pc = "locked" /\ caller'[g].pc = "calling"
           /\ Answer(g) \/ Fail(g) => caller[g].pc = "calling" /\ caller'[g].pc = "storing"
           /\ Enriched(g) => caller[g].pc = "next" /\ caller'[g].pc = "done" /\ caller[g].todo = {}
<1>0. caller[g] \in Caller
  BY DEF TypeOK
<1> QED
  BY <1>0 DEF TypeOK, Caller, Call, Answer, Fail, Enriched

LEMMA EnrichFields ==
    ASSUME TypeOK, NEW g \in Callers, Enrich(g)
    PROVE  /\ caller'[g].pc = "next" /\ caller'[g].looks = {}
           /\ caller'[g].todo = caller'[g].event
<1>1. PICK S \in SUBSET Indicators :
         caller' = [caller EXCEPT ![g] = [Fresh EXCEPT !.pc = "next", !.event = S, !.todo = S,
                                                       !.deadline = clock + Timeout]]
  BY DEF Enrich, Extracted
<1> QED
  BY <1>1 DEF TypeOK, Fresh

\* The ways in which a goroutine moves.
LEMMA StepCases ==
    ASSUME NEW g \in Callers, Step(g), TypeOK
    PROVE  \/ Enrich(g)
           \/ Lookup(g) /\ caller'[g].pc # "next"
           \/ \E status, found : Ends(g, status, found) /\ (status = "ok" =>
                 \/ CacheHit(g) /\ status = cache[caller[g].of].status /\ found = cache[caller[g].of].found
                 \/ Store(g) /\ status = caller[g].result /\ found = caller[g].found)
           \/ Call(g) \/ Answer(g) \/ Fail(g) \/ Enriched(g)
<1>1. CASE Lookup(g) /\ caller'[g].pc = "next"
  BY <1>1, LookupEnds
<1>2. CASE CacheHit(g) \/ QuotaExceeded(g) \/ Store(g)
  BY <1>2, OthersEnd
<1> QED
  BY <1>1, <1>2 DEF Step

LEMMA StoringStep == TypeOK /\ StoringInv /\ [Next]_vars => StoringInv'
<1> SUFFICES ASSUME TypeOK, StoringInv, [Next]_vars, NEW h \in Callers,
                    caller'[h].pc = "storing", caller'[h].result = "ok"
             PROVE  /\ Evidence(caller'[h].found, caller'[h].of, caller'[h].at)
                    /\ caller'[h].at \in answered'[caller'[h].of]
  BY DEF StoringInv, Evidence
<1>0. caller[h] \in Caller /\ Remembered
  BY RememberedStep DEF TypeOK
<1>1. CASE caller'[h] = caller[h]
  BY <1>0, <1>1 DEF StoringInv, Remembered, Caller
<1>2. ASSUME Step(h)
      PROVE  /\ Evidence(caller'[h].found, caller'[h].of, caller'[h].at)
             /\ caller'[h].at \in answered'[caller'[h].of]
  <2>1. CASE Answer(h)
    <3>1. PICK records \in SUBSET Feed :
             caller' = [caller EXCEPT ![h].pc = "storing", ![h].found = Valid(caller[h], records)]
      BY <2>1 DEF Answer
    <3>2. PICK f : f = Valid(caller[h], records)
      OBVIOUS
    <3>3. caller'[h].found = f /\ caller'[h].of = caller[h].of /\ caller'[h].at = caller[h].at
      BY <1>0, <3>1, <3>2 DEF TypeOK, Caller
    <3>4. Evidence(f, caller[h].of, caller[h].at)
      BY <3>2 DEF Valid, Matches, Evidence
    <3>5. caller[h].at \in answered'[caller[h].of]
      BY <1>0, <2>1 DEF Answer, TypeOK, Caller
    <3> QED
      BY <3>3, <3>4, <3>5
  <2>2. CASE Fail(h)
    <3>1. caller'[h].result = "unavailable"
      BY <1>0, <2>2 DEF Fail, TypeOK, Caller
    <3> QED
      BY <3>1
  <2>3. ASSUME NEW status, NEW found, Ends(h, status, found) PROVE FALSE
    <3>1. PICK c : caller'[h] = Returned(c, found, status)
      BY <2>3 DEF Ends
    <3>2. Returned(c, found, status).pc = "next"
      BY DEF Returned, Fresh
    <3> QED
      BY <3>1, <3>2
  <2>4. CASE Enrich(h) \/ (Lookup(h) /\ caller'[h].pc # "next") \/ Call(h) \/ Enriched(h)
    BY <2>4, EnrichFields, LookupLocks, MiddleFields
  <2> QED
    BY <1>2, <2>1, <2>2, <2>3, <2>4, StepCases
<1>3. ASSUME NEW g \in Callers, Step(g), g # h PROVE caller'[h] = caller[h]
  BY <1>3, OnlyOneMoves
<1> QED
  BY <1>1, <1>2, <1>3, StillStep DEF Next, Step

\* What the event of g has after a look-up that ends.
LEMMA EndsFields ==
    ASSUME NEW g \in Callers, NEW status, NEW found, Ends(g, status, found)
    PROVE  /\ caller'[g].pc = "next" /\ caller'[g].event = caller[g].event
           /\ caller'[g].todo \subseteq caller[g].todo
           /\ caller'[g].todo = caller[g].todo \/ status # "ok"
           /\ caller'[g].status = IF status = "ok" THEN caller[g].status ELSE status
           /\ caller'[g].looks = IF status = "ok"
                 THEN caller[g].looks \cup {[of |-> caller[g].of, at |-> caller[g].at, found |-> found]}
                 ELSE caller[g].looks
<1>1. PICK c : /\ c.event = caller[g].event /\ c.todo \subseteq caller[g].todo
               /\ c.todo = caller[g].todo \/ status # "ok"
               /\ c.status = caller[g].status
               /\ c.looks = caller[g].looks
               /\ status = "ok" => c.of = caller[g].of /\ c.at = caller[g].at
               /\ caller'[g] = Returned(c, found, status)
  BY DEF Ends
<1>2. PICK q : q = Returned(c, found, status)
  OBVIOUS
<1>3. /\ q.pc = "next" /\ q.todo = c.todo /\ q.event = c.event
      /\ q.status = IF status = "ok" THEN c.status ELSE status
      /\ q.looks = IF status = "ok" THEN c.looks \cup {[of |-> c.of, at |-> c.at, found |-> found]}
                   ELSE c.looks
  BY <1>2 DEF Returned, Fresh
<1>4. caller'[g] = q
  BY <1>1, <1>2
<1> QED
  BY <1>1, <1>3, <1>4

\* A look-up that is ok, from the cache or from the provider, is one of current evidence.
LEMMA LookIsCurrent ==
    ASSUME TypeOK, EntryInv, StoringInv, NEW g \in Callers, NEW status, NEW found, status = "ok",
           \/ CacheHit(g) /\ status = cache[caller[g].of].status /\ found = cache[caller[g].of].found
           \/ Store(g) /\ status = caller[g].result /\ found = caller[g].found
    PROVE  Evidence(found, caller[g].of, caller[g].at) /\ Recent(caller[g].of, caller[g].at)
<1> DEFINE i == caller[g].of
<1>0. caller[g] \in Caller /\ i \in Indicators /\ caller[g].at \in Nat /\ answered[i] \subseteq Nat
  BY DEF TypeOK, Caller, Times
<1>1. CASE CacheHit(g) /\ status = cache[i].status /\ found = cache[i].found
  <2>1. caller[g].at < cache[i].until /\ cache[i] \in Entry
    BY <1>1, HitEntry DEF CacheHit, Hit
  <2>2. /\ \A o \in found : o.attributed /\ i \in o.covers /\ cache[i].until <= o.expires
        /\ \E t \in answered[i] : cache[i].until <= t + TTL
    BY <1>0, <1>1 DEF EntryInv
  <2>3. cache[i].until \in Nat /\ \A o \in found : o.expires \in Nat
    BY <1>1, <2>1, Consts DEF Entry, Observation
  <2>4. Evidence(found, i, caller[g].at)
    BY <1>0, <2>1, <2>2, <2>3 DEF Evidence
  <2>5. PICK t \in answered[i] : cache[i].until <= t + TTL
    BY <2>2
  <2>6. caller[g].at < t + TTL
    BY <1>0, <2>1, <2>3, <2>5, Consts
  <2> QED
    BY <2>4, <2>5, <2>6 DEF Recent
<1>2. CASE Store(g) /\ status = caller[g].result /\ found = caller[g].found
  <2>1. Evidence(found, i, caller[g].at) /\ caller[g].at \in answered[i]
    BY <1>2 DEF Store, StoringInv
  <2>2. caller[g].at < caller[g].at + TTL
    BY <1>0, Consts
  <2> QED
    BY <2>1, <2>2 DEF Recent
<1> QED
  BY <1>1, <1>2

LEMMA LooksStep == TypeOK /\ EntryInv /\ StoringInv /\ LooksInv /\ [Next]_vars => LooksInv'
<1> SUFFICES ASSUME TypeOK, EntryInv, StoringInv, LooksInv, [Next]_vars, NEW h \in Callers,
                    NEW l \in caller'[h].looks
             PROVE  Evidence(l.found, l.of, l.at) /\ Recent(l.of, l.at)'
  BY DEF LooksInv, Evidence, Recent
<1>0. Remembered
  BY RememberedStep
<1>1. ASSUME Recent(l.of, l.at), l.of \in Indicators PROVE Recent(l.of, l.at)'
  BY <1>0, <1>1 DEF Recent, Remembered
<1>2. CASE l \in caller[h].looks
  <2>1. Evidence(l.found, l.of, l.at) /\ Recent(l.of, l.at) /\ l.of \in Indicators
    BY <1>2 DEF LooksInv, TypeOK, Caller, Look
  <2> QED
    BY <1>1, <2>1
<1>3. ASSUME Step(h), l \notin caller[h].looks
      PROVE  Evidence(l.found, l.of, l.at) /\ Recent(l.of, l.at)'
  <2>1. ASSUME NEW status, NEW found, Ends(h, status, found), status = "ok" =>
                 \/ CacheHit(h) /\ status = cache[caller[h].of].status /\ found = cache[caller[h].of].found
                 \/ Store(h) /\ status = caller[h].result /\ found = caller[h].found
        PROVE  Evidence(l.found, l.of, l.at) /\ Recent(l.of, l.at)'
    <3>1. status = "ok" /\ l = [of |-> caller[h].of, at |-> caller[h].at, found |-> found]
      <4>1. PICK m : m = [of |-> caller[h].of, at |-> caller[h].at, found |-> found]
        OBVIOUS
      <4>2. caller'[h].looks = IF status = "ok" THEN caller[h].looks \cup {m} ELSE caller[h].looks
        BY <2>1, <4>1, EndsFields
      <4> QED
        BY <1>3, <4>1, <4>2
    <3>2. l.of = caller[h].of /\ l.at = caller[h].at /\ l.found = found /\ caller[h].of \in Indicators
      BY <3>1 DEF TypeOK, Caller
    <3>3. Evidence(found, caller[h].of, caller[h].at) /\ Recent(caller[h].of, caller[h].at)
      BY <2>1, <3>1, LookIsCurrent
    <3> QED
      BY <1>0, <3>2, <3>3 DEF Recent, Remembered
  <2>2. CASE Enrich(h) \/ (Lookup(h) /\ caller'[h].pc # "next") \/ Call(h) \/ Answer(h) \/ Fail(h)
                \/ Enriched(h)
    BY <1>3, <2>2, EnrichFields, LookupLocks, MiddleFields
  <2> QED
    BY <1>3, <2>1, <2>2, StepCases
<1>4. ASSUME NEW g \in Callers, Step(g), g # h PROVE l \in caller[h].looks
  BY <1>4, OnlyOneMoves
<1> QED
  BY <1>2, <1>3, <1>4, StillStep DEF Next, Step

LEMMA OwedStep == TypeOK /\ OwedInv /\ [Next]_vars => OwedInv'
<1> SUFFICES ASSUME TypeOK, OwedInv, [Next]_vars, NEW h \in Callers
             PROVE  /\ caller'[h].pc = "done" => caller'[h].todo = {}
                    /\ caller'[h].status = "ok" => \A i \in caller'[h].event : Owed(h, i)'
  BY DEF OwedInv, Owed
<1> DEFINE Kept == /\ caller'[h].pc = "done" => caller'[h].todo = {}
                   /\ caller'[h].status = "ok" => \A i \in caller'[h].event : Owed(h, i)'
<1>0. caller[h].status = "ok" => \A i \in caller[h].event : Owed(h, i)
  BY DEF OwedInv
<1>1. CASE caller'[h] = caller[h]
  BY <1>0, <1>1 DEF OwedInv, Owed
<1>2. ASSUME Step(h) PROVE Kept
  <2>1. CASE Enrich(h)
    BY <2>1, EnrichFields DEF Owed
  <2>2. CASE Lookup(h) /\ caller'[h].pc # "next"
    <3>1. /\ caller'[h].pc = "locked"
          /\ caller'[h].event = caller[h].event /\ caller'[h].status = caller[h].status
          /\ caller'[h].looks = caller[h].looks
          /\ caller[h].todo \subseteq caller'[h].todo \cup {caller'[h].of}
      BY <2>2, LookupLocks
    <3>2. caller[h].pc = "next"
      BY <2>2 DEF Lookup
    <3> QED
      BY <1>0, <3>1, <3>2 DEF Owed
  <2>3. ASSUME NEW status, NEW found, Ends(h, status, found), status = "ok" =>
                 \/ CacheHit(h) /\ status = cache[caller[h].of].status /\ found = cache[caller[h].of].found
                 \/ Store(h) /\ status = caller[h].result /\ found = caller[h].found
        PROVE  Kept
    <3>1. /\ caller'[h].pc = "next" /\ caller'[h].event = caller[h].event
          /\ caller'[h].todo = caller[h].todo \/ status # "ok"
          /\ caller'[h].status = IF status = "ok" THEN caller[h].status ELSE status
      BY <2>3, EndsFields
    <3>2. CASE status # "ok"
      BY <3>1, <3>2
    <3>3. CASE status = "ok"
      <4>1. PICK m : m = [of |-> caller[h].of, at |-> caller[h].at, found |-> found]
        OBVIOUS
      <4>2. caller'[h].looks = caller[h].looks \cup {m}
        BY <2>3, <3>3, <4>1, EndsFields
      <4>3. m.of = caller[h].of
        BY <4>1
      <4> QED
        BY <1>0, <3>1, <3>3, <4>2, <4>3 DEF Owed
    <3> QED
      BY <3>2, <3>3
  <2>4. CASE Call(h) \/ Answer(h) \/ Fail(h) \/ Enriched(h)
    <3>1. /\ caller'[h].event = caller[h].event /\ caller'[h].todo = caller[h].todo
          /\ caller'[h].looks = caller[h].looks /\ caller'[h].status = caller[h].status
          /\ caller'[h].of = caller[h].of
      BY <2>4, MiddleFields
    <3>2. CASE Enriched(h)
      <4>1. caller[h].pc = "next" /\ caller'[h].pc = "done" /\ caller[h].todo = {}
        BY <3>2, MiddleFields
      <4> QED
        BY <1>0, <3>1, <4>1 DEF Owed
    <3>3. CASE ~Enriched(h)
      <4>1. /\ caller'[h].pc \in {"calling", "storing"}
        BY <2>4, <3>3, MiddleFields
      <4> QED
        BY <1>0, <3>1, <4>1 DEF Owed
    <3> QED
      BY <3>2, <3>3
  <2> QED
    BY <1>2, <2>1, <2>2, <2>3, <2>4, StepCases
<1>3. ASSUME NEW g \in Callers, Step(g), g # h PROVE caller'[h] = caller[h]
  BY <1>3, OnlyOneMoves
<1> QED
  BY <1>1, <1>2, <1>3, StillStep DEF Next, Step

-----------------------------------------------------------------------------
(* The quota of the provider.                                               *)

Others == Cardinality(Callers) - 1

\* Calls of the minute that begins at t, and callers that wait for the lock with an older time.
In(t)   == {n \in DOMAIN calls : t <= calls[n] /\ calls[n] < t + Minute}
Late(t) == {g \in Callers : caller[g].pc = "locked" /\ caller[g].at < t}

\* Nothing is of the future, and without a quota nobody is called.
PastInv ==
    /\ \A n \in DOMAIN calls : calls[n] <= clock
    /\ \A g \in Callers : caller[g].at <= clock
    /\ window <= clock
    /\ MaxPerMinute = 0 => calls = <<>>

\* Calls of the minute of t, by where the window of the quota began: before the whole minute, when
\* each of them renewed the window with an older time and its caller is not late any more; before
\* t, when one of them renewed it; and since t, after the quota of an earlier window.
Bounded(t) ==
    /\ window <= t - Minute => Cardinality(In(t)) + Cardinality(Late(t)) <= Others + 1
    /\ t - Minute < window /\ window < t => Cardinality(In(t)) <= used + Others
    /\ window >= t => Cardinality(In(t)) <= used + MaxPerMinute + Others

\* The minutes that are not over.
Open == {t \in Times : t <= clock /\ clock < t + Minute}

QuotaInv == PastInv /\ (\A t \in Open : Bounded(t)) /\ QuotaHolds

LEMMA OthersType == Others \in Nat
<1>1. PICK g \in Callers : TRUE
  BY Consts
<1>2. IsFiniteSet({g}) /\ Cardinality({g}) = 1
  BY FS_Singleton
<1>3. Cardinality({g}) <= Cardinality(Callers) /\ Cardinality(Callers) \in Nat
  BY <1>1, Consts, FS_Subset, FS_CardinalityType
<1> QED
  BY <1>2, <1>3 DEF Others

LEMMA CountTypes ==
    ASSUME TypeOK, NEW t \in Times
    PROVE  /\ IsFiniteSet(In(t)) /\ Cardinality(In(t)) \in Nat
           /\ IsFiniteSet(Late(t)) /\ Cardinality(Late(t)) \in 0 .. Others + 1
<1>1. DOMAIN calls = 1 .. Len(calls) /\ Len(calls) \in Nat
  BY DEF TypeOK
<1>2. IsFiniteSet(DOMAIN calls)
  BY <1>1, FS_Interval
<1>3. IsFiniteSet(In(t)) /\ Cardinality(In(t)) \in Nat
  BY <1>2, FS_Subset, FS_CardinalityType DEF In
<1>4. /\ IsFiniteSet(Late(t)) /\ Cardinality(Late(t)) \in Nat
      /\ Cardinality(Late(t)) <= Cardinality(Callers) /\ Cardinality(Callers) \in Nat
  BY Consts, FS_Subset, FS_CardinalityType DEF Late
<1> QED
  BY <1>3, <1>4 DEF Others

LEMMA InitQuotaInv == Init => QuotaInv
<1> SUFFICES ASSUME Init PROVE QuotaInv
  OBVIOUS
<1>0. TypeOK
  BY InitIInv DEF IInv
<1>1. \A t \in Times : In(t) = {} /\ Cardinality(In(t)) = 0
  BY FS_EmptySet DEF Init, In
<1>2. PastInv
  BY Consts DEF Init, PastInv, Fresh
<1>3. \A t \in Open : Bounded(t)
  BY <1>0, <1>1, CountTypes, OthersType, Consts DEF Init, Open, Bounded, Times
<1>4. QuotaHolds
  BY <1>1, OthersType, Consts DEF QuotaHolds, In, Others
<1> QED
  BY <1>2, <1>3, <1>4 DEF QuotaInv

\* A goroutine reads the time before it asks for the lock, and has it as long as it waits.
LEMMA TimeKept ==
    ASSUME TypeOK, PastInv, NEW g \in Callers, Step(g)
    PROVE  /\ clock' = clock
           /\ \A h \in Callers : caller'[h].at <= clock
           /\ \A t \in Open : Late(t)' \subseteq Late(t)
<1>0. caller[g] \in Caller /\ clock \in Nat /\ caller \in [Callers -> Caller]
  BY DEF TypeOK, Times
<1>1. clock' = clock
  BY DEF Step, Enrich, Lookup, CacheHit, QuotaExceeded, Call, Answer, Fail, Store, Enriched
<1>2. /\ caller'[g].at <= clock
      /\ caller'[g].pc = "locked" => caller'[g].at = clock
  <2>1. \A c, found, status : Returned(c, found, status).at = 0 /\ Returned(c, found, status).pc = "next"
    BY DEF Returned, Fresh
  <2>2. CASE Enrich(g)
    BY <1>0, <2>2 DEF Enrich, Fresh
  <2>3. CASE Lookup(g)
    <3>1. PICK i \in caller[g].todo :
             LET c == [caller[g] EXCEPT !.todo = @ \ {i}, !.of = i, !.at = clock] IN
             \/ caller' = [caller EXCEPT ![g] = Returned(c, {}, "non_public")]
             \/ caller' = [caller EXCEPT ![g] = [c EXCEPT !.pc = "locked"]]
      BY <2>3 DEF Lookup
    <3>2. PICK c : c = [caller[g] EXCEPT !.todo = @ \ {i}, !.of = i, !.at = clock]
      OBVIOUS
    <3>3. c \in Caller /\ c.at = clock
      BY <1>0, <3>2 DEF TypeOK, Caller
    <3>4. caller'[g] = Returned(c, {}, "non_public") \/ caller'[g] = [c EXCEPT !.pc = "locked"]
      BY <1>0, <3>1, <3>2
    <3> QED
      BY <1>0, <2>1, <3>3, <3>4 DEF Caller
  <2>4. CASE CacheHit(g) \/ QuotaExceeded(g) \/ Store(g)
    <3>1. \E c, found, status : caller'[g] = Returned(c, found, status)
      BY <1>0, <2>4 DEF CacheHit, QuotaExceeded, Store
    <3> QED
      BY <1>0, <2>1, <3>1
  <2>5. CASE Call(g) \/ Answer(g) \/ Fail(g) \/ Enriched(g)
    <3>1. caller'[g].at = caller[g].at /\ caller'[g].pc # "locked"
      BY <1>0, <2>5 DEF Call, Answer, Fail, Enriched, Caller
    <3> QED
      BY <3>1 DEF PastInv
  <2> QED
    BY <2>2, <2>3, <2>4, <2>5 DEF Step
<1>3. \A h \in Callers : h # g => caller'[h] = caller[h]
  BY OnlyOneMoves
<1>4. \A h \in Callers : caller'[h].at <= clock
  BY <1>2, <1>3 DEF PastInv
<1>5. ASSUME NEW t \in Open, NEW h \in Late(t)' PROVE h \in Late(t)
  <2>1. h \in Callers /\ caller'[h].pc = "locked" /\ caller'[h].at < t /\ t \in Nat /\ t <= clock
    BY <1>5 DEF Late, Open, Times
  <2>2. h # g
    BY <1>0, <1>2, <2>1
  <2> QED
    BY <1>3, <2>1, <2>2 DEF Late
<1> QED
  BY <1>1, <1>4, <1>5

\* Without a call there is no more to count, unless the window is renewed; and that renews the
\* window of nobody's calls (QuotaExceeded).
LEMMA NoCallQuota ==
    ASSUME TypeOK, TypeOK', QuotaInv, NEW g \in Callers, Step(g), ~Call(g)
    PROVE  QuotaInv'
<1>1. clock' = clock /\ (\A h \in Callers : caller'[h].at <= clock) /\ \A t \in Open : Late(t)' \subseteq Late(t)
  BY TimeKept DEF QuotaInv
<1>2. UNCHANGED calls
  BY DEF Step, Enrich, Lookup, CacheHit, QuotaExceeded, Call, Answer, Fail, Store, Enriched
<1>3. \A t \in Times : In(t)' = In(t)
  BY <1>2 DEF In
<1>4. QuotaHolds'
  BY <1>2 DEF QuotaInv, QuotaHolds
<1>5. Open' = Open
  BY <1>1 DEF Open
<1>6. \A t \in Open : /\ t \in Nat /\ Cardinality(In(t)) \in Nat
                      /\ Cardinality(Late(t)) \in Nat /\ Cardinality(Late(t)') \in Nat
                      /\ Cardinality(Late(t)') <= Cardinality(Late(t))
  <2> SUFFICES ASSUME NEW t \in Open
               PROVE  /\ t \in Nat /\ Cardinality(In(t)) \in Nat
                      /\ Cardinality(Late(t)) \in Nat /\ Cardinality(Late(t)') \in Nat
                      /\ Cardinality(Late(t)') <= Cardinality(Late(t))
    OBVIOUS
  <2>1. t \in Times /\ t \in Nat
    BY DEF Open, Times
  <2>2. /\ Cardinality(In(t)) \in Nat /\ IsFiniteSet(Late(t)) /\ Cardinality(Late(t)) \in Nat
    BY <2>1, CountTypes, OthersType
  <2> QED
    BY <1>1, <2>1, <2>2, FS_Subset, FS_CardinalityType
<1>7. clock \in Nat /\ window \in Int /\ used \in Nat
  BY Consts DEF TypeOK, Times
<1>8. CASE UNCHANGED <<window, used>>
  <2>1. PastInv'
    BY <1>1, <1>2, <1>8 DEF QuotaInv, PastInv
  <2>2. ASSUME NEW t \in Open PROVE Bounded(t)'
    <3>1. Bounded(t) /\ t \in Times
      BY DEF QuotaInv, Open
    <3>2. PICK l : l = Cardinality(Late(t)') /\ l \in Nat /\ l <= Cardinality(Late(t))
      BY <1>6
    <3>3. In(t)' = In(t) /\ Cardinality(Late(t))' = l
      BY <1>3, <3>1, <3>2
    <3> QED
      BY <1>6, <1>8, <3>1, <3>2, <3>3, OthersType, Consts DEF Bounded, Others
  <2> QED
    BY <1>4, <1>5, <2>1, <2>2 DEF QuotaInv
<1>9. CASE QuotaExceeded(g) /\ caller[g].at - window >= Minute
  <2>1. caller[g].at \in Nat /\ caller[g].at <= clock
    BY DEF TypeOK, Caller, Times, QuotaInv, PastInv
  <2>2. window' = caller[g].at /\ used' = 0 /\ MaxPerMinute = 0
    BY <1>9, Consts DEF QuotaExceeded, Window
  <2>3. calls = <<>>
    BY <2>2 DEF QuotaInv, PastInv
  <2>4. PastInv'
    BY <1>1, <1>2, <2>1, <2>2, <2>3 DEF QuotaInv, PastInv
  <2>5. ASSUME NEW t \in Open PROVE Bounded(t)'
    <3>1. t \in Times /\ t \in Nat
      BY DEF Open, Times
    <3>2. In(t) = {}
      BY <2>3 DEF In
    <3>3. In(t)' = {} /\ Cardinality(In(t)') = 0
      BY <1>3, <3>1, <3>2, FS_EmptySet
    <3>4. PICK l : l = Cardinality(Late(t)') /\ l \in 0 .. Others + 1
      <4>1. /\ IsFiniteSet(Late(t)) /\ Cardinality(Late(t)) \in 0 .. Others + 1
            /\ Late(t)' \subseteq Late(t)
        BY <1>1, <3>1, CountTypes
      <4>2. /\ Cardinality(Late(t)') \in Nat
            /\ Cardinality(Late(t)') <= Cardinality(Late(t))
        BY <4>1, FS_Subset, FS_CardinalityType
      <4> QED
        BY <4>1, <4>2, OthersType
    <3>5. Cardinality(Late(t))' = l /\ Cardinality(In(t))' = 0
      BY <3>3, <3>4
    <3> QED
      BY <2>1, <2>2, <3>1, <3>4, <3>5, OthersType, Consts DEF Bounded, Others
  <2> QED
    BY <1>4, <1>5, <2>4, <2>5 DEF QuotaInv
<1>10. UNCHANGED <<window, used>> \/ (QuotaExceeded(g) /\ caller[g].at - window >= Minute)
  BY DEF Step, Enrich, Lookup, CacheHit, QuotaExceeded, Call, Answer, Fail, Store, Enriched, Window
<1> QED
  BY <1>8, <1>9, <1>10

\* One call more, in numbers: i calls of the minute of t and l late callers, a window that began at
\* w and has u calls, and a time at that the caller has read.
LEMMA OneMore ==
    ASSUME NEW i \in Nat, NEW l \in Nat, NEW l2 \in Nat, NEW u \in Nat, NEW u2 \in Nat, NEW o \in Nat,
           NEW w \in Int, NEW w2 \in Int, NEW at \in Nat, NEW t \in Nat, NEW c \in Nat, NEW m \in Nat,
           NEW q \in Nat, m >= 1, u <= q, u2 <= q, t <= c, c < t + m, at <= c,
           l2 <= l, at < t => l2 + 1 <= l,
           IF at - w >= m THEN w2 = at /\ u2 = 1 ELSE w2 = w /\ u2 = u + 1,
           w <= t - m => i + l <= o + 1,
           t - m < w /\ w < t => i <= u + o,
           w >= t => i <= u + q + o
    PROVE  /\ w2 <= t - m => i + 1 + l2 <= o + 1
           /\ t - m < w2 /\ w2 < t => i + 1 <= u2 + o
           /\ w2 >= t => i + 1 <= u2 + q + o
           /\ i + 1 <= 2 * q + o
<1>1. q >= 1
  OBVIOUS
<1>2. CASE at - w >= m
  BY <1>1, <1>2
<1>3. CASE at - w < m
  BY <1>1, <1>3
<1> QED
  BY <1>2, <1>3

LEMMA CallQuota ==
    ASSUME TypeOK, TypeOK', QuotaInv, NEW g \in Callers, Call(g)
    PROVE  QuotaInv'
<1>1. clock' = clock /\ (\A h \in Callers : caller'[h].at <= clock) /\ \A t \in Open : Late(t)' \subseteq Late(t)
  BY TimeKept DEF QuotaInv, Step
<1>2. /\ clock \in Nat /\ clock \in Times /\ window \in Int /\ used \in Nat /\ used <= MaxPerMinute
      /\ caller[g].at \in Nat /\ caller[g].at <= clock /\ window' \in Int
      /\ used' \in Nat /\ used' <= MaxPerMinute
  BY Consts DEF TypeOK, Times, Caller, QuotaInv, PastInv
<1>3. /\ Window(g).used < MaxPerMinute
      /\ window' = Window(g).since /\ used' = Window(g).used + 1
      /\ IF caller[g].at - window >= Minute THEN window' = caller[g].at /\ used' = 1
         ELSE window' = window /\ used' = used + 1
  BY DEF Call, Window
<1>4. MaxPerMinute >= 1
  BY <1>3, WindowType, Consts
<1>5. /\ calls \in Seq(Times) /\ calls' = Append(calls, clock)
      /\ Len(calls) \in Nat /\ DOMAIN calls = 1 .. Len(calls)
  BY DEF Call, TypeOK
<1>6. PICK k : k = Len(calls) + 1
  OBVIOUS
<1>7. /\ DOMAIN calls' = DOMAIN calls \cup {k} /\ k \notin DOMAIN calls /\ calls'[k] = clock
      /\ \A n \in DOMAIN calls : calls'[n] = calls[n]
  BY <1>2, <1>5, <1>6
<1>8. PastInv'
  <2>1. window' <= clock
    BY <1>2, <1>3 DEF QuotaInv, PastInv
  <2>2. \A n \in DOMAIN calls' : calls'[n] <= clock
    BY <1>2, <1>7 DEF QuotaInv, PastInv
  <2> QED
    BY <1>1, <1>4, <2>1, <2>2 DEF PastInv
<1>9. Open' = Open
  BY <1>1 DEF Open
<1>10. ASSUME NEW t \in Open
       PROVE  /\ Bounded(t)'
              /\ Cardinality(In(t)') <= 2 * MaxPerMinute + Others
  <2>1. t \in Times /\ t \in Nat /\ t <= clock /\ clock < t + Minute
    BY DEF Open, Times
  <2>2. In(t)' = In(t) \cup {k} /\ k \notin In(t)
    BY <1>2, <1>7, <2>1 DEF In
  <2>3. PICK i : i = Cardinality(In(t)) /\ i \in Nat
    BY <2>1, CountTypes
  <2>4. Cardinality(In(t)') = i + 1
    BY <2>1, <2>2, <2>3, CountTypes, FS_AddElement
  <2>5. PICK l : l = Cardinality(Late(t)) /\ l \in Nat
    BY <2>1, CountTypes, OthersType
  <2>6. PICK l2 : l2 = Cardinality(Late(t)') /\ l2 \in Nat /\ l2 <= l
    BY <1>1, <2>1, <2>5, CountTypes, FS_Subset, FS_CardinalityType
  <2>7. ASSUME caller[g].at < t PROVE l2 + 1 <= l
    <3>1. g \in Late(t)
      BY <2>7 DEF Late, Call
    <3>2. caller'[g].pc = "calling"
      BY DEF Call, TypeOK, Caller
    <3>3. g \notin Late(t)'
      BY <3>2 DEF Late
    <3>4. Late(t)' \subseteq Late(t) \ {g}
      BY <1>1, <3>3
    <3>5. IsFiniteSet(Late(t) \ {g}) /\ Cardinality(Late(t) \ {g}) = l - 1
      BY <2>1, <2>5, <3>1, CountTypes, FS_RemoveElement
    <3> QED
      BY <2>5, <2>6, <3>4, <3>5, FS_Subset, FS_CardinalityType
  <2>8. /\ window <= t - Minute => i + l <= Others + 1
        /\ t - Minute < window /\ window < t => i <= used + Others
        /\ window >= t => i <= used + MaxPerMinute + Others
    BY <2>3, <2>5 DEF QuotaInv, Bounded
  <2>9. PICK o : o = Others /\ o \in Nat
    BY OthersType
  <2>10. /\ window' <= t - Minute => i + 1 + l2 <= o + 1
         /\ t - Minute < window' /\ window' < t => i + 1 <= used' + o
         /\ window' >= t => i + 1 <= used' + MaxPerMinute + o
         /\ i + 1 <= 2 * MaxPerMinute + o
    BY <1>2, <1>3, <2>1, <2>3, <2>5, <2>6, <2>7, <2>8, <2>9, OneMore, Consts
  <2>11. Cardinality(In(t))' = i + 1 /\ Cardinality(Late(t))' = l2
    BY <2>4, <2>6
  <2>12. Others' = o
    BY <2>9 DEF Others
  <2> QED
    BY <2>4, <2>9, <2>10, <2>11, <2>12 DEF Bounded
<1>11. QuotaHolds'
  <2> SUFFICES ASSUME NEW t \in Times PROVE Cardinality(In(t)') <= 2 * MaxPerMinute + Others
    BY DEF QuotaHolds, In, Others
  <2>1. CASE t \in Open
    BY <1>10, <2>1
  <2>2. CASE t \notin Open
    <3>1. ~(t <= clock /\ clock < t + Minute)
      BY <2>2 DEF Open
    <3>2. In(t)' = In(t)
      BY <1>7, <3>1 DEF In
    <3> QED
      BY <3>2 DEF QuotaInv, QuotaHolds, In, Others
  <2> QED
    BY <2>1, <2>2
<1> QED
  BY <1>8, <1>9, <1>10, <1>11 DEF QuotaInv

\* When time passes, a minute begins that has no calls yet.
LEMMA TickQuota == ASSUME TypeOK, TypeOK', QuotaInv, Tick PROVE QuotaInv'
<1>1. clock' = clock + 1 /\ UNCHANGED <<window, used, caller, calls>> /\ clock \in Nat /\ window \in Int
  BY Consts DEF Tick, TypeOK, Times
<1>2. \A n \in DOMAIN calls : calls[n] \in Nat
  <2>1. calls \in Seq(Times)
    BY DEF TypeOK
  <2> QED
    BY <2>1, Consts DEF Times
<1>3. \A h \in Callers : caller[h].at \in Nat
  BY DEF TypeOK, Caller, Times
<1>4. PastInv'
  BY <1>1, <1>2, <1>3 DEF QuotaInv, PastInv
<1>5. QuotaHolds'
  BY <1>1 DEF QuotaInv, QuotaHolds
<1>6. ASSUME NEW t \in Open' PROVE Bounded(t)'
  <2>1. t \in Times /\ t \in Nat /\ t <= clock + 1 /\ clock + 1 < t + Minute
    BY <1>1 DEF Open, Times
  <2>2. In(t)' = In(t) /\ Late(t)' = Late(t)
    BY <1>1 DEF In, Late
  <2>3. Bounded(t)' <=> Bounded(t)
    BY <1>1, <2>2 DEF Bounded, Others
  <2>4. CASE t <= clock
    <3>1. t \in Open
      BY <1>1, <2>1, <2>4, Consts DEF Open
    <3> QED
      BY <2>3, <3>1 DEF QuotaInv
  <2>5. CASE t > clock
    <3>1. In(t) = {}
      BY <1>1, <1>2, <2>1, <2>5 DEF In, QuotaInv, PastInv
    <3>2. Cardinality(In(t)) = 0
      BY <3>1, FS_EmptySet
    <3>3. Cardinality(Late(t)) \in 0 .. Others + 1
      BY <2>1, CountTypes
    <3>4. window < t /\ used \in Nat
      BY <1>1, <2>1, <2>5 DEF QuotaInv, PastInv, TypeOK
    <3> QED
      BY <1>1, <2>1, <2>3, <3>2, <3>3, <3>4, OthersType, Consts DEF Bounded
  <2> QED
    BY <1>1, <2>1, <2>4, <2>5
<1> QED
  BY <1>4, <1>5, <1>6 DEF QuotaInv

LEMMA NextQuotaInv == TypeOK /\ QuotaInv /\ [Next]_vars => QuotaInv'
<1> SUFFICES ASSUME TypeOK, QuotaInv, [Next]_vars PROVE QuotaInv'
  OBVIOUS
<1>0. TypeOK'
  BY TypeStep
<1>1. ASSUME NEW g \in Callers, Step(g) PROVE QuotaInv'
  BY <1>0, <1>1, NoCallQuota, CallQuota
<1>2. CASE Tick
  BY <1>0, <1>2, TickQuota
<1>3. CASE UNCHANGED vars
  BY <1>3 DEF vars, QuotaInv, PastInv, Open, Bounded, Others, In, Late, QuotaHolds
<1> QED
  BY <1>1, <1>2, <1>3 DEF Next, Step

-----------------------------------------------------------------------------
(* Theorems.                                                                *)

\* The invariant is inductive.
THEOREM IntelInvariant == Spec => []IInv
<1>1. IInv /\ [Next]_vars => IInv'
  BY TypeStep, EntryStep, StoringStep, LooksStep, OwedStep DEF IInv
<1> QED
  BY InitIInv, <1>1, PTL DEF Spec

\* Every variable keeps its type, and the cache never outgrows its limit (intel.go:216).
THEOREM IntelTypeOK == Spec => []TypeOK
BY IntelInvariant, PTL DEF IInv

\* An enriched event carries evidence that was current when it was looked up, and is ok only if
\* there is a recent answer about each of its indicators: for any number of goroutines that share
\* the cache, any limit and any feed.
THEOREM AnswerCurrentAlways == Spec => []AnswerCurrent
<1>1. IInv => AnswerCurrent
  <2> SUFFICES ASSUME IInv, NEW g \in Callers, caller[g].pc = "done"
               PROVE  /\ \A l \in caller[g].looks : Current(l)
                      /\ caller[g].status = "ok" =>
                            \A i \in caller[g].event : \E l \in caller[g].looks :
                                l.of = i /\ \E t \in answered[i] : l.at < t + TTL
    BY DEF AnswerCurrent
  <2>1. \A l \in caller[g].looks : Current(l) /\ Recent(l.of, l.at)
    BY DEF IInv, LooksInv, Evidence, Current
  <2>2. caller[g].status = "ok" =>
           \A i \in caller[g].event : \E l \in caller[g].looks : l.of = i
    BY DEF IInv, OwedInv, Owed
  <2> QED
    BY <2>1, <2>2 DEF Recent
<1> QED
  BY <1>1, IntelInvariant, PTL

\* Whatever the goroutines do between reading the time and taking the quota, and however long they
\* wait, the provider gets no more than two quotas in a minute, and one call for each of the other
\* goroutines (intel.go:182-193): for any quota, any minute and any number of goroutines.
THEOREM QuotaHoldsAlways == Spec => []QuotaHolds
<1>1. Init => TypeOK /\ QuotaInv
  BY InitIInv, InitQuotaInv DEF IInv
<1>2. TypeOK /\ QuotaInv /\ [Next]_vars => (TypeOK /\ QuotaInv)'
  BY TypeStep, NextQuotaInv
<1>3. QuotaInv => QuotaHolds
  BY DEF QuotaInv
<1> QED
  BY <1>1, <1>2, <1>3, PTL DEF Spec

=============================================================================
