------------------------- MODULE CorrelationProofs -------------------------
(***************************************************************************)
(* Proofs about Correlation, for any goroutines, events, entities and      *)
(* times, and any window, lateness and delay that CorrelationAssumption    *)
(* allows.  The main one is that no chain is missed.                       *)
(***************************************************************************)
EXTENDS CorrelationLoop, TLAPS, FiniteSetTheorems

\* A call of Process began at most MaxDelay ago, with an event that was neither too old
\* nor from the future then.
TxInv ==
    \A w \in Workers :
        /\ tx[w].pc # "matched" => tx[w].found = {}
        /\ tx[w].pc # "idle" =>
              /\ tx[w].event \in Events
              /\ tx[w].now <= clock /\ clock <= tx[w].now + MaxDelay
              /\ Time[tx[w].event] >= tx[w].now - Lateness
              /\ Time[tx[w].event] <= tx[w].now + Ahead

\* No two calls hold the lock of one entity.
LockInv ==
    \A v, w \in Workers :
        Holds(v) /\ Holds(w) /\ Entity[tx[v].event] = Entity[tx[w].event] => v = w

\* What a call is about to insert is still right and still new: nobody else inserts
\* findings of its entity.
FoundInv ==
    \A w \in Workers : tx[w].pc = "matched" =>
        /\ \A c \in tx[w].found : /\ IsChain(c.failures, c.success, c.end)
                                  /\ Entity[c.end] = Entity[tx[w].event]
                                  /\ \A f \in findings : f.end # c.end
        /\ \A c, d \in tx[w].found : c.end = d.end => c = d

\* The event counts as on time once it is committed.
OnTime(w) == tx[w].now + MaxDelay <= Time[tx[w].event] + Lateness

\* A call on time has found every chain its own event completes.
CompleteInv ==
    \A w \in Workers : tx[w].pc = "matched" /\ OnTime(w) =>
        \A end, s \in onTime \cup {tx[w].event} : \A F \in SUBSET (onTime \cup {tx[w].event}) :
            IsChain(F, s, end) /\ Entity[end] = Entity[tx[w].event]
                => \E c \in findings \cup tx[w].found : c.end = end

\* Only a call that began after the retention of an event purges it.
KeptInv ==
    /\ latest <= clock
    /\ \A e \in onTime : e \in stored \/ Time[e] + Retention < latest

\* An escalation has one finding.
Unique == \A c, d \in findings : c.end = d.end => c = d

IInv ==
    /\ TypeOK
    /\ TxInv /\ LockInv /\ FoundInv /\ CompleteInv /\ KeptInv
    /\ ChainsFound /\ EvidenceIsChain /\ RetentionBounds /\ Unique

----------------------------------------------------------------------------
(* The order of events, and what Match finds.                              *)

\* A finite set with a strict order has a maximal element.
LEMMA Maximal ==
  ASSUME NEW T, IsFiniteSet(T), T # {}, NEW R,
         \A x \in T : <<x, x>> \notin R,
         \A x, y, z \in T : <<x, y>> \in R /\ <<y, z>> \in R => <<x, z>> \in R
  PROVE  \E x \in T : \A y \in T : <<x, y>> \notin R
<1> DEFINE Above(x) == {y \in T : <<x, y>> \in R}
           A == {Above(x) : x \in T}
<1>0. \A x \in T : Above(x) \in SUBSET T /\ IsFiniteSet(Above(x))
  BY FS_Subset
<1>1. A \subseteq FiniteSubsetsOf(T) /\ A # {}
  <2>1. ASSUME NEW b \in A PROVE b \in SUBSET T /\ IsFiniteSet(b)
    <3>1. PICK x \in T : b = Above(x)
      OBVIOUS
    <3> QED
      BY <1>0, <3>1
  <2>2. PICK x : x \in T
    OBVIOUS
  <2>3. Above(x) \in A
    BY <2>2
  <2> HIDE DEF A
  <2> QED
    BY <2>1, <2>3 DEF FiniteSubsetsOf
<1>2. IsWellFoundedOn(StrictSubsetOrdering(T), FiniteSubsetsOf(T))
  BY FS_StrictSubsetOrderingWellFounded
<1> HIDE DEF A
<1>3. PICK a \in A : \A b \in A : ~ (<<b, a>> \in StrictSubsetOrdering(T))
  BY <1>1, <1>2, WFMin
<1>4. PICK x \in T : a = Above(x)
  BY DEF A
<1>5. SUFFICES ASSUME NEW y \in T, <<x, y>> \in R PROVE FALSE
  OBVIOUS
<1>6. Above(y) \in A
  BY DEF A
<1>7. Above(y) \subseteq Above(x) /\ y \in Above(x) /\ y \notin Above(y)
  BY <1>5
<1>8. <<Above(y), Above(x)>> \in StrictSubsetOrdering(T)
  BY <1>7 DEF StrictSubsetOrdering
<1> QED
  BY <1>3, <1>4, <1>6, <1>8

LEMMA EventType ==
  ASSUME CorrelationAssumption, NEW e \in Events
  PROVE  e \in Nat /\ Time[e] \in Nat
BY DEF CorrelationAssumption

LEMMA EarlierOrders ==
  ASSUME CorrelationAssumption, NEW e \in Events, NEW f \in Events, NEW g \in Events
  PROVE  /\ ~Earlier(e, e)
         /\ Earlier(e, f) /\ Earlier(f, g) => Earlier(e, g)
         /\ ~Earlier(e, f) /\ e # f => Earlier(f, e)
         /\ Earlier(e, f) => ~Earlier(f, e)
BY EventType DEF Earlier

LEMMA LastEvent ==
  ASSUME CorrelationAssumption, NEW T \in SUBSET Events, T # {}
  PROVE  \E x \in T : \A y \in T : ~Earlier(x, y)
<1> DEFINE R == {p \in T \X T : Earlier(p[1], p[2])}
<1>1. IsFiniteSet(T)
  BY FS_Subset DEF CorrelationAssumption
<1>2. \A x, y \in T : <<x, y>> \in R <=> Earlier(x, y)
  OBVIOUS
<1> HIDE DEF R
<1>3. /\ \A x \in T : <<x, x>> \notin R
      /\ \A x, y, z \in T : <<x, y>> \in R /\ <<y, z>> \in R => <<x, z>> \in R
  BY <1>2, EarlierOrders
<1>4. PICK x \in T : \A y \in T : <<x, y>> \notin R
  BY <1>1, <1>3, Maximal
<1> QED
  BY <1>2, <1>4

LEMMA FirstEvent ==
  ASSUME CorrelationAssumption, NEW T \in SUBSET Events, T # {}
  PROVE  \E x \in T : \A y \in T : ~Earlier(y, x)
<1> DEFINE R == {p \in T \X T : Earlier(p[2], p[1])}
<1>1. IsFiniteSet(T)
  BY FS_Subset DEF CorrelationAssumption
<1>2. \A x, y \in T : <<x, y>> \in R <=> Earlier(y, x)
  OBVIOUS
<1> HIDE DEF R
<1>3. /\ \A x \in T : <<x, x>> \notin R
      /\ \A x, y, z \in T : <<x, y>> \in R /\ <<y, z>> \in R => <<x, z>> \in R
  BY <1>2, EarlierOrders
<1>4. PICK x \in T : \A y \in T : <<x, y>> \notin R
  BY <1>1, <1>3, Maximal
<1> QED
  BY <1>2, <1>4

LEMMA FiniteCount ==
  ASSUME CorrelationAssumption, NEW T \in SUBSET Events, NEW U \in SUBSET T
  PROVE  /\ Cardinality(U) \in Nat /\ Cardinality(T) \in Nat
         /\ Cardinality(U) <= Cardinality(T)
<1>1. IsFiniteSet(T) /\ IsFiniteSet(U)
  BY FS_Subset DEF CorrelationAssumption
<1> QED
  BY <1>1, FS_Subset, FS_CardinalityType

\* Every chain Match reports is one.
LEMMA MatchSound ==
  ASSUME CorrelationAssumption, NEW S \in SUBSET Events, NEW c \in Match(S)
  PROVE  /\ c \in Chain /\ c.end \in S
         /\ c = ChainTo(S, c.end)
         /\ IsChain(c.failures, c.success, c.end)
<1>1. PICK end \in S : /\ Type[end] = "privilege_escalation" /\ Successes(S, end) # {}
                       /\ c = ChainTo(S, end)
  BY DEF Match
<1> DEFINE E == Evidence(S, end)
           U == Successes(S, end)
<1>2. /\ E \subseteq Events /\ U \subseteq E
      /\ \A e \in E : Entity[e] = Entity[end] /\ Time[end] - Window <= Time[e] /\ Time[e] < Time[end]
  BY DEF Evidence, Successes
<1>3. /\ c.end = end
      /\ c.failures = {f \in E : /\ Type[f] = "authentication_failure"
                                 /\ \A s \in U : Earlier(f, s)}
      /\ c.success = CHOOSE s \in U : \A r \in U : ~Earlier(s, r)
      /\ c = [end |-> end, failures |-> c.failures, success |-> c.success]
  BY <1>1 DEF ChainTo
<1>4. /\ c.success \in U
      /\ \A r \in U : ~Earlier(c.success, r)
  BY <1>1, <1>2, <1>3, LastEvent
<1>5. c \in Chain
  BY <1>2, <1>3, <1>4 DEF Chain
<1>6. PICK first \in U : \A r \in U : ~Earlier(r, first)
  BY <1>1, <1>2, FirstEvent
<1>7. FailedBefore(S, end, first) \subseteq c.failures
  <2>1. SUFFICES ASSUME NEW f \in FailedBefore(S, end, first), NEW s \in U
                 PROVE  Earlier(f, s)
    BY <1>3 DEF FailedBefore
  <2>2. f \in Events /\ s \in Events /\ first \in Events /\ Earlier(f, first)
    BY <1>2 DEF FailedBefore
  <2>3. s = first \/ Earlier(first, s)
    BY <1>6, <2>2, EarlierOrders
  <2> QED
    BY <2>2, <2>3, EarlierOrders
<1>8. Cardinality(c.failures) >= Failures
  <2>1. c.failures \subseteq Events
    BY <1>2, <1>3
  <2>2. /\ Cardinality(FailedBefore(S, end, first)) \in Nat
        /\ Cardinality(c.failures) \in Nat
        /\ Cardinality(FailedBefore(S, end, first)) <= Cardinality(c.failures)
    BY <1>7, <2>1, FiniteCount
  <2>3. Cardinality(FailedBefore(S, end, first)) >= Failures
    BY DEF Successes
  <2> QED
    BY <2>2, <2>3 DEF CorrelationAssumption
<1>9. Type[c.success] = "authentication_success"
  BY <1>4 DEF Successes
<1>10. \A f \in c.failures : Type[f] = "authentication_failure" /\ Earlier(f, c.success)
  BY <1>3, <1>4
<1>11. ASSUME NEW e \in c.failures \cup {c.success}
       PROVE  Entity[e] = Entity[end] /\ Time[e] < Time[end] /\ Time[e] + Window >= Time[end]
  <2>1. e \in E
    BY <1>2, <1>3, <1>4
  <2>2. Time[e] \in Nat /\ Time[end] \in Nat /\ Window \in Nat
    BY <1>2, <2>1, EventType DEF CorrelationAssumption
  <2>3. Entity[e] = Entity[end] /\ Time[end] - Window <= Time[e] /\ Time[e] < Time[end]
    BY <1>2, <2>1
  <2> QED
    BY <2>2, <2>3
<1>12. IsChain(c.failures, c.success, end)
  BY <1>1, <1>8, <1>9, <1>10, <1>11 DEF IsChain
<1> QED
  BY <1>1, <1>3, <1>5, <1>12

\* Match misses no chain among the events it is given.
LEMMA MatchComplete ==
  ASSUME CorrelationAssumption, NEW S \in SUBSET Events,
         NEW end \in S, NEW s \in S, NEW F \in SUBSET S, IsChain(F, s, end)
  PROVE  \E c \in Match(S) : c.end = end
<1>1. ASSUME NEW e \in F \cup {s} PROVE e \in Evidence(S, end)
  <2>1. Time[e] \in Nat /\ Time[end] \in Nat /\ Window \in Nat
    BY EventType DEF CorrelationAssumption
  <2>2. Entity[e] = Entity[end] /\ Time[e] < Time[end] /\ Time[e] + Window >= Time[end]
    BY DEF IsChain
  <2> QED
    BY <2>1, <2>2 DEF Evidence
<1>2. F \subseteq FailedBefore(S, end, s)
  BY <1>1 DEF IsChain, FailedBefore
<1>3. Cardinality(FailedBefore(S, end, s)) >= Failures
  <2>1. FailedBefore(S, end, s) \subseteq Events
    BY DEF FailedBefore, Evidence
  <2>2. /\ Cardinality(F) \in Nat /\ Cardinality(FailedBefore(S, end, s)) \in Nat
        /\ Cardinality(F) <= Cardinality(FailedBefore(S, end, s))
    BY <1>2, <2>1, FiniteCount
  <2> QED
    BY <2>2 DEF IsChain, CorrelationAssumption
<1>4. s \in Successes(S, end)
  BY <1>1, <1>3 DEF IsChain, Successes
<1>5. ChainTo(S, end) \in Match(S) /\ ChainTo(S, end).end = end
  BY <1>4 DEF Match, IsChain, ChainTo
<1> QED
  BY <1>5

----------------------------------------------------------------------------
(* Match and its loops (CorrelationLoop).                                  *)

LoopStart(end) == [end |-> end, failures |-> {}, success |-> NoEvent]

\* g is what the inner loop for end makes of each set of events of E.
IsLoop(g, end, E) ==
    g = [T \in SUBSET E |-> IF T = {} THEN LoopStart(end) ELSE Scan(g[T \ {Last(T)}], Last(T))]

LEMMA LastIs ==
  ASSUME CorrelationAssumption, NEW T \in SUBSET Events, T # {}
  PROVE  /\ Last(T) \in T
         /\ \A f \in T \ {Last(T)} : Earlier(f, Last(T))
         /\ \A e \in T : (\A f \in T \ {e} : Earlier(f, e)) => Last(T) = e
<1>1. Last(T) \in T /\ \A f \in T : ~Earlier(Last(T), f)
  BY LastEvent DEF Last
<1>2. \A f \in T \ {Last(T)} : Earlier(f, Last(T))
  BY <1>1, EarlierOrders
<1>3. \A e \in T : (\A f \in T \ {e} : Earlier(f, e)) => Last(T) = e
  BY <1>1
<1> QED
  BY <1>1, <1>2, <1>3

\* Of the sets of events with a fault there is one whose subsets have none.
LEMMA LeastSet ==
  ASSUME CorrelationAssumption, NEW E \in SUBSET Events, NEW Bad \in SUBSET (SUBSET E), Bad # {}
  PROVE  \E T \in Bad : \A U \in SUBSET T : U # T => U \notin Bad
<1>1. Bad \subseteq FiniteSubsetsOf(E)
  <2>1. ASSUME NEW T \in Bad PROVE IsFiniteSet(T)
    BY FS_Subset DEF CorrelationAssumption
  <2> QED
    BY <2>1 DEF FiniteSubsetsOf
<1>2. PICK T \in Bad : \A U \in Bad : ~(<<U, T>> \in StrictSubsetOrdering(E))
  BY <1>1, FS_StrictSubsetOrderingWellFounded, WFMin
<1>3. ASSUME NEW U \in SUBSET T, U # T PROVE U \notin Bad
  BY <1>2, <1>3 DEF StrictSubsetOrdering
<1> QED
  BY <1>3

\* The loop is defined: that over a set of events by those over its subsets.
LEMMA LoopExists ==
  ASSUME CorrelationAssumption, NEW end, NEW E \in SUBSET Events
  PROVE  \E g : IsLoop(g, end, E)
<1> DEFINE Bad == {T \in SUBSET E : ~\E g : IsLoop(g, end, T)}
<1>1. SUFFICES ASSUME Bad # {} PROVE FALSE
  OBVIOUS
<1>2. PICK T \in Bad : \A U \in SUBSET T : U # T => U \notin Bad
  <2>1. Bad \in SUBSET (SUBSET E)
    OBVIOUS
  <2> HIDE DEF Bad
  <2> QED
    BY <1>1, <2>1, LeastSet
<1>3. T \in SUBSET Events /\ ~\E g : IsLoop(g, end, T)
  OBVIOUS
<1>4. CASE T = {}
  <2>1. PICK g : g = [U \in SUBSET {} |-> LoopStart(end)]
    OBVIOUS
  <2>2. IsLoop(g, end, {})
    BY <2>1 DEF IsLoop
  <2> QED
    BY <1>3, <1>4, <2>2
<1>5. CASE T # {}
  <2>1. PICK e : e = Last(T)
    OBVIOUS
  <2>2. e \in T /\ \A f \in T \ {e} : Earlier(f, e)
    BY <1>3, <1>5, <2>1, LastIs
  <2>3. T \ {e} \in SUBSET T /\ T \ {e} # T
    BY <2>2
  <2>4. PICK h : IsLoop(h, end, T \ {e})
    BY <1>2, <2>3
  <2>5. h = [U \in SUBSET (T \ {e}) |->
                IF U = {} THEN LoopStart(end) ELSE Scan(h[U \ {Last(U)}], Last(U))]
    BY <2>4 DEF IsLoop
  <2>6. PICK g : g = [U \in SUBSET T |-> IF e \in U THEN Scan(h[U \ {e}], e) ELSE h[U]]
    OBVIOUS
  <2>7. ASSUME NEW U \in SUBSET T
        PROVE  g[U] = IF U = {} THEN LoopStart(end) ELSE Scan(g[U \ {Last(U)}], Last(U))
    <3>1. CASE e \in U
      <4>1. U # {} /\ U \in SUBSET Events /\ \A f \in U \ {e} : Earlier(f, e)
        BY <1>3, <2>2, <3>1
      <4>2. Last(U) = e
        BY <3>1, <4>1, LastIs
      <4>3. g[U] = Scan(h[U \ {e}], e) /\ g[U \ {e}] = h[U \ {e}]
        BY <2>6, <3>1
      <4> QED
        BY <4>1, <4>2, <4>3
    <3>2. CASE e \notin U
      <4>1. U \in SUBSET (T \ {e}) /\ g[U] = h[U]
        BY <2>6, <3>2
      <4>2. h[U] = IF U = {} THEN LoopStart(end) ELSE Scan(h[U \ {Last(U)}], Last(U))
        BY <2>5, <4>1
      <4>3. g[U \ {Last(U)}] = h[U \ {Last(U)}]
        BY <2>6, <3>2
      <4> QED
        BY <4>1, <4>2, <4>3
    <3> QED
      BY <3>1, <3>2
  <2>8. IsLoop(g, end, T)
    <3>1. g = [U \in SUBSET T |-> g[U]]
      BY <2>6
    <3> QED
      BY <2>7, <3>1 DEF IsLoop
  <2> QED
    BY <1>3, <2>8
<1> QED
  BY <1>4, <1>5

\* The successes in T that have enough failures before them.
Completing(T) ==
    {s \in T : /\ Type[s] = "authentication_success"
               /\ Cardinality({f \in T : Type[f] = "authentication_failure" /\ Earlier(f, s)})
                      >= Failures}

\* What the inner loop has found after the events T.
Result(end, T) ==
    [end      |-> end,
     failures |-> {f \in T : /\ Type[f] = "authentication_failure"
                             /\ \A s \in Completing(T) : Earlier(f, s)},
     success  |-> IF Completing(T) = {} THEN NoEvent ELSE Last(Completing(T))]

\* One round more.
LEMMA RoundResult ==
  ASSUME CorrelationAssumption, NEW end, NEW T \in SUBSET Events, T # {}
  PROVE  Scan(Result(end, T \ {Last(T)}), Last(T)) = Result(end, T)
<1>1. PICK e : e = Last(T)
  OBVIOUS
<1>2. PICK U : U = T \ {e}
  OBVIOUS
<1>3. /\ e \in T /\ e \in Events /\ U \in SUBSET Events /\ e \notin U /\ T = U \cup {e}
      /\ \A f \in U : Earlier(f, e) /\ ~Earlier(e, f)
      /\ ~Earlier(e, e)
  <2>1. e \in T /\ \A f \in T \ {e} : Earlier(f, e)
    BY <1>1, LastIs
  <2> QED
    BY <1>2, <2>1, EarlierOrders
<1> DEFINE Failed(V, s) == {f \in V : Type[f] = "authentication_failure" /\ Earlier(f, s)}
           C == Completing(U)
           R == Result(end, U)
           F == {f \in U : Type[f] = "authentication_failure" /\ \A s \in C : Earlier(f, s)}
\* The new event comes after the others, so it changes nothing about them.
<1>4. /\ \A s \in U : Failed(T, s) = Failed(U, s)
      /\ Failed(T, e) = {f \in U : Type[f] = "authentication_failure"}
  BY <1>3
<1>5. C \in SUBSET U /\ C \in SUBSET Events
  BY <1>3 DEF Completing
<1>6. R = [end |-> end, failures |-> F, success |-> IF C = {} THEN NoEvent ELSE Last(C)]
  BY DEF Result
<1>7. R.success = NoEvent <=> C = {}
  <2>1. C # {} => Last(C) \in Events
    BY <1>5, LastIs
  <2> QED
    BY <1>6, <2>1 DEF CorrelationAssumption
<1>8. Completing(T) = IF Type[e] = "authentication_success" /\ Cardinality(Failed(T, e)) >= Failures
                      THEN C \cup {e} ELSE C
  <2>1. Completing(T) = {s \in T : /\ Type[s] = "authentication_success"
                                   /\ Cardinality(Failed(T, s)) >= Failures}
    BY DEF Completing
  <2>2. C = {s \in U : /\ Type[s] = "authentication_success"
                       /\ Cardinality(Failed(U, s)) >= Failures}
    BY DEF Completing
  <2>3. C = {s \in U : /\ Type[s] = "authentication_success"
                       /\ Cardinality(Failed(T, s)) >= Failures}
    BY <1>4, <2>2
  <2> HIDE DEF Failed, C
  <2> QED
    BY <1>3, <2>1, <2>3
\* The failures the loop has counted are enough for e if and only if those before e are.
<1>9. ASSUME Type[e] = "authentication_success"
      PROVE  Cardinality(F) >= Failures <=> Cardinality(Failed(T, e)) >= Failures
  <2>1. CASE C = {}
    BY <1>4, <2>1
  <2>2. CASE C # {}
    <3>1. PICK s \in C : \A r \in C : ~Earlier(r, s)
      BY <1>5, <2>2, FirstEvent
    <3>2. s \in U /\ s \in Events /\ Cardinality(Failed(U, s)) >= Failures
      BY <1>5, <3>1 DEF Completing
    <3>3. Failed(U, s) \subseteq F
      <4> SUFFICES ASSUME NEW f \in Failed(U, s), NEW r \in C PROVE Earlier(f, r)
        OBVIOUS
      <4>1. f \in Events /\ r \in Events /\ Earlier(f, s) /\ (r = s \/ Earlier(s, r))
        BY <1>3, <1>5, <3>1, <3>2, EarlierOrders
      <4> QED
        BY <3>2, <4>1, EarlierOrders
    <3>4. F \subseteq Failed(T, e) /\ Failed(T, e) \in SUBSET Events /\ F \in SUBSET Events
      BY <1>3, <1>4
    <3> HIDE DEF Failed, F, C
    <3>5. /\ Cardinality(Failed(U, s)) <= Cardinality(F) /\ Cardinality(F) <= Cardinality(Failed(T, e))
          /\ Cardinality(Failed(U, s)) \in Nat /\ Cardinality(F) \in Nat
          /\ Cardinality(Failed(T, e)) \in Nat
      BY <3>3, <3>4, FiniteCount
    <3> QED
      BY <3>2, <3>5 DEF CorrelationAssumption
  <2> QED
    BY <2>1, <2>2
<1>10. Type[e] \in {"authentication_failure", "authentication_success", "privilege_escalation"}
  BY <1>3 DEF CorrelationAssumption
<1>11. Result(end, T) =
          [end |-> end,
           failures |-> {f \in T : /\ Type[f] = "authentication_failure"
                                   /\ \A s \in Completing(T) : Earlier(f, s)},
           success |-> IF Completing(T) = {} THEN NoEvent ELSE Last(Completing(T))]
  BY DEF Result
<1>12. Scan(R, e) = Result(end, T)
  <2>1. CASE Type[e] = "authentication_failure"
    <3>1. Completing(T) = C
      BY <1>8, <2>1
    <3>2. CASE C = {}
      <4>1. Scan(R, e) = [end |-> end, failures |-> F \cup {e}, success |-> NoEvent]
        <5>1. R = [end |-> end, failures |-> F, success |-> NoEvent]
          BY <1>6, <3>2
        <5> HIDE DEF R, F, C
        <5>2. Scan(R, e) = [R EXCEPT !.failures = @ \cup {e}]
          BY <2>1, <5>1 DEF Scan
        <5> QED
          BY <5>1, <5>2
      <4>2. {f \in T : Type[f] = "authentication_failure" /\ \A s \in C : Earlier(f, s)} = F \cup {e}
        BY <1>3, <2>1, <3>2
      <4> HIDE DEF F, C, R
      <4> QED
        BY <1>11, <3>1, <3>2, <4>1, <4>2
    <3>3. CASE C # {}
      <4>1. Scan(R, e) = R
        BY <1>7, <2>1, <3>3 DEF Scan
      <4>2. {f \in T : Type[f] = "authentication_failure" /\ \A s \in C : Earlier(f, s)} = F
        BY <1>3, <1>5, <3>3
      <4> HIDE DEF F, C, R
      <4> QED
        BY <1>6, <1>11, <3>1, <3>3, <4>1, <4>2
    <3> QED
      BY <3>2, <3>3
  <2>2. CASE Type[e] = "authentication_success" /\ Cardinality(F) >= Failures
    <3>1. Completing(T) = C \cup {e}
      BY <1>8, <1>9, <2>2
    <3>2. Scan(R, e) = [end |-> end, failures |-> F, success |-> e]
      BY <1>6, <2>2 DEF Scan
    <3>3. {f \in T : Type[f] = "authentication_failure" /\ \A s \in C \cup {e} : Earlier(f, s)} = F
      BY <1>3, <2>2
    <3>4. Last(C \cup {e}) = e
      <4>1. C \cup {e} \in SUBSET Events /\ \A f \in (C \cup {e}) \ {e} : Earlier(f, e)
        BY <1>3, <1>5
      <4> HIDE DEF C
      <4> QED
        BY <4>1, LastIs
    <3> HIDE DEF F, C, R
    <3> QED
      BY <1>11, <3>1, <3>2, <3>3, <3>4
  <2>3. CASE \/ Type[e] = "authentication_success" /\ ~(Cardinality(F) >= Failures)
             \/ Type[e] = "privilege_escalation"
    <3>1. Completing(T) = C
      BY <1>8, <1>9, <2>3
    <3>2. Scan(R, e) = R
      BY <1>6, <2>3 DEF Scan
    <3>3. {f \in T : Type[f] = "authentication_failure" /\ \A s \in C : Earlier(f, s)} = F
      BY <1>3, <2>3
    <3> HIDE DEF F, C, R
    <3> QED
      BY <1>6, <1>11, <3>1, <3>2, <3>3
  <2> QED
    BY <1>10, <2>1, <2>2, <2>3
<1> QED
  BY <1>1, <1>2, <1>12

\* The inner loop over any set of events.
LEMMA LoopResult ==
  ASSUME CorrelationAssumption, NEW end, NEW E \in SUBSET Events
  PROVE  Loop(end, E) = Result(end, E)
<1>1. PICK g : IsLoop(g, end, E) /\ Loop(end, E) = g[E]
  <2>1. Loop(end, E) = (CHOOSE g : IsLoop(g, end, E))[E]
    BY DEF Loop, MapThenFoldSet, IsLoop, LoopStart
  <2>2. \E g : IsLoop(g, end, E)
    BY LoopExists
  <2>3. IsLoop(CHOOSE g : IsLoop(g, end, E), end, E)
    BY <2>2, Zenon
  <2> QED
    BY <2>1, <2>3
<1>2. \A T \in SUBSET E :
         g[T] = IF T = {} THEN LoopStart(end) ELSE Scan(g[T \ {Last(T)}], Last(T))
  BY <1>1 DEF IsLoop
<1> DEFINE Bad == {T \in SUBSET E : g[T] # Result(end, T)}
<1>3. Bad = {}
  <2> SUFFICES ASSUME Bad # {} PROVE FALSE
    OBVIOUS
  <2>1. PICK T \in Bad : \A U \in SUBSET T : U # T => U \notin Bad
    <3>1. Bad \in SUBSET (SUBSET E)
      OBVIOUS
    <3> HIDE DEF Bad
    <3> QED
      BY <3>1, LeastSet
  <2>2. T \in SUBSET E /\ T \in SUBSET Events /\ g[T] # Result(end, T)
    BY <2>1
  <2>3. CASE T = {}
    <3>1. Completing({}) = {}
      BY DEF Completing
    <3>2. Result(end, {}) = LoopStart(end)
      BY <3>1 DEF Result, LoopStart
    <3> QED
      BY <1>2, <2>2, <2>3, <3>2
  <2>4. CASE T # {}
    <3>1. Last(T) \in T
      BY <2>2, <2>4, LastIs
    <3>2. g[T \ {Last(T)}] = Result(end, T \ {Last(T)})
      <4>1. T \ {Last(T)} \in SUBSET T /\ T \ {Last(T)} # T /\ T \ {Last(T)} \in SUBSET E
        BY <2>2, <3>1
      <4> QED
        BY <2>1, <4>1
    <3>3. g[T] = Result(end, T)
      BY <1>2, <2>2, <2>4, <3>2, RoundResult
    <3> QED
      BY <2>2, <3>3
  <2> QED
    BY <2>3, <2>4
<1> QED
  BY <1>1, <1>3

LEMMA ScannedIs ==
  ASSUME CorrelationAssumption, NEW S \in SUBSET Events, NEW end
  PROVE  /\ Scanned(S, end).success # NoEvent <=> Successes(S, end) # {}
         /\ Successes(S, end) # {} => Scanned(S, end) = ChainTo(S, end)
<1>1. PICK E : E = Evidence(S, end)
  OBVIOUS
<1>2. E \in SUBSET Events
  BY <1>1 DEF Evidence
<1>3. Scanned(S, end) = Result(end, E)
  BY <1>1, <1>2, LoopResult DEF Scanned
<1>4. Completing(E) = Successes(S, end)
  BY <1>1 DEF Completing, Successes, FailedBefore
<1>5. /\ Scanned(S, end).failures = {f \in E : /\ Type[f] = "authentication_failure"
                                               /\ \A s \in Successes(S, end) : Earlier(f, s)}
      /\ Scanned(S, end).success =
            IF Successes(S, end) = {} THEN NoEvent ELSE Last(Successes(S, end))
      /\ Scanned(S, end) = [end |-> end, failures |-> Scanned(S, end).failures,
                            success |-> Scanned(S, end).success]
  BY <1>3, <1>4 DEF Result
<1>6. Successes(S, end) # {} => Last(Successes(S, end)) \in Events
  <2>1. Successes(S, end) \in SUBSET Events
    BY <1>1, <1>2 DEF Successes
  <2> QED
    BY <2>1, LastIs
<1>7. Scanned(S, end).success # NoEvent <=> Successes(S, end) # {}
  BY <1>5, <1>6 DEF CorrelationAssumption
<1>8. Successes(S, end) # {} => Scanned(S, end) = ChainTo(S, end)
  BY <1>1, <1>5 DEF ChainTo, Last
<1> QED
  BY <1>7, <1>8

----------------------------------------------------------------------------
(* The effect of the steps.                                                *)

\* Call w goes on to record t; the other calls stay where they are.
Moves(w, t) ==
    /\ tx' = [tx EXCEPT ![w] = t]
    /\ t \in Tx
    /\ tx'[w] = t
    /\ \A v \in Workers : v # w => tx'[v] = tx[v]

LEMMA TxType ==
  ASSUME TypeOK, NEW w \in Workers
  PROVE  /\ tx[w] \in Tx
         /\ tx[w].pc \in {"idle", "begun", "locked", "matched"}
         /\ tx[w].event \in Events \cup {NoEvent}
         /\ tx[w].now \in Times
         /\ tx[w].found \subseteq Chain
<1>1. tx[w] \in Tx
  BY DEF TypeOK
<1> QED
  BY <1>1 DEF Tx

LEMMA IdleType ==
  ASSUME CorrelationAssumption
  PROVE  Idle \in Tx /\ Idle.pc = "idle" /\ Idle.found = {}
BY DEF Idle, Tx, Times, CorrelationAssumption

LEMMA Moved ==
  ASSUME TypeOK, NEW w \in Workers, NEW t \in Tx, tx' = [tx EXCEPT ![w] = t]
  PROVE  Moves(w, t) /\ tx' \in [Workers -> Tx]
BY DEF TypeOK, Moves

LEMMA ProcessEffect ==
  ASSUME CorrelationAssumption, TypeOK, NEW w \in Workers, NEW e \in Events, Process(w, e)
  PROVE  /\ Moves(w, [pc |-> "begun", event |-> e, now |-> clock, found |-> {}])
         /\ tx' \in [Workers -> Tx]
<1>1. [pc |-> "begun", event |-> e, now |-> clock, found |-> {}] \in Tx
  BY DEF Tx, TypeOK
<1> QED
  BY <1>1, Moved DEF Process

LEMMA LockEffect ==
  ASSUME TypeOK, NEW w \in Workers, Lock(w)
  PROVE  /\ tx' \in [Workers -> Tx]
         /\ tx'[w].pc = "locked" /\ tx'[w].event = tx[w].event /\ tx'[w].now = tx[w].now
         /\ tx[w].pc = "begun" /\ tx'[w].found = tx[w].found
         /\ \A v \in Workers : v # w => tx'[v] = tx[v]
<1> DEFINE t == [tx[w] EXCEPT !.pc = "locked"]
<1>1. tx[w] \in Tx
  BY TxType
<1>2. /\ t \in Tx /\ t.pc = "locked" /\ t.event = tx[w].event /\ t.now = tx[w].now
      /\ t.found = tx[w].found
  BY <1>1 DEF Tx
<1>3. tx' = [tx EXCEPT ![w] = t] /\ tx[w].pc = "begun"
  BY DEF Lock, TypeOK
<1> HIDE DEF t
<1> QED
  BY <1>2, <1>3, Moved DEF Moves

\* Among the chains of the entity, those without a finding.
LEMMA UnfoundFacts ==
  ASSUME CorrelationAssumption, NEW S \in SUBSET Events
  PROVE  /\ Unfound(S) \subseteq Chain
         /\ \A c \in Unfound(S) : /\ IsChain(c.failures, c.success, c.end) /\ c.end \in S
                                  /\ \A f \in findings : f.end # c.end
         /\ \A c, d \in Unfound(S) : c.end = d.end => c = d
<1>1. Unfound(S) \subseteq Match(S) /\ \A c \in Unfound(S) : \A f \in findings : f.end # c.end
  BY DEF Unfound
<1>2. \A c \in Match(S) : /\ c \in Chain /\ c.end \in S /\ c = ChainTo(S, c.end)
                          /\ IsChain(c.failures, c.success, c.end)
  BY MatchSound
<1>3. \A c, d \in Match(S) : c.end = d.end => c = d
  BY <1>2
<1> QED
  BY <1>1, <1>2, <1>3

LEMMA SeenType ==
  ASSUME TypeOK, TxInv, NEW w \in Workers, tx[w].pc # "idle"
  PROVE  /\ Seen(w) \in SUBSET Events
         /\ \A e \in Seen(w) : Entity[e] = Entity[tx[w].event]
BY DEF Seen, TypeOK, TxInv

LEMMA FindEffect ==
  ASSUME CorrelationAssumption, TypeOK, TxInv, NEW w \in Workers, Find(w)
  PROVE  /\ tx' \in [Workers -> Tx]
         /\ tx[w].pc = "locked"
         /\ tx'[w].pc = "matched" /\ tx'[w].event = tx[w].event /\ tx'[w].now = tx[w].now
         /\ tx'[w].found = Unfound(Seen(w))
         /\ \A v \in Workers : v # w => tx'[v] = tx[v]
<1>1. tx[w].pc = "locked" /\ tx[w] \in Tx
  BY TxType DEF Find
<1>2. PICK U : U = Unfound(Seen(w))
  OBVIOUS
<1>3. U \subseteq Chain
  BY <1>1, <1>2, SeenType, UnfoundFacts
<1> DEFINE t == [tx[w] EXCEPT !.pc = "matched", !.found = U]
<1>4. /\ t \in Tx
      /\ t.pc = "matched" /\ t.event = tx[w].event /\ t.now = tx[w].now /\ t.found = U
  BY <1>1, <1>3 DEF Tx
<1>5. tx' = [tx EXCEPT ![w] = t]
  BY <1>2 DEF Find, TypeOK
<1> HIDE DEF t
<1> QED
  BY <1>1, <1>2, <1>4, <1>5, Moved DEF Moves

\* A call that ends, with its commit or without.
LEMMA EndEffect ==
  ASSUME CorrelationAssumption, TypeOK, NEW w \in Workers, Commit(w) \/ Abort(w)
  PROVE  /\ tx' \in [Workers -> Tx]
         /\ tx[w].pc # "idle"
         /\ tx'[w].pc = "idle" /\ tx'[w].found = {}
         /\ \A v \in Workers : v # w => tx'[v] = tx[v]
<1>1. tx' = [tx EXCEPT ![w] = Idle] /\ tx[w].pc # "idle"
  BY DEF Commit, Abort
<1> QED
  BY <1>1, IdleType, Moved DEF Moves

\* What a commit does to the tables.
LEMMA CommitEffect ==
  ASSUME CorrelationAssumption, TypeOK, TxInv, NEW w \in Workers, Commit(w)
  PROVE  /\ tx[w].pc = "matched" /\ tx[w].event \in Events /\ tx[w].now \in Times
         /\ stored' = {e \in stored \cup {tx[w].event} : Time[e] >= tx[w].now - Retention}
         /\ findings' = findings \cup tx[w].found
         /\ OnTime(w) => onTime' = onTime \cup {tx[w].event}
         /\ ~OnTime(w) => onTime' = onTime
         /\ latest' \in {latest, tx[w].now} /\ latest <= latest' /\ tx[w].now <= latest'
         /\ clock' = clock
<1>1. tx[w].now \in Nat /\ latest \in Nat
  BY TxType DEF TypeOK, Times
<1>2. latest' \in {latest, tx[w].now} /\ latest <= latest' /\ tx[w].now <= latest'
  BY <1>1 DEF Commit
<1>3. tx[w].event \in Events /\ tx[w].now \in Times
  BY TxType DEF Commit, TxInv
<1> QED
  BY <1>2, <1>3 DEF Commit, OnTime

----------------------------------------------------------------------------
(* Each step preserves the invariant.                                      *)

LEMMA Cases ==
  ASSUME [Next]_vars
  PROVE  \/ UNCHANGED vars
         \/ Tick
         \/ \E w \in Workers, e \in Events : Process(w, e)
         \/ \E w \in Workers : Lock(w)
         \/ \E w \in Workers : Find(w)
         \/ \E w \in Workers : Commit(w)
         \/ \E w \in Workers : Abort(w)
BY DEF Next, WorkerStep

LEMMA NextType ==
  ASSUME CorrelationAssumption, TypeOK, TxInv, [Next]_vars
  PROVE  TypeOK'
<1>1. CASE UNCHANGED vars
  BY <1>1 DEF vars, TypeOK
<1>2. CASE Tick
  BY <1>2 DEF Tick, TypeOK, Times, CorrelationAssumption
<1>3. ASSUME NEW w \in Workers, NEW e \in Events, Process(w, e) PROVE TypeOK'
  BY <1>3, ProcessEffect DEF Process, TypeOK
<1>4. ASSUME NEW w \in Workers, Lock(w) PROVE TypeOK'
  BY <1>4, LockEffect DEF Lock, TypeOK
<1>5. ASSUME NEW w \in Workers, Find(w) PROVE TypeOK'
  BY <1>5, FindEffect DEF Find, TypeOK
<1>6. ASSUME NEW w \in Workers, Commit(w) PROVE TypeOK'
  <2>1. tx' \in [Workers -> Tx] /\ tx[w].found \subseteq Chain
    BY <1>6, EndEffect, TxType
  <2> QED
    BY <1>6, <2>1, CommitEffect DEF TypeOK
<1>7. ASSUME NEW w \in Workers, Abort(w) PROVE TypeOK'
  BY <1>7, EndEffect DEF Abort, TypeOK
<1> QED
  BY <1>1, <1>2, <1>3, <1>4, <1>5, <1>6, <1>7, Cases

LEMMA NextTxInv ==
  ASSUME CorrelationAssumption, TypeOK, TxInv, [Next]_vars
  PROVE  TxInv'
<1>1. CASE UNCHANGED vars
  BY <1>1 DEF vars, TxInv
<1>2. CASE Tick
  <2>1. ASSUME NEW w \in Workers, tx[w].pc # "idle"
        PROVE  tx[w].now <= clock' /\ clock' <= tx[w].now + MaxDelay
    <3>1. tx[w].now <= clock /\ clock < tx[w].now + MaxDelay /\ clock' = clock + 1
      BY <1>2, <2>1 DEF Tick, TxInv
    <3>2. tx[w].now \in Nat /\ clock \in Nat /\ MaxDelay \in Nat
      BY TxType DEF TypeOK, Times, CorrelationAssumption
    <3> QED
      BY <3>1, <3>2
  <2>2. tx' = tx
    BY <1>2 DEF Tick
  <2> QED
    BY <2>1, <2>2 DEF TxInv
<1>3. ASSUME NEW w \in Workers, NEW e \in Events, Process(w, e) PROVE TxInv'
  <2>1. Moves(w, [pc |-> "begun", event |-> e, now |-> clock, found |-> {}])
    BY <1>3, ProcessEffect
  <2>2. /\ clock' = clock /\ clock \in Nat /\ MaxDelay \in Nat
        /\ Time[e] >= clock - Lateness /\ Time[e] <= clock + Ahead
    BY <1>3 DEF Process, TypeOK, Times, CorrelationAssumption
  <2> QED
    BY <2>1, <2>2 DEF TxInv, Moves
<1>4. ASSUME NEW w \in Workers, Lock(w) PROVE TxInv'
  <2>1. tx[w].pc # "idle" /\ clock' = clock
    BY <1>4 DEF Lock
  <2> QED
    BY <1>4, <2>1, LockEffect DEF TxInv
<1>5. ASSUME NEW w \in Workers, Find(w) PROVE TxInv'
  <2>1. tx[w].pc # "idle" /\ clock' = clock
    BY <1>5 DEF Find
  <2> QED
    BY <1>5, <2>1, FindEffect DEF TxInv
<1>6. ASSUME NEW w \in Workers, Commit(w) \/ Abort(w) PROVE TxInv'
  <2>1. clock' = clock
    BY <1>6 DEF Commit, Abort
  <2> QED
    BY <1>6, <2>1, EndEffect DEF TxInv
<1> QED
  BY <1>1, <1>2, <1>3, <1>4, <1>5, <1>6, Cases

LEMMA NextLockInv ==
  ASSUME CorrelationAssumption, TypeOK, TxInv, LockInv, [Next]_vars
  PROVE  LockInv'
<1>1. CASE UNCHANGED vars \/ Tick
  BY <1>1 DEF vars, Tick, LockInv, Holds
<1>2. ASSUME NEW w \in Workers, \A v \in Workers : v # w => tx'[v] = tx[v], ~Holds(w)'
      PROVE  LockInv'
  BY <1>2 DEF LockInv, Holds
<1>3. ASSUME NEW w \in Workers, NEW e \in Events, Process(w, e) PROVE LockInv'
  <2>1. tx'[w] = [pc |-> "begun", event |-> e, now |-> clock, found |-> {}]
    BY <1>3, ProcessEffect DEF Moves
  <2>2. ~Holds(w)'
    BY <2>1 DEF Holds
  <2> QED
    BY <1>2, <1>3, <2>2, ProcessEffect DEF Moves
<1>4. ASSUME NEW w \in Workers, Lock(w) PROVE LockInv'
  <2>1. \A v \in Workers : Holds(v) => Entity[tx[v].event] # Entity[tx[w].event]
    BY <1>4 DEF Lock
  <2>2. tx'[w].event = tx[w].event /\ \A v \in Workers : v # w => tx'[v] = tx[v]
    BY <1>4, LockEffect
  <2> QED
    BY <2>1, <2>2 DEF LockInv, Holds
<1>5. ASSUME NEW w \in Workers, Find(w) PROVE LockInv'
  <2>1. /\ Holds(w) /\ tx'[w].event = tx[w].event
        /\ \A v \in Workers : v # w => tx'[v] = tx[v]
    BY <1>5, FindEffect DEF Holds
  <2> QED
    BY <2>1 DEF LockInv, Holds
<1>6. ASSUME NEW w \in Workers, Commit(w) \/ Abort(w) PROVE LockInv'
  BY <1>2, <1>6, EndEffect DEF Holds
<1> QED
  BY <1>1, <1>3, <1>4, <1>5, <1>6, Cases

LEMMA NextFoundInv ==
  ASSUME CorrelationAssumption, TypeOK, TxInv, LockInv, FoundInv, [Next]_vars
  PROVE  FoundInv'
<1>1. CASE UNCHANGED vars \/ Tick
  BY <1>1 DEF vars, Tick, FoundInv
\* A step that inserts no finding, of a call that does not hold the lock afterwards.
<1>2. ASSUME NEW w \in Workers, \A v \in Workers : v # w => tx'[v] = tx[v],
             tx'[w].pc # "matched", findings' = findings
      PROVE  FoundInv'
  BY <1>2 DEF FoundInv
<1>3. ASSUME NEW w \in Workers, NEW e \in Events, Process(w, e) PROVE FoundInv'
  <2>1. tx'[w] = [pc |-> "begun", event |-> e, now |-> clock, found |-> {}]
    BY <1>3, ProcessEffect DEF Moves
  <2>2. tx'[w].pc # "matched" /\ findings' = findings
    BY <1>3, <2>1 DEF Process
  <2> QED
    BY <1>2, <1>3, <2>2, ProcessEffect DEF Moves
<1>4. ASSUME NEW w \in Workers, Lock(w) PROVE FoundInv'
  <2>1. findings' = findings
    BY <1>4 DEF Lock
  <2> QED
    BY <1>2, <1>4, <2>1, LockEffect
<1>5. ASSUME NEW w \in Workers, Find(w) PROVE FoundInv'
  <2>1. /\ tx[w].pc = "locked"
        /\ tx'[w].event = tx[w].event /\ tx'[w].found = Unfound(Seen(w))
        /\ \A v \in Workers : v # w => tx'[v] = tx[v]
        /\ findings' = findings
    BY <1>5, FindEffect DEF Find
  <2>2. PICK U : U = Unfound(Seen(w))
    OBVIOUS
  <2>3. /\ \A c \in U : /\ IsChain(c.failures, c.success, c.end)
                        /\ Entity[c.end] = Entity[tx[w].event]
                        /\ \A f \in findings : f.end # c.end
        /\ \A c, d \in U : c.end = d.end => c = d
    BY <2>1, <2>2, SeenType, UnfoundFacts
  <2> QED
    BY <2>1, <2>2, <2>3 DEF FoundInv
<1>6. ASSUME NEW w \in Workers, Commit(w) PROVE FoundInv'
  <2>1. /\ tx'[w].pc = "idle" /\ \A v \in Workers : v # w => tx'[v] = tx[v]
        /\ tx[w].pc = "matched" /\ findings' = findings \cup tx[w].found
    BY <1>6, EndEffect, CommitEffect
  <2>2. ASSUME NEW v \in Workers, v # w, tx[v].pc = "matched",
               NEW c \in tx[v].found, NEW f \in tx[w].found
        PROVE  f.end # c.end
    <3>1. Entity[tx[v].event] # Entity[tx[w].event]
      BY <2>1, <2>2 DEF LockInv, Holds
    <3>2. Entity[c.end] = Entity[tx[v].event] /\ Entity[f.end] = Entity[tx[w].event]
      BY <2>1, <2>2 DEF FoundInv
    <3> QED
      BY <3>1, <3>2
  <2> QED
    BY <2>1, <2>2 DEF FoundInv
<1>7. ASSUME NEW w \in Workers, Abort(w) PROVE FoundInv'
  <2>1. tx'[w].pc # "matched" /\ findings' = findings
    BY <1>7, EndEffect DEF Abort
  <2> QED
    BY <1>2, <1>7, <2>1, EndEffect
<1> QED
  BY <1>1, <1>3, <1>4, <1>5, <1>6, <1>7, Cases

\* What a call on time needs for the chain its event completes has not been purged when
\* it queries: every purge so far belongs to a call that began before now.
LEMMA SeenWholeChain ==
  ASSUME CorrelationAssumption, TypeOK, TxInv, KeptInv, NEW w \in Workers, tx[w].pc # "idle",
         OnTime(w), NEW end \in onTime \cup {tx[w].event}, NEW s,
         NEW F, IsChain(F, s, end), tx[w].event \in F \cup {s, end},
         NEW g \in F \cup {s, end}, g \in onTime \cup {tx[w].event}
  PROVE  g \in Seen(w)
<1>1. PICK e : e = tx[w].event
  OBVIOUS
<1>2. e \in Events /\ g \in Events /\ end \in Events
  BY <1>1 DEF TxInv, TypeOK
<1>3. /\ Time[e] \in Nat /\ Time[g] \in Nat /\ Time[end] \in Nat
      /\ tx[w].now \in Nat /\ clock \in Nat /\ latest \in Nat
      /\ Window \in Nat /\ Lateness \in Nat /\ MaxDelay \in Nat
      /\ Retention = Lateness + Window
  BY <1>2, EventType, TxType DEF TypeOK, Times, CorrelationAssumption
<1>4. Entity[g] = Entity[e]
  BY <1>1 DEF IsChain
<1>5. Time[e] <= Time[end] /\ Time[g] + Window >= Time[end]
  BY <1>1, <1>3 DEF IsChain
<1>6. /\ tx[w].now + MaxDelay <= Time[e] + Lateness
      /\ clock <= tx[w].now + MaxDelay /\ latest <= clock
  BY <1>1 DEF OnTime, TxInv, KeptInv
<1>7. Time[g] + Retention >= latest /\ Time[g] >= tx[w].now - Retention
  BY <1>3, <1>5, <1>6
<1>8. g \in stored \/ g = e
  BY <1>1, <1>3, <1>7 DEF KeptInv
<1> QED
  BY <1>1, <1>4, <1>7, <1>8 DEF Seen

LEMMA NextCompleteInv ==
  ASSUME CorrelationAssumption, TypeOK, TxInv, LockInv, FoundInv, CompleteInv, KeptInv,
         ChainsFound, [Next]_vars
  PROVE  CompleteInv'
<1>1. CASE UNCHANGED vars \/ Tick
  BY <1>1 DEF vars, Tick, CompleteInv, OnTime
<1>2. ASSUME NEW w \in Workers, \A v \in Workers : v # w => tx'[v] = tx[v],
             tx'[w].pc # "matched", findings' = findings, onTime' = onTime
      PROVE  CompleteInv'
  BY <1>2 DEF CompleteInv, OnTime
<1>3. ASSUME NEW w \in Workers, NEW e \in Events, Process(w, e) PROVE CompleteInv'
  <2>1. tx'[w] = [pc |-> "begun", event |-> e, now |-> clock, found |-> {}]
    BY <1>3, ProcessEffect DEF Moves
  <2>2. tx'[w].pc # "matched" /\ findings' = findings /\ onTime' = onTime
    BY <1>3, <2>1 DEF Process
  <2> QED
    BY <1>2, <1>3, <2>2, ProcessEffect DEF Moves
<1>4. ASSUME NEW w \in Workers, Lock(w) PROVE CompleteInv'
  <2>1. findings' = findings /\ onTime' = onTime
    BY <1>4 DEF Lock
  <2> QED
    BY <1>2, <1>4, <2>1, LockEffect
<1>5. ASSUME NEW w \in Workers, Find(w) PROVE CompleteInv'
  <2>1. /\ tx[w].pc = "locked"
        /\ tx'[w].event = tx[w].event /\ tx'[w].now = tx[w].now
        /\ tx'[w].found = Unfound(Seen(w))
        /\ \A v \in Workers : v # w => tx'[v] = tx[v]
        /\ findings' = findings /\ onTime' = onTime
    BY <1>5, FindEffect DEF Find
  <2>2. ASSUME OnTime(w),
               NEW end \in onTime \cup {tx[w].event}, NEW s \in onTime \cup {tx[w].event},
               NEW F \in SUBSET (onTime \cup {tx[w].event}), IsChain(F, s, end)
        PROVE  \E c \in findings \cup Unfound(Seen(w)) : c.end = end
    <3>1. CASE tx[w].event \notin F \cup {s, end}
      BY <2>2, <3>1 DEF ChainsFound
    <3>2. CASE tx[w].event \in F \cup {s, end}
      <4>1. F \cup {s, end} \subseteq Seen(w)
        BY <2>1, <2>2, <3>2, SeenWholeChain
      <4>2. Seen(w) \in SUBSET Events
        BY <2>1, SeenType
      <4>3. \E c \in Match(Seen(w)) : c.end = end
        BY <2>2, <4>1, <4>2, MatchComplete
      <4> QED
        BY <4>3 DEF Unfound
    <3> QED
      BY <3>1, <3>2
  <2>3. SUFFICES ASSUME NEW v \in Workers, tx'[v].pc = "matched", OnTime(v)',
                        NEW end \in onTime \cup {tx'[v].event},
                        NEW s \in onTime \cup {tx'[v].event},
                        NEW F \in SUBSET (onTime \cup {tx'[v].event}),
                        IsChain(F, s, end), Entity[end] = Entity[tx'[v].event]
                 PROVE  \E c \in findings \cup tx'[v].found : c.end = end
    BY <2>1 DEF CompleteInv
  <2>4. CASE v = w
    <3>1. OnTime(w)
      BY <2>1, <2>3, <2>4 DEF OnTime
    <3> QED
      BY <2>1, <2>2, <2>3, <2>4, <3>1
  <2>5. CASE v # w
    <3>1. tx'[v] = tx[v]
      BY <2>1, <2>5
    <3>2. OnTime(v)
      BY <2>3, <3>1 DEF OnTime
    <3> QED
      BY <2>3, <3>1, <3>2 DEF CompleteInv
  <2> QED
    BY <2>4, <2>5
<1>6. ASSUME NEW w \in Workers, Commit(w) PROVE CompleteInv'
  <2>1. /\ tx'[w].pc = "idle" /\ \A v \in Workers : v # w => tx'[v] = tx[v]
        /\ tx[w].pc = "matched"
        /\ findings \subseteq findings'
        /\ onTime' \subseteq onTime \cup {tx[w].event}
    BY <1>6, EndEffect, CommitEffect
  <2>2. SUFFICES ASSUME NEW v \in Workers, v # w, tx[v].pc = "matched", OnTime(v),
                        NEW end \in onTime' \cup {tx[v].event},
                        NEW s \in onTime' \cup {tx[v].event},
                        NEW F \in SUBSET (onTime' \cup {tx[v].event}),
                        IsChain(F, s, end), Entity[end] = Entity[tx[v].event]
                 PROVE  \E c \in findings' \cup tx[v].found : c.end = end
    BY <2>1 DEF CompleteInv, OnTime
  <2>3. Entity[tx[w].event] # Entity[tx[v].event]
    BY <2>1, <2>2 DEF LockInv, Holds
  <2>4. \A g \in F \cup {s, end} : Entity[g] = Entity[tx[v].event]
    BY <2>2 DEF IsChain
  <2>5. F \cup {s, end} \subseteq onTime \cup {tx[v].event}
    BY <2>1, <2>3, <2>4
  <2>6. \E c \in findings \cup tx[v].found : c.end = end
    BY <2>2, <2>5 DEF CompleteInv
  <2> QED
    BY <2>1, <2>6
<1>7. ASSUME NEW w \in Workers, Abort(w) PROVE CompleteInv'
  <2>1. tx'[w].pc # "matched" /\ findings' = findings /\ onTime' = onTime
    BY <1>7, EndEffect DEF Abort
  <2> QED
    BY <1>2, <1>7, <2>1, EndEffect
<1> QED
  BY <1>1, <1>3, <1>4, <1>5, <1>6, <1>7, Cases

LEMMA NextKeptInv ==
  ASSUME CorrelationAssumption, TypeOK, TxInv, KeptInv, [Next]_vars
  PROVE  KeptInv'
<1>1. CASE UNCHANGED <<stored, onTime, latest>> /\ (clock' = clock \/ Tick)
  BY <1>1 DEF KeptInv, Tick, TypeOK, Times
<1>2. ASSUME NEW w \in Workers, Commit(w) PROVE KeptInv'
  <2>1. /\ tx[w].event \in Events /\ tx[w].now \in Times
        /\ stored' = {e \in stored \cup {tx[w].event} : Time[e] >= tx[w].now - Retention}
        /\ onTime' \subseteq onTime \cup {tx[w].event}
        /\ latest' \in {latest, tx[w].now} /\ latest <= latest' /\ tx[w].now <= latest'
        /\ clock' = clock
    BY <1>2, CommitEffect
  <2>2. latest' <= clock'
    <3>1. tx[w].pc # "idle"
      BY <1>2 DEF Commit
    <3> QED
      BY <2>1, <3>1 DEF KeptInv, TxInv
  <2>3. ASSUME NEW e \in onTime' PROVE e \in stored' \/ Time[e] + Retention < latest'
    <3>1. e \in Events
      BY <2>1 DEF TypeOK
    <3>2. /\ Time[e] \in Nat /\ Retention \in Nat
          /\ tx[w].now \in Nat /\ latest \in Nat /\ latest' \in Nat
      BY <2>1, <3>1, EventType DEF TypeOK, Times, CorrelationAssumption
    <3>3. e \in stored \cup {tx[w].event} \/ Time[e] + Retention < latest
      BY <2>1 DEF KeptInv
    <3>4. CASE Time[e] + Retention < latest
      BY <2>1, <3>2, <3>4
    <3>5. CASE e \in stored \cup {tx[w].event} /\ Time[e] >= tx[w].now - Retention
      BY <2>1, <3>5
    <3>6. CASE e \in stored \cup {tx[w].event} /\ ~(Time[e] >= tx[w].now - Retention)
      BY <2>1, <3>2, <3>6
    <3> QED
      BY <3>3, <3>4, <3>5, <3>6
  <2> QED
    BY <2>2, <2>3 DEF KeptInv
<1> QED
  BY <1>1, <1>2, Cases DEF vars, Process, Lock, Find, Abort, Tick

LEMMA NextRetention ==
  ASSUME CorrelationAssumption, TypeOK, TxInv, KeptInv, RetentionBounds, [Next]_vars
  PROVE  RetentionBounds'
<1>0. /\ clock \in Nat /\ latest \in Nat /\ Ahead \in Nat /\ Retention \in Nat
      /\ Lateness \in Nat /\ Window \in Nat /\ MaxDelay \in Nat
      /\ Retention = Lateness + Window /\ MaxDelay <= Window
  BY DEF TypeOK, Times, CorrelationAssumption
<1>1. CASE UNCHANGED <<stored, latest>> /\ (clock' = clock \/ Tick)
  <2>1. \A e \in stored : Time[e] \in Nat
    BY EventType DEF TypeOK
  <2>2. clock' \in Nat /\ clock <= clock'
    BY <1>0, <1>1 DEF Tick
  <2> QED
    BY <1>0, <1>1, <2>1, <2>2 DEF RetentionBounds
<1>2. ASSUME NEW w \in Workers, Commit(w) PROVE RetentionBounds'
  <2>1. /\ tx[w].pc # "idle" /\ tx[w].event \in Events /\ tx[w].now \in Nat
        /\ stored' = {e \in stored \cup {tx[w].event} : Time[e] >= tx[w].now - Retention}
        /\ latest' \in {latest, tx[w].now}
        /\ clock' = clock
    BY <1>2, CommitEffect DEF Times
  <2>2. SUFFICES ASSUME NEW e \in stored'
                 PROVE  Time[e] + Retention >= latest' /\ Time[e] <= clock' + Ahead
    BY DEF RetentionBounds
  <2>3. e \in stored \cup {tx[w].event} /\ Time[e] >= tx[w].now - Retention
    BY <2>1
  <2>4. e \in Events /\ Time[e] \in Nat
    BY <2>1, <2>3, EventType DEF TypeOK
  <2>5. CASE e \in stored
    BY <1>0, <2>1, <2>3, <2>4, <2>5 DEF RetentionBounds
  <2>6. CASE e = tx[w].event
    <3>1. /\ tx[w].now <= clock /\ clock <= tx[w].now + MaxDelay /\ latest <= clock
          /\ Time[e] >= tx[w].now - Lateness /\ Time[e] <= tx[w].now + Ahead
      BY <2>1, <2>6 DEF TxInv, KeptInv
    <3> QED
      BY <1>0, <2>1, <2>4, <3>1
  <2> QED
    BY <2>3, <2>5, <2>6
<1> QED
  BY <1>1, <1>2, Cases DEF vars, Process, Lock, Find, Abort, Tick

LEMMA NextChainsFound ==
  ASSUME CorrelationAssumption, TypeOK, TxInv, CompleteInv, ChainsFound, [Next]_vars
  PROVE  ChainsFound'
<1>1. CASE UNCHANGED <<findings, onTime>>
  BY <1>1 DEF ChainsFound
<1>2. ASSUME NEW w \in Workers, Commit(w) PROVE ChainsFound'
  <2>1. /\ tx[w].pc = "matched" /\ findings' = findings \cup tx[w].found
        /\ OnTime(w) => onTime' = onTime \cup {tx[w].event}
        /\ ~OnTime(w) => onTime' = onTime
    BY <1>2, CommitEffect
  <2>2. SUFFICES ASSUME NEW end \in onTime', NEW s \in onTime', NEW F \in SUBSET onTime',
                        IsChain(F, s, end)
                 PROVE  \E c \in findings' : c.end = end
    BY DEF ChainsFound
  <2>3. CASE end \in onTime /\ s \in onTime /\ F \subseteq onTime
    BY <2>1, <2>2, <2>3 DEF ChainsFound
  <2>4. CASE tx[w].event \in F \cup {s, end} /\ OnTime(w)
    <3>1. Entity[end] = Entity[tx[w].event]
      BY <2>2, <2>4 DEF IsChain
    <3> QED
      BY <2>1, <2>2, <2>4, <3>1 DEF CompleteInv
  <2> QED
    BY <2>1, <2>2, <2>3, <2>4
<1> QED
  BY <1>1, <1>2, Cases DEF vars, Process, Lock, Find, Abort, Tick

LEMMA NextFindings ==
  ASSUME CorrelationAssumption, TypeOK, TxInv, FoundInv, EvidenceIsChain, Unique, [Next]_vars
  PROVE  EvidenceIsChain' /\ Unique'
<1>1. CASE UNCHANGED findings
  BY <1>1 DEF EvidenceIsChain, Unique
<1>2. ASSUME NEW w \in Workers, Commit(w) PROVE EvidenceIsChain' /\ Unique'
  <2>1. tx[w].pc = "matched" /\ findings' = findings \cup tx[w].found
    BY <1>2, CommitEffect
  <2> QED
    BY <2>1 DEF FoundInv, EvidenceIsChain, Unique
<1> QED
  BY <1>1, <1>2, Cases DEF vars, Process, Lock, Find, Abort, Tick

----------------------------------------------------------------------------
(* The theorems.                                                           *)

LEMMA InitIInv == ASSUME CorrelationAssumption, Init PROVE IInv
<1>1. \A w \in Workers : tx[w].pc = "idle" /\ tx[w].found = {}
  BY IdleType DEF Init
<1>2. TypeOK
  BY IdleType DEF Init, TypeOK, Times, CorrelationAssumption
<1>3. TxInv /\ LockInv /\ FoundInv /\ CompleteInv
  BY <1>1 DEF TxInv, LockInv, Holds, FoundInv, CompleteInv
<1>4. KeptInv /\ ChainsFound /\ EvidenceIsChain /\ RetentionBounds /\ Unique
  BY DEF Init, KeptInv, ChainsFound, EvidenceIsChain, RetentionBounds, Unique
<1> QED
  BY <1>2, <1>3, <1>4 DEF IInv

LEMMA NextIInv == ASSUME CorrelationAssumption, IInv, [Next]_vars PROVE IInv'
<1> USE DEF IInv
<1>1. TypeOK' /\ TxInv' /\ LockInv'
  BY NextType, NextTxInv, NextLockInv
<1>2. FoundInv' /\ CompleteInv' /\ KeptInv'
  BY NextFoundInv, NextCompleteInv, NextKeptInv
<1>3. ChainsFound' /\ RetentionBounds'
  BY NextChainsFound, NextRetention
<1>4. EvidenceIsChain' /\ Unique'
  BY NextFindings
<1> QED
  BY <1>1, <1>2, <1>3, <1>4

\* IInv is an inductive invariant of the calls of Process.
THEOREM Invariance == Spec => []IInv
<1>1. Init => IInv
  BY InitIInv, CorrelationAssumption
<1>2. IInv /\ [Next]_vars => IInv'
  BY NextIInv, CorrelationAssumption
<1> QED
  BY <1>1, <1>2, PTL DEF Spec

\* Rows, findings and transactions keep their types: what Match reports is made of the
\* events it was given.
THEOREM TypeCorrect == Spec => []TypeOK
<1>1. IInv => TypeOK
  BY DEF IInv
<1> QED
  BY <1>1, Invariance, PTL

\* No chain is missed: whatever the order of the events and however many goroutines
\* process them, an escalation has its finding once its chain was committed on time
\* (correlation.go:66-157).
THEOREM Complete == Spec => []ChainsFound
<1>1. IInv => ChainsFound
  BY DEF IInv
<1> QED
  BY <1>1, Invariance, PTL

\* The evidence of every finding is a chain of events (correlation.go:31-65).
THEOREM Sound == Spec => []EvidenceIsChain
<1>1. IInv => EvidenceIsChain
  BY DEF IInv
<1> QED
  BY <1>1, Invariance, PTL

\* An escalation has one finding, and no commit fails because another call inserted it
\* first (correlation.go:88-134).
THEOREM FoundOnce == Spec => []OneFinding
<1>1. IInv => OneFinding
  <2>1. ASSUME IInv, NEW w \in Workers PROVE ~Conflicts(w)
    <3>1. CASE tx[w].pc = "matched"
      BY <2>1, <3>1 DEF IInv, FoundInv, Conflicts
    <3>2. CASE tx[w].pc # "matched"
      BY <2>1, <3>2 DEF IInv, TxInv, Conflicts
    <3> QED
      BY <3>1, <3>2
  <2> QED
    BY <2>1 DEF IInv, Unique, OneFinding
<1> QED
  BY <1>1, Invariance, PTL

\* What is stored stays within the retention before the latest call that committed, in
\* whatever order calls commit (correlation.go:79-87, 154).
THEOREM Bounded == Spec => []RetentionBounds
<1>1. IInv => RetentionBounds
  BY DEF IInv
<1> QED
  BY <1>1, Invariance, PTL

\* Match is what the two loops of the code compute, for any set of events, in which several may
\* have one time and several successes follow one another (correlation.go:31-65).
THEOREM LoopsFindMatch ==
    ASSUME NEW S \in SUBSET Events PROVE ScanAll(S) = Match(S)
<1> DEFINE Ends == {e \in S : Type[e] = "privilege_escalation"}
<1>1. /\ \A end : Scanned(S, end).success # NoEvent <=> Successes(S, end) # {}
      /\ \A end : Successes(S, end) # {} => Scanned(S, end) = ChainTo(S, end)
  BY ScannedIs, CorrelationAssumption
<1>2. ScanAll(S) = {c \in {Scanned(S, end) : end \in Ends} : c.success # NoEvent}
  BY DEF ScanAll
<1>3. Match(S) = {ChainTo(S, end) : end \in {e \in Ends : Successes(S, e) # {}}}
  BY DEF Match
<1> HIDE DEF Ends
<1>4. ASSUME NEW c \in ScanAll(S) PROVE c \in Match(S)
  BY <1>1, <1>2, <1>3
<1>5. ASSUME NEW c \in Match(S) PROVE c \in ScanAll(S)
  BY <1>1, <1>2, <1>3
<1> QED
  BY <1>4, <1>5

\* So they agree on whatever a transaction finds (correlation.go:31-65, 110-124).
THEOREM FindsWhatLoopsFind == Spec => []MatchIsScan
<1>1. IInv => MatchIsScan
  <2> SUFFICES ASSUME IInv, NEW w \in Workers, tx[w].pc = "locked"
               PROVE  ScanAll(Seen(w)) = Match(Seen(w))
    BY DEF MatchIsScan
  <2>1. Seen(w) \in SUBSET Events
    BY SeenType, CorrelationAssumption DEF IInv
  <2> QED
    BY <2>1, LoopsFindMatch
<1> QED
  BY <1>1, Invariance, PTL

=============================================================================
