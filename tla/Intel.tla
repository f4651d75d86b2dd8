------------------------------- MODULE Intel -------------------------------
(***************************************************************************)
(* Enrichment of events with threat intelligence                           *)
(* (backend/internal/intel/intel.go).  The parser and the retry goroutine  *)
(* of a backend (backend/cmd/api/main.go:113-120) share one Enricher: its  *)
(* cache, its negative cache and its quota per minute.  The cache is read, *)
(* and the quota taken, in one critical section; the provider is asked     *)
(* outside of it; and the answer is stored in another one.  All of it uses *)
(* the time that was read before the first.                                *)
(***************************************************************************)
EXTENDS Integers, Sequences, FiniteSets, FiniteSetsExt

CONSTANTS
    Callers,        \* goroutines that enrich events
    Indicators,
    Private,        \* indicators that are addresses nobody is asked about
    Feed,           \* observations the provider may answer with
    CacheLimit,     \* 4096
    MaxPerMinute,   \* 120
    Minute,
    TTL,            \* 5 minutes
    NegativeTTL,    \* 5 seconds
    Timeout,        \* 500 ms, for all look-ups of one event
    MaxClock,       \* bound: time observed
    MaxEvents       \* bound: events enriched

\* covers      what the observation is about: an address prefix covers several
\* attributed  it names its source and its licence
Observation == [covers : SUBSET Indicators, updated : Nat, expires : Nat, attributed : BOOLEAN]

ASSUME IntelAssumption ==
    /\ Callers # {} /\ IsFiniteSet(Callers)
    /\ Indicators # {} /\ IsFiniteSet(Indicators) /\ Private \subseteq Indicators
    /\ Feed \subseteq Observation
    /\ CacheLimit \in Nat \ {0} /\ MaxPerMinute \in Nat /\ Minute \in Nat \ {0}
    /\ TTL \in Nat \ {0} /\ NegativeTTL \in Nat /\ Timeout \in Nat
    /\ MaxClock \in Nat /\ MaxEvents \in Nat

VARIABLES
    clock,
    cache,     \* cache[i]: the entry of indicator i, or NoEntry
    window,    \* when the window of the quota began
    used,      \* calls of that window
    caller,    \* caller[g]: the event goroutine g enriches, and how far it is
    events,    \* events so far
    answered,  \* history: answered[i]: when calls about i began that were answered
    calls      \* history: when each call of the provider began

vars == <<clock, cache, window, used, caller, events, answered, calls>>

Times   == 0 .. MaxClock
Status  == {"ok", "non_public", "quota_exceeded", "unavailable"}
Entry   == [found : SUBSET Feed, until : Nat, status : {"ok", "unavailable"}]
NoEntry == [found |-> {}, until |-> 0, status |-> "none"]

\* A look-up that was ok.
Look == [of : Indicators, at : Times, found : SUBSET Feed]

\* todo      indicators that are left
\* of, at    the look-up under way, and the time it has read
\* found     what the provider's answer has that counts, and result: with or without an error
\* event     history: the indicators of the event
\* looks     history: the look-ups of the event that were ok
Caller == [pc : {"idle", "next", "locked", "calling", "storing", "done"},
           event : SUBSET Indicators, todo : SUBSET Indicators,
           deadline : Nat, of : Indicators, at : Times, found : SUBSET Feed,
           result : {"ok", "unavailable"}, looks : SUBSET Look, status : Status]

Fresh == [pc |-> "idle", event |-> {}, todo |-> {}, deadline |-> 0, of |-> CHOOSE i \in Indicators : TRUE,
          at |-> 0, found |-> {}, result |-> "ok", looks |-> {}, status |-> "ok"]

Cached == {i \in Indicators : cache[i] # NoEntry}

\* The cache is thrown away before it outgrows its limit (intel.go:216-218).
TypeOK ==
    /\ clock \in Times
    /\ cache \in [Indicators -> Entry \cup {NoEntry}] /\ Cardinality(Cached) <= CacheLimit
    /\ window \in Times \cup {-Minute} /\ used \in 0 .. MaxPerMinute
    /\ caller \in [Callers -> Caller]
    /\ events \in 0 .. MaxEvents
    /\ answered \in [Indicators -> SUBSET Times] /\ calls \in Seq(Times)

\* The zero time of a new Enricher is longer ago than any minute.
Init ==
    /\ clock = 0 /\ cache = [i \in Indicators |-> NoEntry]
    /\ window = -Minute /\ used = 0
    /\ caller = [g \in Callers |-> Fresh] /\ events = 0
    /\ answered = [i \in Indicators |-> {}] /\ calls = <<>>

-----------------------------------------------------------------------------

Tick ==
    /\ clock < MaxClock /\ clock' = clock + 1
    /\ UNCHANGED <<cache, window, used, caller, events, answered, calls>>

\* What Extract may find in an event.
Extracted == SUBSET Indicators

\* An event with the indicators S: the budget for all of them begins.
Enrich(g) ==
    /\ caller[g].pc \in {"idle", "done"} /\ events < MaxEvents /\ events' = events + 1
    /\ \E S \in Extracted :
          caller' = [caller EXCEPT ![g] = [Fresh EXCEPT !.pc = "next", !.event = S, !.todo = S,
                                                       !.deadline = clock + Timeout]]
    /\ UNCHANGED <<clock, cache, window, used, answered, calls>>

\* The status of an event is that of its last look-up that was not ok.
Returned(c, found, status) ==
    [Fresh EXCEPT !.pc = "next", !.event = c.event, !.todo = c.todo, !.deadline = c.deadline,
                  !.status = IF status = "ok" THEN c.status ELSE status,
                  !.looks = IF status = "ok"
                            THEN c.looks \cup {[of |-> c.of, at |-> c.at, found |-> found]}
                            ELSE c.looks]

\* The next indicator: one that is not public is not looked up, and for another one the time is
\* read, before the lock is asked for.
Lookup(g) ==
    /\ caller[g].pc = "next"
    /\ \E i \in caller[g].todo :
          LET c == [caller[g] EXCEPT !.todo = @ \ {i}, !.of = i, !.at = clock] IN
          \/ i \in Private /\ caller' = [caller EXCEPT ![g] = Returned(c, {}, "non_public")]
          \/ i \notin Private /\ caller' = [caller EXCEPT ![g] = [c EXCEPT !.pc = "locked"]]
    /\ UNCHANGED <<clock, cache, window, used, events, answered, calls>>

Hit(g) == caller[g].at < cache[caller[g].of].until

CacheHit(g) ==
    /\ caller[g].pc = "locked" /\ Hit(g)
    /\ caller' = [caller EXCEPT ![g] = Returned(@, cache[@.of].found, cache[@.of].status)]
    /\ UNCHANGED <<clock, cache, window, used, events, answered, calls>>

\* Mutant: the length of the window is left out.
WindowShort(g) ==
    IF caller[g].at - window >= 0 THEN [since |-> caller[g].at, used |-> 0]
    ELSE [since |-> window, used |-> used]

\* The window of the quota as the look-up of g sees it.
Window(g) ==
    IF caller[g].at - window >= Minute THEN [since |-> caller[g].at, used |-> 0]
    ELSE [since |-> window, used |-> used]

\* The window is renewed even when the quota is zero.
QuotaExceeded(g) ==
    /\ caller[g].pc = "locked" /\ ~Hit(g) /\ Window(g).used >= MaxPerMinute
    /\ window' = Window(g).since /\ used' = Window(g).used
    /\ caller' = [caller EXCEPT ![g] = Returned(@, {}, "quota_exceeded")]
    /\ UNCHANGED <<clock, cache, events, answered, calls>>

Call(g) ==
    /\ caller[g].pc = "locked" /\ ~Hit(g) /\ Window(g).used < MaxPerMinute
    /\ window' = Window(g).since /\ used' = Window(g).used + 1
    /\ calls' = Append(calls, clock)
    /\ caller' = [caller EXCEPT ![g].pc = "calling"]
    /\ UNCHANGED <<clock, cache, events, answered>>

\* Feed.Lookup, which is asked for every record of every provider.
Matches(o, i) == i \in o.covers

Valid(c, records) ==
    {o \in records : o.attributed /\ o.updated <= c.at /\ o.expires > c.at /\ Matches(o, c.of)}

\* The provider answers within the budget of the event ...
Answer(g) ==
    /\ caller[g].pc = "calling" /\ clock < caller[g].deadline
    /\ \E records \in SUBSET Feed :
          caller' = [caller EXCEPT ![g].pc = "storing", ![g].found = Valid(caller[g], records)]
    /\ answered' = [answered EXCEPT ![caller[g].of] = @ \cup {caller[g].at}]
    /\ UNCHANGED <<clock, cache, window, used, events, calls>>

\* ... or fails, which it also does when an earlier indicator has used the budget up.
Fail(g) ==
    /\ caller[g].pc = "calling"
    /\ caller' = [caller EXCEPT ![g].pc = "storing", ![g].result = "unavailable"]
    /\ UNCHANGED <<clock, cache, window, used, events, answered, calls>>

\* Mutant: an entry is kept for its TTL whatever it holds.
UntilTTL(c) == c.at + (IF c.result = "ok" THEN TTL ELSE NegativeTTL)

\* An entry is not kept longer than any of its observations is valid.
Until(c) ==
    IF c.result = "ok" THEN Min({c.at + TTL} \cup {o.expires : o \in c.found})
    ELSE c.at + NegativeTTL

\* Mutant: the limit is compared after the entry is counted in.
RoomOver == IF Cardinality(Cached) > CacheLimit THEN [i \in Indicators |-> NoEntry] ELSE cache

Room == IF Cardinality(Cached) >= CacheLimit THEN [i \in Indicators |-> NoEntry] ELSE cache

\* What is stored replaces the entry of the indicator, the answer of a later call included.
Store(g) ==
    LET c == caller[g] IN
    /\ c.pc = "storing"
    /\ cache' = [Room EXCEPT ![c.of] = [found |-> c.found, until |-> Until(c), status |-> c.result]]
    /\ caller' = [caller EXCEPT ![g] = Returned(@, c.found, c.result)]
    /\ UNCHANGED <<clock, window, used, events, answered, calls>>

\* The event carries what was found, and its severity is raised by a malicious observation.
Enriched(g) ==
    /\ caller[g].pc = "next" /\ caller[g].todo = {}
    /\ caller' = [caller EXCEPT ![g].pc = "done", ![g].deadline = 0]
    /\ UNCHANGED <<clock, cache, window, used, events, answered, calls>>

Next ==
    \/ Tick
    \/ \E g \in Callers :
          Enrich(g) \/ Lookup(g) \/ CacheHit(g) \/ QuotaExceeded(g) \/ Call(g) \/ Answer(g)
              \/ Fail(g) \/ Store(g) \/ Enriched(g)

Spec == Init /\ [][Next]_vars

-----------------------------------------------------------------------------
(* Properties.                                                              *)

\* What look-up l found: evidence is about its indicator, names its source, and had
\* not expired then.
Current(l) == \A o \in l.found : o.attributed /\ l.of \in o.covers /\ o.expires > l.at

\* Evidence is current when the event is looked up, be it from a cache that another goroutine
\* filled (intel.go:205-212).  And an event is "ok" only if every one of its indicators was looked
\* up, and the provider has answered about it within the last TTL (intel.go:131-150, 159-224).
AnswerCurrent ==
    \A g \in Callers : caller[g].pc = "done" =>
        /\ \A l \in caller[g].looks : Current(l)
        /\ caller[g].status = "ok" =>
              \A i \in caller[g].event : \E l \in caller[g].looks :
                  l.of = i /\ \E t \in answered[i] : l.at < t + TTL

\* However look-ups wait for the lock with a time that is getting old, and miss the cache together,
\* the provider gets no more than two quotas in any minute, and one call for every other caller
\* (intel.go:182-193).
QuotaHolds ==
    \A t \in Times :
        Cardinality({n \in DOMAIN calls : t <= calls[n] /\ calls[n] < t + Minute})
            <= 2 * MaxPerMinute + Cardinality(Callers) - 1

=============================================================================
