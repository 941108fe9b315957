----------------------------- MODULE RateLimiter -----------------------------
(***************************************************************************)
(* The sliding window that admits the creation of sessions                 *)
(* (services/rate_limit.py): hits per address, the boundary of the window, *)
(* the Retry-After rounded up to whole seconds, and the addresses dropped  *)
(* when there are too many.  Time is counted in ticks, several a second.   *)
(***************************************************************************)
EXTENDS Integers, Sequences, FiniteSets, SequencesExt, FiniteSetsExt

CONSTANTS Addresses,
          limit,             \* hits in a window
          TicksPerSecond,
          WindowSeconds,     \* 60
          StaleSeconds,      \* 120
          MaxAddresses,      \* 10_000
          LastTick           \* bound: the clock stops here

Window == WindowSeconds * TicksPerSecond
StaleAfter == StaleSeconds * TicksPerSecond
ASSUME LimiterAssumption ==
    /\ limit \in Nat \ {0} /\ TicksPerSecond \in Nat \ {0}
    /\ WindowSeconds \in Nat \ {0} /\ StaleSeconds \in Nat /\ WindowSeconds <= StaleSeconds
    /\ MaxAddresses \in Nat /\ LastTick \in Nat

VARIABLES
    tick,        \* time.monotonic()
    hits,        \* _hits: the addresses known, with the hits in their window
    admitted,    \* by address, the hits admitted last, one more than the limit
    promised     \* the tick at which a refused address was told to come back
limiterVars == <<tick, hits, admitted, promised>>

NoPromise == -1
Ticks == 0..LastTick
LimiterTypeOK ==
    /\ tick \in Ticks
    /\ DOMAIN hits \subseteq Addresses
    /\ \A k \in DOMAIN hits : hits[k] \in Seq(Ticks) /\ Len(hits[k]) <= limit
    /\ admitted \in [Addresses -> Seq(Ticks)]
    /\ \A k \in Addresses : Len(admitted[k]) <= limit + 1
    /\ promised \in [Addresses -> {NoPromise} \cup (0..(LastTick + Window + TicksPerSecond))]

LimiterInit ==
    /\ tick = 0 /\ hits = [k \in {} |-> <<>>]
    /\ admitted = [k \in Addresses |-> <<>>]
    /\ promised = [k \in Addresses |-> NoPromise]

\* popleft() takes the head for as long as it has left the window: the record
\* begins at the first hit still inside.
\* Mutant: a hit stays in the window a tick too short.
PrunedEarly(k) ==
    LET inside == {i \in DOMAIN hits[k] : tick - hits[k][i] < Window - 1}
    IN  IF k \notin DOMAIN hits \/ inside = {} THEN <<>>
        ELSE SubSeq(hits[k], Min(inside), Len(hits[k]))
Pruned(k) ==
    LET inside == {i \in DOMAIN hits[k] : tick - hits[k][i] < Window}
    IN  IF k \notin DOMAIN hits \/ inside = {} THEN <<>>
        ELSE SubSeq(hits[k], Min(inside), Len(hits[k]))

\* math.ceil of a number of ticks, in seconds.
CeilSeconds(ticks) == (ticks + TicksPerSecond - 1) \div TicksPerSecond
RetryAfter(window) == Max({1, CeilSeconds(Window - (tick - Head(window)))})

\* Addresses whose last hit is old, or that have none, are dropped when there are
\* too many.
Tidied(known) ==
    LET stale == {k \in DOMAIN known : known[k] = <<>> \/ tick - Last(known[k]) >= StaleAfter}
    IN  IF Cardinality(DOMAIN known) > MaxAddresses
        THEN [k \in DOMAIN known \ stale |-> known[k]] ELSE known
Known(k, window) == [a \in DOMAIN hits \cup {k} |-> IF a = k THEN window ELSE hits[a]]

LastAdmitted(log) == IF Len(log) > limit + 1 THEN Tail(log) ELSE log

Admit(k) ==
    LET window == Append(Pruned(k), tick) IN
    /\ Len(Pruned(k)) < limit
    /\ hits' = Tidied(Known(k, window))
    /\ admitted' = [admitted EXCEPT ![k] = LastAdmitted(Append(@, tick))]
    /\ promised' = [promised EXCEPT ![k] = NoPromise]
    /\ UNCHANGED tick

Refuse(k) ==
    /\ Len(Pruned(k)) >= limit
    /\ hits' = Known(k, Pruned(k))
    /\ promised' = [promised EXCEPT ![k] = tick + RetryAfter(Pruned(k)) * TicksPerSecond]
    /\ UNCHANGED <<tick, admitted>>

check(k) == Admit(k) \/ Refuse(k)

TickPasses == tick < LastTick /\ tick' = tick + 1 /\ UNCHANGED <<hits, admitted, promised>>

LimiterNext == TickPasses \/ \E k \in Addresses : check(k)
LimiterSpec == LimiterInit /\ [][LimiterNext]_limiterVars

-----------------------------------------------------------------------------
\* No window of 60 s, wherever it begins, holds more admitted creations of an
\* address than the limit, though its record may have been dropped meanwhile;
\* and an address that comes back at its Retry-After, having got nothing in
\* between, is not refused again.
WindowHonoured ==
    \A k \in Addresses :
        /\ Len(admitted[k]) > limit => Last(admitted[k]) - Head(admitted[k]) >= Window
        /\ promised[k] # NoPromise /\ tick >= promised[k] => Len(Pruned(k)) < limit
=============================================================================
