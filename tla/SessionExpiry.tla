---------------------------- MODULE SessionExpiry ----------------------------
(***************************************************************************)
(* The backend's store of sessions (store/memory.py): creation up to a     *)
(* cap, the lifetime recomputed at each access, the sweep, the tombstones, *)
(* deletion by the user, and the analysis tasks that keep the state object *)
(* and go on, and touch it, after their session has left the store.        *)
(***************************************************************************)
EXTENDS Integers, Sequences, SequencesExt

CONSTANTS SessionIds,
          SESSION_TTL, SESSION_TTL_REPORT_READY,    \* in units of the clock
          max_active_sessions, TombstoneCap,
          LastHour                                  \* bound: the clock stops here

ASSUME ExpiryAssumption ==
    /\ SESSION_TTL \in Nat \ {0} /\ SESSION_TTL_REPORT_READY \in Nat
    /\ SESSION_TTL <= SESSION_TTL_REPORT_READY
    /\ max_active_sessions \in Nat /\ TombstoneCap \in Nat /\ LastHour \in Nat

VARIABLES
    hour,            \* utcnow()
    states,          \* _states: the sessions held, in the order of creation
    tombstones,      \* _expired_tombstones, the oldest first
    created,         \* sessions ever created
    erased,          \* sessions deleted by their user
    last_activity_at,
    expires_at,
    reportReady,     \* status is REPORT_READY
    analysing,       \* sessions with an analysis; bound: one at a time
    told             \* the last answer to a request with the right token
expiryVars == <<hour, states, tombstones, created, erased, last_activity_at,
                expires_at, reportReady, analysing, told>>

Hours == 0..(LastHour + SESSION_TTL_REPORT_READY)
ExpiryTypeOK ==
    /\ hour \in 0..LastHour
    /\ states \in Seq(created) /\ IsInjective(states)
    /\ tombstones \in Seq(created) /\ IsInjective(tombstones)
    /\ created \in SUBSET SessionIds /\ erased \in SUBSET created
    /\ last_activity_at \in [SessionIds -> 0..LastHour]
    /\ expires_at \in [SessionIds -> Hours]
    /\ reportReady \in SUBSET created /\ analysing \in SUBSET created
    /\ told \in [SessionIds -> {"nothing", "ok", "expired", "not found"}]

ExpiryInit ==
    /\ hour = 0 /\ states = <<>> /\ tombstones = <<>>
    /\ created = {} /\ erased = {}
    /\ last_activity_at = [s \in SessionIds |-> 0]
    /\ expires_at = [s \in SessionIds |-> 0]
    /\ reportReady = {} /\ analysing = {}
    /\ told = [s \in SessionIds |-> "nothing"]

Held(s) == Contains(states, s)
Over(s) == hour >= expires_at[s]

\* touch(), with the status the session has at the end of the step; the state
\* object is touched whether or not the store still holds it.
\* Mutant: the lifetime ignores the status.
TouchAlike(s, isReady) ==
    /\ last_activity_at' = [last_activity_at EXCEPT ![s] = hour]
    /\ expires_at' = [expires_at EXCEPT ![s] = hour + SESSION_TTL]
touch(s, isReady) ==
    /\ last_activity_at' = [last_activity_at EXCEPT ![s] = hour]
    /\ expires_at' = [expires_at EXCEPT ![s] =
          hour + (IF isReady THEN SESSION_TTL_REPORT_READY ELSE SESSION_TTL)]
Untouched == UNCHANGED <<last_activity_at, expires_at>>

\* The members of a list that are in S, in their order.
Only(list, S) ==
    LET only[n \in 0..Len(list)] ==
            IF n = 0 THEN <<>>
            ELSE IF list[n] \in S THEN Append(only[n - 1], list[n]) ELSE only[n - 1]
    IN  only[Len(list)]
\* popitem(last=False) until the cap is kept.
Capped(buried) ==
    LET excess == IF Len(buried) > TombstoneCap THEN Len(buried) - TombstoneCap ELSE 0
    IN  SubSeq(buried, excess + 1, Len(buried))

\* _purge() of the sessions in "gone", which leave in the order of the store.
\* Mutant: a deleted session leaves a tombstone too.
PurgeAlike(gone, isExpired) ==
    /\ states' = Only(states, created \ gone)
    /\ tombstones' = Capped(tombstones \o Only(states, gone))
Purge(gone, isExpired) ==
    /\ states' = Only(states, created \ gone)
    /\ tombstones' = IF isExpired THEN Capped(tombstones \o Only(states, gone)) ELSE tombstones

Tell(s, answer) == told' = [told EXCEPT ![s] = answer]

-----------------------------------------------------------------------------
Create(s) ==
    /\ s \notin created /\ Len(states) < max_active_sessions
    /\ states' = Append(states, s) /\ created' = created \cup {s}
    /\ touch(s, FALSE) /\ Tell(s, "ok")
    /\ UNCHANGED <<hour, tombstones, erased, reportReady, analysing>>

\* get(), and what the handler does with the session in the same step.
Admitted(s) ==
    /\ Held(s) /\ ~Over(s) /\ touch(s, s \in reportReady) /\ Tell(s, "ok")
    /\ UNCHANGED <<hour, states, tombstones, created, erased>>
Read(s) == Admitted(s) /\ UNCHANGED <<reportReady, analysing>>
StartAnalysis(s) ==
    /\ s \notin analysing /\ Admitted(s)
    /\ analysing' = analysing \cup {s} /\ reportReady' = reportReady \ {s}

RefuseExpired(s) ==
    /\ \/ Held(s) /\ Over(s) /\ Purge({s}, TRUE)
       \/ ~Held(s) /\ Contains(tombstones, s) /\ UNCHANGED <<states, tombstones>>
    /\ Tell(s, "expired") /\ Untouched
    /\ UNCHANGED <<hour, created, erased, reportReady, analysing>>
RefuseUnknown(s) ==
    /\ s \in created /\ ~Held(s) /\ ~Contains(tombstones, s)
    /\ Tell(s, "not found") /\ Untouched
    /\ UNCHANGED <<hour, states, tombstones, created, erased, reportReady, analysing>>

\* delete() does not look at the lifetime.
DeleteSession(s) ==
    /\ Held(s) /\ Purge({s}, FALSE) /\ erased' = erased \cup {s} /\ Untouched
    /\ UNCHANGED <<hour, created, reportReady, analysing, told>>

sweep_expired ==
    /\ \E s \in ToSet(states) : Over(s)
    /\ Purge({s \in ToSet(states) : Over(s)}, TRUE)
    /\ Untouched
    /\ UNCHANGED <<hour, created, erased, reportReady, analysing, told>>

\* The end of an analysis: mark_report_ready and touch, or INTERVIEW_DONE and no touch.
AnalysisDelivers(s) ==
    /\ s \in analysing /\ analysing' = analysing \ {s}
    /\ reportReady' = reportReady \cup {s} /\ touch(s, TRUE)
    /\ UNCHANGED <<hour, states, tombstones, created, erased, told>>
AnalysisFails(s) ==
    /\ s \in analysing /\ analysing' = analysing \ {s} /\ Untouched
    /\ reportReady' = reportReady \ {s}
    /\ UNCHANGED <<hour, states, tombstones, created, erased, told>>

HourPasses ==
    /\ hour < LastHour /\ hour' = hour + 1 /\ Untouched
    /\ UNCHANGED <<states, tombstones, created, erased, reportReady, analysing, told>>

ExpiryNext ==
    \/ sweep_expired \/ HourPasses
    \/ \E s \in SessionIds :
          \/ Create(s) \/ Read(s) \/ StartAnalysis(s)
          \/ RefuseExpired(s) \/ RefuseUnknown(s) \/ DeleteSession(s)
          \/ AnalysisDelivers(s) \/ AnalysisFails(s)
ExpirySpec == ExpiryInit /\ [][ExpiryNext]_expiryVars

-----------------------------------------------------------------------------
\* A session keeps its lifetime: unless its user deletes it, it is held for the
\* short one from its last activity on and with a report for the long one,
\* whatever requests, sweeps and analyses of other sessions come between; and
\* once both are over, nothing but its own late analysis gives it more.
LifetimeKept ==
    [][\A s \in created :
         LET ttl == IF s \in reportReady THEN SESSION_TTL_REPORT_READY ELSE SESSION_TTL IN
         /\ Held(s) /\ ~Contains(states', s) =>
               s \in erased' \/ hour >= last_activity_at[s] + ttl
         /\ hour >= last_activity_at[s] + SESSION_TTL_REPORT_READY =>
               last_activity_at'[s] = last_activity_at[s] \/ s \in analysing]_expiryVars

\* Gone is gone: after its user was told that a session is expired it never
\* answers again, a deleted one is never known again, not even as expired, and
\* a forgotten tombstone does not return; a task that outlives its session
\* does not bring it back.
GoneForGood ==
    [][\A s \in created :
         /\ told[s] \in {"expired", "not found"} => told'[s] # "ok"
         /\ told[s] = "not found" => told'[s] = "not found"
         /\ s \in erased => ~Contains(states', s) /\ told'[s] \in {told[s], "not found"}]_expiryVars
=============================================================================
