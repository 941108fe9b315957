------------------------------ MODULE JobPoller ------------------------------
(***************************************************************************)
(* createJobPoller (shared/api/polling.ts) watching one job: the chain of  *)
(* timer, getJob, timer; the ETag; the failures in a row; the tab hidden   *)
(* and shown again; the page that refreshes by hand or stops the poller.   *)
(* The job's data is its version: the server's ETag is a hash of the data, *)
(* so equal ETags mean equal versions.  A getJob call is one step here;    *)
(* its own retries are in ApiClient.                                       *)
(***************************************************************************)
EXTENDS Integers

CONSTANTS LastVersion,    \* the job changes no more after this version
          TerminalVersions,
          MaxFailures     \* BACKOFF_MS.length

ASSUME PollerAssumption ==
    /\ LastVersion \in Nat \ {0} /\ MaxFailures \in Nat
    /\ TerminalVersions \subseteq 1..LastVersion
    /\ LastVersion \in TerminalVersions

VARIABLES
    started,      \* start() was called; the pages call it once per poller
    stopped,
    armed,        \* the timers that will fire
    timer,        \* the handle of the timer armed last, 0: none yet
    etag,         \* the version of the last answer taken, 0: none
    failureCount,
    inFlight,
    calls,        \* getJob calls on their way, each with its answer so far
    jobVersion,   \* the server's record
    hidden,       \* document.visibilityState
    shown,        \* the version given to onUpdate last
    verdict       \* "none", "terminal" (onTerminal) or "error" (onError)
pollerVars == <<started, stopped, armed, timer, etag, failureCount, inFlight,
                calls, jobVersion, hidden, shown, verdict>>

Versions == 1..LastVersion
Timers == {1, 2}
Slots == {1, 2}
\* A call is free, unanswered, or answered by a version (0: a 304), by an error
\* or by the rejection an abort causes.
CallStates == {"free", "pending", "answered", "failed", "aborted"}

PollerTypeOK ==
    /\ started \in BOOLEAN /\ stopped \in BOOLEAN
    /\ armed \in SUBSET Timers /\ timer \in Timers \cup {0}
    /\ etag \in Versions \cup {0}
    /\ failureCount \in 0..(MaxFailures + 1)
    /\ inFlight \in BOOLEAN
    /\ calls \in [Slots -> [state: CallStates, version: Versions \cup {0}]]
    /\ jobVersion \in Versions /\ hidden \in BOOLEAN
    /\ shown \in Versions \cup {0}
    /\ verdict \in {"none", "terminal", "error"}

Free == [state |-> "free", version |-> 0]
PollerInit ==
    /\ started = FALSE /\ stopped = FALSE /\ armed = {} /\ timer = 0
    /\ etag = 0 /\ failureCount = 0 /\ inFlight = FALSE
    /\ calls = [c \in Slots |-> Free]
    /\ jobVersion = 1 /\ hidden = FALSE /\ shown = 0 /\ verdict = "none"

-----------------------------------------------------------------------------
\* schedule() arms a timer more; it clears none.
Schedule(left) ==
    LET t == IF 1 \in left THEN 2 ELSE 1
    IN  armed' = left \cup {t} /\ timer' = t

\* tick(), with the timers "left" armed.
Tick(left, isHidden) ==
    \/ /\ stopped \/ inFlight
       /\ armed' = left
       /\ UNCHANGED <<timer, inFlight, calls>>
    \/ /\ ~stopped /\ ~inFlight /\ isHidden
       /\ Schedule(left)
       /\ UNCHANGED <<inFlight, calls>>
    \/ /\ ~stopped /\ ~inFlight /\ ~isHidden
       /\ inFlight' = TRUE /\ armed' = left
       /\ \E c \in Slots : /\ calls[c].state = "free"
                           /\ calls' = [calls EXCEPT ![c].state = "pending"]
       /\ UNCHANGED timer

\* What tick() leaves alone.
Rest == <<started, stopped, etag, failureCount, jobVersion, shown, verdict>>

PollStart ==
    /\ ~started /\ ~stopped /\ started' = TRUE
    /\ Tick(armed, hidden)
    /\ UNCHANGED <<stopped, etag, failureCount, jobVersion, hidden, shown, verdict>>

TimerFires ==
    /\ \E t \in armed : Tick(armed \ {t}, hidden)
    /\ UNCHANGED <<Rest, hidden>>

\* Mutant: the refresh leaves the timer armed.
RefreshBeside(isHidden) == started /\ ~stopped /\ Tick(armed, isHidden)
RefreshNow(isHidden) == started /\ ~stopped /\ Tick(armed \ {timer}, isHidden)

UserRefreshes == RefreshNow(hidden) /\ UNCHANGED <<Rest, hidden>>

HideTab ==
    /\ ~hidden /\ hidden' = TRUE
    /\ UNCHANGED <<Rest, armed, timer, inFlight, calls>>

\* onVisibilityChange; the listener is there from start() to stop().
ShowTab ==
    /\ hidden /\ hidden' = FALSE
    /\ \/ RefreshNow(FALSE)
       \/ (~started \/ stopped) /\ UNCHANGED <<armed, timer, inFlight, calls>>
    /\ UNCHANGED Rest

\* stop(): the timer of the handle is cleared and the call on its way aborted.
\* One that has its answer, or whose body is being read, is not aborted.
Stop(rest) ==
    /\ stopped' = TRUE /\ armed' = armed \ {timer}
    /\ \E deaf \in SUBSET Slots :
          calls' = [c \in Slots |->
              IF rest[c].state = "pending" /\ c \notin deaf
              THEN [state |-> "aborted", version |-> 0] ELSE rest[c]]

PageStops ==
    /\ started /\ ~stopped /\ Stop(calls)
    /\ UNCHANGED <<started, timer, etag, failureCount, inFlight, jobVersion,
                   hidden, shown, verdict>>

\* The server: the job goes on, a call is answered (the ETag that came with it
\* is the poller's, which no other call changes meanwhile), or it fails.
JobMoves ==
    /\ jobVersion < LastVersion /\ jobVersion' = jobVersion + 1
    /\ UNCHANGED <<started, stopped, armed, timer, etag, failureCount, inFlight,
                   calls, hidden, shown, verdict>>

Answer(c) ==
    /\ calls[c].state = "pending"
    /\ \/ calls' = [calls EXCEPT ![c] =
                      [state |-> "answered",
                       version |-> IF etag = jobVersion THEN 0 ELSE jobVersion]]
       \/ calls' = [calls EXCEPT ![c].state = "failed"]
    /\ UNCHANGED <<Rest, armed, timer, inFlight, hidden>>

\* tick() after the await: its result is dropped if the poller was stopped.
Dropped(c) ==
    /\ \/ calls[c].state \in {"answered", "failed"} /\ stopped
       \/ calls[c].state = "aborted"
    /\ failureCount' = IF calls[c].state = "answered" THEN 0 ELSE failureCount
    /\ inFlight' = FALSE /\ calls' = [calls EXCEPT ![c] = Free]
    /\ UNCHANGED <<started, stopped, armed, timer, etag, jobVersion, hidden,
                   shown, verdict>>

\* Mutant: a 304 ends the chain.
NotModifiedEnds(c) ==
    /\ calls[c].state = "answered" /\ calls[c].version = 0 /\ ~stopped
    /\ failureCount' = 0
    /\ inFlight' = FALSE /\ calls' = [calls EXCEPT ![c] = Free]
    /\ UNCHANGED <<started, stopped, armed, timer, etag, jobVersion, hidden, shown, verdict>>
NotModified(c) ==
    /\ calls[c].state = "answered" /\ calls[c].version = 0 /\ ~stopped
    /\ failureCount' = 0
    /\ Schedule(armed)
    /\ inFlight' = FALSE /\ calls' = [calls EXCEPT ![c] = Free]
    /\ UNCHANGED <<started, stopped, etag, jobVersion, hidden, shown, verdict>>

\* Mutant: a stopped poller takes the answer that comes late.
UpdatedLate(c) ==
    LET v == calls[c].version
        rest == [calls EXCEPT ![c] = Free]
    IN  /\ calls[c].state = "answered" /\ v # 0
        /\ failureCount' = 0 /\ etag' = v /\ shown' = v
        /\ \/ /\ v \in TerminalVersions
              /\ Stop(rest) /\ verdict' = "terminal"
              /\ UNCHANGED timer
           \/ /\ v \notin TerminalVersions
              /\ Schedule(armed) /\ calls' = rest
              /\ UNCHANGED <<stopped, verdict>>
        /\ inFlight' = FALSE
        /\ UNCHANGED <<started, jobVersion, hidden>>
Updated(c) ==
    LET v == calls[c].version
        rest == [calls EXCEPT ![c] = Free]
    IN  /\ calls[c].state = "answered" /\ v # 0 /\ ~stopped
        /\ failureCount' = 0 /\ etag' = v /\ shown' = v
        /\ \/ /\ v \in TerminalVersions
              /\ Stop(rest) /\ verdict' = "terminal"
              /\ UNCHANGED timer
           \/ /\ v \notin TerminalVersions
              /\ Schedule(armed) /\ calls' = rest
              /\ UNCHANGED <<stopped, verdict>>
        /\ inFlight' = FALSE
        /\ UNCHANGED <<started, jobVersion, hidden>>

Failed(c) ==
    LET rest == [calls EXCEPT ![c] = Free]
    IN  /\ calls[c].state = "failed" /\ ~stopped
        /\ failureCount' = failureCount + 1
        /\ \/ /\ failureCount' > MaxFailures
              /\ Stop(rest) /\ verdict' = "error"
              /\ UNCHANGED timer
           \/ /\ failureCount' <= MaxFailures
              /\ Schedule(armed) /\ calls' = rest
              /\ UNCHANGED <<stopped, verdict>>
        /\ inFlight' = FALSE
        /\ UNCHANGED <<started, etag, jobVersion, hidden, shown>>

\* Sure to come: armed timers fire, calls end (BusyEnds), results are taken.
PollerProgress ==
    \/ TimerFires
    \/ \E c \in Slots : \/ Answer(c) \/ Dropped(c) \/ NotModified(c)
                        \/ Updated(c) \/ Failed(c)
PollerNext ==
    \/ PollStart \/ UserRefreshes \/ HideTab \/ ShowTab \/ PageStops \/ JobMoves
    \/ PollerProgress
PollerSpec == PollerInit /\ [][PollerNext]_pollerVars

-----------------------------------------------------------------------------
\* The chain neither forks nor breaks: while the poller runs there is exactly
\* one armed timer or one getJob call, whatever order the tab's visibility, the
\* refresh button and the answers come in; once stopped, no timer is left.
Outstanding == {c \in Slots : calls[c].state # "free"}
OneChain ==
    /\ \A c, d \in Outstanding : c = d
    /\ inFlight <=> Outstanding # {}
    /\ started /\ ~stopped => \/ inFlight /\ armed = {}
                              \/ ~inFlight /\ armed = {timer}
    /\ stopped => armed = {}

\* The page is shown every version at most once and in the server's order, and
\* hears nothing of a poller that was stopped; one verdict ends the poller, and
\* onTerminal comes with the version shown last.
NewsInOrder ==
    [][/\ shown' # shown => shown' > shown /\ ~stopped
       /\ verdict' # verdict => ~stopped /\ stopped'
       /\ verdict' = "terminal" => shown' \in TerminalVersions]_pollerVars

\* A job that has ended for good is noticed, or the poller is stopped, by its
\* page or by too many failures: once the tab is not hidden any more, neither
\* a 304 nor a lost refresh leaves the page waiting for ever.
EndNoticed ==
    <>[](~hidden) => []<>~(started /\ jobVersion = LastVersion /\ ~stopped)
=============================================================================
