----------------------------- MODULE HomeSession -----------------------------
(***************************************************************************)
(* The home page (pages/HomePage.tsx) and its session: it is created when  *)
(* there is none, given up, started as an interview or as the sample, with *)
(* the mock backend as the sample's last resort.  A call ends "ok", told   *)
(* that its session is gone, or with another error; an aborted one ends    *)
(* silently unless its answer was already being read.                      *)
(***************************************************************************)
EXTENDS SessionStore, FiniteSets

CONSTANTS MaxSessions,     \* bound: sessions ever created
          MaxHomeCalls     \* bound: calls on their way at once
ASSUME HomeBound == MaxSessions \in Nat

VARIABLE home

HomeIds == 0..MaxSessions
SampleKinds == {"sampleCreate", "sampleStart", "sampleCreateAgain", "sampleStartAgain", "sampleGet"}
\* fits: the token and the backend (real or mock) it goes to are its session's;
\* of a creation: it goes to the mock.  mine: its component is still mounted.
HomeCalls ==
    [kind : {"create", "start", "get", "save"} \cup SampleKinds, id : HomeIds,
     fits : BOOLEAN, live : BOOLEAN, mine : BOOLEAN]
HomeTypeOK ==
    home \in [store : Store(HomeIds), page : Routes, startedRef : BOOLEAN,
              creating : BOOLEAN, createError : {"none", "other", "limited"},
              starting : BOOLEAN, sampling : BOOLEAN, saveArmed : BOOLEAN,
              calls : SUBSET HomeCalls, created : HomeIds, mock : BOOLEAN,
              mocked : HomeIds, deletedHere : BOOLEAN]

\* Mutant: the ref outlives its component.
MountedAgain(h) ==
    [h EXCEPT !.page = "home", !.creating = FALSE,
              !.createError = "none", !.starting = FALSE, !.sampling = FALSE,
              !.saveArmed = h.store.sessionId # 0, !.deletedHere = FALSE]
\* The state of a component just mounted.
Mounted(h) ==
    [h EXCEPT !.page = "home", !.startedRef = FALSE, !.creating = FALSE,
              !.createError = "none", !.starting = FALSE, !.sampling = FALSE,
              !.saveArmed = h.store.sessionId # 0, !.deletedHere = FALSE]
HomeInit ==
    home = [store |-> FreshStore(0), page |-> "home", startedRef |-> FALSE,
            creating |-> FALSE, createError |-> "none", starting |-> FALSE,
            sampling |-> FALSE, saveArmed |-> FALSE, calls |-> {}, created |-> 0,
            mock |-> FALSE, mocked |-> 0, deletedHere |-> FALSE]

AbortHome(h, kinds) ==
    [h EXCEPT !.calls = {[c EXCEPT !.live = @ /\ ~(c.mine /\ c.kind \in kinds)] : c \in @}]
Unmount(h, page) ==
    LET aborted == AbortHome(h, {"create", "start", "get", "save"})
    IN  [aborted EXCEPT !.page = page, !.saveArmed = FALSE,
                        !.calls = {[c EXCEPT !.mine = FALSE] : c \in @}]
Leave(h, page) == IF h.page = "home" /\ page # "home" THEN Unmount(h, page)
                  ELSE [h EXCEPT !.page = page]

\* The settings are saved anew, after a pause, when the session changes.
WithStore(h, store) ==
    IF h.page = "home" /\ store.sessionId # h.store.sessionId
    THEN [AbortHome(h, {"save"}) EXCEPT !.store = store, !.saveArmed = store.sessionId # 0]
    ELSE [h EXCEPT !.store = store]
Cleared(h, reason) == [WithStore(h, clearSession(reason)) EXCEPT !.mock = FALSE]
HomeGone(h) == Leave(Cleared(h, "expired"), "expired")

HomeCall(h, kind, id) ==
    [kind |-> kind, id |-> id, live |-> TRUE, mine |-> TRUE,
     fits |-> IF id = 0 THEN h.mock
              ELSE h.store.token = id /\ (h.mock <=> h.mocked = id)]
Send(h, kind, id) == [h EXCEPT !.calls = @ \cup {HomeCall(h, kind, id)}]
\* The next call of the function that awaited c.
Then(h, c, kind, id) ==
    [h EXCEPT !.calls = @ \cup {[HomeCall(h, kind, id) EXCEPT !.live = c.live, !.mine = c.mine]}]
Ended(c) == [home EXCEPT !.calls = @ \ {c}]

\* A new session, at the mock backend if the call went there.
Created(h, c) ==
    LET id == h.created + 1
    IN  [WithStore(h, setCreated(h.store, id)) EXCEPT
            !.created = id, !.mocked = IF c.fits THEN id ELSE @]

-----------------------------------------------------------------------------
createInitialSession(h) ==
    Send([AbortHome(h, {"create"}) EXCEPT !.creating = TRUE, !.createError = "none"], "create", 0)

OnHome == home.page = "home"
MayCall == Cardinality(home.calls) < MaxHomeCalls
\* Bound: one aborted creation still on its way at a time.
MayCreate == MayCall /\ \A c \in home.calls : c.kind = "create" => c.live

EffectCreates ==
    /\ OnHome /\ home.store.token = 0 /\ ~home.startedRef /\ MayCreate
    /\ home' = createInitialSession([home EXCEPT !.startedRef = TRUE])

CreateEnds(c) ==
    LET h == IF c.mine THEN [Ended(c) EXCEPT !.creating = FALSE] ELSE Ended(c) IN
    /\ c \in home.calls /\ c.kind = "create"
    /\ \/ home.created < MaxSessions /\ home' = Created(h, c)
       \/ ~c.live /\ home' = h
       \/ \E error \in {"other", "limited"} :
             home' = IF c.mine THEN [h EXCEPT !.createError = error] ELSE h

\* The countdown of a Retry-After reaches 0.
CountedDown ==
    /\ OnHome /\ home.createError = "limited"
    /\ home' = [home EXCEPT !.createError = "other"]

RetryCreate ==
    /\ OnHome /\ home.createError = "other" /\ home.store.sessionId = 0 /\ MayCreate
    /\ home' = createInitialSession([home EXCEPT !.startedRef = TRUE])

\* "새로 시작"; the effect of the token that is gone creates a second time.
NewSession ==
    /\ OnHome /\ home.store.token # 0 /\ MayCreate
    /\ home.store.serverStatus \notin {"none", "CREATED"}
    /\ home' = createInitialSession([Cleared(home, "new-session") EXCEPT !.startedRef = FALSE])

EditSettings ==
    /\ OnHome /\ home.store.sessionId # 0
    /\ home' = [AbortHome(home, {"save"}) EXCEPT !.saveArmed = TRUE]
Save ==
    /\ OnHome /\ home.saveArmed /\ MayCall
    /\ home' = Send([home EXCEPT !.saveArmed = FALSE], "save", home.store.sessionId)

handleStartInterview ==
    /\ OnHome /\ home.store.sessionId # 0 /\ ~home.creating /\ ~home.starting /\ MayCall
    /\ home' = Send([home EXCEPT !.starting = TRUE], "start", home.store.sessionId)

handleStartSample ==
    LET h == [home EXCEPT !.sampling = TRUE] IN
    /\ OnHome /\ ~home.sampling /\ MayCall
    /\ \A c \in home.calls : c.kind \notin SampleKinds       \* bound: one chain at a time
    /\ home' = IF home.store.sessionId = 0 \/ home.createError # "none"
               THEN Send(h, "sampleCreate", 0)
               ELSE Send(h, "sampleStart", home.store.sessionId)

\* The finally of the call's function.
Finished(c) ==
    IF ~c.mine \/ c.kind = "save" THEN Ended(c)
    ELSE IF c.kind \in {"start", "get"} THEN [Ended(c) EXCEPT !.starting = FALSE]
    ELSE [Ended(c) EXCEPT !.sampling = FALSE]

\* createSessionWithSampleFallback: after the server, the mock.
SampleCreated(c) ==
    LET next == IF c.kind = "sampleCreate" THEN "sampleStart" ELSE "sampleStartAgain" IN
    /\ c \in home.calls /\ c.kind \in {"sampleCreate", "sampleCreateAgain"}
    /\ \/ /\ home.created < MaxSessions
          /\ LET h == Created(Ended(c), c) IN home' = Then(h, c, next, h.store.sessionId)
       \/ ~c.fits /\ home' = Then([Ended(c) EXCEPT !.mock = TRUE, !.mocked = 0], c, c.kind, 0)
       \/ ~c.fits /\ home' \in {Finished(c), HomeGone(Finished(c))}
       \/ home.created = MaxSessions /\ home' = Finished(c)

\* A failed start of the sample is tried once more, in a new session.
SampleStartFails(c) ==
    /\ c \in home.calls /\ c.kind = "sampleStart"
    /\ home' = Then(Ended(c), c, "sampleCreateAgain", 0)

Succeeds(c) ==
    /\ c \in home.calls /\ c.fits
    /\ \/ c.kind = "save" /\ home' = Ended(c)
       \/ /\ c.kind = "start"
          /\ home' = IF c.live THEN Then(Ended(c), c, "get", c.id) ELSE Finished(c)
       \/ /\ c.kind \in {"sampleStart", "sampleStartAgain"}
          /\ home' = Then(Ended(c), c, "sampleGet", c.id)
       \/ /\ c.kind \in {"get", "sampleGet"}
          /\ home' = Leave(WithStore(Finished(c), setFromServer(home.store, c.id, "INTERVIEWING", FALSE)),
                           "interview")

\* handleApiError: an abort is silent, a lost session ends it all.
Fails(c) ==
    /\ c \in home.calls /\ c.kind \in {"save", "start", "get", "sampleStartAgain", "sampleGet"}
    /\ home' \in {Finished(c), HomeGone(Finished(c))}

\* "내 데이터 지우기" of the shell, answered; and the ways from the page and back.
DeleteData ==
    /\ home.store.sessionId # 0
    /\ home' = IF OnHome THEN [Cleared(home, "deleted") EXCEPT !.deletedHere = TRUE]
               ELSE Mounted(Cleared(home, "deleted"))
GoAway == OnHome /\ home' = Leave(home, "artifacts")
ComeBack == ~OnHome /\ home' = Mounted(home)

HomeProgress ==
    \/ EffectCreates \/ Save
    \/ \E c \in home.calls : \/ CreateEnds(c) \/ SampleCreated(c) \/ SampleStartFails(c)
                             \/ Succeeds(c) \/ Fails(c)
HomeNext ==
    \/ CountedDown \/ RetryCreate \/ NewSession \/ EditSettings
    \/ handleStartInterview \/ handleStartSample \/ DeleteData \/ GoAway \/ ComeBack
    \/ HomeProgress
HomeSpec == HomeInit /\ [][HomeNext]_home

-----------------------------------------------------------------------------
\* The home page is no dead end: it holds a session, or is about to create one,
\* or shows the error with its retry button, however the aborted creations, the
\* sample and the late answers of sessions given up come in; except after the
\* data were deleted on the page itself.
HomeRecoverable ==
    OnHome => \/ home.store.sessionId # 0 \/ home.createError # "none"
              \/ ~home.startedRef \/ home.deletedHere
              \/ \E c \in home.calls : c.kind = "create" /\ c.live /\ c.mine
=============================================================================
