----------------------------- MODULE MCParts -----------------------------
(***************************************************************************)
(* Machines side by side for TLC: the client's pages, and the parts of     *)
(* client and server that the others reach only by calling them.  One      *)
(* behaviour runs one of them, the part chosen at the start, and leaves    *)
(* the others at their initial states.                                     *)
(***************************************************************************)
EXTENDS ApiClient, JobPoller, ClientRouting, HomeSession, PlanUpload,
        InterviewPage, ArtifactsPage, AnalysisPage, ReportPage, MockBackend,
        SessionExpiry, RateLimiter, LlmCall, FrontendFunctions

VARIABLE part
partVars == <<part, clientVars, pollerVars, browser, home, plan, talk, art,
                  watch, rep, mock, expiryVars, limiterVars, llmVars>>

MCRequests == {Repeatable("getJob"), Once("createSession"), Once("deleteSession")}
MCRefusals == {[status |-> 404, code |-> "JOB_NOT_FOUND", retryAfter |-> FALSE],
               [status |-> 429, code |-> "RATE_LIMITED", retryAfter |-> TRUE],
               [status |-> 500, code |-> "INTERNAL", retryAfter |-> FALSE]}
MCTerminalVersions == {2, 3}

Parts == {"client", "poller", "routing", "home", "plan", "interview",
          "artifacts", "analysis", "report", "mock", "expiry", "limiter", "llm"}

\* Of the machine that runs; the others do not move.
PartTypeOK ==
    CASE part = "client" -> ClientTypeOK [] part = "poller" -> PollerTypeOK
      [] part = "routing" -> RoutingTypeOK [] part = "home" -> HomeTypeOK
      [] part = "plan" -> PlanTypeOK [] part = "interview" -> TalkTypeOK
      [] part = "artifacts" -> ArtTypeOK [] part = "analysis" -> WatchTypeOK
      [] part = "report" -> ReportTypeOK [] part = "mock" -> MockTypeOK
      [] part = "expiry" -> ExpiryTypeOK [] part = "limiter" -> LimiterTypeOK
      [] part = "llm" -> LlmTypeOK

PartInit ==
    /\ part \in Parts
    /\ ClientInit /\ PollerInit /\ RoutingInit /\ HomeInit /\ PlanInit /\ TalkInit
    /\ ArtInit /\ WatchInit /\ ReportInit /\ MockInit
    /\ ExpiryInit /\ LimiterInit /\ LlmInit
    /\ part = "artifacts" \/ ~art.sample
    /\ part = "llm" \/ wanted = "json"

ClientParts == <<clientVars, pollerVars, browser, home, plan, talk, art, watch, rep, mock>>
ServerParts == <<expiryVars, limiterVars, llmVars>>
RunClient == part = "client" /\ ClientNext
    /\ UNCHANGED <<part, ServerParts, pollerVars, browser, home, plan, talk, art, watch, rep, mock>>
RunPoller == part = "poller" /\ PollerNext
    /\ UNCHANGED <<part, ServerParts, clientVars, browser, home, plan, talk, art, watch, rep, mock>>
RunRouting == part = "routing" /\ RoutingNext
    /\ UNCHANGED <<part, ServerParts, clientVars, pollerVars, home, plan, talk, art, watch, rep, mock>>
RunHome == part = "home" /\ HomeNext
    /\ UNCHANGED <<part, ServerParts, clientVars, pollerVars, browser, plan, talk, art, watch, rep, mock>>
RunPlan == part = "plan" /\ PlanNext
    /\ UNCHANGED <<part, ServerParts, clientVars, pollerVars, browser, home, talk, art, watch, rep, mock>>
RunInterview == part = "interview" /\ TalkNext
    /\ UNCHANGED <<part, ServerParts, clientVars, pollerVars, browser, home, plan, art, watch, rep, mock>>
RunArtifacts == part = "artifacts" /\ ArtNext
    /\ UNCHANGED <<part, ServerParts, clientVars, pollerVars, browser, home, plan, talk, watch, rep, mock>>
RunAnalysis == part = "analysis" /\ WatchNext
    /\ UNCHANGED <<part, ServerParts, clientVars, pollerVars, browser, home, plan, talk, art, rep, mock>>
RunReport == part = "report" /\ ReportNext
    /\ UNCHANGED <<part, ServerParts, clientVars, pollerVars, browser, home, plan, talk, art, watch, mock>>
RunMock == part = "mock" /\ MockNext
    /\ UNCHANGED <<part, ServerParts, clientVars, pollerVars, browser, home, plan, talk, art, watch, rep>>
RunExpiry == part = "expiry" /\ ExpiryNext /\ UNCHANGED <<part, ClientParts, limiterVars, llmVars>>
RunLimiter == part = "limiter" /\ LimiterNext /\ UNCHANGED <<part, ClientParts, expiryVars, llmVars>>
RunLlm == part = "llm" /\ LlmNext /\ UNCHANGED <<part, ClientParts, expiryVars, limiterVars>>
PartNext ==
    \/ RunClient \/ RunPoller \/ RunRouting \/ RunHome \/ RunPlan \/ RunInterview
    \/ RunArtifacts \/ RunAnalysis \/ RunReport \/ RunMock
    \/ RunExpiry \/ RunLimiter \/ RunLlm

-----------------------------------------------------------------------------
\* The kinds of call of each part, numbered.  Every call of the client ends
\* (BusyEnds), so its caller goes on; fairness is asked of each kind by
\* itself, or one kind could starve another.
CallKinds == 1..5
WatchKinds == <<{"cancel", "cancelReroute"}, {"retry", "retryReroute"}>>
ReportKinds == <<"all", "charts", "artifacts">>
ReportPanels == <<"report", "charts", "artifacts">>

CallOf(n) ==
    CASE part = "client" -> n = 1 /\ ClientProgress
      [] part = "poller" -> n = 1 /\ PollerProgress
      [] part = "home" ->
            \/ n = 1 /\ \E c \in home.calls : CreateEnds(c)
            \/ n = 2 /\ \E c \in home.calls : c.kind \in {"start", "get"} /\ (Succeeds(c) \/ Fails(c))
            \/ n = 3 /\ \E c \in home.calls :
                  c.kind \in SampleKinds
                  /\ (SampleCreated(c) \/ SampleStartFails(c) \/ Succeeds(c) \/ Fails(c))
      [] part = "plan" -> n = 1 /\ \E u \in plan.uploads : UploadAccepted(u) \/ UploadFails(u)
      [] part = "interview" ->
            \/ n = 1 /\ \E sub \in talk.subs : AnswerArrives(sub) \/ SubmitEnds(sub)
            \/ n = 2 /\ \E load \in talk.loads : LoadArrives(load) \/ LoadEnds(load)
            \/ n = 3 /\ \E end \in talk.ends : CompleteEnds(end)
      [] part = "artifacts" ->
            \/ n = 1 /\ \E l \in art.loads : FetchEnds(l)
            \/ n = 2 /\ \E l \in art.links : LinkEnds(l)
            \/ n = 3 /\ \E c \in art.asks : AskEnds(c)
            \/ n - 3 \in Files /\ UploadEnds(n - 3)
      [] part = "analysis" -> 
            /\ n \in DOMAIN WatchKinds
            /\ \E c \in watch.asks :
                  c.kind \in WatchKinds[n]
                  /\ (CancelEnds(c) \/ RetryEnds(c) \/ SessionRead(c) \/ AskGone(c))
      [] part = "report" ->
            /\ n \in DOMAIN ReportKinds
            /\ \E l \in rep.loadings : l.kind = ReportKinds[n] /\ Settled(l)
      [] part = "llm" -> n = 1 /\ LlmNext
      [] part \in {"routing", "mock", "expiry", "limiter"} -> FALSE
CallEnds(n) == CallOf(n) /\ UNCHANGED part
\* The state of the machine that runs.
Machine ==
    CASE part = "client" -> clientVars [] part = "poller" -> pollerVars
      [] part = "routing" -> browser [] part = "home" -> home [] part = "plan" -> plan
      [] part = "interview" -> talk [] part = "artifacts" -> art
      [] part = "analysis" -> watch [] part = "report" -> rep [] part = "mock" -> mock
      [] part = "expiry" -> expiryVars [] part = "limiter" -> limiterVars
      [] part = "llm" -> llmVars
PartSpec ==
    PartInit /\ [][PartNext]_partVars /\ \A n \in CallKinds : WF_Machine(CallEnds(n))

-----------------------------------------------------------------------------
\* The buttons that are disabled and the spinners that turn while a call is on
\* its way: the flags a page raises, numbered.
BusyFlags == 1..5
Raised ==
    CASE part = "client" -> <<phase \notin {"idle", "settled"}>>
      [] part = "home" /\ home.page = "home" -> <<home.creating, home.starting, home.sampling>>
      [] part = "plan" -> <<plan.phase = "uploading">>
      [] part = "interview" -> <<talk.submitting, talk.loading, talk.completing>>
      [] part = "artifacts" ->
            <<art.loading, art.starting, art.submittingLink # "none">>
            \o [f \in Files |-> art.files[f].mine /\ art.files[f].status \in {"queued", "uploading"}]
      [] part = "analysis" -> <<watch.cancelling, watch.retrying>>
      [] part = "report" -> [i \in 1..3 |-> rep.panels[ReportPanels[i]] = "loading"]
      [] part = "llm" -> <<LlmOutcome = "awaited">>
      [] OTHER -> <<>>
Busy(n) == n \in DOMAIN Raised /\ Raised[n]

\* No button stays disabled and no spinner turns for ever: every handler lowers
\* its flag, whichever answer, abort, refusal or later call ends it, and in
\* whatever order; request() always settles, and so does the call of an agent.
BusyEnds == \A n \in BusyFlags : []<>~Busy(n)
=============================================================================
