------------------------------ MODULE PartProofs ------------------------------
(***************************************************************************)
(* Proofs that the machines run side by side each keep to their own        *)
(* specification, so that what is proved of each of them for every value   *)
(* of the constants holds in the composition that the run checks.          *)
(***************************************************************************)
EXTENDS MCParts, CallProofs, BrowserProofs, PageProofs, InterviewPageProofs, StoreProofs

-----------------------------------------------------------------------------
\* Each machine starts as by itself.
LEMMA PartsStart ==
    ASSUME PartInit
    PROVE  /\ part \in Parts
           /\ ClientInit /\ PollerInit /\ RoutingInit /\ HomeInit /\ PlanInit /\ TalkInit
           /\ ArtInit /\ WatchInit /\ ReportInit /\ MockInit
           /\ ExpiryInit /\ LimiterInit /\ LlmInit
BY DEF PartInit

\* A step of the composition is a step of one machine; the others do not move.
LEMMA PartsStep ==
    ASSUME [PartNext]_partVars
    PROVE  /\ part' = part
           /\ [ClientNext]_clientVars
           /\ [PollerNext]_pollerVars
           /\ [RoutingNext]_browser
           /\ [HomeNext]_home
           /\ [PlanNext]_plan
           /\ [TalkNext]_talk
           /\ [ArtNext]_art
           /\ [WatchNext]_watch
           /\ [ReportNext]_rep
           /\ [MockNext]_mock
           /\ [ExpiryNext]_expiryVars
           /\ [LimiterNext]_limiterVars
           /\ [LlmNext]_llmVars
<1> USE DEF ClientParts, ServerParts
<1>1. CASE RunClient
    BY <1>1, Zenon DEF RunClient
<1>2. CASE RunPoller
    BY <1>2, Zenon DEF RunPoller
<1>3. CASE RunRouting
    BY <1>3, Zenon DEF RunRouting
<1>4. CASE RunHome
    BY <1>4, Zenon DEF RunHome
<1>5. CASE RunPlan
    BY <1>5, Zenon DEF RunPlan
<1>6. CASE RunInterview
    BY <1>6, Zenon DEF RunInterview
<1>7. CASE RunArtifacts
    BY <1>7, Zenon DEF RunArtifacts
<1>8. CASE RunAnalysis
    BY <1>8, Zenon DEF RunAnalysis
<1>9. CASE RunReport
    BY <1>9, Zenon DEF RunReport
<1>10. CASE RunMock
    BY <1>10, Zenon DEF RunMock
<1>11. CASE RunExpiry
    BY <1>11, Zenon DEF RunExpiry
<1>12. CASE RunLimiter
    BY <1>12, Zenon DEF RunLimiter
<1>13. CASE RunLlm
    BY <1>13, Zenon DEF RunLlm
<1>14. CASE UNCHANGED partVars
    BY <1>14, Zenon DEF partVars
<1>15. QED
    BY <1>1, <1>2, <1>3, <1>4, <1>5, <1>6, <1>7,
       <1>8, <1>9, <1>10, <1>11, <1>12, <1>13, <1>14, Zenon DEF PartNext

\* The part is chosen at the start, and every machine runs by its own specification:
\* nothing that another part does is a step of it.
LEMMA EachByItself ==
    PartSpec => /\ [](part \in Parts)
                /\ ClientSpec
                /\ PollerSpec
                /\ RoutingSpec
                /\ HomeSpec
                /\ PlanSpec
                /\ TalkSpec
                /\ ArtSpec
                /\ WatchSpec
                /\ ReportSpec
                /\ MockSpec
                /\ ExpirySpec
                /\ LimiterSpec
                /\ LlmSpec
<1>1. PartSpec => ClientSpec
    BY PartsStart, PartsStep, PTL DEF PartSpec, ClientSpec
<1>2. PartSpec => PollerSpec
    BY PartsStart, PartsStep, PTL DEF PartSpec, PollerSpec
<1>3. PartSpec => RoutingSpec
    BY PartsStart, PartsStep, PTL DEF PartSpec, RoutingSpec
<1>4. PartSpec => HomeSpec
    BY PartsStart, PartsStep, PTL DEF PartSpec, HomeSpec
<1>5. PartSpec => PlanSpec
    BY PartsStart, PartsStep, PTL DEF PartSpec, PlanSpec
<1>6. PartSpec => TalkSpec
    BY PartsStart, PartsStep, PTL DEF PartSpec, TalkSpec
<1>7. PartSpec => ArtSpec
    BY PartsStart, PartsStep, PTL DEF PartSpec, ArtSpec
<1>8. PartSpec => WatchSpec
    BY PartsStart, PartsStep, PTL DEF PartSpec, WatchSpec
<1>9. PartSpec => ReportSpec
    BY PartsStart, PartsStep, PTL DEF PartSpec, ReportSpec
<1>10. PartSpec => MockSpec
    BY PartsStart, PartsStep, PTL DEF PartSpec, MockSpec
<1>11. PartSpec => ExpirySpec
    BY PartsStart, PartsStep, PTL DEF PartSpec, ExpirySpec
<1>12. PartSpec => LimiterSpec
    BY PartsStart, PartsStep, PTL DEF PartSpec, LimiterSpec
<1>13. PartSpec => LlmSpec
    BY PartsStart, PartsStep, PTL DEF PartSpec, LlmSpec
<1>14. PartSpec => [](part \in Parts)
    <2>1. part \in Parts /\ [PartNext]_partVars => (part \in Parts)'
        BY PartsStep
    <2>2. QED
        BY <2>1, PartsStart, PTL DEF PartSpec
<1>15. QED
    BY <1>1, <1>2, <1>3, <1>4, <1>5, <1>6, <1>7,
       <1>8, <1>9, <1>10, <1>11, <1>12, <1>13, <1>14, PTL

\* Whichever machine runs, its state keeps its type, for every value of the constants.
THEOREM PartTypeCorrect == PartSpec => []PartTypeOK
<1>1. /\ part \in Parts
      /\ ClientTypeOK
      /\ PollerTypeOK
      /\ RoutingTypeOK
      /\ HomeTypeOK
      /\ PlanTypeOK
      /\ TalkTypeOK
      /\ ArtTypeOK
      /\ WatchTypeOK
      /\ ReportTypeOK
      /\ MockTypeOK
      /\ ExpiryTypeOK
      /\ LimiterTypeOK
      /\ LlmTypeOK
      => PartTypeOK
    BY Zenon DEF PartTypeOK, Parts
<1>2. QED
    BY <1>1, EachByItself, ClientTypeCorrect, PollerTypeCorrect, RoutingTypeCorrect,
       HomeTypeCorrect, PlanTypeCorrect, TalkTypeCorrect,
       ArtTypeCorrect, WatchTypeCorrect, ReportTypeCorrect,
       MockTypeCorrect, ExpiryTypeCorrect, LimiterTypeCorrect,
       LlmTypeCorrect, PTL

\* The client's requests and its poller, the pages and their store, the limiter, the
\* expiry and the agent's call hold, in the composition that is checked, what the
\* theorems promise of each: its safety for every value of the constants.
THEOREM PartsKeepTheirPromises ==
    PartSpec => /\ [](OneChain /\ RedirectsEnd /\ HomeRecoverable /\ UploadWatched
                        /\ NoFalseAnswered /\ AnalysisWatched /\ WindowHonoured)
                /\ CallImplemented /\ NewsInOrder /\ MockFollowsLifecycle
                /\ LifetimeKept /\ GoneForGood /\ AgentCallImplemented
<1>1. PartSpec => [](OneChain /\ RedirectsEnd /\ HomeRecoverable /\ UploadWatched
                       /\ NoFalseAnswered /\ AnalysisWatched /\ WindowHonoured)
    BY EachByItself, ChainNeverForks, NoRedirectCircle, HomeStaysRecoverable,
       ExtractionStaysWatched, FirstTicksAreAnswers, AnalysisStaysWatched, LimitIsHonoured, PTL
<1>2. QED
    BY <1>1, EachByItself, CallIsImplemented, VersionsInOrder, MockFollows,
       SessionsKeepTheirLifetime, GoneSessionsStayGone, AgentCallIsImplemented, PTL
=============================================================================
