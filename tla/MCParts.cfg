CONSTANTS
 Requests <- MCRequests
 Refusals <- MCRefusals
 MaxRetries = 3
 LastVersion = 3
 TerminalVersions <- MCTerminalVersions
 MaxFailures = 3
 MaxAsks = 1
 MaxSessions = 2
 MaxHomeCalls = 2
 MaxPlanJobs = 2
 LastTalk = 1
 LastQuestion = 2
 MaxSubmissions = 2
 MaxLoads = 1
 MaxSeq = 2
 MaxFiles = 2
 MaxArtCalls = 2
 ArtifactMaxCount = 2
 MaxMockJobs = 2
 MaxMockArtifacts = 1
 SessionIds = {1, 2}
 SESSION_TTL = 1
 SESSION_TTL_REPORT_READY = 2
 max_active_sessions = 2
 TombstoneCap = 1
 LastHour = 3
 Addresses = {1, 2}
 limit = 2
 TicksPerSecond = 2
 WindowSeconds = 2
 StaleSeconds = 2
 MaxAddresses = 1
 LastTick = 5
 retry_count = 2
SPECIFICATION PartSpec
INVARIANT PartTypeOK
INVARIANT OneChain
INVARIANT RedirectsEnd
INVARIANT HomeRecoverable
INVARIANT UploadWatched
INVARIANT NoFalseAnswered
INVARIANT AnalysisWatched
INVARIANT WindowHonoured
PROPERTY CallImplemented
PROPERTY NewsInOrder
PROPERTY MockFollowsLifecycle
PROPERTY LifetimeKept
PROPERTY GoneForGood
PROPERTY AgentCallImplemented
CHECK_DEADLOCK FALSE
PROPERTY EndNoticed
PROPERTY BusyEnds
