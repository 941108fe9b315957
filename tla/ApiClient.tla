------------------------------ MODULE ApiClient ------------------------------
(***************************************************************************)
(* One call of request() (shared/api/apiClient.ts) against a server and a  *)
(* network that may lose, delay or refuse it: attempts, time-outs, the two *)
(* kinds of retry, the caller's abort signal, the body read after the      *)
(* time-out has been disarmed, and the mock backend that may be switched   *)
(* on or off between two attempts.  Durations are left out: a timer may    *)
(* fire whenever it is armed.                                              *)
(***************************************************************************)
EXTENDS ApiErrors

Once(name) == [name |-> name, idempotent |-> FALSE]
Repeatable(name) == [name |-> name, idempotent |-> TRUE]
SessionEndpoints ==
    {Once("createSession"), Repeatable("getSession"), Once("updateSettings"),
     Once("uploadPlan")}
InterviewEndpoints ==
    {Repeatable("startInterview"), Repeatable("submitAnswer"),
     Repeatable("getInterviewTree")}
ArtifactEndpoints ==
    {Once("submitArtifactFile"), Once("submitArtifactLink"),
     Repeatable("getArtifacts")}
JobEndpoints == {Once("startAnalysis"), Repeatable("getJob"), Once("retryJob")}
ReportEndpoints ==
    {Repeatable("getReport"), Repeatable("getReportCharts"),
     Repeatable("getHealth"), Repeatable("getReady")}
EndingEndpoints == {Once("completeInterview"), Once("cancelJob"), Once("deleteSession")}
Endpoints == SessionEndpoints \cup InterviewEndpoints \cup ArtifactEndpoints
             \cup JobEndpoints \cup ReportEndpoints \cup EndingEndpoints

CONSTANTS Requests,     \* the endpoints that are called
          Refusals,     \* the error answers a server may give
          MaxRetries    \* RETRY_DELAYS_MS.length

Refusal == [status: ErrorStatuses, code: RawCodes, retryAfter: BOOLEAN]
ASSUME ClientAssumption ==
    /\ Requests \subseteq Endpoints
    /\ Refusals \subseteq Refusal
    /\ MaxRetries \in Nat

VARIABLES
    req,                 \* the endpoint called, or NoRequest
    phase,               \* where the loop of request() is
    attempt,             \* retries made after a network or server failure
    rateLimitedRetried,  \* the one retry after a 429 has been used
    fetches,             \* requests put on the wire by this call
    onWire,              \* those the server has not executed and may still
    executed,            \* those the server has executed
    refusal,             \* the error answer whose body is being read
    aborted,             \* the caller's signal
    mockOn,              \* a mock handler is installed
    mockAnswered,        \* the mock backend has executed the call
    outcome
clientVars == <<req, phase, attempt, rateLimitedRetried, fetches, onWire,
                executed, refusal, aborted, mockOn, mockAnswered, outcome>>

NoRequest == [name |-> "none", idempotent |-> FALSE]
NoRefusal == [status |-> 0, code |-> "none", retryAfter |-> FALSE]
Phases == {"idle", "ready", "mock", "sent", "errorBody", "body", "backoff",
           "rateWait", "settled"}
MaxFetches == MaxRetries + 2

ClientTypeOK ==
    /\ req \in Requests \cup {NoRequest}
    /\ phase \in Phases
    /\ attempt \in 0..MaxRetries
    /\ rateLimitedRetried \in BOOLEAN
    /\ fetches \in 0..MaxFetches
    /\ onWire \in SUBSET (1..fetches)
    /\ executed \in SUBSET (1..fetches)
    /\ refusal \in Refusals \cup {NoRefusal}
    /\ aborted \in BOOLEAN /\ mockOn \in BOOLEAN /\ mockAnswered \in BOOLEAN
    /\ outcome \in Codes \cup {"none", "ok", "ABORTED"}

ClientInit ==
    /\ req = NoRequest /\ phase = "idle" /\ attempt = 0
    /\ rateLimitedRetried = FALSE /\ fetches = 0 /\ onWire = {} /\ executed = {}
    /\ refusal = NoRefusal /\ aborted = FALSE /\ mockOn = FALSE
    /\ mockAnswered = FALSE /\ outcome = "none"

Settle(o) ==
    /\ phase' = "settled" /\ outcome' = o
    /\ UNCHANGED <<attempt, rateLimitedRetried>>

IsRetryableClass(vm) == vm.code \in {"NETWORK_ERROR", "TIMEOUT"} \/ vm.httpStatus >= 500

\* The catch block of request(): wait out a 429 once, back off and try again,
\* or give the error to the caller.
\* Mutant: every 429 is waited out.
WaitOutEveryLimit(vm) ==
    vm.code = "RATE_LIMITED" /\ vm.retryAfter /\ req.idempotent
MayWaitOutLimit(vm) ==
    vm.code = "RATE_LIMITED" /\ vm.retryAfter /\ ~rateLimitedRetried /\ req.idempotent
\* Mutant: a call that is not idempotent is tried again too.
RetryAnyCall(vm) == IsRetryableClass(vm) /\ attempt < MaxRetries
MayRetry(vm) == req.idempotent /\ IsRetryableClass(vm) /\ attempt < MaxRetries
CatchError(vm) ==
    \/ /\ MayWaitOutLimit(vm)
       /\ phase' = "rateWait" /\ rateLimitedRetried' = TRUE
       /\ UNCHANGED <<attempt, outcome>>
    \/ /\ ~MayWaitOutLimit(vm) /\ MayRetry(vm)
       /\ phase' = "backoff"
       /\ UNCHANGED <<attempt, rateLimitedRetried, outcome>>
    \/ /\ ~MayWaitOutLimit(vm) /\ ~MayRetry(vm)
       /\ Settle(vm.code)

Call(r) ==
    /\ phase = "idle" /\ phase' = "ready" /\ req' = r
    /\ UNCHANGED <<attempt, rateLimitedRetried, fetches, onWire, executed,
                   refusal, aborted, mockOn, mockAnswered, outcome>>

\* executeOnce: the mock handler gets the call whatever the signal says; a
\* fetch with a signal already aborted rejects at once.
CallMock ==
    /\ phase = "ready" /\ mockOn /\ phase' = "mock"
    /\ UNCHANGED <<req, attempt, rateLimitedRetried, fetches, onWire, executed,
                   refusal, aborted, mockOn, mockAnswered, outcome>>

RejectAborted ==
    /\ phase = "ready" /\ ~mockOn /\ aborted
    /\ Settle("ABORTED")
    /\ UNCHANGED <<req, fetches, onWire, executed, refusal, aborted, mockOn,
                   mockAnswered>>

Fetch ==
    /\ phase = "ready" /\ ~mockOn /\ ~aborted
    /\ phase' = "sent" /\ fetches' = fetches + 1
    /\ onWire' = onWire \cup {fetches + 1}
    /\ UNCHANGED <<req, attempt, rateLimitedRetried, executed, refusal, aborted,
                   mockOn, mockAnswered, outcome>>

MockAnswers ==
    /\ phase = "mock" /\ mockAnswered' = TRUE
    /\ \/ Settle("ok")
       \/ \E r \in Refusals : /\ r.status < 429
                              /\ CatchError(toErrorViewModel(r.code, r.status, r.retryAfter))
    /\ UNCHANGED <<req, fetches, onWire, executed, refusal, aborted, mockOn>>

\* The network and the server, also after the client has given the request up.
ServerExecutes ==
    \E i \in onWire :
        /\ onWire' = onWire \ {i} /\ executed' = executed \cup {i}
        /\ UNCHANGED <<req, phase, attempt, rateLimitedRetried, fetches, refusal,
                       aborted, mockOn, mockAnswered, outcome>>

RequestLost ==
    \E i \in onWire :
        /\ onWire' = onWire \ {i}
        /\ UNCHANGED <<req, phase, attempt, rateLimitedRetried, fetches, executed,
                       refusal, aborted, mockOn, mockAnswered, outcome>>

\* The head of a good answer arrives: a 304 (only getJob sends an ETag) and a
\* 204 need no body; the others go on to the body with the timer disarmed.
GoodAnswer ==
    /\ phase = "sent" /\ fetches \in executed
    /\ \/ req.name \in {"getJob", "deleteSession"} /\ Settle("ok")
       \/ /\ req.name # "deleteSession" /\ phase' = "body"
          /\ UNCHANGED <<attempt, rateLimitedRetried, outcome>>
    /\ UNCHANGED <<req, fetches, onWire, executed, refusal, aborted, mockOn,
                   mockAnswered>>

BodyRead ==
    /\ phase = "body"
    /\ \/ Settle("ok")
       \/ CatchError(ClientError("PARSE_ERROR"))
    /\ UNCHANGED <<req, fetches, onWire, executed, refusal, aborted, mockOn,
                   mockAnswered>>

\* The head of an error answer arrives, from the server or from what stands
\* before it; then its body, which may not hold an error object.
ErrorAnswer ==
    /\ phase = "sent" /\ phase' = "errorBody" /\ refusal' \in Refusals
    /\ onWire' = onWire \ {fetches}
    /\ UNCHANGED <<req, attempt, rateLimitedRetried, fetches, executed, aborted,
                   mockOn, mockAnswered, outcome>>

ErrorBodyRead ==
    /\ phase = "errorBody" /\ refusal' = NoRefusal
    /\ \E raw \in {refusal.code, "none"} :
          CatchError(toErrorViewModel(raw, refusal.status, refusal.retryAfter))
    /\ UNCHANGED <<req, fetches, onWire, executed, aborted, mockOn, mockAnswered>>

FetchFails(code) ==
    /\ phase = "sent" /\ CatchError(ClientError(code))
    /\ UNCHANGED <<req, fetches, onWire, executed, refusal, aborted, mockOn,
                   mockAnswered>>
TimesOut == FetchFails("TIMEOUT")
NetworkFails == FetchFails("NETWORK_ERROR")

\* sleep() ends; only a back-off counts as an attempt.
Wake ==
    /\ phase \in {"backoff", "rateWait"} /\ phase' = "ready"
    /\ attempt' = IF phase = "backoff" THEN attempt + 1 ELSE attempt
    /\ UNCHANGED <<req, rateLimitedRetried, fetches, onWire, executed, refusal,
                   aborted, mockOn, mockAnswered, outcome>>

\* The caller aborts: a fetch and a sleep that listen to the signal end; a body
\* being read and the mock backend do not notice, and a sleep that begins after
\* the abort waits to its end.
Abort ==
    /\ phase # "idle" /\ ~aborted /\ aborted' = TRUE
    /\ \/ phase \in {"sent", "backoff", "rateWait"} /\ Settle("ABORTED")
       \/ /\ phase \in {"ready", "mock", "body", "errorBody", "settled"}
          /\ UNCHANGED <<phase, attempt, rateLimitedRetried, outcome>>
    /\ UNCHANGED <<req, fetches, onWire, executed, refusal, mockOn, mockAnswered>>

SwitchMock ==
    /\ mockOn' = ~mockOn
    /\ UNCHANGED <<req, phase, attempt, rateLimitedRetried, fetches, onWire,
                   executed, refusal, aborted, mockAnswered, outcome>>

\* What is sure to come: the client's own steps, its timers, and the end of a
\* body whose head has arrived.
ClientProgress ==
    CallMock \/ RejectAborted \/ Fetch \/ MockAnswers \/ BodyRead
    \/ ErrorBodyRead \/ TimesOut \/ Wake
ClientNext ==
    \/ \E r \in Requests : Call(r)
    \/ ClientProgress
    \/ ServerExecutes \/ RequestLost \/ GoodAnswer \/ ErrorAnswer \/ NetworkFails
    \/ Abort \/ SwitchMock
ClientSpec == ClientInit /\ [][ClientNext]_clientVars

-----------------------------------------------------------------------------
AbstractStage ==
    CASE phase = "idle" -> "idle" [] phase = "settled" -> "closed" [] OTHER -> "open"
AbstractOutcome == IF outcome \in {"none", "ok", "ABORTED"} THEN outcome ELSE "failed"
AbstractCall == INSTANCE ApiCall WITH
    Calls <- Requests, NoCall <- NoRequest,
    IdempotentCalls <- {r \in Requests : r.idempotent},
    Budget <- MaxFetches,
    call <- req, stage <- AbstractStage, sends <- fetches,
    executions <- executed, localAnswer <- mockAnswered, cancelled <- aborted,
    outcome <- AbstractOutcome

\* Whatever the network, the timers, the abort signal and the mock switch do,
\* request() keeps ApiCall's promise: one outcome; a call that is not
\* idempotent goes out once, the others at most MaxRetries + 2 times, the 429
\* included; nothing is sent after the abort; "ok" only after an execution.
CallImplemented == AbstractCall!CallSpec
=============================================================================
