----------------------------- MODULE CallProofs -----------------------------
(***************************************************************************)
(* Proofs about the clients that retry, for any number of retries: the     *)
(* frontend's request() keeps ApiCall's promise for any endpoints and any  *)
(* refusals of the server, the backend's call of a model AgentCall's, and  *)
(* the poller of a job has one chain of requests and shows no older news.  *)
(***************************************************************************)
EXTENDS ApiClient, JobPoller, LlmCall, TLAPS

(***************************************************************************)
(* The strengthening: what the loop has spent agrees with where it is.     *)
(***************************************************************************)

\* A call is a request of this client's; before it nothing has happened.
Called ==
    /\ phase # "idle" => req \in Requests
    /\ phase = "idle" => attempt = 0 /\ fetches = 0 /\ ~rateLimitedRetried
    /\ phase = "errorBody" => refusal \in Refusals

\* Waiting is for a retry that is allowed and not yet counted.
RetriesAllowed ==
    /\ phase \in {"backoff", "rateWait"} => req.idempotent
    /\ phase = "backoff" => attempt < MaxRetries
    /\ phase = "rateWait" => rateLimitedRetried
    /\ attempt # 0 \/ rateLimitedRetried => req.idempotent

\* Every fetch but the one under way has been paid for by a retry.
Spent == attempt + (IF rateLimitedRetried THEN 1 ELSE 0)
FetchesPaid ==
    fetches <= Spent + (IF phase \in {"idle", "ready", "mock", "rateWait"} THEN 0 ELSE 1)

\* The server executes a fetch once, and a body comes after an execution.
ServedOnce ==
    /\ onWire \cap executed = {}
    /\ phase = "body" => executed # {}

CInv == ClientTypeOK /\ Called /\ RetriesAllowed /\ FetchesPaid /\ ServedOnce

-----------------------------------------------------------------------------
(* The errors and the catch block *)

\* Every error the caller sees has one of the client's codes.
LEMMA CodesKnown ==
    /\ \A c \in {"PARSE_ERROR", "TIMEOUT", "NETWORK_ERROR"} : ClientError(c).code \in Codes
    /\ \A r \in Refusals, raw \in RawCodes :
          toErrorViewModel(raw, r.status, r.retryAfter).code \in Codes
<1>1. \A c \in {"PARSE_ERROR", "TIMEOUT", "NETWORK_ERROR"} : ClientError(c).code \in Codes
  BY DEF ClientError, Codes
<1>2. \A status : inferCodeFromStatus(status) \in Codes
  BY DEF inferCodeFromStatus, Codes, ServerCodes
<1>3. ASSUME NEW r \in Refusals, NEW raw \in RawCodes
      PROVE  toErrorViewModel(raw, r.status, r.retryAfter).code \in Codes
  <2>1. toErrorViewModel(raw, r.status, r.retryAfter).code
          = IF raw # "none" THEN raw ELSE inferCodeFromStatus(r.status)
    BY DEF toErrorViewModel
  <2>2. raw # "none" => raw \in Codes
    BY DEF RawCodes, Codes
  <2> QED
    BY <1>2, <2>1, <2>2
<1> QED
  BY <1>1, <1>3

\* The catch block waits out a first limit, backs off while attempts are left, or
\* gives up; only the calls that may be repeated are.
LEMMA CatchErrorFacts ==
    ASSUME NEW vm, CatchError(vm)
    PROVE  \/ /\ phase' = "rateWait" /\ ~rateLimitedRetried /\ rateLimitedRetried' = TRUE
              /\ req.idempotent /\ attempt' = attempt /\ outcome' = outcome
           \/ /\ phase' = "backoff" /\ req.idempotent /\ attempt < MaxRetries
              /\ attempt' = attempt /\ rateLimitedRetried' = rateLimitedRetried
              /\ outcome' = outcome
           \/ /\ phase' = "settled" /\ outcome' = vm.code
              /\ attempt' = attempt /\ rateLimitedRetried' = rateLimitedRetried
BY DEF CatchError, MayWaitOutLimit, MayRetry, Settle

\* From a phase in which a fetch, or the mock, has answered, the catch block keeps
\* the invariant.
LEMMA CatchErrorKeeps ==
    ASSUME CInv, NEW vm, vm.code \in Codes, CatchError(vm),
           phase \in {"sent", "mock", "body", "errorBody"},
           UNCHANGED <<req, fetches, onWire, executed, aborted, mockOn>>,
           refusal' \in {refusal, NoRefusal}, mockAnswered' \in BOOLEAN
    PROVE  CInv'
<1> USE ClientAssumption DEF CInv
<1>1. ClientTypeOK'
  BY CatchErrorFacts DEF ClientTypeOK, Phases
<1>2. Called'
  BY CatchErrorFacts DEF Called
<1>3. RetriesAllowed'
  BY CatchErrorFacts DEF RetriesAllowed
<1>4. FetchesPaid'
  <2>1. attempt \in Nat /\ MaxRetries \in Nat /\ fetches \in Nat /\ rateLimitedRetried \in BOOLEAN
    BY DEF ClientTypeOK, MaxFetches
  <2>2. fetches <= attempt + (IF rateLimitedRetried THEN 1 ELSE 0) + 1
    BY <2>1 DEF FetchesPaid, Spent
  <2>3. phase' = "rateWait" /\ ~rateLimitedRetried /\ rateLimitedRetried' /\ attempt' = attempt
        => FetchesPaid'
    BY <2>1, <2>2 DEF FetchesPaid, Spent
  <2>4. phase' \in {"backoff", "settled"} /\ rateLimitedRetried' = rateLimitedRetried
        /\ attempt' = attempt => FetchesPaid'
    BY <2>1, <2>2 DEF FetchesPaid, Spent
  <2> QED
    BY CatchErrorFacts, <2>3, <2>4
<1>5. ServedOnce'
  BY CatchErrorFacts DEF ServedOnce
<1> QED
  BY <1>1, <1>2, <1>3, <1>4, <1>5

-----------------------------------------------------------------------------
(* The invariant *)

LEMMA CInvInit == ClientInit => CInv
<1> SUFFICES ASSUME ClientInit PROVE CInv
  OBVIOUS
<1> USE ClientAssumption DEF ClientInit
<1>1. ClientTypeOK
  <2>1. MaxRetries \in Nat /\ 0 \in 0..MaxRetries /\ 0 \in 0..MaxFetches
    BY DEF MaxFetches
  <2>2. attempt \in 0..MaxRetries /\ fetches \in 0..MaxFetches
    BY <2>1
  <2>3. onWire \in SUBSET (1..fetches) /\ executed \in SUBSET (1..fetches)
    OBVIOUS
  <2>4. phase \in Phases
    BY DEF Phases
  <2> QED
    BY <2>2, <2>3, <2>4 DEF ClientTypeOK
<1>2. Called /\ RetriesAllowed /\ ServedOnce
  BY DEF Called, RetriesAllowed, ServedOnce
<1>3. FetchesPaid
  BY DEF FetchesPaid, Spent
<1> QED
  BY <1>1, <1>2, <1>3 DEF CInv

\* The steps of request() itself.
LEMMA ProgressKeeps == CInv /\ ClientProgress => CInv'
<1> SUFFICES ASSUME CInv, ClientProgress PROVE CInv'
  OBVIOUS
<1> USE ClientAssumption DEF CInv
<1>0. attempt \in Nat /\ MaxRetries \in Nat /\ fetches \in Nat /\ rateLimitedRetried \in BOOLEAN
  BY DEF ClientTypeOK, MaxFetches
<1>1. CASE CallMock
  BY <1>1 DEF CallMock, ClientTypeOK, Phases, Called, RetriesAllowed, FetchesPaid, Spent, ServedOnce
<1>2. CASE RejectAborted
  BY <1>0, <1>2 DEF RejectAborted, Settle, ClientTypeOK, Phases, Called, RetriesAllowed,
     FetchesPaid, Spent, ServedOnce
<1>3. CASE Fetch
  <2>1. fetches <= MaxRetries + 1
    BY <1>0, <1>3 DEF Fetch, FetchesPaid, Spent, ClientTypeOK
  <2>2. ClientTypeOK'
    BY <1>0, <1>3, <2>1 DEF Fetch, ClientTypeOK, Phases, MaxFetches
  <2>3. FetchesPaid'
    BY <1>0, <1>3 DEF Fetch, FetchesPaid, Spent
  <2>4. ServedOnce'
    BY <1>0, <1>3 DEF Fetch, ServedOnce, ClientTypeOK
  <2> QED
    BY <1>3, <2>2, <2>3, <2>4 DEF Fetch, Called, RetriesAllowed
<1>4. CASE MockAnswers
  <2>1. CASE Settle("ok")
    BY <1>0, <1>4, <2>1 DEF MockAnswers, Settle, ClientTypeOK, Phases, Called, RetriesAllowed,
       FetchesPaid, Spent, ServedOnce
  <2>2. ASSUME NEW r \in Refusals,
               CatchError(toErrorViewModel(r.code, r.status, r.retryAfter))
        PROVE  CInv'
    <3>1. r.code \in RawCodes
      BY DEF Refusal
    <3> QED
      BY <1>4, <2>2, <3>1, CodesKnown, CatchErrorKeeps DEF MockAnswers
  <2> QED
    BY <1>4, <2>1, <2>2 DEF MockAnswers
<1>5. CASE BodyRead
  <2>1. CASE Settle("ok")
    BY <1>0, <1>5, <2>1 DEF BodyRead, Settle, ClientTypeOK, Phases, Called, RetriesAllowed,
       FetchesPaid, Spent, ServedOnce
  <2>2. CASE CatchError(ClientError("PARSE_ERROR"))
    BY <1>5, <2>2, CodesKnown, CatchErrorKeeps DEF BodyRead, ClientTypeOK
  <2> QED
    BY <1>5, <2>1, <2>2 DEF BodyRead
<1>6. CASE ErrorBodyRead
  <2>1. PICK raw \in {refusal.code, "none"} :
            CatchError(toErrorViewModel(raw, refusal.status, refusal.retryAfter))
    BY <1>6 DEF ErrorBodyRead
  <2>2. refusal \in Refusals /\ raw \in RawCodes
    BY <1>6, <2>1 DEF ErrorBodyRead, Called, Refusal, RawCodes
  <2> QED
    BY <1>6, <2>1, <2>2, CodesKnown, CatchErrorKeeps DEF ErrorBodyRead, ClientTypeOK
<1>7. CASE TimesOut
  BY <1>7, CodesKnown, CatchErrorKeeps DEF TimesOut, FetchFails, ClientTypeOK
<1>8. CASE Wake
  <2>1. ClientTypeOK'
    BY <1>0, <1>8 DEF Wake, ClientTypeOK, Phases, RetriesAllowed
  <2>2. FetchesPaid'
    BY <1>0, <1>8 DEF Wake, FetchesPaid, Spent
  <2>3. Called' /\ RetriesAllowed' /\ ServedOnce'
    BY <1>0, <1>8 DEF Wake, Called, RetriesAllowed, ServedOnce
  <2> QED
    BY <2>1, <2>2, <2>3
<1> QED
  BY <1>1, <1>2, <1>3, <1>4, <1>5, <1>6, <1>7, <1>8 DEF ClientProgress

\* The network, the server, the caller and the mock switch.
LEMMA WorldKeeps ==
    ASSUME CInv,
           \/ \E r \in Requests : Call(r)
           \/ ServerExecutes \/ RequestLost \/ GoodAnswer \/ ErrorAnswer \/ NetworkFails
           \/ Abort \/ SwitchMock
    PROVE  CInv'
<1> USE ClientAssumption DEF CInv
<1>0. attempt \in Nat /\ MaxRetries \in Nat /\ fetches \in Nat /\ rateLimitedRetried \in BOOLEAN
  BY DEF ClientTypeOK, MaxFetches
<1>1. ASSUME NEW r \in Requests, Call(r) PROVE CInv'
  BY <1>0, <1>1 DEF Call, ClientTypeOK, Phases, Called, RetriesAllowed, FetchesPaid, Spent, ServedOnce
<1>2. CASE ServerExecutes
  BY <1>2 DEF ServerExecutes, ClientTypeOK, Called, RetriesAllowed, FetchesPaid, Spent, ServedOnce
<1>3. CASE RequestLost
  BY <1>3 DEF RequestLost, ClientTypeOK, Called, RetriesAllowed, FetchesPaid, Spent, ServedOnce
<1>4. CASE GoodAnswer
  BY <1>0, <1>4 DEF GoodAnswer, Settle, ClientTypeOK, Phases, Called, RetriesAllowed, FetchesPaid,
     Spent, ServedOnce
<1>5. CASE ErrorAnswer
  BY <1>0, <1>5 DEF ErrorAnswer, ClientTypeOK, Phases, Called, RetriesAllowed, FetchesPaid, Spent, ServedOnce
<1>6. CASE NetworkFails
  BY <1>6, CodesKnown, CatchErrorKeeps DEF NetworkFails, FetchFails, ClientTypeOK
<1>7. CASE Abort
  <2>1. FetchesPaid'
    BY <1>0, <1>7 DEF Abort, Settle, FetchesPaid, Spent
  <2> QED
    BY <1>0, <1>7, <2>1 DEF Abort, Settle, ClientTypeOK, Phases, Called, RetriesAllowed, ServedOnce
<1>8. CASE SwitchMock
  BY <1>8 DEF SwitchMock, ClientTypeOK, Called, RetriesAllowed, FetchesPaid, Spent, ServedOnce
<1> QED
  BY <1>1, <1>2, <1>3, <1>4, <1>5, <1>6, <1>7, <1>8

LEMMA CInvStep == CInv /\ [ClientNext]_clientVars => CInv'
<1>1. CASE ClientNext
  BY <1>1, ProgressKeeps, WorldKeeps DEF ClientNext
<1>2. CASE UNCHANGED clientVars
  BY <1>2 DEF clientVars, CInv, ClientTypeOK, Called, RetriesAllowed, FetchesPaid, Spent, ServedOnce
<1> QED
  BY <1>1, <1>2

-----------------------------------------------------------------------------
(* The refinement *)

LEMMA CallInit == ClientInit => AbstractCall!CallInit
BY DEF ClientInit, AbstractCall!CallInit, AbstractStage, AbstractOutcome

\* A failure's code is none of the other outcomes.
LEMMA FailureIsFailure == \A c \in Codes : c \notin {"none", "ok", "ABORTED"}
BY DEF Codes, ServerCodes

\* The catch block closes the abstract call, or leaves it open.
LEMMA CatchErrorStep ==
    ASSUME CInv, NEW vm, vm.code \in Codes, CatchError(vm),
           phase \in {"sent", "mock", "body", "errorBody"},
           UNCHANGED <<req, fetches, executed, aborted>>,
           mockAnswered' \in {mockAnswered, TRUE}
    PROVE  \/ AbstractCall!Close("failed") \/ AbstractCall!AnswerLocally
           \/ UNCHANGED AbstractCall!callVars
<1>1. CASE phase' = "settled" /\ outcome' = vm.code
  <2>1. AbstractOutcome' = "failed"
    BY <1>1, FailureIsFailure DEF AbstractOutcome
  <2> QED
    BY <1>1, <2>1 DEF AbstractCall!Close, AbstractStage
<1>2. CASE phase' \in {"rateWait", "backoff"} /\ outcome' = outcome
  <2>1. AbstractOutcome' = AbstractOutcome /\ AbstractStage' = "open" /\ AbstractStage = "open"
    BY <1>2 DEF AbstractOutcome, AbstractStage
  <2>2. CASE mockAnswered' = mockAnswered
    BY <2>1, <2>2 DEF AbstractCall!callVars
  <2>3. CASE mockAnswered' = TRUE
    BY <2>1, <2>3 DEF AbstractCall!AnswerLocally
  <2> QED
    BY <2>2, <2>3
<1> QED
  BY <1>1, <1>2, CatchErrorFacts

LEMMA ProgressImplements == CInv /\ ClientProgress => [AbstractCall!CallNext]_(AbstractCall!callVars)
<1> SUFFICES ASSUME CInv, ClientProgress PROVE [AbstractCall!CallNext]_(AbstractCall!callVars)
  OBVIOUS
<1>0. attempt \in Nat /\ fetches \in Nat /\ rateLimitedRetried \in BOOLEAN
  BY ClientAssumption DEF CInv, ClientTypeOK, MaxFetches
<1>c. AbstractCall!Close("failed") \/ AbstractCall!AnswerLocally \/ UNCHANGED AbstractCall!callVars
      => [AbstractCall!CallNext]_(AbstractCall!callVars)
  BY DEF AbstractCall!CallNext
<1>1. CASE CallMock \/ Wake
  BY <1>1 DEF CallMock, Wake, AbstractCall!callVars, AbstractStage, AbstractOutcome
<1>2. CASE RejectAborted
  <2>1. AbstractCall!Close("ABORTED")
    BY <1>2 DEF RejectAborted, Settle, AbstractCall!Close, AbstractStage, AbstractOutcome
  <2> QED
    BY <2>1 DEF AbstractCall!CallNext
<1>3. CASE Fetch
  <2>1. req \in Requests
    BY <1>3 DEF Fetch, CInv, Called
  <2>2. req.idempotent => fetches < MaxFetches
    BY <1>0, <1>3, ClientAssumption DEF Fetch, CInv, FetchesPaid, Spent, ClientTypeOK, MaxFetches
  <2>3. ~req.idempotent => fetches < 1
    BY <1>0, <1>3 DEF Fetch, CInv, FetchesPaid, Spent, RetriesAllowed
  <2>4. fetches < AbstractCall!SendLimit(req)
    BY <2>1, <2>2, <2>3 DEF AbstractCall!SendLimit
  <2>5. AbstractCall!Send
    BY <1>3, <2>4 DEF Fetch, AbstractCall!Send, AbstractStage, AbstractOutcome
  <2> QED
    BY <2>5 DEF AbstractCall!CallNext
<1>4. CASE MockAnswers
  <2>1. CASE Settle("ok")
    <3>1. AbstractCall!Close("ok")
      BY <1>4, <2>1 DEF MockAnswers, Settle, AbstractCall!Close, AbstractStage, AbstractOutcome
    <3> QED
      BY <3>1 DEF AbstractCall!CallNext
  <2>2. ASSUME NEW r \in Refusals,
               CatchError(toErrorViewModel(r.code, r.status, r.retryAfter))
        PROVE  [AbstractCall!CallNext]_(AbstractCall!callVars)
    <3>1. r.code \in RawCodes
      BY ClientAssumption DEF Refusal
    <3> QED
      BY <1>4, <1>c, <2>2, <3>1, CodesKnown, CatchErrorStep DEF MockAnswers
  <2> QED
    BY <1>4, <2>1, <2>2 DEF MockAnswers
<1>5. CASE BodyRead
  <2>1. CASE Settle("ok")
    <3>1. executed # {}
      BY <1>5 DEF BodyRead, CInv, ServedOnce
    <3>2. AbstractCall!Close("ok")
      BY <1>5, <2>1, <3>1 DEF BodyRead, Settle, AbstractCall!Close, AbstractStage, AbstractOutcome
    <3> QED
      BY <3>2 DEF AbstractCall!CallNext
  <2>2. CASE CatchError(ClientError("PARSE_ERROR"))
    BY <1>5, <1>c, <2>2, CodesKnown, CatchErrorStep DEF BodyRead
  <2> QED
    BY <1>5, <2>1, <2>2 DEF BodyRead
<1>6. CASE ErrorBodyRead
  <2>1. PICK raw \in {refusal.code, "none"} :
            CatchError(toErrorViewModel(raw, refusal.status, refusal.retryAfter))
    BY <1>6 DEF ErrorBodyRead
  <2>2. refusal \in Refusals /\ raw \in RawCodes
    BY <1>6, <2>1, ClientAssumption DEF ErrorBodyRead, CInv, Called, Refusal, RawCodes
  <2> QED
    BY <1>6, <1>c, <2>1, <2>2, CodesKnown, CatchErrorStep DEF ErrorBodyRead
<1>7. CASE TimesOut
  BY <1>7, <1>c, CodesKnown, CatchErrorStep DEF TimesOut, FetchFails
<1> QED
  BY <1>1, <1>2, <1>3, <1>4, <1>5, <1>6, <1>7 DEF ClientProgress

LEMMA WorldImplements ==
    ASSUME CInv,
           \/ \E r \in Requests : Call(r)
           \/ ServerExecutes \/ RequestLost \/ GoodAnswer \/ ErrorAnswer \/ NetworkFails
           \/ Abort \/ SwitchMock
    PROVE  [AbstractCall!CallNext]_(AbstractCall!callVars)
<1>c. AbstractCall!Close("failed") \/ AbstractCall!AnswerLocally \/ UNCHANGED AbstractCall!callVars
      => [AbstractCall!CallNext]_(AbstractCall!callVars)
  BY DEF AbstractCall!CallNext
<1>1. ASSUME NEW r \in Requests, Call(r) PROVE [AbstractCall!CallNext]_(AbstractCall!callVars)
  <2>1. AbstractCall!Open(r)
    BY <1>1 DEF Call, AbstractCall!Open, AbstractStage, AbstractOutcome
  <2> QED
    BY <2>1 DEF AbstractCall!CallNext
<1>2. CASE ServerExecutes
  <2>1. PICK i \in onWire : executed' = executed \cup {i}
    BY <1>2 DEF ServerExecutes
  <2>2. i \in 1..fetches \ executed
    BY <2>1 DEF CInv, ClientTypeOK, ServedOnce
  <2>3. AbstractCall!ExecuteAtServer
    BY <1>2, <2>1, <2>2 DEF ServerExecutes, AbstractCall!ExecuteAtServer, AbstractStage, AbstractOutcome
  <2> QED
    BY <2>3 DEF AbstractCall!CallNext
<1>3. CASE RequestLost \/ ErrorAnswer \/ SwitchMock
  BY <1>3 DEF RequestLost, ErrorAnswer, SwitchMock, AbstractCall!callVars, AbstractStage, AbstractOutcome
<1>4. CASE GoodAnswer
  <2>1. CASE Settle("ok")
    <3>1. AbstractCall!Close("ok")
      BY <1>4, <2>1 DEF GoodAnswer, Settle, AbstractCall!Close, AbstractStage, AbstractOutcome
    <3> QED
      BY <3>1 DEF AbstractCall!CallNext
  <2>2. CASE phase' = "body" /\ outcome' = outcome
    BY <1>4, <2>2 DEF GoodAnswer, AbstractCall!callVars, AbstractStage, AbstractOutcome
  <2> QED
    BY <1>4, <2>1, <2>2 DEF GoodAnswer
<1>5. CASE NetworkFails
  BY <1>5, <1>c, CodesKnown, CatchErrorStep DEF NetworkFails, FetchFails
<1>6. CASE Abort
  <2>1. AbstractCall!Cancel
    BY <1>6 DEF Abort, Settle, AbstractCall!Cancel, AbstractStage, AbstractOutcome
  <2> QED
    BY <2>1 DEF AbstractCall!CallNext
<1> QED
  BY <1>1, <1>2, <1>3, <1>4, <1>5, <1>6

LEMMA CallStep ==
    CInv /\ [ClientNext]_clientVars => [AbstractCall!CallNext]_(AbstractCall!callVars)
<1>1. CASE ClientNext
  BY <1>1, ProgressImplements, WorldImplements DEF ClientNext
<1>2. CASE UNCHANGED clientVars
  BY <1>2 DEF clientVars, AbstractCall!callVars, AbstractStage, AbstractOutcome
<1> QED
  BY <1>1, <1>2

-----------------------------------------------------------------------------
(* Theorems *)

\* What request() has spent always agrees with where its loop is.
THEOREM ClientInvariance == ClientSpec => []CInv
BY CInvInit, CInvStep, PTL DEF ClientSpec

\* Every variable of request() keeps its type; in particular it never puts more than
\* MaxRetries + 2 requests on the wire, the one after a 429 included.
THEOREM ClientTypeCorrect == ClientSpec => []ClientTypeOK
<1>1. CInv => ClientTypeOK
  BY DEF CInv
<1> QED
  BY <1>1, ClientInvariance, PTL

\* request() implements ApiCall for any endpoints, refusals and number of retries: one
\* outcome, one request for a call that is not idempotent, none after the abort, and
\* "ok" only after an execution.
THEOREM CallIsImplemented == ClientSpec => CallImplemented
<1>1. CInv /\ [ClientNext]_clientVars => [AbstractCall!CallNext]_(AbstractCall!callVars)
  BY CallStep
<1> QED
  BY <1>1, CallInit, ClientInvariance, PTL DEF ClientSpec, CallImplemented, AbstractCall!CallSpec

-----------------------------------------------------------------------------
(* Every call of request() is finite *)

\* How far a call has come: each retry that is used starts a round, and a round goes from the
\* request to its answer, the answer's body and the wait for the next.
RoundProgress ==
    CASE phase = "rateWait" -> 0
      [] phase = "ready" -> 1
      [] phase \in {"mock", "sent"} -> 2
      [] phase \in {"body", "errorBody"} -> 3
      [] phase = "backoff" -> 4
CallProgress ==
    CASE phase = "idle" -> 0
      [] phase = "settled" -> 5 * (MaxRetries + 2)
      [] OTHER -> 5 * Spent + RoundProgress

\* A call takes 5 * (MaxRetries + 2) steps at most.
CallBounded == CallProgress \in 0..(5 * (MaxRetries + 2))

\* Each step of request(), and each answer or failure of the network, brings the call nearer
\* its one outcome; no abort, mock switch or late execution starts it again.
CallAdvances ==
    [][/\ ClientProgress \/ GoodAnswer \/ ErrorAnswer \/ NetworkFails => CallProgress' > CallProgress
       /\ CallProgress' >= CallProgress]_clientVars

LEMMA CallIsBounded == CInv => CallBounded
<1> SUFFICES ASSUME CInv PROVE CallProgress \in 0..(5 * (MaxRetries + 2))
  BY DEF CallBounded
<1>1. /\ attempt \in 0..MaxRetries /\ MaxRetries \in Nat /\ rateLimitedRetried \in BOOLEAN
      /\ phase \in {"idle", "ready", "mock", "sent", "errorBody", "body", "backoff",
                    "rateWait", "settled"}
  BY ClientAssumption DEF CInv, ClientTypeOK, Phases
<1>2. Spent \in 0..(MaxRetries + 1)
  BY <1>1 DEF Spent
<1> QED
  BY <1>1, <1>2 DEF CallProgress, RoundProgress

\* What an error leads to is further than any answer of the same round.
LEMMA CatchErrorAdvances ==
    ASSUME CInv, phase \in {"mock", "sent", "body", "errorBody"},
           \/ Settle("ok")
           \/ \E vm : CatchError(vm)
    PROVE  CallProgress' > CallProgress
<1>1. /\ attempt \in 0..MaxRetries /\ MaxRetries \in Nat /\ rateLimitedRetried \in BOOLEAN
  BY ClientAssumption DEF CInv, ClientTypeOK
<1>2. Spent \in 0..(MaxRetries + 1)
  BY <1>1 DEF Spent
<1>3. CallProgress = 5 * Spent + RoundProgress /\ RoundProgress \in {2, 3}
  BY DEF CallProgress, RoundProgress
<1>4. CASE phase' = "settled"
  BY <1>1, <1>2, <1>3, <1>4 DEF CallProgress
<1>5. CASE phase' = "rateWait" /\ ~rateLimitedRetried /\ rateLimitedRetried' = TRUE
           /\ attempt' = attempt
  <2>1. Spent' = Spent + 1
    BY <1>1, <1>5 DEF Spent
  <2> QED
    BY <1>2, <1>3, <1>5, <2>1 DEF CallProgress, RoundProgress
<1>6. CASE phase' = "backoff" /\ rateLimitedRetried' = rateLimitedRetried /\ attempt' = attempt
  <2>1. Spent' = Spent
    BY <1>6 DEF Spent
  <2> QED
    BY <1>2, <1>3, <1>6, <2>1 DEF CallProgress, RoundProgress
<1> QED
  BY <1>4, <1>5, <1>6, CatchErrorFacts DEF Settle

\* The call's own steps and the answers it waits for.
LEMMA OwnStepsAdvance ==
    ASSUME CInv, ClientProgress \/ GoodAnswer \/ ErrorAnswer \/ NetworkFails
    PROVE  CallProgress' > CallProgress
<1>1. /\ attempt \in 0..MaxRetries /\ MaxRetries \in Nat /\ rateLimitedRetried \in BOOLEAN
  BY ClientAssumption DEF CInv, ClientTypeOK
<1>2. Spent \in 0..(MaxRetries + 1)
  BY <1>1 DEF Spent
<1>3. ASSUME UNCHANGED <<attempt, rateLimitedRetried>> PROVE Spent' = Spent
  BY <1>3 DEF Spent
<1>4. CASE CallMock \/ Fetch \/ ErrorAnswer
  BY <1>2, <1>3, <1>4 DEF CallMock, Fetch, ErrorAnswer, CallProgress, RoundProgress
<1>5. CASE RejectAborted
  BY <1>1, <1>2, <1>5 DEF RejectAborted, Settle, CallProgress, RoundProgress
<1>6. CASE GoodAnswer
  <2>1. CASE Settle("ok")
    BY <1>6, <2>1, CatchErrorAdvances DEF GoodAnswer
  <2>2. CASE phase' = "body" /\ UNCHANGED <<attempt, rateLimitedRetried>>
    BY <1>2, <1>3, <1>6, <2>2 DEF GoodAnswer, CallProgress, RoundProgress
  <2> QED
    BY <1>6, <2>1, <2>2 DEF GoodAnswer
<1>7. CASE MockAnswers \/ BodyRead \/ ErrorBodyRead
  BY <1>7, CatchErrorAdvances DEF MockAnswers, BodyRead, ErrorBodyRead
<1>8. CASE TimesOut \/ NetworkFails
  BY <1>8, CatchErrorAdvances DEF TimesOut, NetworkFails, FetchFails
<1>9. CASE Wake
  <2>1. CASE phase = "backoff"
    <3>1. phase' = "ready" /\ Spent' = Spent + 1
      BY <1>1, <1>9, <2>1 DEF Wake, Spent
    <3> QED
      BY <1>2, <2>1, <3>1 DEF CallProgress, RoundProgress
  <2>2. CASE phase = "rateWait"
    <3>1. phase' = "ready" /\ Spent' = Spent
      BY <1>9, <2>2 DEF Wake, Spent
    <3> QED
      BY <1>2, <2>2, <3>1 DEF CallProgress, RoundProgress
  <2> QED
    BY <1>9, <2>1, <2>2 DEF Wake
<1> QED
  BY <1>4, <1>5, <1>6, <1>7, <1>8, <1>9 DEF ClientProgress

LEMMA CallStaysBounded == CInv /\ [ClientNext]_clientVars => CallBounded'
<1>1. CInv' => CallBounded'
  BY CallIsBounded, PTL
<1> QED
  BY <1>1, CInvStep

\* The rest of the world does not set a call back.
LEMMA CallNeverSetBack == CInv /\ [ClientNext]_clientVars => CallProgress' >= CallProgress
<1> SUFFICES ASSUME CInv, [ClientNext]_clientVars PROVE CallProgress' >= CallProgress
  OBVIOUS
<1>1. /\ CallProgress \in 0..(5 * (MaxRetries + 2)) /\ CallProgress' \in 0..(5 * (MaxRetries + 2))
      /\ MaxRetries \in Nat
  BY CallIsBounded, CallStaysBounded, ClientAssumption DEF CallBounded
<1>2. CASE ClientProgress \/ GoodAnswer \/ ErrorAnswer \/ NetworkFails
  BY <1>1, <1>2, OwnStepsAdvance
<1>3. ASSUME UNCHANGED <<phase, attempt, rateLimitedRetried>>
      PROVE  CallProgress' >= CallProgress
  <2>1. CallProgress' = CallProgress
    BY <1>3 DEF CallProgress, RoundProgress, Spent
  <2> QED
    BY <1>1, <2>1
<1>4. CASE ServerExecutes \/ RequestLost \/ SwitchMock \/ UNCHANGED clientVars
  BY <1>3, <1>4 DEF ServerExecutes, RequestLost, SwitchMock, clientVars
<1>5. ASSUME phase = "idle" \/ phase' = "settled" PROVE CallProgress' >= CallProgress
  BY <1>1, <1>5 DEF CallProgress
<1>6. CASE Abort
  BY <1>3, <1>5, <1>6 DEF Abort, Settle
<1>7. CASE \E r \in Requests : Call(r)
  BY <1>5, <1>7 DEF Call
<1> QED
  BY <1>2, <1>4, <1>6, <1>7 DEF ClientNext

\* Whatever the network, the timers, the abort signal and the mock switch do, every step of
\* request() brings the call nearer its outcome, and 5 * (MaxRetries + 2) steps are all it
\* can take: that it settles is left only to its timers, which are sure to fire.
THEOREM EveryCallIsFinite == ClientSpec => []CallBounded /\ CallAdvances
<1>1. CInv => CallBounded
  BY CallIsBounded
<1>2. CInv /\ [ClientNext]_clientVars =>
        /\ ClientProgress \/ GoodAnswer \/ ErrorAnswer \/ NetworkFails => CallProgress' > CallProgress
        /\ CallProgress' >= CallProgress
  BY OwnStepsAdvance, CallNeverSetBack
<1> QED
  BY <1>1, <1>2, ClientInvariance, PTL DEF ClientSpec, CallAdvances

(***************************************************************************)
(* LlmCall: a call stays within its requests, and implements AgentCall.    *)
(***************************************************************************)

\* Requests sent before the run of the loop that is under way.
SentBefore == IF repairing THEN retry_count + 1 ELSE 0

\* A run has sent one request for each of its attempts, the one about to be sent
\* not counted, and there is a reply for the run before it.
Requested ==
    /\ llmPhase = "ready" => llmSent <= SentBefore + llmAttempt /\ llmReplies <= llmSent
    /\ llmPhase # "ready" => llmSent <= SentBefore + llmAttempt + 1 /\ llmSent > 0
    /\ llmPhase \in {"sending", "closing", "backoff"} => llmReplies < llmSent

\* A back-off leaves an attempt; the calls counted are the replies, of which a
\* run that has not ended has none.
Accounted ==
    /\ llmPhase = "backoff" => llmAttempt < retry_count
    /\ usage = llmReplies
    /\ llmPhase \in {"ready", "sending", "closing", "backoff"} =>
          llmReplies = (IF repairing THEN 1 ELSE 0)

LInv == LlmTypeOK /\ Requested /\ Accounted

LEMMA LInvInit == LlmInit => LInv
<1> SUFFICES ASSUME LlmInit PROVE LInv
    OBVIOUS
<1> USE RetryAssumption DEF RetryAssumption, LlmInit
<1>1. LlmTypeOK
    <2>1. retry_count \in Nat /\ MaxLlmRequests \in Nat
        BY DEF MaxLlmRequests
    <2>2. 0 \in 0..retry_count /\ 0 \in 0..MaxLlmRequests
        BY <2>1
    <2>3. repairing \in BOOLEAN
        OBVIOUS
    <2>4. llmReplies \in 0..2 /\ usage \in 0..2
        OBVIOUS
    <2>5. QED
        BY <2>2, <2>3, <2>4 DEF LlmTypeOK
<1>2. Requested
    BY DEF Requested, SentBefore
<1>3. Accounted
    BY DEF Accounted
<1>4. QED
    BY <1>1, <1>2, <1>3 DEF LInv

LEMMA LInvNext == LInv /\ [LlmNext]_llmVars => LInv'
<1> SUFFICES ASSUME LInv, [LlmNext]_llmVars PROVE LInv'
    OBVIOUS
<1> USE RetryAssumption DEF RetryAssumption, LInv, LlmTypeOK, Requested, Accounted, SentBefore, MaxLlmRequests
<1>1. CASE _invoke_send_fn
    BY <1>1 DEF _invoke_send_fn
<1>2. CASE SendFails
    BY <1>2 DEF SendFails, LlmCatch
<1>3. CASE LlmTimesOut
    BY <1>3 DEF LlmTimesOut
<1>4. CASE Closed
    BY <1>4 DEF Closed, LlmCatch
<1>5. CASE BackedOff
    BY <1>5 DEF BackedOff
<1>6. CASE Replied
    <2>1. LlmTypeOK'
        <3>1. llmReplies' \in 0..2 /\ usage' \in 0..2
            BY <1>6 DEF Replied
        <3>2. llmAttempt' \in 0..retry_count
            BY <1>6 DEF Replied
        <3>3. llmPhase' \in {"answered", "ready", "unavailable"}
            BY <1>6 DEF Replied
        <3>4. wanted' = wanted /\ llmSent' = llmSent
            BY <1>6 DEF Replied
        <3>5. repairing' = repairing \/ repairing' = TRUE
            BY <1>6, Zenon DEF Replied
        <3>6. QED
            BY <3>1, <3>2, <3>3, <3>4, <3>5
    <2>2. Requested'
        BY <1>6 DEF Replied
    <2>3. Accounted'
        BY <1>6 DEF Replied
    <2>4. QED
        BY <2>1, <2>2, <2>3
<1>7. CASE UNCHANGED llmVars
    BY <1>7 DEF llmVars
<1>8. QED
    BY <1>1, <1>2, <1>3, <1>4, <1>5, <1>6, <1>7 DEF LlmNext

\* Every state of a call satisfies the invariant.
THEOREM LlmInvariance == LlmSpec => []LInv
BY LInvInit, LInvNext, PTL DEF LlmSpec

\* The attempts, requests and replies of an agent's call keep their types and
\* their caps, for any number of retries.
THEOREM LlmTypeCorrect == LlmSpec => []LlmTypeOK
BY LlmInvariance, PTL DEF LInv

-----------------------------------------------------------------------------
LEMMA AgentInits == LlmInit => Agent!AgentInit
BY DEF LlmInit, Agent!AgentInit, LlmOutcome

\* A request is one more Ask, a reply is a Reply, the last failure gives up, and
\* all else goes on unseen.
LEMMA AgentSteps == LInv /\ [LlmNext]_llmVars => [Agent!AgentNext]_Agent!agentVars
<1> SUFFICES ASSUME LInv, [LlmNext]_llmVars PROVE [Agent!AgentNext]_Agent!agentVars
    OBVIOUS
<1> USE RetryAssumption DEF RetryAssumption, LInv, LlmTypeOK, Requested, Accounted, SentBefore, MaxLlmRequests,
        LlmOutcome, Agent!agentVars
<1>1. ASSUME _invoke_send_fn PROVE Agent!Ask
    BY <1>1 DEF _invoke_send_fn, Agent!Ask
<1>2. ASSUME SendFails \/ Closed PROVE Agent!GiveUp \/ UNCHANGED Agent!agentVars
    BY <1>2 DEF SendFails, Closed, LlmCatch, Agent!GiveUp
<1>3. ASSUME LlmTimesOut \/ BackedOff PROVE UNCHANGED Agent!agentVars
    BY <1>3 DEF LlmTimesOut, BackedOff
<1>4. ASSUME Replied PROVE Agent!Reply
    BY <1>4 DEF Replied, Agent!Reply
<1>5. ASSUME UNCHANGED llmVars PROVE UNCHANGED Agent!agentVars
    BY <1>5 DEF llmVars
<1>6. QED
    BY <1>1, <1>2, <1>3, <1>4, <1>5 DEF LlmNext, Agent!AgentNext

\* A call of the model keeps the promise the jobs and the interview rely on: at
\* most twice retry_count + 1 requests, one count of tokens a reply, and one end
\* with an answer that came from a reply, or without one.
THEOREM AgentCallIsImplemented == LlmSpec => AgentCallImplemented
<1>1. LlmInit => Agent!AgentInit
    BY AgentInits
<1>2. LInv /\ [LlmNext]_llmVars => [Agent!AgentNext]_Agent!agentVars
    BY AgentSteps
<1>3. QED
    BY <1>1, <1>2, LlmInvariance, PTL DEF LlmSpec, AgentCallImplemented, Agent!AgentSpec

-----------------------------------------------------------------------------
(* Every call of an agent is finite *)

\* How far a call of an agent has come: its run of the loop, its attempt, and where in the
\* attempt it is suspended.
LlmProgress ==
    CASE llmPhase \in {"answered", "unavailable"} -> 8 * (retry_count + 1)
      [] llmPhase \notin {"answered", "unavailable"} ->
           4 * (SentBefore + llmAttempt) +
             (CASE llmPhase = "ready" -> 0 [] llmPhase = "sending" -> 1
                [] llmPhase = "closing" -> 2 [] llmPhase = "backoff" -> 3)

\* A call of an agent takes 8 * (retry_count + 1) steps at most.
LlmBounded == LlmProgress \in 0..(8 * (retry_count + 1))

\* Every step of it brings it nearer its end: the repair, which starts the attempts again,
\* is not repaired.
LlmAdvances == [][LlmProgress' > LlmProgress]_llmVars

LEMMA LlmIsBounded == LInv => LlmBounded
BY RetryAssumption DEF LInv, LlmTypeOK, LlmBounded, LlmProgress, SentBefore

LEMMA LlmStepAdvances == LInv /\ LlmNext => LlmProgress' > LlmProgress
<1> SUFFICES ASSUME LInv, LlmNext PROVE LlmProgress' > LlmProgress
    OBVIOUS
<1> USE RetryAssumption DEF LInv, LlmTypeOK, Accounted, LlmProgress, SentBefore
<1>1. CASE _invoke_send_fn
    BY <1>1 DEF _invoke_send_fn
<1>2. CASE SendFails \/ Closed
    BY <1>2 DEF SendFails, Closed, LlmCatch
<1>3. CASE LlmTimesOut
    BY <1>3 DEF LlmTimesOut
<1>4. CASE BackedOff
    BY <1>4 DEF BackedOff
<1>5. CASE Replied
    <2>1. CASE llmPhase' \in {"answered", "unavailable"}
        BY <1>5, <2>1 DEF Replied
    <2>2. CASE ~repairing /\ llmPhase' = "ready" /\ repairing' = TRUE /\ llmAttempt' = 0
        BY <1>5, <2>2 DEF Replied
    <2>3. QED
        BY <1>5, <2>1, <2>2 DEF Replied
<1>6. QED
    BY <1>1, <1>2, <1>3, <1>4, <1>5 DEF LlmNext

\* For any number of retries, time-outs, back-offs and the one repair: a call of an agent
\* cannot go on for ever.
THEOREM EveryAgentCallIsFinite == LlmSpec => []LlmBounded /\ LlmAdvances
<1>1. LInv => LlmBounded
    BY LlmIsBounded
<1>2. LInv /\ [LlmNext]_llmVars => [LlmProgress' > LlmProgress]_llmVars
    BY LlmStepAdvances
<1>3. QED
    BY <1>1, <1>2, LlmInvariance, PTL DEF LlmSpec, LlmAdvances

-----------------------------------------------------------------------------
(* The poller *)

\* What the page was shown last is the version of the ETag, the server is not
\* behind it, and an answer with a body on its way is news.
AnswersAreNews ==
    /\ shown = etag /\ etag <= jobVersion
    /\ \A c \in Slots : calls[c].version # 0 => calls[c].version > etag
    /\ \A c \in Slots : calls[c].version <= jobVersion
    /\ \A c \in Slots : calls[c].state # "answered" => calls[c].version = 0
    /\ \A c \in Slots : calls[c].state = "aborted" => stopped

\* A verdict is given by stopping, and a poller has been started before that.
VerdictStops ==
    /\ verdict # "none" => stopped
    /\ verdict = "terminal" => shown \in TerminalVersions
    /\ stopped => started
    /\ ~started => armed = {} /\ ~inFlight

\* The failures counted while the poller runs are those it still tolerates.
FailuresTolerated == ~stopped => failureCount <= MaxFailures

JInv == PollerTypeOK /\ OneChain /\ AnswersAreNews /\ VerdictStops /\ FailuresTolerated

-----------------------------------------------------------------------------
(* What the steps share *)

LEMMA JInvInit == PollerInit => JInv
<1> SUFFICES ASSUME PollerInit PROVE JInv
  OBVIOUS
<1> USE PollerAssumption DEF PollerInit
<1>1. PollerTypeOK
  <2>1. calls \in [Slots -> [state: CallStates, version: Versions \cup {0}]]
    BY DEF Free, CallStates
  <2>2. jobVersion \in Versions /\ failureCount \in 0..(MaxFailures + 1)
    BY DEF Versions
  <2> QED
    BY <2>1, <2>2 DEF PollerTypeOK
<1>2. OneChain
  BY DEF OneChain, Outstanding, Free, Slots
<1>3. AnswersAreNews
  BY DEF AnswersAreNews, Free, Slots
<1>4. VerdictStops /\ FailuresTolerated
  BY DEF VerdictStops, FailuresTolerated
<1> QED
  BY <1>1, <1>2, <1>3, <1>4 DEF JInv

\* A tick of a poller that runs, with no timer left armed, leaves one timer or
\* one call.
LEMMA PollTickKeeps ==
    ASSUME JInv, NEW h \in BOOLEAN, Tick({}, h), ~stopped, started' = TRUE,
           hidden' \in BOOLEAN,
           UNCHANGED <<stopped, etag, failureCount, jobVersion, shown, verdict>>
    PROVE  JInv'
<1> USE DEF JInv
<1>1. CASE inFlight /\ armed' = {} /\ UNCHANGED <<timer, inFlight, calls>>
  <2>1. PollerTypeOK'
    BY <1>1 DEF PollerTypeOK
  <2>2. OneChain'
    BY <1>1 DEF OneChain, Outstanding
  <2>3. (AnswersAreNews /\ VerdictStops /\ FailuresTolerated)'
    BY <1>1 DEF AnswersAreNews, VerdictStops, FailuresTolerated
  <2> QED
    BY <2>1, <2>2, <2>3
<1>2. CASE ~inFlight /\ Schedule({}) /\ UNCHANGED <<inFlight, calls>>
  <2>1. timer' \in Timers /\ armed' = {timer'}
    BY <1>2 DEF Schedule, Timers
  <2>2. PollerTypeOK'
    BY <1>2, <2>1 DEF PollerTypeOK
  <2>3. OneChain'
    BY <1>2, <2>1 DEF OneChain, Outstanding
  <2>4. (AnswersAreNews /\ VerdictStops /\ FailuresTolerated)'
    BY <1>2 DEF AnswersAreNews, VerdictStops, FailuresTolerated
  <2> QED
    BY <2>2, <2>3, <2>4
<1>3. ASSUME ~inFlight, inFlight' = TRUE, armed' = {}, timer' = timer,
             NEW c \in Slots, calls' = [calls EXCEPT ![c].state = "pending"]
      PROVE  JInv'
  <2>1. \A d \in Slots : calls[d].state = "free" /\ calls[d].version = 0
    BY <1>3 DEF OneChain, Outstanding, AnswersAreNews
  <2>2. /\ \A d \in Slots : d # c => calls'[d] = calls[d]
        /\ calls'[c].state = "pending" /\ calls'[c].version = 0
    BY <1>3, <2>1 DEF PollerTypeOK
  <2>3. PollerTypeOK'
    BY <1>3 DEF PollerTypeOK, CallStates
  <2>4. Outstanding' = {c}
    BY <2>1, <2>2 DEF Outstanding
  <2>5. OneChain'
    BY <1>3, <2>4 DEF OneChain
  <2>6. AnswersAreNews'
    BY <2>1, <2>2, <1>3 DEF AnswersAreNews
  <2>7. (VerdictStops /\ FailuresTolerated)'
    BY <1>3 DEF VerdictStops, FailuresTolerated
  <2> QED
    BY <2>3, <2>5, <2>6, <2>7
<1> QED
  BY <1>1, <1>2, <1>3 DEF Tick

\* Stopping leaves no timer, and of the calls in "rest" the free ones stay free.
LEMMA StopFacts ==
    ASSUME JInv, started, ~stopped, NEW rest \in [Slots -> [state: CallStates, version: Versions \cup {0}]],
           Stop(rest)
    PROVE  /\ stopped' = TRUE /\ armed' = {}
           /\ calls' \in [Slots -> [state: CallStates, version: Versions \cup {0}]]
           /\ \A c \in Slots :
                 \/ calls'[c] = rest[c]
                 \/ /\ rest[c].state = "pending"
                    /\ calls'[c].state = "aborted" /\ calls'[c].version = 0
<1>1. armed \ {timer} = {}
  BY DEF JInv, OneChain
<1>2. PICK deaf \in SUBSET Slots :
        calls' = [c \in Slots |->
            IF rest[c].state = "pending" /\ c \notin deaf
            THEN [state |-> "aborted", version |-> 0] ELSE rest[c]]
  BY DEF Stop
<1>3. \A c \in Slots : calls'[c] = IF rest[c].state = "pending" /\ c \notin deaf
            THEN [state |-> "aborted", version |-> 0] ELSE rest[c]
  BY <1>2
<1>4. \A c \in Slots : calls'[c] \in [state: CallStates, version: Versions \cup {0}]
  BY <1>3 DEF CallStates
<1>5. calls' \in [Slots -> [state: CallStates, version: Versions \cup {0}]]
  BY <1>2, <1>4
<1> QED
  BY <1>1, <1>3, <1>5 DEF Stop

\* Of a poller with one chain, taking the result of call c frees every call.
LEMMA OnlyCall ==
    ASSUME JInv, NEW c \in Slots, calls[c].state # "free"
    PROVE  /\ inFlight /\ started
           /\ ~stopped => armed = {}
           /\ [calls EXCEPT ![c] = Free] \in [Slots -> [state: CallStates, version: Versions \cup {0}]]
           /\ \A d \in Slots : [calls EXCEPT ![c] = Free][d].state = "free"
                               /\ [calls EXCEPT ![c] = Free][d].version = 0
<1> USE DEF JInv
<1>1. inFlight /\ \A d \in Slots : d # c => calls[d].state = "free"
  BY DEF OneChain, Outstanding
<1>2. started /\ (~stopped => armed = {})
  BY <1>1 DEF OneChain, VerdictStops
<1>3. Free \in [state: CallStates, version: Versions \cup {0}]
  BY DEF Free, CallStates
<1>4. [calls EXCEPT ![c] = Free] \in [Slots -> [state: CallStates, version: Versions \cup {0}]]
  BY <1>3 DEF PollerTypeOK
<1>5. \A d \in Slots : [calls EXCEPT ![c] = Free][d] = IF d = c THEN Free ELSE calls[d]
  BY DEF PollerTypeOK
<1> QED
  BY <1>1, <1>2, <1>4, <1>5 DEF Free, AnswersAreNews

-----------------------------------------------------------------------------
(* The steps *)

\* The page, the tab and the timers.
LEMMA PageKeeps ==
    ASSUME JInv,
           PollStart \/ UserRefreshes \/ HideTab \/ ShowTab \/ PageStops \/ JobMoves \/ TimerFires
    PROVE  JInv'
<1> USE DEF JInv
<1>0. hidden \in BOOLEAN
  BY DEF PollerTypeOK
<1>1. ASSUME started, ~stopped PROVE armed \ {timer} = {}
  BY <1>1 DEF OneChain
<1>2. CASE PollStart
  BY <1>0, <1>2, PollTickKeeps DEF PollStart, VerdictStops
<1>3. CASE UserRefreshes
  BY <1>0, <1>1, <1>3, PollTickKeeps DEF UserRefreshes, RefreshNow, Rest
<1>4. CASE HideTab
  BY <1>4 DEF HideTab, Rest, PollerTypeOK, OneChain, Outstanding, AnswersAreNews, VerdictStops,
     FailuresTolerated
<1>5. CASE ShowTab
  <2>1. CASE RefreshNow(FALSE)
    BY <1>1, <1>5, <2>1, PollTickKeeps DEF ShowTab, RefreshNow, Rest
  <2>2. CASE UNCHANGED <<armed, timer, inFlight, calls>>
    BY <1>5, <2>2 DEF ShowTab, Rest, PollerTypeOK, OneChain, Outstanding, AnswersAreNews,
       VerdictStops, FailuresTolerated
  <2> QED
    BY <1>5, <2>1, <2>2 DEF ShowTab
<1>6. CASE PageStops
  <2>1. calls \in [Slots -> [state: CallStates, version: Versions \cup {0}]]
    BY DEF PollerTypeOK
  <2>2. /\ stopped' = TRUE /\ armed' = {}
        /\ calls' \in [Slots -> [state: CallStates, version: Versions \cup {0}]]
        /\ \A c \in Slots :
              \/ calls'[c] = calls[c]
              \/ /\ calls[c].state = "pending"
                 /\ calls'[c].state = "aborted" /\ calls'[c].version = 0
    BY <1>6, <2>1, StopFacts DEF PageStops
  <2>3. PollerTypeOK'
    BY <1>6, <2>2 DEF PageStops, PollerTypeOK
  <2>4. Outstanding' = Outstanding
    BY <2>2 DEF Outstanding
  <2>5. OneChain'
    BY <1>6, <2>2, <2>4 DEF PageStops, OneChain
  <2>6. AnswersAreNews'
    BY <1>6, <2>2 DEF PageStops, AnswersAreNews, PollerTypeOK, Versions
  <2>7. (VerdictStops /\ FailuresTolerated)'
    BY <1>6, <2>2 DEF PageStops, VerdictStops, FailuresTolerated
  <2> QED
    BY <2>3, <2>5, <2>6, <2>7
<1>7. CASE JobMoves
  <2>1. PollerTypeOK'
    BY <1>7, PollerAssumption DEF JobMoves, PollerTypeOK, Versions
  <2>2. AnswersAreNews'
    BY <1>7 DEF JobMoves, AnswersAreNews, PollerTypeOK, Versions
  <2>3. OneChain' /\ VerdictStops' /\ FailuresTolerated'
    BY <1>7 DEF JobMoves, OneChain, Outstanding, VerdictStops, FailuresTolerated
  <2> QED
    BY <2>1, <2>2, <2>3
<1>8. CASE TimerFires
  <2>1. PICK t \in armed : Tick(armed \ {t}, hidden)
    BY <1>8 DEF TimerFires
  <2>2. started /\ ~stopped
    BY <2>1 DEF OneChain, VerdictStops
  <2>3. armed \ {t} = {}
    BY <2>1, <2>2 DEF OneChain
  <2> QED
    BY <1>0, <1>8, <2>1, <2>2, <2>3, PollTickKeeps DEF TimerFires, Rest
<1> QED
  BY <1>2, <1>3, <1>4, <1>5, <1>6, <1>7, <1>8

\* The server's answer, and an answer nobody waits for.
LEMMA AnswerKeeps ==
    ASSUME JInv, NEW c \in Slots, Answer(c) \/ Dropped(c)
    PROVE  JInv'
<1> USE DEF JInv
<1>1. CASE Answer(c)
  <2>1. calls[c].state = "pending" /\ UNCHANGED <<Rest, armed, timer, inFlight, hidden>>
    BY <1>1 DEF Answer
  <2>2. etag \in Versions \cup {0} /\ jobVersion \in Versions
    BY DEF PollerTypeOK
  <2>3. /\ calls' \in [Slots -> [state: CallStates, version: Versions \cup {0}]]
        /\ \A d \in Slots : d # c => calls'[d] = calls[d]
        /\ calls'[c].state \in {"answered", "failed"}
        /\ \/ calls'[c].state = "answered"
              /\ calls'[c].version = IF etag = jobVersion THEN 0 ELSE jobVersion
           \/ calls'[c].version = calls[c].version
    <3>1. CASE calls' = [calls EXCEPT ![c] =
                 [state |-> "answered", version |-> IF etag = jobVersion THEN 0 ELSE jobVersion]]
      BY <2>2, <3>1 DEF PollerTypeOK, CallStates
    <3>2. CASE calls' = [calls EXCEPT ![c].state = "failed"]
      BY <3>2 DEF PollerTypeOK, CallStates
    <3> QED
      BY <1>1, <3>1, <3>2 DEF Answer
  <2>4. PollerTypeOK'
    BY <2>1, <2>3 DEF Rest, PollerTypeOK
  <2>5. Outstanding' = Outstanding
    BY <2>1, <2>3 DEF Outstanding
  <2>6. OneChain'
    BY <2>1, <2>5 DEF Rest, OneChain
  <2>7. AnswersAreNews'
    BY <2>1, <2>2, <2>3 DEF Rest, AnswersAreNews, Versions
  <2>8. (VerdictStops /\ FailuresTolerated)'
    BY <2>1 DEF Rest, VerdictStops, FailuresTolerated
  <2> QED
    BY <2>4, <2>6, <2>7, <2>8
<1>2. CASE Dropped(c)
  <2>1. calls[c].state # "free" /\ calls' = [calls EXCEPT ![c] = Free]
    BY <1>2 DEF Dropped
  <2>2. stopped
    BY <1>2 DEF Dropped, AnswersAreNews
  <2>3. started /\ \A d \in Slots : calls'[d].state = "free" /\ calls'[d].version = 0
    BY <2>1, OnlyCall
  <2>4. PollerTypeOK'
    <3>1. calls' \in [Slots -> [state: CallStates, version: Versions \cup {0}]]
      BY <2>1, OnlyCall
    <3>2. 0 \in 0..(MaxFailures + 1)
      BY PollerAssumption
    <3> QED
      BY <1>2, <3>1, <3>2 DEF Dropped, PollerTypeOK
  <2>5. OneChain'
    BY <1>2, <2>2, <2>3 DEF Dropped, OneChain, Outstanding
  <2>6. AnswersAreNews'
    BY <1>2, <2>3 DEF Dropped, AnswersAreNews, PollerTypeOK, Versions
  <2>7. (VerdictStops /\ FailuresTolerated)'
    BY <1>2, <2>2 DEF Dropped, VerdictStops, FailuresTolerated
  <2> QED
    BY <2>4, <2>5, <2>6, <2>7
<1> QED
  BY <1>1, <1>2

\* A result taken by the poller that runs ends its call, and either the next
\* timer is armed or the poller stops.
LEMMA ResultKeepsChain ==
    ASSUME JInv, NEW c \in Slots, calls[c].state # "free", ~stopped,
           started' = started, inFlight' = FALSE,
           \/ /\ Schedule(armed) /\ calls' = [calls EXCEPT ![c] = Free] /\ stopped' = stopped
           \/ /\ Stop([calls EXCEPT ![c] = Free]) /\ timer' = timer
    PROVE  /\ OneChain'
           /\ started' /\ armed' \in SUBSET Timers /\ timer' \in Timers \cup {0}
           /\ stopped' \in BOOLEAN
           /\ calls' \in [Slots -> [state: CallStates, version: Versions \cup {0}]]
           /\ \A d \in Slots : calls'[d].state = "free" /\ calls'[d].version = 0
<1> DEFINE rest == [calls EXCEPT ![c] = Free]
<1>1. /\ started /\ armed = {}
      /\ rest \in [Slots -> [state: CallStates, version: Versions \cup {0}]]
      /\ \A d \in Slots : rest[d].state = "free" /\ rest[d].version = 0
  BY OnlyCall
<1>2. \A d \in Slots : calls'[d].state = "free" /\ calls'[d].version = 0
  <2>1. CASE calls' = rest
    BY <1>1, <2>1
  <2>2. CASE Stop(rest)
    BY <1>1, <2>2, StopFacts
  <2> QED
    BY <2>1, <2>2
<1>3. Outstanding' = {}
  BY <1>2 DEF Outstanding
<1>4. CASE Schedule(armed) /\ calls' = rest /\ stopped' = stopped
  <2>1. timer' \in Timers /\ armed' = {timer'}
    BY <1>1, <1>4 DEF Schedule, Timers
  <2>2. OneChain'
    BY <1>3, <1>4, <2>1 DEF OneChain
  <2>3. stopped' \in BOOLEAN
    BY <1>4 DEF JInv, PollerTypeOK
  <2> QED
    BY <1>1, <1>2, <1>4, <2>1, <2>2, <2>3
<1>5. CASE Stop(rest) /\ timer' = timer
  <2>1. /\ stopped' = TRUE /\ armed' = {}
        /\ calls' \in [Slots -> [state: CallStates, version: Versions \cup {0}]]
    BY <1>1, <1>5, StopFacts
  <2>2. OneChain'
    BY <1>3, <2>1 DEF OneChain
  <2> QED
    BY <1>1, <1>2, <1>5, <2>1, <2>2 DEF JInv, PollerTypeOK
<1> QED
  BY <1>4, <1>5

LEMMA ResultKeeps ==
    ASSUME JInv, NEW c \in Slots, NotModified(c) \/ Updated(c) \/ Failed(c)
    PROVE  JInv'
<1>0. calls[c].state # "free" /\ ~stopped /\ started' = started /\ inFlight' = FALSE
  BY DEF NotModified, Updated, Failed
<1>1. \/ /\ Schedule(armed) /\ calls' = [calls EXCEPT ![c] = Free] /\ stopped' = stopped
      \/ /\ Stop([calls EXCEPT ![c] = Free]) /\ timer' = timer
  BY DEF NotModified, Updated, Failed
<1>2. /\ OneChain'
      /\ started' /\ armed' \in SUBSET Timers /\ timer' \in Timers \cup {0}
      /\ stopped' \in BOOLEAN
      /\ calls' \in [Slots -> [state: CallStates, version: Versions \cup {0}]]
      /\ \A d \in Slots : calls'[d].state = "free" /\ calls'[d].version = 0
  BY <1>0, <1>1, ResultKeepsChain, Zenon
<1> USE DEF JInv
<1>a. 0 \in 0..(MaxFailures + 1) /\ \A n \in 0..MaxFailures : n + 1 \in 0..(MaxFailures + 1)
  BY PollerAssumption
<1>3. verdict = "none"
  BY <1>0 DEF PollerTypeOK, VerdictStops
<1>4. CASE NotModified(c)
  <2>1. PollerTypeOK'
    BY <1>a, <1>0, <1>2, <1>4 DEF NotModified, PollerTypeOK
  <2>2. AnswersAreNews'
    BY <1>2, <1>4 DEF NotModified, AnswersAreNews, PollerTypeOK, Versions
  <2>3. (VerdictStops /\ FailuresTolerated)'
    BY PollerAssumption, <1>0, <1>2, <1>3, <1>4 DEF NotModified, VerdictStops, FailuresTolerated
  <2> QED
    BY <1>2, <2>1, <2>2, <2>3
<1>5. CASE Updated(c)
  <2> DEFINE v == calls[c].version
  <2>1. v \in Versions /\ v <= jobVersion /\ etag' = v /\ shown' = v /\ jobVersion' = jobVersion
    BY <1>5 DEF Updated, PollerTypeOK, AnswersAreNews
  <2>2. verdict' \in {"none", "terminal"} /\ (verdict' = "terminal" => v \in TerminalVersions)
        /\ (verdict' # "none" => stopped')
    BY <1>3, <1>5 DEF Updated, Stop
  <2>3. failureCount' = 0 /\ jobVersion' = jobVersion /\ hidden' = hidden
    BY <1>5 DEF Updated
  <2>4. PollerTypeOK'
    BY <1>a, <1>0, <1>2, <2>1, <2>2, <2>3 DEF PollerTypeOK
  <2>5. AnswersAreNews'
    BY <1>2, <2>1 DEF AnswersAreNews, PollerTypeOK, Versions
  <2>6. (VerdictStops /\ FailuresTolerated)'
    BY PollerAssumption, <1>0, <1>2, <2>1, <2>2, <2>3 DEF VerdictStops, FailuresTolerated
  <2> QED
    BY <1>2, <2>4, <2>5, <2>6
<1>6. CASE Failed(c)
  <2>1. failureCount \in 0..MaxFailures /\ failureCount' = failureCount + 1
    BY <1>0, <1>6 DEF Failed, PollerTypeOK, FailuresTolerated
  <2>2. /\ verdict' \in {"none", "error"} /\ (verdict' # "none" => stopped')
        /\ ~stopped' => failureCount' <= MaxFailures
    BY <1>3, <1>6 DEF Failed, Stop
  <2>3. UNCHANGED <<etag, jobVersion, hidden, shown>>
    BY <1>6 DEF Failed
  <2>4. PollerTypeOK'
    BY <1>a, <1>0, <1>2, <2>1, <2>2, <2>3 DEF PollerTypeOK
  <2>5. AnswersAreNews'
    BY <1>2, <2>3 DEF AnswersAreNews, PollerTypeOK, Versions
  <2>6. (VerdictStops /\ FailuresTolerated)'
    BY <1>2, <2>2 DEF VerdictStops, FailuresTolerated
  <2> QED
    BY <1>2, <2>4, <2>5, <2>6
<1> QED
  BY <1>4, <1>5, <1>6

LEMMA JInvStep == JInv /\ [PollerNext]_pollerVars => JInv'
<1> SUFFICES ASSUME JInv, [PollerNext]_pollerVars PROVE JInv'
  OBVIOUS
<1>1. CASE PollStart \/ UserRefreshes \/ HideTab \/ ShowTab \/ PageStops \/ JobMoves \/ TimerFires
  BY <1>1, PageKeeps
<1>2. ASSUME NEW c \in Slots, Answer(c) \/ Dropped(c) PROVE JInv'
  BY <1>2, AnswerKeeps
<1>3. ASSUME NEW c \in Slots, NotModified(c) \/ Updated(c) \/ Failed(c) PROVE JInv'
  BY <1>3, ResultKeeps
<1>4. CASE UNCHANGED pollerVars
  BY <1>4 DEF pollerVars, JInv, PollerTypeOK, OneChain, Outstanding, AnswersAreNews,
     VerdictStops, FailuresTolerated
<1> QED
  BY <1>1, <1>2, <1>3, <1>4 DEF PollerNext, PollerProgress

-----------------------------------------------------------------------------
(* The theorems *)

\* JInv holds throughout, whatever order the tab, the page, the timers, the
\* server and the answers take their steps in.
THEOREM PollerInvariance == PollerSpec => []JInv
BY JInvInit, JInvStep, PTL DEF PollerSpec

\* tick(), schedule(), stop() and the listeners keep the poller's variables in
\* their types; the failures counted end with the one too many.
THEOREM PollerTypeCorrect == PollerSpec => []PollerTypeOK
<1>1. JInv => PollerTypeOK
  BY DEF JInv
<1> QED
  BY <1>1, PollerInvariance, PTL

\* schedule() arms a timer and clears none, and tick() may be called by a timer,
\* the refresh button and the tab: there is never a second chain, never none
\* while the poller runs, and no timer after stop().
THEOREM ChainNeverForks == PollerSpec => []OneChain
<1>1. JInv => OneChain
  BY DEF JInv
<1> QED
  BY <1>1, PollerInvariance, PTL

\* onUpdate gives the versions in the server's order, each once and none after
\* stop(); a verdict stops the poller.
THEOREM VersionsInOrder == PollerSpec => NewsInOrder
<1> DEFINE News ==
        /\ shown' # shown => shown' > shown /\ ~stopped
        /\ verdict' # verdict => ~stopped /\ stopped'
        /\ verdict' = "terminal" => shown' \in TerminalVersions
<1>1. ASSUME JInv, JInv', [PollerNext]_pollerVars PROVE [News]_pollerVars
  <2>1. verdict' = "terminal" => shown' \in TerminalVersions
    BY <1>1 DEF JInv, VerdictStops
  <2>2. ASSUME NEW c \in Slots, Updated(c) PROVE News
    <3>1. ~stopped /\ shown' = calls[c].version /\ calls[c].version # 0
      BY <2>2 DEF Updated
    <3>2. shown' > shown
      BY <1>1, <3>1 DEF JInv, AnswersAreNews
    <3>3. verdict' # verdict => stopped'
      BY <2>2 DEF Updated, Stop
    <3> QED
      BY <2>1, <3>1, <3>2, <3>3
  <2>3. ASSUME NEW c \in Slots, Failed(c) PROVE News
    BY <2>1, <2>3 DEF Failed, Stop
  <2>4. ASSUME UNCHANGED <<shown, verdict>> PROVE News
    BY <2>1, <2>4
  <2>5. ASSUME NEW c \in Slots, Answer(c) \/ Dropped(c) \/ NotModified(c)
        PROVE  UNCHANGED <<shown, verdict>>
    BY <2>5 DEF Answer, Dropped, NotModified, Rest
  <2>6. PollStart \/ UserRefreshes \/ HideTab \/ ShowTab \/ PageStops \/ JobMoves \/ TimerFires
        => UNCHANGED <<shown, verdict>>
    BY DEF PollStart, UserRefreshes, HideTab, ShowTab, PageStops, JobMoves, TimerFires, Rest
  <2>7. CASE PollerNext
    BY <2>2, <2>3, <2>4, <2>5, <2>6, <2>7 DEF PollerNext, PollerProgress
  <2> QED
    BY <1>1, <2>7
<1>2. JInv /\ JInv' /\ [PollerNext]_pollerVars => [News]_pollerVars
  BY <1>1
<1> QED
  BY <1>2, PollerInvariance, PTL DEF PollerSpec, NewsInOrder
=============================================================================
