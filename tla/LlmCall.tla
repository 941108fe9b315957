------------------------------- MODULE LlmCall -------------------------------
(***************************************************************************)
(* One call of an agent (agents/runtime.py, agents/copilot_client.py): the *)
(* attempts with their time-out and back-off, the reply that is counted,   *)
(* and the one repair when its text holds no JSON object.  Durations are   *)
(* left out: a time-out may come whenever an attempt is under way.         *)
(***************************************************************************)
EXTENDS Naturals

CONSTANT retry_count
ASSUME RetryAssumption == retry_count \in Nat

VARIABLES
    wanted,        \* "json" (_json) or "text" (_text)
    llmPhase,      \* where the call is suspended, or how it ended
    repairing,     \* the second run, which asks for the JSON object alone
    llmAttempt,    \* of the loop in _call_with_retry
    llmSent,       \* requests given to send_fn
    llmReplies,    \* replies that came in time and could be read
    usage          \* calls counted by the sink
llmVars == <<wanted, llmPhase, repairing, llmAttempt, llmSent, llmReplies, usage>>

MaxLlmRequests == 2 * (retry_count + 1)
LlmTypeOK ==
    /\ wanted \in {"json", "text"}
    /\ llmPhase \in {"ready", "sending", "closing", "backoff", "answered", "unavailable"}
    /\ repairing \in BOOLEAN /\ llmAttempt \in 0..retry_count
    /\ llmSent \in 0..MaxLlmRequests /\ llmReplies \in 0..2 /\ usage \in 0..2

LlmInit ==
    /\ wanted \in {"json", "text"} /\ llmPhase = "ready" /\ repairing = FALSE
    /\ llmAttempt = 0 /\ llmSent = 0 /\ llmReplies = 0 /\ usage = 0

_invoke_send_fn ==
    /\ llmPhase = "ready" /\ llmPhase' = "sending" /\ llmSent' = llmSent + 1
    /\ UNCHANGED <<wanted, repairing, llmAttempt, llmReplies, usage>>

\* The except branch of the loop: back off, or give up after the last attempt.
\* Mutant: an attempt more than retry_count allows.
LlmCatchOneMore ==
    /\ llmPhase' = IF llmAttempt > retry_count THEN "unavailable" ELSE "backoff"
    /\ UNCHANGED <<wanted, repairing, llmAttempt, llmSent, llmReplies, usage>>
LlmCatch ==
    /\ llmPhase' = IF llmAttempt >= retry_count THEN "unavailable" ELSE "backoff"
    /\ UNCHANGED <<wanted, repairing, llmAttempt, llmSent, llmReplies, usage>>

\* The SDK raises, or its result cannot be coerced into a reply.
SendFails == llmPhase = "sending" /\ LlmCatch

\* wait_for cancels the attempt, and waits until it has closed its session.
LlmTimesOut ==
    /\ llmPhase = "sending" /\ llmPhase' = "closing"
    /\ UNCHANGED <<wanted, repairing, llmAttempt, llmSent, llmReplies, usage>>
Closed == llmPhase = "closing" /\ LlmCatch

BackedOff ==
    /\ llmPhase = "backoff" /\ llmPhase' = "ready" /\ llmAttempt' = llmAttempt + 1
    /\ UNCHANGED <<wanted, repairing, llmSent, llmReplies, usage>>

\* A reply in time is counted and read: text is taken as it is, JSON may be
\* missing, which is repaired once in a new run of the loop.
Replied ==
    /\ llmPhase = "sending" /\ llmReplies' = llmReplies + 1 /\ usage' = usage + 1
    /\ \/ llmPhase' = "answered" /\ UNCHANGED <<repairing, llmAttempt>>
       \/ /\ wanted = "json" /\ ~repairing
          /\ llmPhase' = "ready" /\ repairing' = TRUE /\ llmAttempt' = 0
       \/ /\ wanted = "json" /\ repairing
          /\ llmPhase' = "unavailable" /\ UNCHANGED <<repairing, llmAttempt>>
    /\ UNCHANGED <<wanted, llmSent>>

LlmNext ==
    _invoke_send_fn \/ SendFails \/ LlmTimesOut \/ Closed \/ BackedOff \/ Replied
LlmSpec == LlmInit /\ [][LlmNext]_llmVars

-----------------------------------------------------------------------------
LlmOutcome ==
    CASE llmPhase = "answered" -> "answer"
      [] llmPhase = "unavailable" -> "unavailable"
      [] OTHER -> "awaited"
Agent == INSTANCE AgentCall WITH
    MaxRequests <- MaxLlmRequests, outcome <- LlmOutcome, sent <- llmSent,
    replies <- llmReplies, counted <- usage

\* Whatever time-outs, failures and unreadable replies come in whichever order,
\* an agent's call asks the model twice retry_count + 1 times at most, counts the
\* tokens of every reply once, and ends once, with an answer the model gave or
\* without one.
AgentCallImplemented == Agent!AgentSpec
=============================================================================
