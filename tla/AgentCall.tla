------------------------------ MODULE AgentCall ------------------------------
(***************************************************************************)
(* What the jobs and the interview rely on when they await an agent: the   *)
(* call ends by an answer or by LlmUnavailableError, an answer is one the  *)
(* model gave, requests are bounded, and tokens are counted once a reply.  *)
(***************************************************************************)
EXTENDS Naturals

CONSTANT MaxRequests

VARIABLES outcome, sent, replies, counted
agentVars == <<outcome, sent, replies, counted>>

AgentInit == outcome = "awaited" /\ sent = 0 /\ replies = 0 /\ counted = 0

\* One more request to the model, a reply that may be the answer, and the end
\* without one.
Ask ==
    /\ outcome = "awaited" /\ sent < MaxRequests /\ sent' = sent + 1
    /\ UNCHANGED <<outcome, replies, counted>>
Reply ==
    /\ outcome = "awaited" /\ replies < sent
    /\ replies' = replies + 1 /\ counted' = counted + 1
    /\ outcome' \in {"awaited", "answer", "unavailable"} /\ UNCHANGED sent
GiveUp ==
    /\ outcome = "awaited" /\ sent > 0 /\ outcome' = "unavailable"
    /\ UNCHANGED <<sent, replies, counted>>

AgentNext == Ask \/ Reply \/ GiveUp
AgentSpec == AgentInit /\ [][AgentNext]_agentVars
=============================================================================
