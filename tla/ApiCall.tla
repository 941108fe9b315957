------------------------------- MODULE ApiCall -------------------------------
(***************************************************************************)
(* What one call of the client's request() promises its caller, whatever   *)
(* it does inside: it closes once; it goes over the wire once if the call  *)
(* is not idempotent and at most Budget times if it is; after the caller   *)
(* has cancelled it nothing more is sent; the server executes only what    *)
(* was sent; it closes well only if the server, or the mock backend in the *)
(* browser, has answered, and as aborted only if the caller cancelled it.  *)
(* The server may still execute what was sent after the call has closed.   *)
(***************************************************************************)
EXTENDS Naturals

CONSTANTS Calls, NoCall, IdempotentCalls, Budget

VARIABLES call, stage, sends, executions, localAnswer, cancelled, outcome
callVars == <<call, stage, sends, executions, localAnswer, cancelled, outcome>>

SendLimit(c) == IF c \in IdempotentCalls THEN Budget ELSE 1

CallInit ==
    /\ call = NoCall /\ stage = "idle" /\ sends = 0 /\ executions = {}
    /\ localAnswer = FALSE /\ cancelled = FALSE /\ outcome = "none"

Open(c) ==
    /\ stage = "idle" /\ call' = c /\ stage' = "open"
    /\ UNCHANGED <<sends, executions, localAnswer, cancelled, outcome>>

Send ==
    /\ stage = "open" /\ ~cancelled /\ sends < SendLimit(call)
    /\ sends' = sends + 1
    /\ UNCHANGED <<call, stage, executions, localAnswer, cancelled, outcome>>

ExecuteAtServer ==
    /\ \E i \in 1..sends \ executions : executions' = executions \cup {i}
    /\ UNCHANGED <<call, stage, sends, localAnswer, cancelled, outcome>>

AnswerLocally ==
    /\ stage = "open" /\ localAnswer' = TRUE
    /\ UNCHANGED <<call, stage, sends, executions, cancelled, outcome>>

Cancel ==
    /\ cancelled' = TRUE
    /\ \/ UNCHANGED <<stage, outcome>>
       \/ stage = "open" /\ stage' = "closed" /\ outcome' = "ABORTED"
    /\ UNCHANGED <<call, sends, executions, localAnswer>>

Close(o) ==
    /\ stage = "open" /\ stage' = "closed" /\ outcome' = o
    /\ localAnswer' \in {localAnswer, TRUE}
    /\ o = "ok" => executions # {} \/ localAnswer'
    /\ o = "ABORTED" => cancelled
    /\ UNCHANGED <<call, sends, executions, cancelled>>

CallNext ==
    \/ \E c \in Calls : Open(c)
    \/ Send \/ ExecuteAtServer \/ AnswerLocally \/ Cancel
    \/ \E o \in {"ok", "ABORTED", "failed"} : Close(o)
CallSpec == CallInit /\ [][CallNext]_callVars
=============================================================================
