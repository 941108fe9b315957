-------------------------- MODULE SessionLifecycle --------------------------
(***************************************************************************)
(* What the backend promises of a session's status, whatever jobs it runs: *)
(* the state diagram of TRD 4.3 as the code keeps it.  A session passes    *)
(* the interview once, is ANALYZING only while a pipeline is at work, and  *)
(* is REPORT_READY only with a published report, which is never lost.      *)
(*                                                                         *)
(* Beyond the diagram, a session analyses again after a report, falls back *)
(* to INTERVIEW_DONE by a cancellation in any later status, and may have   *)
(* several pipelines at work, since a retry starts one beside those whose  *)
(* cancellation is still pending.                                          *)
(***************************************************************************)
CONSTANT Workers   \* whoever can execute a pipeline

VARIABLES
    status,     \* the status shown to the client
    atWork,     \* the workers executing a pipeline
    published   \* GET /report has something to answer

vars == <<status, atWork, published>>

Interviewed == status \notin {"CREATED", "INTERVIEWING"}

Init ==
    /\ status = "CREATED"
    /\ atWork = {}
    /\ published = FALSE

StartInterview ==
    /\ status = "CREATED"
    /\ status' = "INTERVIEWING"
    /\ UNCHANGED <<atWork, published>>

\* By its last answer, or without an interview by the plan's intents.
EndInterview ==
    /\ ~Interviewed
    /\ status' = "INTERVIEW_DONE"
    /\ UNCHANGED <<atWork, published>>

Analyze(w) ==
    /\ Interviewed
    /\ w \notin atWork
    /\ status' = "ANALYZING"
    /\ atWork' = atWork \cup {w}
    /\ UNCHANGED published

\* A pipeline that fails or notices its cancellation may have published before.
GiveBack(w) ==
    /\ w \in atWork
    /\ status' = "INTERVIEW_DONE"
    /\ atWork' = atWork \ {w}
    /\ published' \in {published, TRUE}

Deliver(w) ==
    /\ w \in atWork
    /\ status' = "REPORT_READY"
    /\ atWork' = atWork \ {w}
    /\ published' = TRUE

\* A retry that finds nothing left to do announces the report that is there.
DeliverAgain ==
    /\ Interviewed
    /\ published
    /\ status' = "REPORT_READY"
    /\ UNCHANGED <<atWork, published>>

Cancel ==
    /\ Interviewed
    /\ status' = "INTERVIEW_DONE"
    /\ UNCHANGED <<atWork, published>>

Next ==
    \/ StartInterview
    \/ EndInterview
    \/ \E w \in Workers : Analyze(w) \/ GiveBack(w) \/ Deliver(w)
    \/ DeliverAgain
    \/ Cancel

Spec == Init /\ [][Next]_vars

=============================================================================
