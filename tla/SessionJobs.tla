---------------------------- MODULE SessionJobs ----------------------------
(***************************************************************************)
(* One session of the backend: the HTTP handlers that upload a plan, run   *)
(* the interview, submit artifacts and start, retry or cancel jobs, and    *)
(* the asyncio tasks that execute the jobs.                                *)
(*                                                                         *)
(* Handlers of one session exclude each other by state.lock; job tasks do  *)
(* not take the lock and run between any two awaits.  A step of this       *)
(* module is the code between two awaits.                                  *)
(*                                                                         *)
(* Covered: every write of session status, active job, job records, plan,  *)
(* intents, schema, report and of the artifact list.  A handler that holds *)
(* the lock over an await is two actions.  Left to other modules or out:   *)
(* the question tree (the interview appears here by its effect on the      *)
(* session), what the stages compute, expiry and deletion of the session,  *)
(* and requests that are refused or change nothing.  The blob archive is   *)
(* taken as enabled and the demo documents as absent: without the archive, *)
(* or for a demo plan, awaits are gone, which leaves fewer interleavings   *)
(* of the same steps.  The recovery of orphan jobs at start-up walks a     *)
(* store that is always empty, so it has no action.                        *)
(*                                                                         *)
(* A definition commented "Mutant" is a bug the properties must notice: it *)
(* stands for the definition after it, and nothing here uses it.           *)
(***************************************************************************)
EXTENDS Naturals

CONSTANTS
    Jobs,          \* identities of JobRecords; a job exists once it has a status
    Tasks,         \* identities of the asyncio tasks made by create_task
    Plans,         \* identities (plan_id) of the plans that may be uploaded
    PlanSourced,   \* whether an intent extracted from a plan may name source questions:
                   \* {FALSE} by the agent's prompt, BOOLEAN by what its parser accepts
    LastStage,     \* number of pipeline stages: 6 in the code
    MaxArtifacts,  \* ARTIFACTS_MAX_COUNT
    None           \* "no job", "no task", "no plan"

ASSUME ConstantsAssumption ==
    /\ None \notin Jobs /\ None \notin Tasks /\ None \notin Plans
    /\ None \notin {"PLAN_EXTRACTION", "ANALYSIS"}
    /\ None \notin {"QUEUED", "RUNNING", "SUCCEEDED", "FAILED", "CANCELLED"}
    /\ "INTERVIEW" \notin Plans
    /\ PlanSourced \subseteq BOOLEAN
    /\ LastStage \in Nat /\ LastStage >= 2
    /\ MaxArtifacts \in Nat

VARIABLES
    status,          \* SessionState.status
    lock,            \* which handler holds SessionState.lock over an await, or "free"
    activeJob,       \* SessionState.active_job_id
    kind,            \* JobRecord.job.kind
    jobStatus,       \* JobRecord.job.status, None before the job is created
    cancelRequested, \* JobRecord.cancel_requested
    checkpoint,      \* JobRecord.checkpoints: which task wrote each stage's product
    taskJob,         \* the JobRecord a task was created with
    pc,              \* where a task is suspended
    at,              \* the pipeline stage a task is suspended in
    expectedPlan,    \* expected_plan_id, local to a task
    uploads,         \* progress of each plan's upload before the lock
    plan,            \* SessionState.plan
    intents,         \* SessionState.intents
    artifacts,       \* length of SessionState.artifact_order
    hasParsed,       \* some artifact has ingest_status PARSED
    schema,          \* the task that built SessionState.normalization_schema
    report           \* the task that published SessionState.report

jobVars  == <<activeJob, kind, jobStatus, cancelRequested>>
taskVars == <<taskJob, pc, at, expectedPlan>>
planVars == <<uploads, plan>>
artVars  == <<artifacts, hasParsed>>
outVars  == <<checkpoint, schema, report>>
vars     == <<status, lock, jobVars, taskVars, planVars, intents, artVars, outVars>>

-----------------------------------------------------------------------------
(* Data *)

\* ANALYSIS_STAGE_ORDER: INGEST, NORMALIZE, EVALUATE, DRIFT, AGGREGATE, REPORT.  Only the
\* second and the last are told apart by the control, so their number is a parameter.
Stages    == 1..LastStage
NORMALIZE == 2
REPORT    == LastStage

\* An intent is abstracted to where it came from (the plan it was extracted from, or
\* the interview) and whether its source_question_ids is non-empty.
Intent == [from : Plans \cup {"INTERVIEW"}, sourced : BOOLEAN]

SessionStatus == {"CREATED", "INTERVIEWING", "INTERVIEW_DONE", "ANALYZING", "REPORT_READY"}
Pending       == {"QUEUED", "RUNNING"}
Terminal      == {"SUCCEEDED", "FAILED", "CANCELLED"}

TypeOK ==
    /\ status \in SessionStatus
    /\ lock \in {"free", "plan", "interview", "derive", "artifact"}
    /\ activeJob \in Jobs \cup {None}
    /\ kind \in [Jobs -> {None, "PLAN_EXTRACTION", "ANALYSIS"}]
    /\ jobStatus \in [Jobs -> {None} \cup Pending \cup Terminal]
    /\ cancelRequested \in [Jobs -> BOOLEAN]
    /\ checkpoint \in [Jobs -> [Stages -> Tasks \cup {None}]]
    /\ taskJob \in [Tasks -> Jobs \cup {None}]
    /\ pc \in [Tasks -> {"idle", "spawned", "extract", "schema", "stage", "archive", "done"}]
    /\ at \in [Tasks -> {0} \cup Stages]
    /\ expectedPlan \in [Tasks -> Plans \cup {None}]
    /\ uploads \in [Plans -> {"new", "reading", "stored"}]
    /\ plan \in Plans \cup {None}
    /\ intents \subseteq Intent
    /\ artifacts \in 0..MaxArtifacts
    /\ hasParsed \in BOOLEAN
    /\ schema \in Tasks \cup {None}
    /\ report \in Tasks \cup {None}

Init ==
    /\ status = "CREATED"
    /\ lock = "free"
    /\ activeJob = None
    /\ kind = [j \in Jobs |-> None]
    /\ jobStatus = [j \in Jobs |-> None]
    /\ cancelRequested = [j \in Jobs |-> FALSE]
    /\ checkpoint = [j \in Jobs |-> [s \in Stages |-> None]]
    /\ taskJob = [t \in Tasks |-> None]
    /\ pc = [t \in Tasks |-> "idle"]
    /\ at = [t \in Tasks |-> 0]
    /\ expectedPlan = [t \in Tasks |-> None]
    /\ uploads = [p \in Plans |-> "new"]
    /\ plan = None
    /\ intents = {}
    /\ artifacts = 0
    /\ hasParsed = FALSE
    /\ schema = None
    /\ report = None

\* job.completed_stages: a stage is appended in the step that stores its checkpoint.
Completed(j) == {s \in Stages : checkpoint[j][s] # None}

\* Mutant: the blocks in between are not looked at.
AnyLaterStage(j, s, k) == k > s /\ k \notin Completed(j)

\* Walking the pipeline's stage blocks after stage s, those already completed are
\* skipped; k is the first block entered, and NothingAfter says that none is.
NextStage(j, s, k) ==
    /\ k > s
    /\ k \notin Completed(j)
    /\ \A m \in Stages : s < m /\ m < k => m \in Completed(j)

NothingAfter(j, s) == \A k \in Stages : k > s => k \in Completed(j)

\* The test at the start of _run and after the pipeline.
Cancelled(j) == cancelRequested[j] \/ jobStatus[j] = "CANCELLED"

-----------------------------------------------------------------------------
(* Job records *)

\* Queue job j and create the task t that will execute it.
Launch(j, t) ==
    /\ pc[t] = "idle"
    /\ jobStatus' = [jobStatus EXCEPT ![j] = "QUEUED"]
    /\ cancelRequested' = [cancelRequested EXCEPT ![j] = FALSE]
    /\ activeJob' = j
    /\ taskJob' = [taskJob EXCEPT ![t] = j]
    /\ pc' = [pc EXCEPT ![t] = "spawned"]
    /\ UNCHANGED <<at, expectedPlan>>

\* JobRunner.start.
StartJob(k, j, t) ==
    /\ jobStatus[j] = None
    /\ kind' = [kind EXCEPT ![j] = k]
    /\ Launch(j, t)

\* Task t returns, and its locals are gone.
Return(t) ==
    /\ pc' = [pc EXCEPT ![t] = "done"]
    /\ at' = [at EXCEPT ![t] = 0]
    /\ expectedPlan' = [expectedPlan EXCEPT ![t] = None]
    /\ UNCHANGED taskJob

\* Task t ends with a verdict for its job; `finally` clears the active job.
Settle(t, verdict) ==
    /\ jobStatus' = [jobStatus EXCEPT ![taskJob[t]] = verdict]
    /\ activeJob' = IF activeJob = taskJob[t] THEN None ELSE activeJob
    /\ Return(t)
    /\ UNCHANGED <<kind, cancelRequested>>

-----------------------------------------------------------------------------
(* Handlers: plan upload *)

\* The status is checked before the body is read and before the lock is taken.
BeginUpload(p) ==
    /\ status = "CREATED"
    /\ uploads[p] = "new"
    /\ uploads' = [uploads EXCEPT ![p] = "reading"]
    /\ UNCHANGED <<status, lock, jobVars, taskVars, plan, intents, artVars, outVars>>

\* Under the lock: cancel the pending extractions, replace the plan, drop the intents
\* without source questions, then await the archive of the file.
StorePlan(p) ==
    LET superseded == {j \in Jobs : kind[j] = "PLAN_EXTRACTION" /\ jobStatus[j] \in Pending}
    IN  /\ lock = "free"
        /\ uploads[p] = "reading"
        /\ \E j \in Jobs : jobStatus[j] = None   \* bound: the extraction can be started
        /\ \E t \in Tasks : pc[t] = "idle"
        /\ lock' = "plan"
        /\ uploads' = [uploads EXCEPT ![p] = "stored"]
        /\ plan' = p
        /\ intents' = {i \in intents : i.sourced}
        /\ jobStatus' = [j \in Jobs |-> IF j \in superseded THEN "CANCELLED" ELSE jobStatus[j]]
        /\ cancelRequested' = [j \in Jobs |-> j \in superseded \/ cancelRequested[j]]
        /\ UNCHANGED <<status, activeJob, kind, taskVars, artVars, outVars>>

StartExtraction(j, t) ==
    /\ lock = "plan"
    /\ lock' = "free"
    /\ StartJob("PLAN_EXTRACTION", j, t)
    /\ UNCHANGED <<status, planVars, intents, artVars, outVars>>

-----------------------------------------------------------------------------
(* Handlers: interview, by its effect on the session *)

\* Mutant: only an interview under way is refused.
BeginInterviewAgain ==
    /\ lock = "free"
    /\ status # "INTERVIEWING"
    /\ status' = "INTERVIEWING"
    /\ lock' = "interview"
    /\ UNCHANGED <<jobVars, taskVars, planVars, intents, artVars, outVars>>

\* start_interview leaves CREATED, then awaits the first questions under the lock.
BeginInterview ==
    /\ lock = "free"
    /\ status = "CREATED"
    /\ status' = "INTERVIEWING"
    /\ lock' = "interview"
    /\ UNCHANGED <<jobVars, taskVars, planVars, intents, artVars, outVars>>

QuestionsReady ==
    /\ lock = "interview"
    /\ lock' = "free"
    /\ UNCHANGED <<status, jobVars, taskVars, planVars, intents, artVars, outVars>>

\* The last answer, the time limit or the user's request completes the interview; from
\* CREATED the request completes it when the plan gave intents.
CompleteInterview ==
    /\ lock = "free"
    /\ status = "INTERVIEWING" \/ (status = "CREATED" /\ intents # {})
    /\ status' = "INTERVIEW_DONE"
    /\ lock' = "derive"
    /\ UNCHANGED <<jobVars, taskVars, planVars, intents, artVars, outVars>>

\* derive_intents answers with some intents, none of them when it fails.
DeriveIntents(drafts) ==
    /\ lock = "derive"
    /\ lock' = "free"
    /\ intents' = intents \cup drafts
    /\ UNCHANGED <<status, jobVars, taskVars, planVars, artVars, outVars>>

-----------------------------------------------------------------------------
(* Handlers: artifacts *)

BeginSubmit ==
    /\ lock = "free"
    /\ status # "ANALYZING"
    /\ artifacts < MaxArtifacts
    /\ lock' = "artifact"
    /\ UNCHANGED <<status, jobVars, taskVars, planVars, intents, artVars, outVars>>

\* Mutant: the files of one request are not counted.
AppendUncounted(parsed) ==
    /\ lock = "artifact"
    /\ artifacts' = artifacts + 1
    /\ hasParsed' = (hasParsed \/ parsed)
    /\ UNCHANGED <<status, lock, jobVars, taskVars, planVars, intents, outVars>>

\* One file or link of the request; a file that is too large ends the request and
\* leaves those before it in place.
AppendArtifact(parsed) ==
    /\ lock = "artifact"
    /\ artifacts < MaxArtifacts
    /\ artifacts' = artifacts + 1
    /\ hasParsed' = (hasParsed \/ parsed)
    /\ UNCHANGED <<status, lock, jobVars, taskVars, planVars, intents, outVars>>

\* Mutant: the return on a full list forgets the lock.
EndSubmitBelowCap ==
    /\ lock = "artifact"
    /\ lock' = IF artifacts < MaxArtifacts THEN "free" ELSE lock
    /\ UNCHANGED <<status, jobVars, taskVars, planVars, intents, artVars, outVars>>

EndSubmit ==
    /\ lock = "artifact"
    /\ lock' = "free"
    /\ UNCHANGED <<status, jobVars, taskVars, planVars, intents, artVars, outVars>>

-----------------------------------------------------------------------------
(* Handlers: jobs *)

\* Mutant: the session stays in CREATED.
StartAnalysisInCreated(j, t) ==
    /\ lock = "free"
    /\ \A i \in Jobs : kind[i] = "ANALYSIS" => jobStatus[i] \notin Pending
    /\ intents # {}
    /\ hasParsed
    /\ status \in {"CREATED", "INTERVIEW_DONE", "REPORT_READY"}
    /\ StartJob("ANALYSIS", j, t)
    /\ UNCHANGED <<status, lock, planVars, intents, artVars, outVars>>

StartAnalysis(j, t) ==
    /\ lock = "free"
    /\ \A i \in Jobs : kind[i] = "ANALYSIS" => jobStatus[i] \notin Pending
    /\ intents # {}
    /\ hasParsed
    /\ status \in {"CREATED", "INTERVIEW_DONE", "REPORT_READY"}
    /\ status' = IF status = "CREATED" THEN "INTERVIEW_DONE" ELSE status
    /\ StartJob("ANALYSIS", j, t)
    /\ UNCHANGED <<lock, planVars, intents, artVars, outVars>>

RetryJob(j, t) ==
    /\ lock = "free"
    /\ jobStatus[j] \in {"FAILED", "CANCELLED"}
    /\ Launch(j, t)
    /\ UNCHANGED <<status, lock, kind, planVars, intents, artVars, outVars>>

\* Mutant: a queued job too is left to its task.
CancelKeepsActive(j) ==
    /\ lock = "free"
    /\ jobStatus[j] \in Pending
    /\ jobStatus' = [jobStatus EXCEPT ![j] = "CANCELLED"]
    /\ cancelRequested' = [cancelRequested EXCEPT ![j] = TRUE]
    /\ status' = IF kind[j] = "ANALYSIS" THEN "INTERVIEW_DONE" ELSE status
    /\ UNCHANGED <<lock, activeJob, kind, taskVars, planVars, intents, artVars, outVars>>

\* A queued job leaves active_job_id at once, a running one when its task ends.
CancelJob(j) ==
    /\ lock = "free"
    /\ jobStatus[j] \in Pending
    /\ jobStatus' = [jobStatus EXCEPT ![j] = "CANCELLED"]
    /\ cancelRequested' = [cancelRequested EXCEPT ![j] = TRUE]
    /\ activeJob' = IF jobStatus[j] = "QUEUED" /\ activeJob = j THEN None ELSE activeJob
    /\ status' = IF kind[j] = "ANALYSIS" THEN "INTERVIEW_DONE" ELSE status
    /\ UNCHANGED <<lock, kind, taskVars, planVars, intents, artVars, outVars>>

-----------------------------------------------------------------------------
(* Tasks: start and plan extraction *)

\* A task whose job was cancelled before its first step returns ahead of the try
\* statement: the active job is left as it is.
SkipCancelled(t) ==
    /\ pc[t] = "spawned"
    /\ Cancelled(taskJob[t])
    /\ jobStatus' = [jobStatus EXCEPT ![taskJob[t]] = "CANCELLED"]
    /\ Return(t)
    /\ UNCHANGED <<status, lock, activeJob, kind, cancelRequested,
                   planVars, intents, artVars, outVars>>

BeginExtraction(t) ==
    /\ pc[t] = "spawned"
    /\ ~Cancelled(taskJob[t])
    /\ kind[taskJob[t]] = "PLAN_EXTRACTION"
    /\ jobStatus' = [jobStatus EXCEPT ![taskJob[t]] = "RUNNING"]
    /\ expectedPlan' = [expectedPlan EXCEPT ![t] = plan]
    /\ pc' = [pc EXCEPT ![t] = "extract"]
    /\ UNCHANGED <<status, lock, activeJob, kind, cancelRequested, taskJob, at,
                   planVars, intents, artVars, outVars>>

\* A cancelled extraction, or one whose plan was replaced meanwhile, writes nothing.
DropExtraction(t) ==
    /\ pc[t] = "extract"
    /\ Cancelled(taskJob[t]) \/ plan # expectedPlan[t]
    /\ Settle(t, "CANCELLED")
    /\ UNCHANGED <<status, lock, planVars, intents, artVars, outVars>>

\* Mutant: the plan is not compared with the one the extraction read.
StoreAnyExtraction(t, drafts) ==
    /\ pc[t] = "extract"
    /\ ~Cancelled(taskJob[t])
    /\ intents' = drafts \cup {i \in intents : i.sourced}
    /\ Settle(t, "SUCCEEDED")
    /\ UNCHANGED <<status, lock, planVars, artVars, outVars>>

\* Mutant: the extraction replaces every intent.
StoreOnlyExtraction(t, drafts) ==
    /\ pc[t] = "extract"
    /\ ~Cancelled(taskJob[t])
    /\ plan = expectedPlan[t]
    /\ intents' = drafts
    /\ Settle(t, "SUCCEEDED")
    /\ UNCHANGED <<status, lock, planVars, artVars, outVars>>

StoreExtraction(t, drafts) ==
    /\ pc[t] = "extract"
    /\ ~Cancelled(taskJob[t])
    /\ plan = expectedPlan[t]
    /\ intents' = drafts \cup {i \in intents : i.sourced}
    /\ Settle(t, "SUCCEEDED")
    /\ UNCHANGED <<status, lock, planVars, artVars, outVars>>

-----------------------------------------------------------------------------
(* Tasks: the analysis pipeline *)

\* Enter stage k: NORMALIZE first awaits the schema when the session has none.
Enter(t, k) ==
    /\ at' = [at EXCEPT ![t] = k]
    /\ pc' = [pc EXCEPT ![t] = IF k = NORMALIZE /\ schema = None THEN "schema" ELSE "stage"]

\* The pipeline is through: publish and await the archive of the report.
Publish(t) ==
    /\ jobStatus' = [jobStatus EXCEPT ![taskJob[t]] = "SUCCEEDED"]
    /\ status' = "REPORT_READY"
    /\ pc' = [pc EXCEPT ![t] = "archive"]
    /\ UNCHANGED at

BeginPipeline(t) ==
    /\ pc[t] = "spawned"
    /\ ~Cancelled(taskJob[t])
    /\ kind[taskJob[t]] = "ANALYSIS"
    /\ \E k \in Stages : NextStage(taskJob[t], 0, k) /\ Enter(t, k)
    /\ jobStatus' = [jobStatus EXCEPT ![taskJob[t]] = "RUNNING"]
    /\ status' = "ANALYZING"
    /\ UNCHANGED <<lock, activeJob, kind, cancelRequested, taskJob, expectedPlan,
                   planVars, intents, artVars, outVars>>

\* A retry of a job that was cancelled after its last stage has nothing to await.
RepublishReport(t) ==
    /\ pc[t] = "spawned"
    /\ ~Cancelled(taskJob[t])
    /\ kind[taskJob[t]] = "ANALYSIS"
    /\ NothingAfter(taskJob[t], 0)
    /\ Publish(t)
    /\ UNCHANGED <<lock, activeJob, kind, cancelRequested, taskJob, expectedPlan,
                   planVars, intents, artVars, outVars>>

\* The schema answer is assigned without looking at the field again.
StoreSchema(t) ==
    /\ pc[t] = "schema"
    /\ schema' = t
    /\ pc' = [pc EXCEPT ![t] = "stage"]
    /\ UNCHANGED <<status, lock, jobVars, taskJob, at, expectedPlan,
                   planVars, intents, artVars, checkpoint, report>>

\* Mutant: REPORT stores its checkpoint only.
RecordCheckpointOnly(t) ==
    /\ pc[t] = "stage"
    /\ checkpoint' = [checkpoint EXCEPT ![taskJob[t]][at[t]] = t]
    /\ UNCHANGED <<schema, report>>

\* The answer of the stage's last agent: its product becomes the checkpoint, and the
\* stage is completed; REPORT also publishes the report, before the cancel check.
RecordStage(t) ==
    /\ pc[t] = "stage"
    /\ checkpoint' = [checkpoint EXCEPT ![taskJob[t]][at[t]] = t]
    /\ report' = IF at[t] = REPORT THEN t ELSE report
    /\ UNCHANGED schema

AdvanceStage(t) ==
    /\ RecordStage(t)
    /\ ~cancelRequested[taskJob[t]]
    /\ \E k \in Stages : NextStage(taskJob[t], at[t], k) /\ Enter(t, k)
    /\ UNCHANGED <<status, lock, jobVars, taskJob, expectedPlan, planVars, intents, artVars>>

FinishPipeline(t) ==
    /\ RecordStage(t)
    /\ ~Cancelled(taskJob[t])
    /\ NothingAfter(taskJob[t], at[t])
    /\ Publish(t)
    /\ UNCHANGED <<lock, activeJob, kind, cancelRequested, taskJob, expectedPlan,
                   planVars, intents, artVars>>

StopAtBoundary(t) ==
    /\ RecordStage(t)
    /\ \/ cancelRequested[taskJob[t]]
       \/ NothingAfter(taskJob[t], at[t]) /\ Cancelled(taskJob[t])
    /\ Settle(t, "CANCELLED")
    /\ status' = "INTERVIEW_DONE"
    /\ UNCHANGED <<lock, planVars, intents, artVars>>

\* Mutant: the exception ends the task and nothing else.
FailSilently(t) ==
    /\ pc[t] \in {"extract", "schema", "stage"}
    /\ Return(t)
    /\ UNCHANGED <<status, lock, jobVars, planVars, intents, artVars, outVars>>

\* Mutant: the job fails and the session is left as it is.
FailJobOnly(t) ==
    /\ pc[t] \in {"extract", "schema", "stage"}
    /\ Settle(t, "FAILED")
    /\ UNCHANGED <<status, lock, planVars, intents, artVars, outVars>>

\* An agent's failure, cancelled or not, fails the job; session and job keep what the
\* completed stages produced.
FailTask(t) ==
    /\ pc[t] \in {"extract", "schema", "stage"}
    /\ Settle(t, "FAILED")
    /\ status' = IF kind[taskJob[t]] = "ANALYSIS" THEN "INTERVIEW_DONE" ELSE status
    /\ UNCHANGED <<lock, planVars, intents, artVars, outVars>>

\* Mutant: a success does not clear the active job.
EndArchiveOnly(t) ==
    /\ pc[t] = "archive"
    /\ Return(t)
    /\ UNCHANGED <<status, lock, jobVars, planVars, intents, artVars, outVars>>

\* After the archive, `finally` clears the active job unless the job has been taken up
\* again by another task.
EndArchive(t) ==
    /\ pc[t] = "archive"
    /\ Return(t)
    /\ activeJob' = IF activeJob = taskJob[t] /\ jobStatus[taskJob[t]] \in Terminal
                    THEN None ELSE activeJob
    /\ UNCHANGED <<status, lock, kind, jobStatus, cancelRequested,
                   planVars, intents, artVars, outVars>>

-----------------------------------------------------------------------------
(* Next *)

TaskStep(t) ==
    \/ SkipCancelled(t)
    \/ BeginExtraction(t)
    \/ DropExtraction(t)
    \/ \E drafts \in SUBSET [from : {expectedPlan[t]}, sourced : PlanSourced] :
            StoreExtraction(t, drafts)
    \/ BeginPipeline(t)
    \/ RepublishReport(t)
    \/ StoreSchema(t)
    \/ AdvanceStage(t)
    \/ FinishPipeline(t)
    \/ StopAtBoundary(t)
    \/ FailTask(t)
    \/ EndArchive(t)

\* The second half of a handler that holds the lock over an await.
HandlerResumes ==
    \/ \E j \in Jobs, t \in Tasks : StartExtraction(j, t)
    \/ QuestionsReady
    \/ \E drafts \in SUBSET [from : {"INTERVIEW"}, sourced : BOOLEAN] : DeriveIntents(drafts)
    \/ EndSubmit

Request ==
    \/ \E p \in Plans : BeginUpload(p) \/ StorePlan(p)
    \/ BeginInterview
    \/ CompleteInterview
    \/ BeginSubmit
    \/ \E parsed \in BOOLEAN : AppendArtifact(parsed)
    \/ \E j \in Jobs : CancelJob(j)
    \/ \E j \in Jobs, t \in Tasks : StartAnalysis(j, t) \/ RetryJob(j, t)

Next ==
    \/ \E t \in Tasks : TaskStep(t)
    \/ HandlerResumes
    \/ Request

Spec == Init /\ [][Next]_vars

\* The event loop runs what is ready and every agent call ends, in an answer or in an
\* error, within its timeout and retries; users owe no request.
Fairness ==
    /\ \A t \in Tasks : WF_vars(TaskStep(t))
    /\ WF_vars(HandlerResumes)

FairSpec == Spec /\ Fairness

-----------------------------------------------------------------------------
(* Properties *)

Working(t) == pc[t] \in {"extract", "schema", "stage"}

\* Some task that has yet to decide j's verdict is waiting to start, or at work.
Queued(j) == \E t \in Tasks : taskJob[t] = j /\ pc[t] = "spawned"
Driven(j) == \E t \in Tasks : taskJob[t] = j /\ Working(t)

\* However many tasks cancel-and-retry puts on one job, its completed stages are always
\* an initial segment of the pipeline, and a task suspended in a stage finds the product
\* of every earlier one (AGGREGATE and REPORT read the DRIFT checkpoint unguarded, and
\* NORMALIZE reads the schema it awaited).
StagesInOrder ==
    /\ \A j \in Jobs : \A s \in Completed(j) : 1..s \subseteq Completed(j)
    /\ \A t \in Tasks : pc[t] \in {"schema", "stage"} => 1..(at[t] - 1) \subseteq Completed(taskJob[t])
    /\ \A t \in Tasks : pc[t] = "stage" /\ at[t] >= NORMALIZE => schema # None

\* A verdict is never ahead of the work: a succeeded analysis has all its stages, a
\* report was published by a job that has them all, and a session that says
\* REPORT_READY has a report for GET /report.
ReportBehindVerdict ==
    /\ \A j \in Jobs : kind[j] = "ANALYSIS" /\ jobStatus[j] = "SUCCEEDED" => Completed(j) = Stages
    /\ report # None => Completed(taskJob[report]) = Stages
    /\ status = "REPORT_READY" => report # None

\* No job hangs without an executor: QUEUED has a task about to start, RUNNING a task at
\* work, whatever order cancels, retries, failures and re-uploads come in.
PendingJobIsDriven ==
    \A j \in Jobs : /\ jobStatus[j] = "QUEUED" => Queued(j)
                    /\ jobStatus[j] = "RUNNING" => Driven(j)

\* A session never stays in ANALYZING with no pipeline at work: it would refuse
\* artifacts and analyses for good.
AnalyzingIsDriven ==
    status = "ANALYZING" => \E j \in Jobs : kind[j] = "ANALYSIS" /\ Driven(j)

\* The job that Session.activeJobId tells the client to poll still has a live task; only
\* while an upload holds the lock, before it starts its own job, may the task be gone.
ActiveJobIsDriven ==
    activeJob # None /\ lock # "plan" =>
        \E t \in Tasks : taskJob[t] = activeJob /\ pc[t] \notin {"idle", "done"}

\* Intents extracted from a plan are those of the plan the session holds now: neither a
\* superseded extraction nor one retried across an upload brings an old plan's back.
PlanIntentsCurrent ==
    \A i \in intents : i.from # "INTERVIEW" /\ ~i.sourced => i.from = plan

\* A job that analyses exists only once the session is past the interview, so no later
\* handler can take the session back behind it.
AnalysisAfterInterview ==
    (\E j \in Jobs : kind[j] = "ANALYSIS") => status \notin {"CREATED", "INTERVIEWING"}

\* What an interview answer supports is never lost: every write of the intents keeps
\* those with source questions, those derived while an extraction was under way too.
SourcedIntentsKept == [][{i \in intents : i.sourced} \subseteq intents']_vars

\* Every job reaches a verdict.
JobsSettle == \A j \in Jobs : jobStatus[j] \in Pending ~> jobStatus[j] \in Terminal

\* Every analysis gives the session back.
AnalysisEnds == status = "ANALYZING" ~> status # "ANALYZING"

\* A finished job does not stay the active one.
ActiveJobReleased == \A j \in Jobs : activeJob = j ~> activeJob # j

\* No handler keeps the session's lock.
LockReleased == lock # "free" ~> lock = "free"

-----------------------------------------------------------------------------
(* The lifecycle this implements *)

Lifecycle == INSTANCE SessionLifecycle WITH
    Workers   <- Tasks,
    atWork    <- {t \in Tasks : pc[t] \in {"schema", "stage"}},
    published <- report # None

\* Jobs, retries and cancellations in any order keep the lifecycle a client relies on:
\* every step here is a step of the session's state diagram or leaves it alone.
LifecycleKept == Lifecycle!Spec

-----------------------------------------------------------------------------
(* What the documents say and the code does not keep *)

\* TRD.md:367 and TRD.md:341: one analysis job at a time in a session.
OneAnalysisAtATime ==
    \A i, j \in Jobs : /\ kind[i] = "ANALYSIS" /\ jobStatus[i] \in Pending
                       /\ kind[j] = "ANALYSIS" /\ jobStatus[j] \in Pending
                       => i = j

\* SCHEMA/schema.md:57 and TRD.md:572: a retry does not execute completed stages again.
CompletedStageKept ==
    [][\A j \in Jobs : \A s \in Completed(j) : checkpoint'[j][s] = checkpoint[j][s]]_vars

\* plan.py:25: a plan can be uploaded only before the interview starts.
PlanFixedOnceStarted == [][plan' # plan => status = "CREATED"]_vars

=============================================================================
