----------------------------- MODULE MockBackend -----------------------------
(***************************************************************************)
(* The backend in the browser (shared/api/mock/mockBackend.ts), by which   *)
(* the sample goes on when no server answers.  One session, no time; a     *)
(* handler runs to its end without interruption, so every request is one   *)
(* step, and a job moves on only when it is asked for.  Its three          *)
(* questions follow one another; the first two are required.               *)
(***************************************************************************)
EXTENDS Naturals, Sequences

CONSTANTS MaxMockJobs,       \* bound: jobs of one session
          MaxMockArtifacts   \* 20 in the code
ASSUME MockAssumption == MaxMockJobs \in Nat /\ MaxMockArtifacts \in Nat

VARIABLE mock
\* session: "none" or its status.  questions: the statuses of those asked.

ANALYSIS_STAGES == <<"INGEST", "NORMALIZE", "EVALUATE", "DRIFT", "AGGREGATE", "REPORT">>
PLAN_STAGES == SubSeq(ANALYSIS_STAGES, 1, 3)
REQUIRED == {1, 2}
LastMockQuestion == 3

MockJobs == 1..MaxMockJobs
MockJob == [kind : {"none", "PLAN_EXTRACTION", "ANALYSIS"},
            status : {"QUEUED", "RUNNING", "SUCCEEDED", "CANCELLED"},
            done : 0..Len(ANALYSIS_STAGES)]      \* completedStages
MockTypeOK ==
    /\ mock.session \in {"none", "CREATED", "INTERVIEWING", "INTERVIEW_DONE",
                         "ANALYZING", "REPORT_READY"}
    /\ mock.activeJobId \in 0..MaxMockJobs
    /\ \A i \in DOMAIN mock.questions : mock.questions[i] \in {"ACTIVE", "ANSWERED", "SKIPPED"}
    /\ Len(mock.questions) <= LastMockQuestion
    /\ mock.artifacts \in 0..MaxMockArtifacts
    /\ mock.jobs \in [MockJobs -> MockJob]
    /\ mock.earlyCompleted \in BOOLEAN /\ mock.interviewCompleted \in BOOLEAN
    /\ mock.planUploaded \in BOOLEAN

NoJob == [kind |-> "none", status |-> "QUEUED", done |-> 0]
Empty == [session |-> "none", activeJobId |-> 0, questions |-> <<>>, artifacts |-> 0,
          jobs |-> [j \in MockJobs |-> NoJob], earlyCompleted |-> FALSE,
          interviewCompleted |-> FALSE, planUploaded |-> FALSE]
MockInit == mock = Empty

requireSession == mock.session # "none"
activeQuestion == {i \in DOMAIN mock.questions : mock.questions[i] = "ACTIVE"}
unansweredRequired == {i \in DOMAIN mock.questions \cap REQUIRED : mock.questions[i] # "ANSWERED"}
Unused == {j \in MockJobs : mock.jobs[j].kind = "none" /\ \A i \in 1..(j - 1) : mock.jobs[i].kind # "none"}
Stages(job) == IF job.kind = "ANALYSIS" THEN ANALYSIS_STAGES ELSE PLAN_STAGES
createJob(m, j, kind) ==
    [m EXCEPT !.jobs[j] = [kind |-> kind, status |-> "QUEUED", done |-> 0],
              !.session = "ANALYZING", !.activeJobId = j]

-----------------------------------------------------------------------------
\* POST /sessions, in place of the session there was; DELETE.
PostSession == mock' = [Empty EXCEPT !.session = "CREATED"]
DeleteMockSession == requireSession /\ mock' = [mock EXCEPT !.session = "none"]

PostPlan ==
    /\ requireSession
    /\ \E j \in Unused :
          mock' = createJob([mock EXCEPT !.planUploaded = TRUE, !.interviewCompleted = TRUE],
                            j, "PLAN_EXTRACTION")

PostStart ==
    /\ requireSession /\ mock.questions = <<>>
    /\ mock' = [mock EXCEPT !.questions = <<"ACTIVE">>, !.session = "INTERVIEWING"]

\* An answered question answers the same again; the others in their order.
PostAnswer ==
    /\ requireSession /\ ~mock.interviewCompleted
    /\ \E i \in activeQuestion :
          LET answered == [mock.questions EXCEPT ![i] = "ANSWERED"] IN
          mock' = IF i < LastMockQuestion
                  THEN [mock EXCEPT !.questions = Append(answered, "ACTIVE")]
                  ELSE [mock EXCEPT !.questions = answered, !.interviewCompleted = TRUE,
                                    !.session = "INTERVIEW_DONE"]

\* A session without questions is completed as well.
PostComplete(confirm) ==
    /\ requireSession /\ ~mock.interviewCompleted
    /\ unansweredRequired = {} \/ confirm
    /\ mock' = [mock EXCEPT !.interviewCompleted = TRUE, !.earlyCompleted = TRUE,
                            !.questions = [i \in DOMAIN @ |-> IF @[i] = "ACTIVE" THEN "SKIPPED" ELSE @[i]],
                            !.session = "INTERVIEW_DONE"]

PostArtifact ==
    /\ requireSession /\ mock.artifacts < MaxMockArtifacts
    /\ mock' = [mock EXCEPT !.artifacts = @ + 1]

\* An analysis at work is answered in place of a new one.
AtWork == {j \in MockJobs : mock.jobs[j].kind = "ANALYSIS" /\ mock.jobs[j].status \in {"QUEUED", "RUNNING"}}
PostAnalysis ==
    /\ requireSession /\ (mock.interviewCompleted \/ mock.planUploaded)
    /\ mock.artifacts > 0 /\ AtWork = {}
    /\ \E j \in Unused : mock' = createJob(mock, j, "ANALYSIS")

\* GET of a job: advanceJob.
Finish(m, kind) ==
    IF kind = "ANALYSIS" THEN [m EXCEPT !.session = "REPORT_READY", !.activeJobId = 0]
    ELSE [m EXCEPT !.session = "INTERVIEW_DONE", !.activeJobId = 0]
\* Mutant: a cancelled job goes on when it is asked for.
GetJobRevives(j) ==
    LET job == mock.jobs[j]
        last == job.done + 1 = Len(Stages(job))
    IN  /\ requireSession /\ job.kind # "none"
        /\ \/ job.status = "QUEUED" /\ mock' = [mock EXCEPT !.jobs[j].status = "RUNNING"]
           \/ job.status \in {"RUNNING", "CANCELLED"} /\ ~last
              /\ mock' = [mock EXCEPT !.jobs[j].done = @ + 1]
           \/ /\ job.status \in {"RUNNING", "CANCELLED"} /\ last
              /\ mock' = Finish([mock EXCEPT !.jobs[j].done = @ + 1,
                                             !.jobs[j].status = "SUCCEEDED"], job.kind)
GetJob(j) ==
    LET job == mock.jobs[j]
        last == job.done + 1 = Len(Stages(job))
    IN  /\ requireSession /\ job.kind # "none"
        /\ \/ job.status = "QUEUED" /\ mock' = [mock EXCEPT !.jobs[j].status = "RUNNING"]
           \/ job.status = "RUNNING" /\ ~last /\ mock' = [mock EXCEPT !.jobs[j].done = @ + 1]
           \/ /\ job.status = "RUNNING" /\ last
              /\ mock' = Finish([mock EXCEPT !.jobs[j].done = @ + 1,
                                             !.jobs[j].status = "SUCCEEDED"], job.kind)

CancelMockJob(j) ==
    /\ requireSession /\ mock.jobs[j].kind # "none" /\ mock.jobs[j].status # "SUCCEEDED"
    /\ mock' = [mock EXCEPT !.jobs[j].status = "CANCELLED", !.activeJobId = 0,
                            !.session = IF mock.interviewCompleted \/ mock.planUploaded
                                        THEN "INTERVIEW_DONE" ELSE "CREATED"]

\* No job of the mock fails, so only a cancelled one is tried again.
RetryMockJob(j) ==
    /\ requireSession /\ mock.jobs[j].kind # "none" /\ mock.jobs[j].status = "CANCELLED"
    /\ mock' = [mock EXCEPT !.jobs[j].status = "RUNNING", !.session = "ANALYZING", !.activeJobId = j]

MockNext ==
    \/ PostSession \/ DeleteMockSession \/ PostPlan \/ PostStart \/ PostAnswer
    \/ (\E confirm \in BOOLEAN : PostComplete(confirm))
    \/ PostArtifact \/ PostAnalysis
    \/ \E j \in MockJobs : GetJob(j) \/ CancelMockJob(j) \/ RetryMockJob(j)
MockSpec == MockInit /\ [][MockNext]_mock

-----------------------------------------------------------------------------
Lifecycle == INSTANCE SessionLifecycle WITH
    Workers <- MockJobs,
    status <- IF mock.session = "none" THEN "CREATED" ELSE mock.session,
    atWork <- IF mock.session = "none" THEN {} ELSE AtWork,
    published <- mock.session # "none" /\
                 \E j \in MockJobs : mock.jobs[j].kind = "ANALYSIS" /\ mock.jobs[j].status = "SUCCEEDED"

\* The questions were started after the interview had been completed; the backend
\* refuses that start.  They stay open from then on.
StartedLate == mock.interviewCompleted /\ activeQuestion # {}

\* The mock imitates the backend: every request moves the session as SessionLifecycle
\* allows the backend to move one.  Jobs that are cancelled, tried again and asked for
\* in any order skip no step and lose no report.  It does not imitate it in three
\* places: sessions are created and deleted, the extraction of an uploaded plan is
\* shown as an analysis, and a start after the completion takes the session back to
\* INTERVIEWING.
MockFollowsLifecycle ==
    /\ Lifecycle!Init
    /\ [][Lifecycle!Next \/ Lifecycle!Init' \/ mock'.planUploaded \/ StartedLate']_(Lifecycle!vars)
=============================================================================
