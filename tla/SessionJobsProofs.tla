------------------------ MODULE SessionJobsProofs ------------------------
(***************************************************************************)
(* Proofs about SessionJobs, for any number of jobs, tasks, plans, stages  *)
(* and artifacts.                                                          *)
(***************************************************************************)
EXTENDS SessionJobs, TLAPS

(***************************************************************************)
(* The strengthening.  TypeOK is not inductive by itself: what a task may  *)
(* write depends on its job's kind and on the plan it read, so these are   *)
(* tied to where the task is suspended.                                    *)
(***************************************************************************)

\* A task that was created has a job, and where it is suspended agrees with the kind of
\* that job, with the plan it read and with its stage.
TaskShape ==
    \A t \in Tasks :
        /\ pc[t] # "idle" => /\ taskJob[t] \in Jobs
                             /\ jobStatus[taskJob[t]] # None
                             /\ kind[taskJob[t]] # None
        /\ pc[t] = "extract" => /\ kind[taskJob[t]] = "PLAN_EXTRACTION"
                                /\ expectedPlan[t] \in Plans
        /\ pc[t] \in {"schema", "stage", "archive"} => kind[taskJob[t]] = "ANALYSIS"
        /\ pc[t] \in {"schema", "stage"} => at[t] \in Stages
        /\ pc[t] = "schema" => at[t] = NORMALIZE

\* A job is created with its kind.
JobShape == \A j \in Jobs : jobStatus[j] # None => kind[j] # None

\* Whoever extracts a plan finds one.
PlanPresent ==
    (lock = "plan" \/ \E j \in Jobs : kind[j] = "PLAN_EXTRACTION") => plan \in Plans

WellFormed == TypeOK /\ TaskShape /\ JobShape /\ PlanPresent

LEMMA StageNumbers == /\ Stages \subseteq Nat /\ 0 \notin Stages
                      /\ NORMALIZE \in Stages /\ REPORT \in Stages
BY ConstantsAssumption DEF Stages, NORMALIZE, REPORT

LEMMA WellFormedInit == Init => WellFormed
<1> SUFFICES ASSUME Init PROVE WellFormed
  OBVIOUS
<1>1. TypeOK
  <2>1. checkpoint \in [Jobs -> [Stages -> Tasks \cup {None}]]
    BY DEF Init
  <2>2. at \in [Tasks -> {0} \cup Stages] /\ artifacts \in 0..MaxArtifacts
    BY ConstantsAssumption DEF Init
  <2> QED
    BY <2>1, <2>2 DEF Init, TypeOK, SessionStatus
<1>2. TaskShape /\ JobShape
  BY DEF Init, TaskShape, JobShape
<1>3. PlanPresent
  BY ConstantsAssumption DEF Init, PlanPresent
<1> QED
  BY <1>1, <1>2, <1>3 DEF WellFormed

LEMMA WellFormedStep == WellFormed /\ [Next]_vars => WellFormed'
<1> SUFFICES ASSUME WellFormed, [Next]_vars
             PROVE  WellFormed'
  OBVIOUS
<1> USE ConstantsAssumption, StageNumbers
    DEF WellFormed, TypeOK, TaskShape, JobShape, PlanPresent, SessionStatus, Pending, Terminal,
        Intent, jobVars, taskVars, planVars, artVars, outVars, Launch, StartJob,
        Return, Settle, Enter, Publish, RecordStage
<1>1. ASSUME NEW t \in Tasks, TaskStep(t) PROVE WellFormed'
  <2>1. CASE SkipCancelled(t)
    BY <2>1 DEF SkipCancelled
  <2>2. CASE BeginExtraction(t)
    BY <2>2 DEF BeginExtraction
  <2>3. CASE DropExtraction(t)
    BY <2>3 DEF DropExtraction
  <2>4. ASSUME NEW drafts \in SUBSET [from : {expectedPlan[t]}, sourced : PlanSourced],
               StoreExtraction(t, drafts)
        PROVE  WellFormed'
    BY <2>4 DEF StoreExtraction
  <2>5. CASE BeginPipeline(t)
    BY <2>5 DEF BeginPipeline
  <2>6. CASE RepublishReport(t)
    BY <2>6 DEF RepublishReport
  <2>7. CASE StoreSchema(t)
    BY <2>7 DEF StoreSchema
  <2>8. CASE AdvanceStage(t)
    BY <2>8 DEF AdvanceStage
  <2>9. CASE FinishPipeline(t)
    BY <2>9 DEF FinishPipeline
  <2>10. CASE StopAtBoundary(t)
    BY <2>10 DEF StopAtBoundary
  <2>11. CASE FailTask(t)
    BY <2>11 DEF FailTask
  <2>12. CASE EndArchive(t)
    BY <2>12 DEF EndArchive
  <2> QED
    BY <1>1, <2>1, <2>2, <2>3, <2>4, <2>5, <2>6, <2>7, <2>8, <2>9, <2>10, <2>11, <2>12
    DEF TaskStep
<1>2. CASE HandlerResumes
  <2>1. ASSUME NEW j \in Jobs, NEW t \in Tasks, StartExtraction(j, t) PROVE WellFormed'
    BY <2>1 DEF StartExtraction
  <2>2. CASE QuestionsReady
    BY <2>2 DEF QuestionsReady
  <2>3. ASSUME NEW drafts \in SUBSET [from : {"INTERVIEW"}, sourced : BOOLEAN],
               DeriveIntents(drafts)
        PROVE  WellFormed'
    BY <2>3 DEF DeriveIntents
  <2>4. CASE EndSubmit
    BY <2>4 DEF EndSubmit
  <2> QED
    BY <1>2, <2>1, <2>2, <2>3, <2>4 DEF HandlerResumes
<1>3. CASE Request
  <2>1. ASSUME NEW p \in Plans, BeginUpload(p) PROVE WellFormed'
    BY <2>1 DEF BeginUpload
  <2>2. ASSUME NEW p \in Plans, StorePlan(p) PROVE WellFormed'
    BY <2>2 DEF StorePlan
  <2>3. CASE BeginInterview
    BY <2>3 DEF BeginInterview
  <2>4. CASE CompleteInterview
    BY <2>4 DEF CompleteInterview
  <2>5. CASE BeginSubmit
    BY <2>5 DEF BeginSubmit
  <2>6. ASSUME NEW parsed \in BOOLEAN, AppendArtifact(parsed) PROVE WellFormed'
    BY <2>6 DEF AppendArtifact
  <2>7. ASSUME NEW j \in Jobs, CancelJob(j) PROVE WellFormed'
    BY <2>7 DEF CancelJob
  <2>8. ASSUME NEW j \in Jobs, NEW t \in Tasks, StartAnalysis(j, t) PROVE WellFormed'
    BY <2>8 DEF StartAnalysis
  <2>9. ASSUME NEW j \in Jobs, NEW t \in Tasks, RetryJob(j, t) PROVE WellFormed'
    BY <2>9 DEF RetryJob
  <2> QED
    BY <1>3, <2>1, <2>2, <2>3, <2>4, <2>5, <2>6, <2>7, <2>8, <2>9 DEF Request
<1>4. CASE UNCHANGED vars
  BY <1>4 DEF vars
<1> QED
  BY <1>1, <1>2, <1>3, <1>4 DEF Next

-----------------------------------------------------------------------------
(***************************************************************************)
(* Stages.  A stage is entered with every earlier one completed, stages    *)
(* are never taken back, and NORMALIZE is completed with a schema at hand. *)
(***************************************************************************)

SchemaBuilt == \A j \in Jobs : NORMALIZE \in Completed(j) => schema # None

StageInv == StagesInOrder /\ SchemaBuilt

\* Recording completes the task's stage of the task's job, and nothing else.
LEMMA RecordStageCompletes ==
    ASSUME WellFormed, NEW t \in Tasks, RecordStage(t)
    PROVE  \A j \in Jobs :
              Completed(j)' = Completed(j) \cup (IF j = taskJob[t] THEN {at[t]} ELSE {})
BY ConstantsAssumption DEF WellFormed, TypeOK, TaskShape, RecordStage, Completed

\* A task that walks on from stage s, with all before s completed, enters k in order.
LEMMA NextStageInOrder ==
    ASSUME NEW j \in Jobs, NEW s \in {0} \cup Stages, NEW k \in Stages,
           1..(s - 1) \subseteq Completed(j), NextStage(j, s, k)
    PROVE  1..(k - 1) \subseteq Completed(j) \cup ({s} \ {0})
<1> SUFFICES ASSUME NEW m \in 1..(k - 1), m # s PROVE m \in Completed(j)
  BY StageNumbers
<1>1. m \in Stages /\ m < k /\ s \in Nat
  BY ConstantsAssumption DEF Stages
<1>2. CASE m < s
  BY <1>1, <1>2, m \in 1..(s - 1)
<1>3. CASE s < m
  BY <1>1, <1>3 DEF NextStage
<1> QED
  BY <1>1, <1>2, <1>3

\* The stage a task records joins stages that are all completed.
LEMMA RecordStageInOrder ==
    ASSUME WellFormed, StageInv, NEW t \in Tasks, RecordStage(t)
    PROVE  /\ at[t] \in Stages /\ taskJob[t] \in Jobs
           /\ 1..(at[t] - 1) \subseteq Completed(taskJob[t])
           /\ \A j \in Jobs : \A s \in Completed(j)' : 1..s \subseteq Completed(j)'
           /\ SchemaBuilt'
<1> USE DEF WellFormed, TypeOK, TaskShape, StageInv, StagesInOrder, SchemaBuilt
<1>1. at[t] \in Stages /\ taskJob[t] \in Jobs /\ 1..(at[t] - 1) \subseteq Completed(taskJob[t])
  BY DEF RecordStage
<1>2. ASSUME NEW j \in Jobs, NEW s \in Completed(j)' PROVE 1..s \subseteq Completed(j)'
  <2>1. CASE s \in Completed(j)
    BY <2>1, RecordStageCompletes
  <2>2. CASE j = taskJob[t] /\ s = at[t]
    <3>1. 1..s \subseteq 1..(s - 1) \cup {s}
      BY <1>1, <2>2 DEF Stages
    <3> QED
      BY <1>1, <2>2, <3>1, RecordStageCompletes
  <2> QED
    BY <2>1, <2>2, RecordStageCompletes
<1>3. SchemaBuilt'
  <2> SUFFICES ASSUME NEW j \in Jobs, (NORMALIZE \in Completed(j))'
               PROVE  schema' # None
    OBVIOUS
  <2>1. CASE NORMALIZE \in Completed(j)
    BY <2>1 DEF RecordStage
  <2>2. CASE j = taskJob[t] /\ at[t] = NORMALIZE
    BY <1>1, <2>2 DEF RecordStage, NORMALIZE
  <2>3. NORMALIZE \in Completed(j) \/ (j = taskJob[t] /\ at[t] = NORMALIZE)
    BY RecordStageCompletes DEF NORMALIZE
  <2> QED
    BY <2>1, <2>2, <2>3
<1> QED
  BY <1>1, <1>2, <1>3

LEMMA StageInit == Init => StageInv
BY DEF Init, StageInv, StagesInOrder, SchemaBuilt, Completed

LEMMA StageStep == WellFormed /\ StageInv /\ [Next]_vars => StageInv'
<1> SUFFICES ASSUME WellFormed, StageInv, [Next]_vars
             PROVE  StageInv'
  OBVIOUS
<1> USE DEF StageInv, StagesInOrder, SchemaBuilt, WellFormed, TypeOK, TaskShape
\* A step that keeps checkpoints and schema, and puts no task into a stage.
<1>0. ASSUME UNCHANGED <<checkpoint, schema>>,
             \A t \in Tasks : pc'[t] \in {"schema", "stage"} =>
                /\ pc'[t] = pc[t]
                /\ at'[t] = at[t]
                /\ taskJob'[t] = taskJob[t]
      PROVE  StageInv'
  BY <1>0 DEF Completed
<1>1. ASSUME NEW t \in Tasks, TaskStep(t) PROVE StageInv'
  <2>1. CASE SkipCancelled(t)
    BY <2>1, <1>0 DEF SkipCancelled, Return, outVars
  <2>2. CASE BeginExtraction(t)
    BY <2>2, <1>0 DEF BeginExtraction, outVars
  <2>3. CASE DropExtraction(t)
    BY <2>3, <1>0 DEF DropExtraction, Settle, Return, outVars
  <2>4. ASSUME NEW drafts, StoreExtraction(t, drafts) PROVE StageInv'
    BY <2>4, <1>0 DEF StoreExtraction, Settle, Return, outVars
  <2>5. CASE BeginPipeline(t)
    <3>1. PICK k \in Stages : NextStage(taskJob[t], 0, k) /\ Enter(t, k)
      BY <2>5 DEF BeginPipeline
    <3>2. taskJob[t] \in Jobs /\ 1..(k - 1) \subseteq Completed(taskJob[t])
      BY <2>5, <3>1, NextStageInOrder, 1..(0 - 1) = {} DEF BeginPipeline
    <3>3. k > NORMALIZE => NORMALIZE \in Completed(taskJob[t])
      BY <3>2, StageNumbers DEF NORMALIZE, Stages
    <3> QED
      BY <2>5, <3>1, <3>2, <3>3, StageNumbers DEF BeginPipeline, Enter, Completed, outVars
  <2>6. CASE RepublishReport(t)
    BY <2>6, <1>0 DEF RepublishReport, Publish, outVars
  <2>7. CASE StoreSchema(t)
    BY <2>7, ConstantsAssumption DEF StoreSchema, Completed
  <2>8. CASE AdvanceStage(t)
    <3>1. PICK k \in Stages : NextStage(taskJob[t], at[t], k) /\ Enter(t, k)
      BY <2>8 DEF AdvanceStage
    <3>2. /\ RecordStage(t)
          /\ at[t] \in Stages /\ taskJob[t] \in Jobs
          /\ 1..(at[t] - 1) \subseteq Completed(taskJob[t])
          /\ \A j \in Jobs : \A s \in Completed(j)' : 1..s \subseteq Completed(j)'
          /\ SchemaBuilt'
      BY <2>8, RecordStageInOrder DEF AdvanceStage
    <3>3. \A j \in Jobs : j = taskJob[t] => 1..(k - 1) \subseteq Completed(j)'
      BY <3>1, <3>2, NextStageInOrder, RecordStageCompletes
    <3>4. k > NORMALIZE /\ k \in Nat => NORMALIZE \in 1..(k - 1)
      BY DEF NORMALIZE
    <3>5. \A r \in Tasks : pc'[r] \in {"schema", "stage"} =>
             1..(at'[r] - 1) \subseteq Completed(taskJob[r])'
      BY <2>8, <3>1, <3>2, <3>3, RecordStageCompletes DEF AdvanceStage, Enter
    <3>6. \A r \in Tasks : pc'[r] = "stage" /\ at'[r] >= NORMALIZE => schema' # None
      BY <2>8, <3>1, <3>2, <3>3, <3>4, StageNumbers DEF AdvanceStage, Enter, RecordStage
    <3> QED
      BY <3>2, <3>5, <3>6
  \* Leaving the pipeline after a recorded stage.
  <2>b. ASSUME RecordStage(t), UNCHANGED taskJob,
               \A r \in Tasks : pc'[r] \in {"schema", "stage"} =>
                  r # t /\ pc'[r] = pc[r] /\ at'[r] = at[r]
        PROVE  StageInv'
    <3>1. /\ \A j \in Jobs : \A s \in Completed(j)' : 1..s \subseteq Completed(j)'
          /\ SchemaBuilt'
      BY <2>b, RecordStageInOrder
    <3>2. \A j \in Jobs : Completed(j) \subseteq Completed(j)'
      BY <2>b, RecordStageCompletes
    <3>3. schema' = schema
      BY <2>b DEF RecordStage
    <3> QED
      BY <2>b, <3>1, <3>2, <3>3
  <2>9. CASE FinishPipeline(t)
    BY <2>9, <2>b DEF FinishPipeline, Publish
  <2>10. CASE StopAtBoundary(t)
    BY <2>10, <2>b DEF StopAtBoundary, Settle, Return
  <2>11. CASE FailTask(t)
    BY <2>11, <1>0 DEF FailTask, Settle, Return, outVars
  <2>12. CASE EndArchive(t)
    BY <2>12, <1>0 DEF EndArchive, Return, outVars
  <2> QED
    BY <1>1, <2>1, <2>2, <2>3, <2>4, <2>5, <2>6, <2>7, <2>8, <2>9, <2>10, <2>11, <2>12
    DEF TaskStep
<1>2. ASSUME NEW j \in Jobs, NEW t \in Tasks, Launch(j, t), UNCHANGED outVars
      PROVE  StageInv'
  BY <1>2, <1>0 DEF Launch, outVars
<1>3. CASE HandlerResumes
  BY <1>0, <1>2, <1>3
     DEF HandlerResumes, StartExtraction, StartJob, QuestionsReady, DeriveIntents, EndSubmit,
         outVars, taskVars
<1>4. CASE Request
  BY <1>0, <1>2, <1>4
     DEF Request, BeginUpload, StorePlan, BeginInterview, CompleteInterview, BeginSubmit,
         AppendArtifact, CancelJob, StartAnalysis, StartJob, RetryJob, outVars, taskVars
<1>5. CASE UNCHANGED vars
  BY <1>0, <1>5 DEF vars, outVars, taskVars
<1> QED
  BY <1>1, <1>3, <1>4, <1>5 DEF Next

-----------------------------------------------------------------------------
(***************************************************************************)
(* Verdicts and the report.  A completed REPORT stage means a published    *)
(* report, and its task keeps the job it was created with.                 *)
(***************************************************************************)

ReportPublished ==
    /\ \A j \in Jobs : REPORT \in Completed(j) => report # None
    /\ report # None => pc[report] # "idle"

ReportInv == ReportBehindVerdict /\ ReportPublished

\* A task that finds nothing after its stage leaves the whole pipeline completed.
LEMMA NothingAfterCompletes ==
    ASSUME NEW j \in Jobs, NEW s \in {0} \cup Stages,
           1..(s - 1) \subseteq Completed(j), NothingAfter(j, s)
    PROVE  /\ s \in Stages => Completed(j) \cup {s} = Stages
           /\ s = 0 => Completed(j) = Stages
<1>1. Completed(j) \subseteq Stages
  BY DEF Completed
<1>2. ASSUME NEW m \in Stages, m # s PROVE m \in Completed(j)
  <2>1. m \in Nat /\ m >= 1 /\ s \in Nat
    BY ConstantsAssumption DEF Stages
  <2>2. CASE m < s
    BY <2>1, <2>2, m \in 1..(s - 1)
  <2>3. CASE s < m
    BY <2>1, <2>3 DEF NothingAfter
  <2> QED
    BY <1>2, <2>1, <2>2, <2>3
<1> QED
  BY <1>1, <1>2, StageNumbers

\* What a recorded stage means for the report, whatever else the step does.
LEMMA RecordStageReports ==
    ASSUME WellFormed, StageInv, ReportInv, NEW t \in Tasks, RecordStage(t),
           UNCHANGED taskJob, \A r \in Tasks : pc[r] # "idle" => pc'[r] # "idle"
    PROVE  /\ ReportPublished'
           /\ \A j \in Jobs : Completed(j) = Stages => (Completed(j) = Stages)'
           /\ report' # None => (Completed(taskJob[report]) = Stages)'
           /\ report # None => report' # None
<1> USE DEF WellFormed, TypeOK
<1>1. /\ at[t] \in Stages /\ taskJob[t] \in Jobs /\ pc[t] = "stage"
      /\ 1..(at[t] - 1) \subseteq Completed(taskJob[t])
  BY RecordStageInOrder DEF RecordStage
<1>2. \A j \in Jobs : Completed(j)' = Completed(j) \cup (IF j = taskJob[t] THEN {at[t]} ELSE {})
  BY RecordStageCompletes
<1>3. \A j \in Jobs : Completed(j) = Stages => (Completed(j) = Stages)'
  BY <1>1, <1>2 DEF Stages
<1>4. CASE at[t] = REPORT
  <2>1. report' = t /\ t # None
    BY <1>4, ConstantsAssumption DEF RecordStage
  <2>2. \A j \in Jobs : j = taskJob[t] => Stages = Completed(j)'
    <3>1. NothingAfter(taskJob[t], at[t])
      BY <1>1, <1>4, StageNumbers DEF NothingAfter, REPORT, Stages
    <3>2. Completed(taskJob[t]) \cup {at[t]} = Stages
      BY <1>1, <3>1, NothingAfterCompletes
    <3> QED
      BY <1>1, <1>2, <3>2
  <2> QED
    BY <1>1, <1>3, <2>1, <2>2 DEF ReportPublished
<1>5. CASE at[t] # REPORT
  <2>1. report' = report
    BY <1>5 DEF RecordStage
  <2>2. \A j \in Jobs : (REPORT \in Completed(j))' => REPORT \in Completed(j)
    BY <1>2, <1>5 DEF REPORT
  <2>3. report # None => report \in Tasks /\ taskJob[report] \in Jobs /\ Completed(taskJob[report]) = Stages
    BY DEF ReportInv, ReportPublished, ReportBehindVerdict, TaskShape
  <2> QED
    BY <1>3, <2>1, <2>2, <2>3 DEF ReportInv, ReportPublished
<1> QED
  BY <1>4, <1>5

LEMMA ReportInit == Init => ReportInv
BY ConstantsAssumption DEF Init, ReportInv, ReportBehindVerdict, ReportPublished, Completed

LEMMA ReportStep == WellFormed /\ StageInv /\ ReportInv /\ [Next]_vars => ReportInv'
<1> SUFFICES ASSUME WellFormed, StageInv, ReportInv, [Next]_vars
             PROVE  ReportInv'
  OBVIOUS
<1> USE DEF ReportInv, ReportBehindVerdict, ReportPublished, WellFormed, TypeOK, TaskShape
\* A step that records nothing, gives no analysis success and announces no report.
<1>0. ASSUME UNCHANGED <<checkpoint, report>>,
             \A t \in Tasks : pc[t] # "idle" => pc'[t] # "idle" /\ taskJob'[t] = taskJob[t],
             \A j \in Jobs : kind'[j] = "ANALYSIS" /\ jobStatus'[j] = "SUCCEEDED" =>
                kind[j] = "ANALYSIS" /\ jobStatus[j] = "SUCCEEDED",
             status' = "REPORT_READY" => status = "REPORT_READY"
      PROVE  ReportInv'
  BY <1>0 DEF Completed
<1>1. ASSUME NEW t \in Tasks, TaskStep(t) PROVE ReportInv'
  <2>1. CASE SkipCancelled(t)
    BY <2>1, <1>0 DEF SkipCancelled, Return, outVars
  <2>2. CASE BeginExtraction(t)
    BY <2>2, <1>0 DEF BeginExtraction, outVars
  <2>3. CASE DropExtraction(t)
    BY <2>3, <1>0 DEF DropExtraction, Settle, Return, outVars
  <2>4. ASSUME NEW drafts, StoreExtraction(t, drafts) PROVE ReportInv'
    BY <2>4, <1>0 DEF StoreExtraction, Settle, Return, outVars
  <2>5. CASE BeginPipeline(t)
    BY <2>5, <1>0 DEF BeginPipeline, Enter, outVars
  <2>6. CASE RepublishReport(t)
    <3>1. taskJob[t] \in Jobs /\ NothingAfter(taskJob[t], 0)
      BY <2>6 DEF RepublishReport
    <3>2. Completed(taskJob[t]) = Stages
      <4>1. 1..(0 - 1) \subseteq Completed(taskJob[t])
        OBVIOUS
      <4> QED
        BY <3>1, <4>1, NothingAfterCompletes
    <3>3. report # None
      BY <3>1, <3>2, StageNumbers
    <3> QED
      BY <2>6, <3>1, <3>2, <3>3 DEF RepublishReport, Publish, Completed, outVars
  <2>7. CASE StoreSchema(t)
    BY <2>7, <1>0 DEF StoreSchema, jobVars
  <2>8. CASE AdvanceStage(t)
    <3>1. RecordStage(t) /\ UNCHANGED <<status, jobVars, taskJob>>
      BY <2>8 DEF AdvanceStage
    <3>2. \A r \in Tasks : pc[r] # "idle" => pc'[r] # "idle"
      BY <2>8 DEF AdvanceStage, Enter
    <3> QED
      BY <3>1, <3>2, RecordStageReports DEF jobVars
  <2>9. CASE FinishPipeline(t)
    <3>1. RecordStage(t) /\ UNCHANGED <<kind, taskJob>> /\ pc[t] = "stage"
      BY <2>9 DEF FinishPipeline, RecordStage
    <3>2. \A r \in Tasks : pc[r] # "idle" => pc'[r] # "idle"
      BY <2>9 DEF FinishPipeline, Publish
    <3>3. \A j \in Jobs : j = taskJob[t] => Completed(j)' = Stages
      <4>1. /\ at[t] \in Stages /\ taskJob[t] \in Jobs
            /\ 1..(at[t] - 1) \subseteq Completed(taskJob[t])
        BY <3>1, RecordStageInOrder
      <4>2. Completed(taskJob[t]) \cup {at[t]} = Stages
        BY <2>9, <4>1, NothingAfterCompletes DEF FinishPipeline
      <4>3. \A j \in Jobs : j = taskJob[t] => Completed(j)' = Completed(j) \cup {at[t]}
        BY <3>1, RecordStageCompletes
      <4> QED
        BY <4>1, <4>2, <4>3
    <3>4. report' # None
      BY <3>1, <3>2, <3>3, RecordStageReports, StageNumbers
    <3> QED
      BY <2>9, <3>1, <3>2, <3>3, <3>4, RecordStageReports DEF FinishPipeline, Publish
  <2>10. CASE StopAtBoundary(t)
    <3>1. RecordStage(t) /\ UNCHANGED <<kind, taskJob>>
      BY <2>10 DEF StopAtBoundary, Settle, Return
    <3>2. \A r \in Tasks : pc[r] # "idle" => pc'[r] # "idle"
      BY <2>10 DEF StopAtBoundary, Settle, Return
    <3> QED
      BY <2>10, <3>1, <3>2, RecordStageReports DEF StopAtBoundary, Settle
  <2>11. CASE FailTask(t)
    BY <2>11, <1>0 DEF FailTask, Settle, Return, outVars
  <2>12. CASE EndArchive(t)
    BY <2>12, <1>0 DEF EndArchive, Return, outVars
  <2> QED
    BY <1>1, <2>1, <2>2, <2>3, <2>4, <2>5, <2>6, <2>7, <2>8, <2>9, <2>10, <2>11, <2>12
    DEF TaskStep
<1>2. CASE HandlerResumes
  BY <1>0, <1>2
     DEF HandlerResumes, StartExtraction, StartJob, Launch, QuestionsReady, DeriveIntents,
         EndSubmit, outVars, taskVars, jobVars
<1>3. CASE Request
  BY <1>0, <1>3
     DEF Request, BeginUpload, StorePlan, BeginInterview, CompleteInterview, BeginSubmit,
         AppendArtifact, CancelJob, StartAnalysis, StartJob, Launch, RetryJob,
         outVars, taskVars, jobVars
<1>4. CASE UNCHANGED vars
  BY <1>0, <1>4 DEF vars, outVars, taskVars, jobVars
<1> QED
  BY <1>1, <1>2, <1>3, <1>4 DEF Next

-----------------------------------------------------------------------------
(***************************************************************************)
(* Executors.  A pending job has a task that has yet to decide it, and a   *)
(* session that says ANALYZING has a pipeline at work.                     *)
(***************************************************************************)

LEMMA DrivenInit == Init => PendingJobIsDriven /\ AnalyzingIsDriven /\ AnalysisAfterInterview
BY ConstantsAssumption DEF Init, PendingJobIsDriven, AnalyzingIsDriven, AnalysisAfterInterview

\* A job that stays pending keeps its executor, if that stays where it is.
LEMMA ExecutorKept ==
    ASSUME PendingJobIsDriven, NEW j \in Jobs, jobStatus'[j] = jobStatus[j],
           \A r \in Tasks : taskJob[r] = j /\ pc[r] \in {"spawned", "extract", "schema", "stage"} =>
              /\ pc[r] = "spawned" <=> pc'[r] = "spawned"
              /\ pc'[r] \in {"spawned", "extract", "schema", "stage"}
              /\ taskJob'[r] = taskJob[r]
    PROVE  /\ jobStatus'[j] = "QUEUED" => Queued(j)'
           /\ jobStatus'[j] = "RUNNING" => Driven(j)'
<1>1. ASSUME jobStatus'[j] = "QUEUED" PROVE Queued(j)'
  <2>1. PICK r \in Tasks : taskJob[r] = j /\ pc[r] = "spawned"
    BY <1>1 DEF PendingJobIsDriven, Queued
  <2> QED
    BY <2>1 DEF Queued
<1>2. ASSUME jobStatus'[j] = "RUNNING" PROVE Driven(j)'
  <2>1. PICK r \in Tasks : taskJob[r] = j /\ pc[r] \in {"extract", "schema", "stage"}
    BY <1>2, ZenonT(40) DEF PendingJobIsDriven, Driven, Working
  <2> QED
    BY <2>1 DEF Driven, Working
<1> QED
  BY <1>1, <1>2

LEMMA PendingStep == WellFormed /\ PendingJobIsDriven /\ [Next]_vars => PendingJobIsDriven'
<1> SUFFICES ASSUME WellFormed, PendingJobIsDriven, [Next]_vars
             PROVE  PendingJobIsDriven'
  OBVIOUS
<1> USE ConstantsAssumption
    DEF WellFormed, TypeOK, TaskShape
\* A step that makes no job pending and takes no task from where it was.
<1>0. ASSUME \A t \in Tasks : pc[t] \in {"spawned", "extract", "schema", "stage"} =>
                pc'[t] = pc[t] /\ taskJob'[t] = taskJob[t],
             \A j \in Jobs : jobStatus'[j] \in Pending => jobStatus'[j] = jobStatus[j]
      PROVE  PendingJobIsDriven'
  <2>1. \A j \in Jobs : jobStatus'[j] \in Pending =>
           /\ jobStatus'[j] = "QUEUED" => Queued(j)'
           /\ jobStatus'[j] = "RUNNING" => Driven(j)'
    BY <1>0, ExecutorKept
  <2> QED
    BY <2>1 DEF PendingJobIsDriven, Pending
\* A step by which task t gives its job a verdict.
<1>v. ASSUME NEW t \in Tasks, taskJob' = taskJob,
             \A r \in Tasks : r # t => pc'[r] = pc[r],
             \A j \in Jobs : IF j = taskJob[t] THEN jobStatus'[j] \notin Pending
                                              ELSE jobStatus'[j] = jobStatus[j]
      PROVE  PendingJobIsDriven'
  <2>1. \A j \in Jobs : j # taskJob[t] =>
           /\ jobStatus'[j] = "QUEUED" => Queued(j)'
           /\ jobStatus'[j] = "RUNNING" => Driven(j)'
    BY <1>v, ExecutorKept
  <2> QED
    BY <1>v, <2>1 DEF PendingJobIsDriven, Pending
\* A step by which task t takes its queued job up.
<1>b. ASSUME NEW t \in Tasks, pc[t] = "spawned", taskJob' = taskJob,
             pc'[t] \in {"extract", "schema", "stage"},
             \A r \in Tasks : r # t => pc'[r] = pc[r],
             jobStatus' = [jobStatus EXCEPT ![taskJob[t]] = "RUNNING"]
      PROVE  PendingJobIsDriven'
  <2>1. \A j \in Jobs : j # taskJob[t] =>
           /\ jobStatus'[j] = "QUEUED" => Queued(j)'
           /\ jobStatus'[j] = "RUNNING" => Driven(j)'
    BY <1>b, ExecutorKept
  <2>2. \A j \in Jobs : j = taskJob[t] => jobStatus'[j] = "RUNNING" /\ Driven(j)'
    BY <1>b DEF Driven, Working
  <2> QED
    BY <2>1, <2>2 DEF PendingJobIsDriven
\* A step by which task t goes on working.
<1>w. ASSUME NEW t \in Tasks, pc[t] \in {"schema", "stage"}, taskJob' = taskJob,
             pc'[t] \in {"schema", "stage"},
             \A r \in Tasks : r # t => pc'[r] = pc[r],
             jobStatus' = jobStatus
      PROVE  PendingJobIsDriven'
  <2>1. \A j \in Jobs :
           /\ jobStatus'[j] = "QUEUED" => Queued(j)'
           /\ jobStatus'[j] = "RUNNING" => Driven(j)'
    BY <1>w, ExecutorKept
  <2> QED
    BY <2>1 DEF PendingJobIsDriven
<1>l. ASSUME NEW j \in Jobs, NEW t \in Tasks, Launch(j, t)
      PROVE  PendingJobIsDriven'
  <2>1. \A i \in Jobs : i # j =>
           /\ jobStatus'[i] = "QUEUED" => Queued(i)'
           /\ jobStatus'[i] = "RUNNING" => Driven(i)'
    BY <1>l, ExecutorKept DEF Launch
  <2>2. jobStatus'[j] = "QUEUED" /\ Queued(j)'
    BY <1>l DEF Launch, Queued
  <2> QED
    BY <2>1, <2>2 DEF PendingJobIsDriven
<1>1. ASSUME NEW t \in Tasks, TaskStep(t) PROVE PendingJobIsDriven'
  <2>1. CASE SkipCancelled(t)
    BY <2>1, <1>v DEF SkipCancelled, Return, Pending
  <2>2. CASE BeginExtraction(t)
    BY <2>2, <1>b DEF BeginExtraction
  <2>3. CASE DropExtraction(t)
    BY <2>3, <1>v DEF DropExtraction, Settle, Return, Pending
  <2>4. ASSUME NEW drafts, StoreExtraction(t, drafts) PROVE PendingJobIsDriven'
    BY <2>4, <1>v DEF StoreExtraction, Settle, Return, Pending
  <2>5. CASE BeginPipeline(t)
    BY <2>5, <1>b DEF BeginPipeline, Enter
  <2>6. CASE RepublishReport(t)
    BY <2>6, <1>v DEF RepublishReport, Publish, Pending
  <2>7. CASE StoreSchema(t)
    BY <2>7, <1>w DEF StoreSchema, jobVars
  <2>8. CASE AdvanceStage(t)
    BY <2>8, <1>w DEF AdvanceStage, RecordStage, Enter, jobVars
  <2>9. CASE FinishPipeline(t)
    BY <2>9, <1>v DEF FinishPipeline, RecordStage, Publish, Pending
  <2>10. CASE StopAtBoundary(t)
    BY <2>10, <1>v DEF StopAtBoundary, RecordStage, Settle, Return, Pending
  <2>11. CASE FailTask(t)
    BY <2>11, <1>v DEF FailTask, Settle, Return, Pending
  <2>12. CASE EndArchive(t)
    BY <2>12, <1>0 DEF EndArchive, Return
  <2> QED
    BY <1>1, <2>1, <2>2, <2>3, <2>4, <2>5, <2>6, <2>7, <2>8, <2>9, <2>10, <2>11, <2>12
    DEF TaskStep
<1>2. CASE HandlerResumes
  BY <1>0, <1>l, <1>2
     DEF HandlerResumes, StartExtraction, StartJob, QuestionsReady, DeriveIntents, EndSubmit,
         jobVars, taskVars
<1>3. CASE Request
  <2>1. ASSUME NEW p \in Plans, StorePlan(p) PROVE PendingJobIsDriven'
    BY <2>1, <1>0 DEF StorePlan, Pending, taskVars
  <2>2. ASSUME NEW j \in Jobs, CancelJob(j) PROVE PendingJobIsDriven'
    BY <2>2, <1>0 DEF CancelJob, Pending, taskVars
  <2> QED
    BY <1>0, <1>l, <1>3, <2>1, <2>2
       DEF Request, BeginUpload, BeginInterview, CompleteInterview, BeginSubmit,
           AppendArtifact, StartAnalysis, StartJob, RetryJob, jobVars, taskVars
<1>4. CASE UNCHANGED vars
  BY <1>0, <1>4 DEF vars, jobVars, taskVars
<1> QED
  BY <1>1, <1>2, <1>3, <1>4 DEF Next

LEMMA AnalyzingStep ==
    WellFormed /\ AnalyzingIsDriven /\ AnalysisAfterInterview /\ [Next]_vars
        => AnalyzingIsDriven' /\ AnalysisAfterInterview'
<1> SUFFICES ASSUME WellFormed, AnalyzingIsDriven, AnalysisAfterInterview, [Next]_vars
             PROVE  AnalyzingIsDriven' /\ AnalysisAfterInterview'
  OBVIOUS
<1> USE ConstantsAssumption
    DEF WellFormed, TypeOK, TaskShape, JobShape, AnalyzingIsDriven, AnalysisAfterInterview,
        Driven, Working
\* A step that keeps status and kinds, and every pipeline at work.
<1>0. ASSUME UNCHANGED <<status, kind>>,
             \A t \in Tasks : pc[t] \in {"schema", "stage"} =>
                pc'[t] \in {"schema", "stage"} /\ taskJob'[t] = taskJob[t]
      PROVE  AnalyzingIsDriven' /\ AnalysisAfterInterview'
  BY <1>0
\* A step of an analysis that leaves the status behind the interview and not ANALYZING.
<1>d. ASSUME status' \in {"INTERVIEW_DONE", "REPORT_READY"}
      PROVE  AnalyzingIsDriven' /\ AnalysisAfterInterview'
  BY <1>d
<1>1. ASSUME NEW t \in Tasks, TaskStep(t) PROVE AnalyzingIsDriven' /\ AnalysisAfterInterview'
  <2>1. CASE SkipCancelled(t)
    BY <2>1, <1>0 DEF SkipCancelled, Return
  <2>2. CASE BeginExtraction(t)
    BY <2>2, <1>0 DEF BeginExtraction
  <2>3. CASE DropExtraction(t)
    BY <2>3, <1>0 DEF DropExtraction, Settle, Return
  <2>4. ASSUME NEW drafts, StoreExtraction(t, drafts)
        PROVE  AnalyzingIsDriven' /\ AnalysisAfterInterview'
    BY <2>4, <1>0 DEF StoreExtraction, Settle, Return
  <2>5. CASE BeginPipeline(t)
    BY <2>5 DEF BeginPipeline, Enter
  <2>6. CASE RepublishReport(t)
    BY <2>6, <1>d DEF RepublishReport, Publish
  <2>7. CASE StoreSchema(t)
    BY <2>7, <1>0 DEF StoreSchema, jobVars
  <2>8. CASE AdvanceStage(t)
    BY <2>8, <1>0 DEF AdvanceStage, Enter, jobVars
  <2>9. CASE FinishPipeline(t)
    BY <2>9, <1>d DEF FinishPipeline, Publish
  <2>10. CASE StopAtBoundary(t)
    BY <2>10, <1>d DEF StopAtBoundary
  <2>11. CASE FailTask(t)
    <3>1. CASE kind[taskJob[t]] = "ANALYSIS"
      BY <2>11, <3>1, <1>d DEF FailTask
    <3>2. CASE kind[taskJob[t]] # "ANALYSIS"
      BY <2>11, <3>2, <1>0 DEF FailTask, Settle, Return
    <3> QED
      BY <3>1, <3>2
  <2>12. CASE EndArchive(t)
    BY <2>12, <1>0 DEF EndArchive, Return
  <2> QED
    BY <1>1, <2>1, <2>2, <2>3, <2>4, <2>5, <2>6, <2>7, <2>8, <2>9, <2>10, <2>11, <2>12
    DEF TaskStep
<1>2. CASE HandlerResumes
  <2>1. ASSUME NEW j \in Jobs, NEW t \in Tasks, StartExtraction(j, t)
        PROVE  AnalyzingIsDriven' /\ AnalysisAfterInterview'
    <3>1. AnalyzingIsDriven'
      BY <2>1 DEF StartExtraction, StartJob, Launch
    <3>2. AnalysisAfterInterview'
      BY <2>1 DEF StartExtraction, StartJob
    <3> QED
      BY <3>1, <3>2
  <2> QED
    BY <1>0, <1>2, <2>1
       DEF HandlerResumes, QuestionsReady, DeriveIntents, EndSubmit, jobVars, taskVars
<1>3. CASE Request
  <2>1. ASSUME NEW p \in Plans, BeginUpload(p) \/ StorePlan(p)
        PROVE  AnalyzingIsDriven' /\ AnalysisAfterInterview'
    BY <2>1, <1>0 DEF BeginUpload, StorePlan, jobVars, taskVars
  <2>2. CASE BeginInterview
    BY <2>2 DEF BeginInterview, jobVars
  <2>3. CASE CompleteInterview
    BY <2>3, <1>d DEF CompleteInterview
  <2>4. ASSUME NEW parsed \in BOOLEAN, BeginSubmit \/ AppendArtifact(parsed)
        PROVE  AnalyzingIsDriven' /\ AnalysisAfterInterview'
    BY <2>4, <1>0 DEF BeginSubmit, AppendArtifact, jobVars, taskVars
  <2>5. ASSUME NEW j \in Jobs, CancelJob(j)
        PROVE  AnalyzingIsDriven' /\ AnalysisAfterInterview'
    <3>1. CASE kind[j] = "ANALYSIS"
      BY <2>5, <3>1, <1>d DEF CancelJob
    <3>2. CASE kind[j] # "ANALYSIS"
      BY <2>5, <3>2, <1>0 DEF CancelJob, taskVars
    <3> QED
      BY <3>1, <3>2
  <2>6. ASSUME NEW j \in Jobs, NEW t \in Tasks, StartAnalysis(j, t)
        PROVE  AnalyzingIsDriven' /\ AnalysisAfterInterview'
    BY <2>6, <1>d DEF StartAnalysis
  <2>7. ASSUME NEW j \in Jobs, NEW t \in Tasks, RetryJob(j, t)
        PROVE  AnalyzingIsDriven' /\ AnalysisAfterInterview'
    BY <2>7, <1>0 DEF RetryJob, Launch
  <2> QED
    BY <1>3, <2>1, <2>2, <2>3, <2>4, <2>5, <2>6, <2>7, {TRUE} \subseteq BOOLEAN DEF Request
<1>4. CASE UNCHANGED vars
  BY <1>0, <1>4 DEF vars, jobVars, taskVars
<1> QED
  BY <1>1, <1>2, <1>3, <1>4 DEF Next

-----------------------------------------------------------------------------
(***************************************************************************)
(* The active job.  A task that is skipped leaves active_job_id alone, so  *)
(* the invariant needs that a cancelled job is active only while another   *)
(* task is at work on it: that one will clear it.                          *)
(***************************************************************************)

Alive(j) == \E t \in Tasks : taskJob[t] = j /\ pc[t] \notin {"idle", "done"}

ActiveAtWork ==
    activeJob # None /\ lock # "plan" /\ Cancelled(activeJob) => Driven(activeJob)

ActiveInv == ActiveJobIsDriven /\ ActiveAtWork

\* The active job keeps what it has, if no task of it ends and, once it is cancelled,
\* none of its tasks leaves the work.
LEMMA ActiveKept ==
    ASSUME ActiveInv,
           activeJob' # None => activeJob' = activeJob,
           lock' # "plan" => lock # "plan",
           activeJob' # None =>
              \A r \in Tasks : taskJob[r] = activeJob /\ pc[r] \notin {"idle", "done"} =>
                 taskJob'[r] = taskJob[r] /\ pc'[r] \notin {"idle", "done"},
           activeJob' # None /\ Cancelled(activeJob)' =>
              /\ Cancelled(activeJob)
              /\ \A r \in Tasks : taskJob[r] = activeJob /\ Working(r) =>
                    taskJob'[r] = taskJob[r] /\ Working(r)'
    PROVE  ActiveInv'
<1>1. ASSUME activeJob' # None, lock' # "plan" PROVE Alive(activeJob)'
  <2>1. PICK r \in Tasks : taskJob[r] = activeJob /\ pc[r] \notin {"idle", "done"}
    BY <1>1 DEF ActiveInv, ActiveJobIsDriven
  <2> QED
    BY <1>1, <2>1 DEF Alive
<1>2. ASSUME activeJob' # None, lock' # "plan", Cancelled(activeJob)'
      PROVE  Driven(activeJob)'
  <2>1. activeJob' = activeJob /\ Cancelled(activeJob) /\ lock # "plan"
    BY <1>2
  <2>2. PICK r \in Tasks : taskJob[r] = activeJob /\ Working(r)
    BY <1>2, <2>1 DEF ActiveInv, ActiveAtWork, Driven
  <2> QED
    BY <1>2, <2>1, <2>2 DEF Driven
<1> QED
  BY <1>1, <1>2 DEF ActiveInv, ActiveJobIsDriven, ActiveAtWork, Alive

\* A job just launched is active, not cancelled, and has its task.
LEMMA ActiveLaunched ==
    ASSUME WellFormed, NEW j \in Jobs, NEW t \in Tasks, Launch(j, t)
    PROVE  ActiveInv'
<1>1. Alive(activeJob)'
  BY DEF WellFormed, TypeOK, Launch, Alive
<1>2. ~Cancelled(activeJob)'
  BY DEF WellFormed, TypeOK, Launch, Cancelled
<1> QED
  BY <1>1, <1>2 DEF ActiveInv, ActiveJobIsDriven, ActiveAtWork, Alive

LEMMA ActiveInit == Init => ActiveInv
BY DEF Init, ActiveInv, ActiveJobIsDriven, ActiveAtWork

LEMMA ActiveStep ==
    WellFormed /\ PendingJobIsDriven /\ ActiveInv /\ [Next]_vars => ActiveInv'
<1> SUFFICES ASSUME WellFormed, PendingJobIsDriven, ActiveInv, [Next]_vars
             PROVE  ActiveInv'
  OBVIOUS
<1> USE ConstantsAssumption DEF WellFormed, TypeOK, TaskShape
\* A step that changes no job, keeps the active one and the lock, and ends no task.
<1>0. ASSUME UNCHANGED jobVars, lock' # "plan" => lock # "plan",
             \A r \in Tasks : pc[r] # "idle" =>
                /\ taskJob'[r] = taskJob[r]
                /\ pc[r] # "done" => pc'[r] \notin {"idle", "done"}
                /\ Working(r) => Working(r)'
      PROVE  ActiveInv'
  BY <1>0, ActiveKept DEF jobVars, Cancelled, Working
\* A step that ends task t with a verdict.
<1>e. ASSUME NEW t \in Tasks, NEW v \in Terminal, pc[t] # "idle", Settle(t, v), UNCHANGED lock
      PROVE  ActiveInv'
  BY <1>e, ActiveKept DEF Settle, Return, Cancelled, Working
\* A step of a job that is not cancelled, by which its task goes on.
<1>g. ASSUME NEW t \in Tasks, pc[t] # "idle", ~Cancelled(taskJob[t]),
             NEW v \in {"RUNNING", "SUCCEEDED"}, NEW w \in {"extract", "schema", "stage", "archive"},
             jobStatus' = [jobStatus EXCEPT ![taskJob[t]] = v],
             pc' = [pc EXCEPT ![t] = w],
             UNCHANGED <<lock, activeJob, cancelRequested, taskJob>>
      PROVE  ActiveInv'
  BY <1>g, ActiveKept DEF Cancelled, Working
<1>1. ASSUME NEW t \in Tasks, TaskStep(t) PROVE ActiveInv'
  <2>1. CASE SkipCancelled(t)
    <3>1. CASE activeJob = taskJob[t] /\ lock # "plan"
      <4>1. PICK r \in Tasks : taskJob[r] = activeJob /\ Working(r)
        BY <2>1, <3>1 DEF SkipCancelled, ActiveInv, ActiveAtWork, Driven
      <4>2. Working(r)' /\ taskJob'[r] = activeJob'
        BY <2>1, <3>1, <4>1 DEF SkipCancelled, Return, Working
      <4> QED
        BY <4>1, <4>2 DEF ActiveInv, ActiveJobIsDriven, ActiveAtWork, Driven, Working
    <3>2. CASE activeJob # taskJob[t]
      BY <2>1, <3>2, ActiveKept DEF SkipCancelled, Return, Cancelled, Working
    <3>3. CASE lock = "plan"
      BY <2>1, <3>3 DEF SkipCancelled, ActiveInv, ActiveJobIsDriven, ActiveAtWork
    <3> QED
      BY <3>1, <3>2, <3>3
  <2>2. CASE BeginExtraction(t)
    BY <2>2, <1>g DEF BeginExtraction
  <2>3. CASE DropExtraction(t)
    BY <2>3, <1>e DEF DropExtraction, Terminal
  <2>4. ASSUME NEW drafts, StoreExtraction(t, drafts) PROVE ActiveInv'
    BY <2>4, <1>e DEF StoreExtraction, Terminal
  <2>5. CASE BeginPipeline(t)
    BY <2>5, <1>g DEF BeginPipeline, Enter
  <2>6. CASE RepublishReport(t)
    BY <2>6, <1>g DEF RepublishReport, Publish
  <2>7. CASE StoreSchema(t)
    BY <2>7, <1>0 DEF StoreSchema, Working
  <2>8. CASE AdvanceStage(t)
    BY <2>8, <1>0 DEF AdvanceStage, Enter, Working
  <2>9. CASE FinishPipeline(t)
    BY <2>9, <1>g DEF FinishPipeline, RecordStage, Publish
  <2>10. CASE StopAtBoundary(t)
    BY <2>10, <1>e DEF StopAtBoundary, RecordStage, Terminal
  <2>11. CASE FailTask(t)
    BY <2>11, <1>e DEF FailTask, Terminal
  <2>12. CASE EndArchive(t)
    <3>1. CASE activeJob = taskJob[t] /\ activeJob' # None /\ lock # "plan"
      <4>1. jobStatus[activeJob] \in Pending /\ activeJob \in Jobs /\ activeJob' = activeJob
        BY <2>12, <3>1 DEF EndArchive, Terminal, Pending
      <4>2. PICK r \in Tasks : taskJob[r] = activeJob /\ pc[r] \in {"spawned", "extract", "schema", "stage"}
        BY <4>1 DEF PendingJobIsDriven, Queued, Driven, Working, Pending
      <4>3. Alive(activeJob)'
        BY <2>12, <4>1, <4>2 DEF EndArchive, Return, Alive
      <4>4. ActiveAtWork'
        <5> SUFFICES ASSUME Cancelled(activeJob) PROVE Driven(activeJob)'
          BY <2>12, <4>1 DEF EndArchive, ActiveAtWork, Cancelled
        <5>1. PICK q \in Tasks : taskJob[q] = activeJob /\ Working(q)
          BY <3>1, <4>1 DEF ActiveInv, ActiveAtWork, Driven
        <5> QED
          BY <2>12, <4>1, <5>1 DEF EndArchive, Return, Driven, Working
      <4> QED
        BY <4>3, <4>4 DEF ActiveInv, ActiveJobIsDriven, Alive
    <3>2. CASE activeJob # taskJob[t] \/ activeJob' = None
      BY <2>12, <3>2, ActiveKept DEF EndArchive, Return, Cancelled, Working
    <3>3. CASE lock = "plan"
      BY <2>12, <3>3 DEF EndArchive, ActiveInv, ActiveJobIsDriven, ActiveAtWork
    <3> QED
      BY <3>1, <3>2, <3>3
  <2> QED
    BY <1>1, <2>1, <2>2, <2>3, <2>4, <2>5, <2>6, <2>7, <2>8, <2>9, <2>10, <2>11, <2>12
    DEF TaskStep
<1>2. CASE HandlerResumes
  BY <1>0, ActiveLaunched, <1>2
     DEF HandlerResumes, StartExtraction, StartJob, QuestionsReady, DeriveIntents, EndSubmit,
         taskVars, Working
<1>3. CASE Request
  <2>1. ASSUME NEW p \in Plans, StorePlan(p) PROVE ActiveInv'
    BY <2>1 DEF StorePlan, ActiveInv, ActiveJobIsDriven, ActiveAtWork
  <2>2. ASSUME NEW j \in Jobs, CancelJob(j) PROVE ActiveInv'
    <3>1. CASE activeJob = j /\ jobStatus[j] = "RUNNING"
      <4>1. PICK r \in Tasks : taskJob[r] = j /\ Working(r)
        BY <3>1 DEF PendingJobIsDriven, Driven
      <4>2. Working(r)' /\ taskJob'[r] = activeJob'
        BY <2>2, <3>1, <4>1 DEF CancelJob, taskVars, Working
      <4> QED
        BY <4>1, <4>2 DEF ActiveInv, ActiveJobIsDriven, ActiveAtWork, Driven, Working
    <3>2. CASE activeJob # j \/ jobStatus[j] = "QUEUED"
      BY <2>2, <3>2, ActiveKept DEF CancelJob, taskVars, Cancelled, Working
    <3> QED
      BY <2>2, <3>1, <3>2 DEF CancelJob, Pending
  <2> QED
    BY <1>0, ActiveLaunched, <1>3, <2>1, <2>2
       DEF Request, BeginUpload, BeginInterview, CompleteInterview, BeginSubmit,
           AppendArtifact, StartAnalysis, StartJob, RetryJob, taskVars, Working
<1>4. CASE UNCHANGED vars
  BY <1>0, <1>4 DEF vars, taskVars, Working
<1> QED
  BY <1>1, <1>2, <1>3, <1>4 DEF Next

-----------------------------------------------------------------------------
(***************************************************************************)
(* Intents.                                                                *)
(***************************************************************************)

LEMMA PlanIntentsStep == WellFormed /\ PlanIntentsCurrent /\ [Next]_vars => PlanIntentsCurrent'
<1> SUFFICES ASSUME WellFormed, PlanIntentsCurrent, [Next]_vars
             PROVE  PlanIntentsCurrent'
  OBVIOUS
<1> USE DEF PlanIntentsCurrent
<1>0. ASSUME UNCHANGED <<intents, plan>> PROVE PlanIntentsCurrent'
  BY <1>0
<1>1. ASSUME NEW t \in Tasks, TaskStep(t) PROVE PlanIntentsCurrent'
  <2>1. ASSUME NEW drafts \in SUBSET [from : {expectedPlan[t]}, sourced : PlanSourced],
               StoreExtraction(t, drafts)
        PROVE  PlanIntentsCurrent'
    BY <2>1 DEF StoreExtraction, planVars
  <2> QED
    BY <1>0, <1>1, <2>1
       DEF TaskStep, SkipCancelled, BeginExtraction, DropExtraction, BeginPipeline,
           RepublishReport, StoreSchema, AdvanceStage, FinishPipeline, StopAtBoundary,
           FailTask, EndArchive, planVars
<1>2. CASE HandlerResumes
  BY <1>0, <1>2
     DEF HandlerResumes, StartExtraction, QuestionsReady, DeriveIntents, EndSubmit, planVars
<1>3. CASE Request
  BY <1>0, <1>3
     DEF Request, BeginUpload, StorePlan, BeginInterview, CompleteInterview, BeginSubmit,
         AppendArtifact, CancelJob, StartAnalysis, RetryJob, planVars
<1>4. CASE UNCHANGED vars
  BY <1>0, <1>4 DEF vars, planVars
<1> QED
  BY <1>1, <1>2, <1>3, <1>4 DEF Next

LEMMA SourcedIntentsStep == [Next]_vars => {i \in intents : i.sourced} \subseteq intents'
<1> SUFFICES ASSUME [Next]_vars
             PROVE  {i \in intents : i.sourced} \subseteq intents'
  OBVIOUS
<1>1. ASSUME NEW t \in Tasks, TaskStep(t) PROVE {i \in intents : i.sourced} \subseteq intents'
  BY <1>1
     DEF TaskStep, SkipCancelled, BeginExtraction, DropExtraction, StoreExtraction,
         BeginPipeline, RepublishReport, StoreSchema, AdvanceStage, FinishPipeline,
         StopAtBoundary, FailTask, EndArchive
<1>2. CASE HandlerResumes
  BY <1>2 DEF HandlerResumes, StartExtraction, QuestionsReady, DeriveIntents, EndSubmit
<1>3. CASE Request
  BY <1>3
     DEF Request, BeginUpload, StorePlan, BeginInterview, CompleteInterview, BeginSubmit,
         AppendArtifact, CancelJob, StartAnalysis, RetryJob
<1>4. CASE UNCHANGED vars
  BY <1>4 DEF vars
<1> QED
  BY <1>1, <1>2, <1>3, <1>4 DEF Next

-----------------------------------------------------------------------------
(***************************************************************************)
(* The lifecycle.  Under the mapping of SessionJobs, every step is a step  *)
(* of SessionLifecycle or leaves its variables alone.                      *)
(***************************************************************************)

AtWork == {t \in Tasks : pc[t] \in {"schema", "stage"}}

LEMMA LifecycleInit == Init => Lifecycle!Init
BY DEF Init, Lifecycle!Init

LEMMA LifecycleStep ==
    WellFormed /\ StageInv /\ ReportInv /\ AnalysisAfterInterview /\ [Next]_vars
        => [Lifecycle!Next]_(Lifecycle!vars)
<1> SUFFICES ASSUME WellFormed, StageInv, ReportInv, AnalysisAfterInterview, [Next]_vars
             PROVE  Lifecycle!Next \/ UNCHANGED Lifecycle!vars
  OBVIOUS
<1> USE ConstantsAssumption DEF WellFormed, TypeOK, TaskShape, JobShape
<1> DEFINE Goal == Lifecycle!Next \/ UNCHANGED Lifecycle!vars
\* A step that the lifecycle does not see.
<1>0. ASSUME UNCHANGED <<status, report>>,
             \A t \in Tasks : pc'[t] \in {"schema", "stage"} <=> pc[t] \in {"schema", "stage"}
      PROVE  Goal
  <2>1. AtWork' = AtWork
    BY <1>0 DEF AtWork
  <2> QED
    BY <1>0, <2>1 DEF AtWork, Lifecycle!vars
\* Task t leaves the pipeline, or enters it; the others stay where they are.
<1>x. ASSUME NEW t \in Tasks, pc[t] \in {"schema", "stage"}, pc'[t] \notin {"schema", "stage"},
             \A r \in Tasks : r # t => pc'[r] = pc[r]
      PROVE  t \in AtWork /\ AtWork' = AtWork \ {t}
  BY <1>x DEF AtWork
<1>i. ASSUME NEW t \in Tasks, pc[t] \notin {"schema", "stage"}, pc'[t] \in {"schema", "stage"},
             \A r \in Tasks : r # t => pc'[r] = pc[r]
      PROVE  t \notin AtWork /\ AtWork' = AtWork \cup {t}
  BY <1>i DEF AtWork
<1>s. ASSUME \A t \in Tasks : pc'[t] \in {"schema", "stage"} <=> pc[t] \in {"schema", "stage"}
      PROVE  AtWork' = AtWork
  BY <1>s DEF AtWork
\* The last stage of the pipeline is the one that publishes: what FinishPipeline records
\* is REPORT, or REPORT was completed, and its report published, before.
<1>f. ASSUME NEW t \in Tasks, RecordStage(t), NothingAfter(taskJob[t], at[t])
      PROVE  report' # None
  <2>1. at[t] \in Stages /\ taskJob[t] \in Jobs
    BY <1>f DEF RecordStage
  <2>2. CASE at[t] = REPORT
    BY <1>f, <2>2 DEF RecordStage
  <2>3. CASE at[t] # REPORT
    <3>1. REPORT > at[t] /\ REPORT \in Stages
      BY <2>1, <2>3 DEF Stages, REPORT
    <3>2. REPORT \in Completed(taskJob[t])
      BY <1>f, <3>1 DEF NothingAfter
    <3>3. report # None
      BY <2>1, <3>2 DEF ReportInv, ReportPublished
    <3> QED
      BY <1>f, <2>3, <3>3 DEF RecordStage
  <2> QED
    BY <2>2, <2>3
\* A session with an analysis is past the interview.
<1>a. ASSUME NEW j \in Jobs, kind[j] = "ANALYSIS" PROVE Lifecycle!Interviewed
  BY <1>a DEF AnalysisAfterInterview, Lifecycle!Interviewed
<1>1. ASSUME NEW t \in Tasks, TaskStep(t) PROVE Goal
  <2>1. CASE SkipCancelled(t)
    BY <2>1, <1>0 DEF SkipCancelled, Return, outVars
  <2>2. CASE BeginExtraction(t)
    BY <2>2, <1>0 DEF BeginExtraction, outVars
  <2>3. CASE DropExtraction(t)
    BY <2>3, <1>0 DEF DropExtraction, Settle, Return, outVars
  <2>4. ASSUME NEW drafts, StoreExtraction(t, drafts) PROVE Goal
    BY <2>4, <1>0 DEF StoreExtraction, Settle, Return, outVars
  <2>5. CASE BeginPipeline(t)
    <3>1. Lifecycle!Interviewed
      BY <2>5, <1>a DEF BeginPipeline
    <3>2. t \notin AtWork /\ AtWork' = AtWork \cup {t}
      BY <2>5, <1>i DEF BeginPipeline, Enter
    <3>3. Lifecycle!Analyze(t)
      BY <2>5, <3>1, <3>2 DEF BeginPipeline, outVars, AtWork, Lifecycle!Analyze
    <3> QED
      BY <3>3 DEF Lifecycle!Next
  <2>6. CASE RepublishReport(t)
    <3>1. Lifecycle!Interviewed
      BY <2>6, <1>a DEF RepublishReport
    <3>2. AtWork' = AtWork
      BY <2>6, <1>s DEF RepublishReport, Publish
    <3>3. report # None
      <4>1. taskJob[t] \in Jobs /\ NothingAfter(taskJob[t], 0)
        BY <2>6 DEF RepublishReport
      <4>2. 1..(0 - 1) \subseteq Completed(taskJob[t])
        OBVIOUS
      <4>3. Completed(taskJob[t]) = Stages
        BY <4>1, <4>2, NothingAfterCompletes
      <4> QED
        BY <4>1, <4>3, StageNumbers DEF ReportInv, ReportPublished
    <3>4. Lifecycle!DeliverAgain
      BY <2>6, <3>1, <3>2, <3>3 DEF RepublishReport, Publish, outVars, AtWork, Lifecycle!DeliverAgain
    <3> QED
      BY <3>4 DEF Lifecycle!Next
  <2>7. CASE StoreSchema(t)
    BY <2>7, <1>0 DEF StoreSchema
  <2>8. CASE AdvanceStage(t)
    <3>1. PICK k \in Stages : NextStage(taskJob[t], at[t], k) /\ Enter(t, k)
      BY <2>8 DEF AdvanceStage
    <3>2. at[t] # REPORT
      BY <2>8, <3>1 DEF AdvanceStage, RecordStage, NextStage, Stages, REPORT
    <3>3. pc[t] = "stage" /\ report' = report
      BY <2>8, <3>2 DEF AdvanceStage, RecordStage
    <3> QED
      BY <2>8, <3>1, <3>3, <1>0 DEF AdvanceStage, Enter
  <2>9. CASE FinishPipeline(t)
    <3>1. pc[t] = "stage" /\ t \in AtWork /\ AtWork' = AtWork \ {t}
      BY <2>9, <1>x DEF FinishPipeline, RecordStage, Publish
    <3>2. report' # None
      BY <2>9, <1>f DEF FinishPipeline
    <3>3. Lifecycle!Deliver(t)
      BY <2>9, <3>1, <3>2 DEF FinishPipeline, Publish, AtWork, Lifecycle!Deliver
    <3> QED
      BY <3>3 DEF Lifecycle!Next
  <2>10. CASE StopAtBoundary(t)
    <3>1. pc[t] = "stage" /\ t \in AtWork /\ AtWork' = AtWork \ {t}
      BY <2>10, <1>x DEF StopAtBoundary, RecordStage, Settle, Return
    <3>2. report # None => report' # None
      BY <2>10 DEF StopAtBoundary, RecordStage
    <3>3. Lifecycle!GiveBack(t)
      BY <2>10, <3>1, <3>2 DEF StopAtBoundary, AtWork, Lifecycle!GiveBack
    <3> QED
      BY <3>3 DEF Lifecycle!Next
  <2>11. CASE FailTask(t)
    <3>1. CASE pc[t] = "extract"
      BY <2>11, <3>1, <1>0 DEF FailTask, Settle, Return, outVars
    <3>2. CASE pc[t] \in {"schema", "stage"}
      <4>1. t \in AtWork /\ AtWork' = AtWork \ {t}
        BY <2>11, <3>2, <1>x DEF FailTask, Settle, Return
      <4>2. Lifecycle!GiveBack(t)
        BY <2>11, <3>2, <4>1 DEF FailTask, outVars, AtWork, Lifecycle!GiveBack
      <4> QED
        BY <4>2 DEF Lifecycle!Next
    <3> QED
      BY <2>11, <3>1, <3>2 DEF FailTask
  <2>12. CASE EndArchive(t)
    BY <2>12, <1>0 DEF EndArchive, Return, outVars
  <2> QED
    BY <1>1, <2>1, <2>2, <2>3, <2>4, <2>5, <2>6, <2>7, <2>8, <2>9, <2>10, <2>11, <2>12
    DEF TaskStep
<1>2. ASSUME NEW j \in Jobs, NEW t \in Tasks, Launch(j, t), UNCHANGED <<status, report>>
      PROVE  Goal
  BY <1>2, <1>0 DEF Launch
<1>3. CASE HandlerResumes
  BY <1>0, <1>2, <1>3
     DEF HandlerResumes, StartExtraction, StartJob, QuestionsReady, DeriveIntents, EndSubmit,
         outVars, taskVars
<1>4. CASE Request
  <2>1. CASE BeginInterview
    <3>1. AtWork' = AtWork
      BY <2>1 DEF BeginInterview, taskVars, AtWork
    <3>2. Lifecycle!StartInterview
      BY <2>1, <3>1 DEF BeginInterview, outVars, AtWork, Lifecycle!StartInterview
    <3> QED
      BY <3>2 DEF Lifecycle!Next
  <2>2. CASE CompleteInterview
    <3>1. AtWork' = AtWork
      BY <2>2 DEF CompleteInterview, taskVars, AtWork
    <3>2. Lifecycle!EndInterview
      BY <2>2, <3>1 DEF CompleteInterview, outVars, AtWork, Lifecycle!EndInterview, Lifecycle!Interviewed
    <3> QED
      BY <3>2 DEF Lifecycle!Next
  <2>3. ASSUME NEW j \in Jobs, CancelJob(j) PROVE Goal
    <3>1. AtWork' = AtWork
      BY <2>3 DEF CancelJob, taskVars, AtWork
    <3>2. CASE kind[j] = "ANALYSIS"
      <4>1. Lifecycle!Cancel
        BY <2>3, <3>1, <3>2, <1>a DEF CancelJob, outVars, AtWork, Lifecycle!Cancel
      <4> QED
        BY <4>1 DEF Lifecycle!Next
    <3>3. CASE kind[j] # "ANALYSIS"
      BY <2>3, <3>3, <1>0 DEF CancelJob, taskVars, outVars
    <3> QED
      BY <3>2, <3>3
  <2>4. ASSUME NEW j \in Jobs, NEW t \in Tasks, StartAnalysis(j, t) PROVE Goal
    <3>1. AtWork' = AtWork
      BY <2>4, <1>s DEF StartAnalysis, StartJob, Launch
    <3>2. CASE status = "CREATED"
      <4>1. Lifecycle!EndInterview
        BY <2>4, <3>1, <3>2
           DEF StartAnalysis, outVars, AtWork, Lifecycle!EndInterview, Lifecycle!Interviewed
      <4> QED
        BY <4>1 DEF Lifecycle!Next
    <3>3. CASE status # "CREATED"
      BY <2>4, <3>3, <1>2 DEF StartAnalysis, StartJob, outVars
    <3> QED
      BY <3>2, <3>3
  <2> QED
    BY <1>0, <1>2, <1>4, <2>1, <2>2, <2>3, <2>4
       DEF Request, BeginUpload, StorePlan, BeginSubmit, AppendArtifact, RetryJob,
           outVars, taskVars
<1>5. CASE UNCHANGED vars
  BY <1>0, <1>5 DEF vars, outVars, taskVars
<1> QED
  BY <1>1, <1>3, <1>4, <1>5 DEF Next

-----------------------------------------------------------------------------
(***************************************************************************)
(* Every task is finite: the part of the liveness properties that needs no *)
(* fairness.                                                               *)
(***************************************************************************)

\* How far a task has come: a stage is awaited once for the schema and once for itself.
TaskProgress(t) ==
    CASE pc[t] = "idle"    -> 0
      [] pc[t] = "spawned" -> 1
      [] pc[t] = "extract" -> 2
      [] pc[t] = "schema"  -> 2 * at[t]
      [] pc[t] = "stage"   -> 2 * at[t] + 1
      [] pc[t] = "archive" -> 2 * LastStage + 2
      [] pc[t] = "done"    -> 2 * LastStage + 3

\* A task takes 2 * LastStage + 3 steps at most, from its creation to its return.
TaskBounded == \A t \in Tasks : TaskProgress(t) \in 0..(2 * LastStage + 3)

\* Whatever a task does brings it nearer its end (no stage is entered twice by one task, a
\* completed one not at all), and nobody else moves it: a retry, a cancellation, an upload or
\* another task on the same job can create a task, and cannot send one back.
TasksAdvance ==
    [][\A t \in Tasks :
          IF TaskStep(t)
          THEN TaskProgress(t)' > TaskProgress(t)
          ELSE \/ TaskProgress(t)' = TaskProgress(t)
               \/ pc[t] = "idle" /\ pc'[t] = "spawned"]_vars

LEMMA ProgressBounded == WellFormed => TaskBounded
<1> SUFFICES ASSUME WellFormed, NEW t \in Tasks
             PROVE  TaskProgress(t) \in 0..(2 * LastStage + 3)
  BY DEF TaskBounded
<1>1. pc[t] \in {"idle", "spawned", "extract", "schema", "stage", "archive", "done"}
  BY DEF WellFormed, TypeOK
<1>2. LastStage \in Nat /\ LastStage >= 2
  BY ConstantsAssumption
<1>3. pc[t] \in {"schema", "stage"} => at[t] \in 1..LastStage
  BY DEF WellFormed, TaskShape, Stages
<1> QED
  BY <1>1, <1>2, <1>3 DEF TaskProgress

\* A task at work moves to a later stage or to its end.
LEMMA TaskStepAdvances ==
    ASSUME WellFormed, NEW t \in Tasks, TaskStep(t)
    PROVE  TaskProgress(t)' > TaskProgress(t)
<1>1. /\ pc \in [Tasks -> {"idle", "spawned", "extract", "schema", "stage", "archive", "done"}]
      /\ at \in [Tasks -> {0} \cup Stages]
      /\ pc[t] \in {"schema", "stage"} => at[t] \in 1..LastStage
      /\ pc[t] = "schema" => at[t] = 2
      /\ LastStage \in Nat /\ LastStage >= 2
  BY ConstantsAssumption DEF WellFormed, TypeOK, TaskShape, Stages, NORMALIZE
<1>2. CASE pc'[t] = "done" /\ pc[t] \in {"spawned", "extract", "schema", "stage", "archive"}
  BY <1>1, <1>2 DEF TaskProgress
<1>3. CASE pc'[t] = "archive" /\ pc[t] \in {"spawned", "stage"}
  BY <1>1, <1>3 DEF TaskProgress
<1>4. CASE pc[t] = "spawned" /\ pc'[t] = "extract"
  BY <1>4 DEF TaskProgress
<1>5. CASE pc[t] = "schema" /\ pc'[t] = "stage" /\ at'[t] = at[t]
  BY <1>1, <1>5 DEF TaskProgress
<1>6. ASSUME NEW k \in Stages, Enter(t, k),
             pc[t] = "spawned" \/ (pc[t] = "stage" /\ k > at[t])
      PROVE  TaskProgress(t)' > TaskProgress(t)
  <2>1. /\ k \in 1..LastStage /\ at'[t] = k
        /\ \/ pc'[t] = "schema" /\ k = 2
           \/ pc'[t] = "stage"
    BY <1>1, <1>6 DEF Enter, Stages, NORMALIZE
  <2>2. CASE pc[t] = "spawned"
    BY <1>1, <2>1, <2>2 DEF TaskProgress
  <2>3. CASE pc[t] = "stage" /\ k > at[t]
    BY <1>1, <2>1, <2>3 DEF TaskProgress
  <2> QED
    BY <1>6, <2>2, <2>3
<1>7. CASE SkipCancelled(t) \/ DropExtraction(t) \/ FailTask(t) \/ EndArchive(t)
  BY <1>1, <1>2, <1>7 DEF SkipCancelled, DropExtraction, FailTask, EndArchive, Settle, Return
<1>8. CASE StopAtBoundary(t)
  BY <1>1, <1>2, <1>8 DEF StopAtBoundary, RecordStage, Settle, Return
<1>9. ASSUME NEW drafts, StoreExtraction(t, drafts)
      PROVE  TaskProgress(t)' > TaskProgress(t)
  BY <1>1, <1>2, <1>9 DEF StoreExtraction, Settle, Return
<1>10. CASE BeginExtraction(t)
  BY <1>1, <1>4, <1>10 DEF BeginExtraction
<1>11. CASE BeginPipeline(t)
  BY <1>6, <1>11 DEF BeginPipeline
<1>12. CASE RepublishReport(t)
  BY <1>1, <1>3, <1>12 DEF RepublishReport, Publish
<1>13. CASE StoreSchema(t)
  BY <1>1, <1>5, <1>13 DEF StoreSchema
<1>14. CASE AdvanceStage(t)
  BY <1>6, <1>14 DEF AdvanceStage, RecordStage, NextStage
<1>15. CASE FinishPipeline(t)
  BY <1>1, <1>3, <1>15 DEF FinishPipeline, RecordStage, Publish
<1> QED
  BY <1>7, <1>8, <1>9, <1>10, <1>11, <1>12, <1>13, <1>14, <1>15 DEF TaskStep

\* Everybody else leaves a task where it is, or creates it.
LEMMA OthersLeaveTask ==
    ASSUME WellFormed, [Next]_vars, NEW t \in Tasks, ~TaskStep(t)
    PROVE  \/ TaskProgress(t)' = TaskProgress(t)
           \/ pc[t] = "idle" /\ pc'[t] = "spawned"
<1>1. /\ pc \in [Tasks -> {"idle", "spawned", "extract", "schema", "stage", "archive", "done"}]
      /\ at \in [Tasks -> {0} \cup Stages]
  BY DEF WellFormed, TypeOK
<1>2. CASE pc'[t] = pc[t] /\ at'[t] = at[t]
  BY <1>2 DEF TaskProgress
<1>3. ASSUME NEW u \in Tasks, TaskStep(u)
      PROVE  pc'[t] = pc[t] /\ at'[t] = at[t]
  <2>1. u # t
    BY <1>3
  <2>2. CASE SkipCancelled(u) \/ DropExtraction(u) \/ FailTask(u) \/ EndArchive(u)
    BY <1>1, <2>1, <2>2 DEF SkipCancelled, DropExtraction, FailTask, EndArchive, Settle, Return
  <2>3. CASE BeginExtraction(u) \/ StoreSchema(u) \/ RepublishReport(u) \/ FinishPipeline(u)
    BY <1>1, <2>1, <2>3 DEF BeginExtraction, StoreSchema, RepublishReport, FinishPipeline, Publish
  <2>4. CASE BeginPipeline(u) \/ AdvanceStage(u)
    BY <1>1, <2>1, <2>4 DEF BeginPipeline, AdvanceStage, Enter
  <2>5. ASSUME NEW drafts, StoreExtraction(u, drafts) PROVE pc'[t] = pc[t] /\ at'[t] = at[t]
    BY <1>1, <2>1, <2>5 DEF StoreExtraction, Settle, Return
  <2>6. CASE StopAtBoundary(u)
    BY <1>1, <2>1, <2>6 DEF StopAtBoundary, Settle, Return
  <2> QED
    BY <1>3, <2>2, <2>3, <2>4, <2>5, <2>6 DEF TaskStep
<1>4. ASSUME NEW j \in Jobs, NEW u \in Tasks, Launch(j, u)
      PROVE  (pc'[t] = pc[t] /\ at'[t] = at[t]) \/ (pc[t] = "idle" /\ pc'[t] = "spawned")
  BY <1>1, <1>4 DEF Launch
<1>5. CASE HandlerResumes
  <2>1. CASE \E j \in Jobs, u \in Tasks : StartExtraction(j, u)
    BY <1>2, <1>4, <2>1 DEF StartExtraction, StartJob
  <2>2. CASE UNCHANGED taskVars
    BY <1>2, <2>2 DEF taskVars
  <2> QED
    BY <1>5, <2>1, <2>2 DEF HandlerResumes, QuestionsReady, DeriveIntents, EndSubmit
<1>6. CASE Request
  <2>1. CASE \E j \in Jobs, u \in Tasks : StartAnalysis(j, u) \/ RetryJob(j, u)
    BY <1>2, <1>4, <2>1 DEF StartAnalysis, StartJob, RetryJob
  <2>2. CASE UNCHANGED taskVars
    BY <1>2, <2>2 DEF taskVars
  <2> QED
    BY <1>6, <2>1, <2>2
       DEF Request, BeginUpload, StorePlan, BeginInterview, CompleteInterview, BeginSubmit,
           AppendArtifact, CancelJob
<1>7. CASE UNCHANGED vars
  BY <1>2, <1>7 DEF vars, taskVars
<1> QED
  BY <1>2, <1>3, <1>5, <1>6, <1>7 DEF Next

-----------------------------------------------------------------------------
(***************************************************************************)
(* The inductive invariant and the theorems.  The parts cite one another:  *)
(* stages need the shape of the tasks, verdicts need the stages, the       *)
(* active job needs the pending ones.                                      *)
(***************************************************************************)

IInv ==
    /\ WellFormed
    /\ StageInv
    /\ ReportInv
    /\ PendingJobIsDriven
    /\ AnalyzingIsDriven
    /\ AnalysisAfterInterview
    /\ ActiveInv
    /\ PlanIntentsCurrent

LEMMA IInvInit == Init => IInv
<1>1. Init => PlanIntentsCurrent
  BY DEF Init, PlanIntentsCurrent
<1> QED
  BY <1>1, WellFormedInit, StageInit, ReportInit, DrivenInit, ActiveInit DEF IInv

LEMMA IInvStep == IInv /\ [Next]_vars => IInv'
BY WellFormedStep, StageStep, ReportStep, PendingStep, AnalyzingStep, ActiveStep, PlanIntentsStep
   DEF IInv

\* Every reachable state satisfies the inductive invariant.
THEOREM Invariance == Spec => []IInv
BY IInvInit, IInvStep, PTL DEF Spec

\* Type correctness: whatever jobs and tasks there are, the records, the list of artifacts
\* (within its limit) and the tasks' locals keep their types.
THEOREM TypeCorrect == Spec => []TypeOK
<1>1. IInv => TypeOK
  BY DEF IInv, WellFormed
<1> QED
  BY <1>1, Invariance, PTL

\* Stages are completed in order and read what they need, with any number of stages and of
\* tasks on one job.
THEOREM StagesStayInOrder == Spec => []StagesInOrder
<1>1. IInv => StagesInOrder
  BY DEF IInv, StageInv
<1> QED
  BY <1>1, Invariance, PTL

\* No success without all the stages, no REPORT_READY without a report.
THEOREM NoVerdictAhead == Spec => []ReportBehindVerdict
<1>1. IInv => ReportBehindVerdict
  BY DEF IInv, ReportInv
<1> QED
  BY <1>1, Invariance, PTL

\* No queued or running job is without a task that will decide it.
THEOREM NoJobAbandoned == Spec => []PendingJobIsDriven
<1>1. IInv => PendingJobIsDriven
  BY DEF IInv
<1> QED
  BY <1>1, Invariance, PTL

\* No session is left in ANALYZING.
THEOREM NoSessionStuck == Spec => []AnalyzingIsDriven
<1>1. IInv => AnalyzingIsDriven
  BY DEF IInv
<1> QED
  BY <1>1, Invariance, PTL

\* No session that analyses is taken back behind its interview.
THEOREM InterviewBehindAnalysis == Spec => []AnalysisAfterInterview
<1>1. IInv => AnalysisAfterInterview
  BY DEF IInv
<1> QED
  BY <1>1, Invariance, PTL

\* The job a client is told to poll has a live task.
THEOREM ActiveJobAlive == Spec => []ActiveJobIsDriven
<1>1. IInv => ActiveJobIsDriven
  BY DEF IInv, ActiveInv
<1> QED
  BY <1>1, Invariance, PTL

\* Intents extracted from a plan are those of the session's plan.
THEOREM NoOldPlansIntents == Spec => []PlanIntentsCurrent
<1>1. IInv => PlanIntentsCurrent
  BY DEF IInv
<1> QED
  BY <1>1, Invariance, PTL

\* No step loses an intent that an answer supports.
THEOREM NoSourcedIntentLost == Spec => SourcedIntentsKept
BY SourcedIntentsStep, PTL DEF Spec, SourcedIntentsKept

\* The handlers and tasks of a session implement its lifecycle.
THEOREM LifecycleImplemented == Spec => LifecycleKept
<1>1. IInv /\ [Next]_vars => [Lifecycle!Next]_(Lifecycle!vars)
  BY LifecycleStep DEF IInv
<1> QED
  BY <1>1, LifecycleInit, Invariance, PTL DEF Spec, LifecycleKept, Lifecycle!Spec

\* Every task comes nearer its end with each of its steps, is sent back by nobody, and has
\* taken 2 * LastStage + 3 steps at most when it returns: what the liveness properties leave
\* to fairness is only that a task with a step to take takes it.
THEOREM EveryTaskIsFinite == Spec => []TaskBounded /\ TasksAdvance
<1>1. IInv => TaskBounded
  BY ProgressBounded DEF IInv
<1>2. IInv /\ [Next]_vars =>
         \A t \in Tasks :
             IF TaskStep(t)
             THEN TaskProgress(t)' > TaskProgress(t)
             ELSE \/ TaskProgress(t)' = TaskProgress(t)
                  \/ pc[t] = "idle" /\ pc'[t] = "spawned"
  BY TaskStepAdvances, OthersLeaveTask DEF IInv
<1> QED
  BY <1>1, <1>2, Invariance, PTL DEF Spec, TasksAdvance

=============================================================================
