----------------------------- MODULE PlanUpload -----------------------------
(***************************************************************************)
(* The plan on the home page (pages/HomePage.tsx): a file is chosen or     *)
(* dropped, uploaded, its extraction polled, and the session read again    *)
(* when it succeeds.  A file may be dropped at any time, also while one is *)
(* uploaded or extracted.  The pollers behave as JobPoller shows.          *)
(***************************************************************************)
EXTENDS Naturals, FiniteSets

CONSTANT MaxPlanJobs     \* bound: uploads ever accepted
ASSUME PlanBound == MaxPlanJobs \in Nat

VARIABLE plan
\* job: the extraction polled last.  strays: jobs polled for a page that was
\* left.  refreshing: successes for which getSession is on its way.

PlanJobs == 1..MaxPlanJobs
JobStates == {"none", "RUNNING", "SUCCEEDED", "FAILED", "CANCELLED"}
PlanStates ==
    [page : {"home", "artifacts", "expired"},
     phase : {"idle", "uploading", "extracting", "failed"},
     error : BOOLEAN, selected : BOOLEAN,
     uploads : SUBSET [live : BOOLEAN, mine : BOOLEAN],
     jobs : [PlanJobs -> JobStates], job : 0..MaxPlanJobs,
     polling : BOOLEAN, strays : SUBSET PlanJobs,
     refreshing : SUBSET [job : PlanJobs, mine : BOOLEAN]]
PlanTypeOK == plan \in PlanStates

PlanInit ==
    plan = [page |-> "home", phase |-> "idle", error |-> FALSE, selected |-> FALSE,
            uploads |-> {}, jobs |-> [j \in PlanJobs |-> "none"], job |-> 0,
            polling |-> FALSE, strays |-> {}, refreshing |-> {}]

\* Leaving the page aborts its upload and stops its poller.
PlanLeave(p, page) ==
    IF p.page = "home"
    THEN [p EXCEPT !.page = page, !.polling = FALSE, !.phase = "idle", !.error = FALSE,
                   !.selected = FALSE, !.job = 0,
                   !.uploads = {[live |-> FALSE, mine |-> FALSE] : u \in @},
                   !.refreshing = {[r EXCEPT !.mine = FALSE] : r \in @}]
    ELSE [p EXCEPT !.page = page]
OnPlanPage == plan.page = "home"

\* Bound: one aborted upload still on its way at a time.
uploadPlanFile(p) ==
    [p EXCEPT !.error = FALSE, !.phase = "uploading", !.polling = FALSE,
              !.uploads = {[u EXCEPT !.live = FALSE] : u \in @}
                          \cup {[live |-> TRUE, mine |-> TRUE]}]
MayUpload == OnPlanPage /\ \A u \in plan.uploads : u.live

-----------------------------------------------------------------------------
\* A file that is valid, one that is refused, and one that is dropped before
\* there is a session.
ChooseFile ==
    \/ MayUpload /\ plan' = uploadPlanFile([plan EXCEPT !.selected = TRUE])
    \/ OnPlanPage /\ plan' = [plan EXCEPT !.error = FALSE, !.selected = FALSE]
    \/ OnPlanPage /\ plan' = [plan EXCEPT !.error = TRUE, !.selected = TRUE]
RetryUpload == MayUpload /\ plan.error /\ plan.selected /\ plan' = uploadPlanFile(plan)
Deselect ==
    /\ OnPlanPage /\ plan.selected /\ plan.phase \notin {"uploading", "extracting"}
    /\ plan' = [plan EXCEPT !.selected = FALSE, !.error = FALSE]

\* Also of an aborted upload whose answer was being read; for a page that was
\* left, a poller starts that nobody stops.
UploadAccepted(u) ==
    \E j \in PlanJobs :
        LET p == [plan EXCEPT !.uploads = @ \ {u}, !.jobs[j] = "RUNNING"] IN
        /\ u \in plan.uploads
        /\ plan.jobs[j] = "none" /\ \A i \in 1..(j - 1) : plan.jobs[i] # "none"
        /\ plan' = IF u.mine THEN [p EXCEPT !.phase = "extracting", !.job = j, !.polling = TRUE]
                   ELSE [p EXCEPT !.strays = @ \cup {j}]

\* The catch sets the phase first; the error is shown unless the call was aborted.
UploadFails(u) ==
    LET p == [plan EXCEPT !.uploads = @ \ {u}]
        failed == IF u.mine THEN [p EXCEPT !.phase = "failed"] ELSE p
    IN  /\ u \in plan.uploads
        /\ \/ ~u.live /\ plan' = failed
           \/ plan' = IF u.mine THEN [failed EXCEPT !.error = TRUE] ELSE p
           \/ plan' = PlanLeave(p, "expired")

JobEnds(j) ==
    /\ plan.jobs[j] = "RUNNING"
    /\ \E s \in {"SUCCEEDED", "FAILED", "CANCELLED"} : plan' = [plan EXCEPT !.jobs[j] = s]

ReadSession(p, j, isMine) ==
    [p EXCEPT !.refreshing = @ \cup {[job |-> j, mine |-> isMine]}]

\* onTerminal: a success reads the session, a cancellation changes nothing.
Terminal ==
    LET p == [plan EXCEPT !.polling = FALSE] IN
    /\ plan.polling
    /\ \/ plan.jobs[plan.job] = "SUCCEEDED" /\ plan' = ReadSession(p, plan.job, TRUE)
       \/ plan.jobs[plan.job] = "FAILED" /\ plan' = [p EXCEPT !.phase = "failed", !.error = TRUE]
       \/ plan.jobs[plan.job] = "CANCELLED" /\ plan' = p
PollFails ==
    /\ plan.polling
    /\ plan' \in {[plan EXCEPT !.polling = FALSE, !.phase = "failed", !.error = TRUE],
                  PlanLeave(plan, "expired")}

StrayEnds(j) ==
    LET p == [plan EXCEPT !.strays = @ \ {j}] IN
    /\ j \in plan.strays
    /\ \/ plan.jobs[j] = "SUCCEEDED" /\ plan' = ReadSession(p, j, FALSE)
       \/ plan.jobs[j] \in {"FAILED", "CANCELLED"} /\ plan' = p
       \/ plan' \in {p, PlanLeave(p, "expired")}

\* Mutant: a failure to read the session is not shown.
RefreshedSilently(r) ==
    LET p == [plan EXCEPT !.refreshing = @ \ {r}] IN
    /\ r \in plan.refreshing
    /\ plan' \in {PlanLeave(p, "artifacts"), PlanLeave(p, "expired"), p}
\* Nothing aborts this call: it takes the visitor along wherever they are.  Its
\* error is shown only to the page that polled.
Refreshed(r) ==
    LET p == [plan EXCEPT !.refreshing = @ \ {r}] IN
    /\ r \in plan.refreshing
    /\ \/ plan' \in {PlanLeave(p, "artifacts"), PlanLeave(p, "expired")}
       \/ plan' = [p EXCEPT !.error = @ \/ r.mine]

PlanGoes == OnPlanPage /\ plan' = PlanLeave(plan, "artifacts")
PlanReturns == ~OnPlanPage /\ plan' = [plan EXCEPT !.page = "home"]

PlanProgress ==
    \/ \E u \in plan.uploads : UploadAccepted(u) \/ UploadFails(u)
    \/ Terminal \/ PollFails
    \/ \E j \in PlanJobs : StrayEnds(j)
    \/ \E r \in plan.refreshing : Refreshed(r)
PlanNext ==
    \/ ChooseFile \/ RetryUpload \/ Deselect \/ PlanGoes \/ PlanReturns
    \/ (\E j \in PlanJobs : JobEnds(j)) \/ PlanProgress
PlanSpec == PlanInit /\ [][PlanNext]_plan

-----------------------------------------------------------------------------
\* While the page says that the plan is being extracted somebody watches: the
\* poller, the reading of the session after a success; or the error, or the
\* refusal of another file, is on the screen.  A second upload, the abort of the
\* first and an answer of the aborted one leave no extraction unwatched, except
\* that of a cancelled job.
UploadWatched ==
    OnPlanPage /\ plan.phase = "extracting" =>
        \/ plan.polling \/ (\E r \in plan.refreshing : r.mine) \/ plan.error \/ ~plan.selected
        \/ plan.jobs[plan.job] = "CANCELLED"
=============================================================================
