---------------------------- MODULE SessionStore ----------------------------
(***************************************************************************)
(* The browser's session store (stores/sessionStore.ts) as operators on    *)
(* its value: which session it holds (0: none), the token that goes with   *)
(* its requests (named by the session it was given for), what the server   *)
(* last said of the session, what the pages show, and the active job.      *)
(***************************************************************************)
EXTENDS Naturals

ServerStatuses == {"CREATED", "INTERVIEWING", "INTERVIEW_DONE", "ANALYZING",
                   "REPORT_READY", "FAILED", "EXPIRED"}
AppStatuses == {"INITIAL", "INTERVIEWING", "SUBMITTING", "ANALYZING",
                "COMPLETED", "FAILED", "EXPIRED"}
Routes == {"home", "interview", "artifacts", "analysis", "report", "expired"}

mapServerStatus(status) ==
    CASE status = "CREATED" -> "INITIAL"
      [] status = "INTERVIEW_DONE" -> "SUBMITTING"
      [] status = "REPORT_READY" -> "COMPLETED"
      [] OTHER -> status

routeForAppStatus(appStatus, activeJobId) ==
    CASE appStatus \in {"INITIAL", "FAILED"} -> "home"
      [] appStatus = "INTERVIEWING" -> "interview"
      [] appStatus = "SUBMITTING" -> "artifacts"
      [] appStatus = "ANALYZING" -> IF activeJobId THEN "analysis" ELSE "artifacts"
      [] appStatus = "COMPLETED" -> "report"
      [] appStatus = "EXPIRED" -> "expired"

Store(Ids) == [sessionId: Ids, token: Ids, appStatus: AppStatuses,
               serverStatus: ServerStatuses \cup {"none"}, activeJobId: BOOLEAN]

\* The store after a start of the page: what localStorage kept.
FreshStore(kept) ==
    [sessionId |-> kept, token |-> kept, appStatus |-> "INITIAL",
     serverStatus |-> "none", activeJobId |-> FALSE]

setFromServer(store, id, status, job) ==
    [store EXCEPT !.sessionId = id, !.serverStatus = status,
                  !.appStatus = mapServerStatus(status), !.activeJobId = job]
setCreated(store, id) ==
    [setFromServer(store, id, "CREATED", FALSE) EXCEPT !.token = id]

clearSession(reason) ==
    [FreshStore(0) EXCEPT !.appStatus = IF reason = "expired" THEN "EXPIRED" ELSE "INITIAL"]
=============================================================================
