---------------------------- MODULE ClientRouting ----------------------------
(***************************************************************************)
(* Where the browser stands: the route shown, the session store, and the   *)
(* calls whose continuation moves either of them, however late it comes.   *)
(* A worker, another tab and the clock move the session at the server      *)
(* meanwhile, so an answer may carry any status.  Session 1 stands for     *)
(* whichever session the store holds, 0 for none.                          *)
(***************************************************************************)
EXTENDS SessionStore, FiniteSets

CONSTANT MaxAsks     \* bound: calls on their way at once, besides the boot
ASSUME RoutingBound == MaxAsks \in Nat

VARIABLE browser
\* bootPath: the location useBootstrap closed over; asks: see AskedOn.

\* The pages a call is made from.
AskedOn ==
    [boot |-> Routes \ {"expired"}, start |-> {"home"}, upload |-> {"home"},
     extracted |-> {"home"}, tree |-> {"interview"}, answer |-> {"interview"},
     complete |-> {"interview"}, sync |-> {}, begin |-> {"artifacts"},
     done |-> {"analysis"}, cancel |-> {"analysis"}, retry |-> {"analysis"},
     reroute |-> {}, leave |-> Routes \ {"home"}, delete |-> Routes]
Kinds == DOMAIN AskedOn

RoutingTypeOK ==
    /\ browser \in [store : Store({0, 1}), page : Routes, bootstrapped : BOOLEAN,
                    bootPath : Routes, asks : SUBSET Kinds]
    /\ Cardinality(browser.asks \ {"boot"}) <= MaxAsks

\* A start of the page at some address: what localStorage kept is the token.
Started(token, page) ==
    [store |-> FreshStore(token), page |-> page, bootstrapped |-> FALSE,
     bootPath |-> "home", asks |-> {}]
RoutingInit == browser = Started(0, "home")

\* Mutant: the report is kept to what the client has noted, not the server.
redirectByAppStatus(store, page) ==
    LET route == routeForAppStatus(store.appStatus, store.activeJobId) IN
    IF store.sessionId = 0
    THEN IF page \in {"interview", "artifacts", "analysis", "report"} THEN "home" ELSE page
    ELSE CASE page = "interview" /\ store.serverStatus \notin {"none", "INTERVIEWING"} -> route
           [] page = "artifacts" /\ store.serverStatus = "ANALYZING" /\ store.activeJobId -> "analysis"
           [] page = "artifacts" /\ store.serverStatus = "REPORT_READY" -> "report"
           [] page = "artifacts" /\ store.serverStatus \in {"CREATED", "INTERVIEWING"} -> route
           [] page = "report" /\ store.appStatus # "COMPLETED" -> route
           [] OTHER -> page

\* The effects by which a page sends its visitor on; the page itself: it stays.
redirect(store, page) ==
    LET route == routeForAppStatus(store.appStatus, store.activeJobId) IN
    IF store.sessionId = 0
    THEN IF page \in {"interview", "artifacts", "analysis", "report"} THEN "home" ELSE page
    ELSE CASE page = "interview" /\ store.serverStatus \notin {"none", "INTERVIEWING"} -> route
           [] page = "artifacts" /\ store.serverStatus = "ANALYZING" /\ store.activeJobId -> "analysis"
           [] page = "artifacts" /\ store.serverStatus = "REPORT_READY" -> "report"
           [] page = "artifacts" /\ store.serverStatus \in {"CREATED", "INTERVIEWING"} -> route
           [] page = "report" /\ store.serverStatus \notin {"none", "REPORT_READY"} -> route
           [] OTHER -> page

\* BootGate: a page is rendered, and its effects run, once bootstrapped.
Rendered == browser.bootstrapped \/ browser.page = "expired"

-----------------------------------------------------------------------------
Boot ==
    /\ ~Rendered /\ "boot" \notin browser.asks
    /\ browser' = IF browser.store.token = 0
                  THEN [browser EXCEPT !.bootstrapped = TRUE]
                  ELSE [browser EXCEPT !.asks = @ \cup {"boot"}, !.bootPath = browser.page]

RunRedirect ==
    /\ Rendered
    /\ browser' = [browser EXCEPT !.page = redirect(browser.store, @)]
    /\ browser' # browser

\* Back, forward and the home button; the address bar and F5 start afresh.
Visit == \E p \in Routes \ {browser.page} : browser' = [browser EXCEPT !.page = p]
Reload == \E p \in Routes : browser' = Started(browser.store.token, p)

\* "이어하기", offered for a session that is past CREATED.
Resume ==
    /\ Rendered /\ browser.page = "home" /\ browser.store.token # 0
    /\ browser.store.serverStatus \notin {"none", "CREATED"}
    /\ browser' = [browser EXCEPT !.page =
                      routeForAppStatus(browser.store.appStatus, browser.store.activeJobId)]

\* A session is created on the home page when there is none.
CreateSession ==
    /\ Rendered /\ browser.page = "home" /\ browser.store.token = 0
    /\ browser' = [browser EXCEPT !.store = setCreated(@, 1)]

\* The buttons that give the session up: on the expired page, and beside the
\* errors of the analysis and of the report.
StartOver ==
    /\ Rendered /\ browser.page \in {"expired", "analysis", "report"}
    /\ browser' = [browser EXCEPT !.store = clearSession("new-session"), !.page = "home"]

\* The poller of the analysis page reports a cancelled job.
JobCancelled ==
    /\ Rendered /\ browser.page = "analysis"
    /\ browser' = [browser EXCEPT !.store.activeJobId = FALSE, !.page = "artifacts"]

Ask(kind) ==
    /\ kind # "boot" /\ browser.page \in AskedOn[kind]
    /\ Rendered \/ kind \in {"leave", "delete"}
    /\ browser.store.sessionId # 0
    /\ Cardinality(browser.asks \ {"boot"}) < MaxAsks /\ kind \notin browser.asks
    /\ browser' = [browser EXCEPT !.asks = @ \cup {kind}]

\* useBootstrap: the finally lets the page show, whatever the answer.
Awaited(kind, b) ==
    IF kind = "boot" THEN [b EXCEPT !.asks = @ \ {kind}, !.bootstrapped = TRUE, !.bootPath = "home"]
    ELSE [b EXCEPT !.asks = @ \ {kind}]

\* A call that ends with the session: setFromServer, and on to a page.
Follow(kind) ==
    /\ kind \in browser.asks \cap {"boot", "start", "extracted", "sync", "done", "reroute"}
    /\ \E status \in ServerStatuses, job \in BOOLEAN :
         LET store == setFromServer(browser.store, 1, status, job)
             route == routeForAppStatus(store.appStatus, job)
             next == CASE kind = "boot" -> {IF browser.bootPath \in {"home", route}
                                            THEN browser.page ELSE route}
                       [] kind = "start" -> {"interview"}
                       [] kind \in {"extracted", "sync"} -> {"artifacts"}
                       [] kind = "done" -> {"report", "artifacts"}
                       [] kind = "reroute" -> {route}
         IN \E p \in next :
               browser' = [Awaited(kind, browser) EXCEPT !.store = store, !.page = p]

\* A call that ends without the session's status.
Confirmed(kind) ==
    LET b == Awaited(kind, browser) IN
    /\ kind \in browser.asks
    /\ \/ kind = "upload" /\ browser' = [b EXCEPT !.store.activeJobId = TRUE]
       \/ kind = "tree" /\ browser' = [b EXCEPT !.store.appStatus = "INTERVIEWING"]
       \/ /\ kind \in {"answer", "complete"}                       \* finishToArtifacts
          /\ browser' = [b EXCEPT !.store.appStatus = "SUBMITTING", !.asks = @ \cup {"sync"}]
       \/ /\ kind = "begin"
          /\ browser' = [b EXCEPT !.store.activeJobId = TRUE,
                                  !.store.appStatus = "ANALYZING", !.page = "analysis"]
       \/ /\ kind = "cancel"
          /\ browser' = [b EXCEPT !.store.activeJobId = FALSE, !.page = "artifacts"]
       \/ kind = "retry" /\ browser' = [b EXCEPT !.store.activeJobId = TRUE]
       \/ kind = "leave" /\ browser' = [b EXCEPT !.page = "home"]
       \/ /\ kind = "delete"
          /\ browser' = [b EXCEPT !.store = clearSession("deleted"), !.page = "home"]

\* A call that fails otherwise than for want of the session.
Refused(kind) ==
    LET b == Awaited(kind, browser) IN
    /\ kind \in browser.asks
    /\ browser' \in
         CASE kind = "sync" -> {[b EXCEPT !.page = "artifacts"]}
           [] kind = "leave" -> {[b EXCEPT !.page = "home"]}
           [] kind \in {"cancel", "retry"} -> {b, [b EXCEPT !.asks = @ \cup {"reroute"}]}
           [] OTHER -> {b}

\* A call told that the session is gone; the others show the error or ignore it.
Gone(kind) ==
    /\ kind \in browser.asks \ {"answer", "sync", "leave", "delete"}
    /\ browser' = [Awaited(kind, browser) EXCEPT
                      !.store = clearSession("expired"), !.page = "expired"]

\* The page was left, and its controller aborts the call.
Aborted(kind) ==
    /\ kind \in browser.asks \cap {"tree", "start", "upload"}
    /\ browser.page \notin AskedOn[kind]
    /\ browser' = [browser EXCEPT !.asks = @ \ {kind}]

RoutingNext ==
    \/ Boot \/ RunRedirect \/ Visit \/ Reload \/ Resume \/ CreateSession
    \/ StartOver \/ JobCancelled
    \/ \E kind \in Kinds : \/ Ask(kind) \/ Follow(kind) \/ Confirmed(kind)
                           \/ Refused(kind) \/ Gone(kind) \/ Aborted(kind)
RoutingSpec == RoutingInit /\ [][RoutingNext]_browser

-----------------------------------------------------------------------------
\* Whatever the late answers have made of the store, no visitor is sent round
\* in a circle: from every page at most two redirects lead to a page that stays.
RedirectsEnd ==
    \A p \in Routes :
        LET settled == redirect(browser.store, redirect(browser.store, p))
        IN  redirect(browser.store, settled) = settled
=============================================================================
