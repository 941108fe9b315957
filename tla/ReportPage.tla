----------------------------- MODULE ReportPage -----------------------------
(***************************************************************************)
(* The report page (pages/ReportPage.tsx) over the report store: three     *)
(* calls load its panels together and settle together; the report's error  *)
(* takes the whole page, the other two are tried again on their own.       *)
(***************************************************************************)
VARIABLE rep

Panels == {"report", "charts", "artifacts"}
PanelState == {"idle", "loading", "ready", "error"}
\* signal: leaving the page aborts the loading its effect began, no other.
Loadings == [kind : {"all", "charts", "artifacts"}, mine : BOOLEAN,
             signal : {"none", "live", "aborted"}]
ReportTypeOK ==
    rep \in [onPage : BOOLEAN, session : BOOLEAN, panels : [Panels -> PanelState],
             held : SUBSET Panels, loadings : SUBSET Loadings]

Loading(r, kind, signal) ==
    [r EXCEPT !.loadings = @ \cup {[kind |-> kind, mine |-> TRUE, signal |-> signal]},
              !.panels = [p \in Panels |-> IF kind \in {"all", p} THEN "loading" ELSE @[p]]]
loadAll(r, signal) == Loading(r, "all", signal)
\* The page just mounted; the store may hold a report (held), of a session gone too.
Mount(r) == loadAll([r EXCEPT !.onPage = TRUE], "live")
ReportInit ==
    rep = Mount([onPage |-> FALSE, session |-> TRUE, panels |-> [p \in Panels |-> "idle"],
                 held |-> {}, loadings |-> {}])

UnmountReport(r) ==
    [r EXCEPT !.onPage = FALSE, !.panels = [p \in Panels |-> "idle"],
              !.loadings = {[l EXCEPT !.mine = FALSE,
                                      !.signal = IF @ = "none" THEN @ ELSE "aborted"] : l \in @}]

-----------------------------------------------------------------------------
EnterReport == ~rep.onPage /\ rep.session /\ rep' = Mount(rep)
LeaveReport == rep.onPage /\ rep' = UnmountReport(rep)

\* "다시 불러오기" in place of the page, and "재시도" in a panel of the page.
retryReport ==
    /\ rep.onPage /\ rep.panels["report"] = "error"
    /\ rep' = loadAll(rep, "none")
retryPanel(p) ==
    /\ rep.onPage /\ p # "report" /\ rep.panels[p] = "error"
    /\ rep.panels["report"] # "error" /\ "report" \in rep.held
    /\ rep' = Loading(rep, p, "none")

\* What became of a panel's call: data, an error, or the abort.
Results(l) ==
    IF l.signal = "aborted" THEN {"ready", "aborted"}
    ELSE IF rep.session THEN {"ready", "error"} ELSE {"error"}
\* Mutant: a panel hears only of its data, not of the failure.
ShowDataOnly(r, l, result) ==
    [r EXCEPT !.held = @ \cup {p \in DOMAIN result : result[p] = "ready"},
              !.panels = [p \in Panels |->
                 IF l.mine /\ p \in DOMAIN result /\ result[p] = "ready" THEN "ready" ELSE @[p]]]
\* The data go to the store in any case, the panel's state to the page that asked.
Show(r, l, result) ==
    [r EXCEPT !.held = @ \cup {p \in DOMAIN result : result[p] = "ready"},
              !.panels = [p \in Panels |->
                 IF l.mine /\ p \in DOMAIN result /\ result[p] # "aborted" THEN result[p] ELSE @[p]]]

\* allSettled: only the report's answer is asked whether the session is gone.
Settled(l) ==
    /\ l \in rep.loadings
    /\ \E result \in [IF l.kind = "all" THEN Panels ELSE {l.kind} -> Results(l)] :
         LET shown == Show([rep EXCEPT !.loadings = @ \ {l}], l, result) IN
         \/ rep' = shown
         \/ /\ l.kind = "all" /\ result["report"] = "error"
            /\ rep' = [UnmountReport(shown) EXCEPT !.session = FALSE]

ReportProgress == \E l \in rep.loadings : Settled(l)
ReportNext ==
    \/ EnterReport \/ LeaveReport \/ retryReport
    \/ (\E p \in Panels : retryPanel(p)) \/ ReportProgress
ReportSpec == ReportInit /\ [][ReportNext]_rep
=============================================================================
