---------------------------- MODULE AnalysisPage ----------------------------
(***************************************************************************)
(* The page that waits for a job (pages/AnalysisPage.tsx): it polls, reads *)
(* the session when the job has succeeded, cancels, and retries a failed   *)
(* job; each may fail and be tried again.  The poller is "on" or "off"     *)
(* here, its inside is JobPoller.  The server changes a job and the status *)
(* of its session together; a call that is lost was executed before the    *)
(* client gives it up, or never.                                           *)
(***************************************************************************)
VARIABLE watch
\* shown: the job the page shows.  job: the server's.  asks: calls on their way;
\* "done" and the reroutes are readings of the session.  overtaken: no state of the
\* program, but that a retry of an earlier visit reached the server between the
\* refusal of this visit's cancellation and the reading of the session.

JobStatuses == {"RUNNING", "SUCCEEDED", "FAILED", "CANCELLED"}
WatchAsks == [kind : {"cancel", "retry", "done", "cancelReroute", "retryReroute"}, mine : BOOLEAN]
WatchStates ==
    [onPage : BOOLEAN, session : BOOLEAN, shown : JobStatuses \cup {"none"},
     job : JobStatuses, poller : {"on", "off"}, pollError : BOOLEAN,
     cancelOpen : BOOLEAN, cancelling : BOOLEAN, retrying : BOOLEAN, overtaken : BOOLEAN,
     asks : SUBSET WatchAsks]
WatchTypeOK == watch \in WatchStates

\* The page just mounted: the effect has started a poller.
Watching(w) ==
    [w EXCEPT !.onPage = TRUE, !.shown = "none", !.poller = "on", !.pollError = FALSE,
              !.cancelOpen = FALSE, !.cancelling = FALSE, !.retrying = FALSE,
              !.overtaken = FALSE]
WatchInit ==
    watch = [onPage |-> TRUE, session |-> TRUE, shown |-> "none", job |-> "RUNNING",
             poller |-> "on", pollError |-> FALSE, cancelOpen |-> FALSE,
             cancelling |-> FALSE, retrying |-> FALSE, overtaken |-> FALSE, asks |-> {}]

\* The page is left; its calls go on, and may still move the visitor.
Unwatched(w) ==
    [Watching(w) EXCEPT !.onPage = FALSE, !.poller = "off",
                        !.asks = {[c EXCEPT !.mine = FALSE] : c \in @}]
WatchGone(w) == [Unwatched(w) EXCEPT !.session = FALSE]
WatchAsk(w, kind) == [w EXCEPT !.asks = @ \cup {[kind |-> kind, mine |-> TRUE]}]

-----------------------------------------------------------------------------
EnterWatch == ~watch.onPage /\ watch.session /\ watch' = Watching(watch)
LeaveWatch == watch.onPage /\ watch' = Unwatched(watch)

\* The worker: a job ends, and a failed one runs again only by a retry.
JobFinishes ==
    /\ watch.job = "RUNNING"
    /\ \E s \in {"SUCCEEDED", "FAILED"} : watch' = [watch EXCEPT !.job = s]

\* onUpdate, and onTerminal with it.
PollShows ==
    LET w == [watch EXCEPT !.shown = watch.job, !.pollError = FALSE]
        off == [w EXCEPT !.poller = "off"]
    IN  /\ watch.poller = "on" /\ watch.session
        /\ \/ watch.job = "RUNNING" /\ watch' = w
           \/ watch.job = "SUCCEEDED" /\ watch' = WatchAsk(off, "done")
           \/ watch.job = "FAILED" /\ watch' = off
           \/ watch.job = "CANCELLED" /\ watch' = Unwatched(off)
\* onError, after the poller has stopped itself.
PollEnds ==
    /\ watch.poller = "on"
    /\ watch' \in {[watch EXCEPT !.poller = "off", !.pollError = TRUE], WatchGone(watch)}
\* "다시 시도" beside the error.
Repoll ==
    /\ watch.onPage /\ watch.pollError
    /\ watch' = [watch EXCEPT !.pollError = FALSE, !.poller = "on", !.overtaken = FALSE]

OpenCancel ==
    /\ watch.onPage /\ watch.shown = "RUNNING" /\ ~watch.cancelling /\ ~watch.cancelOpen
    /\ watch' = [watch EXCEPT !.cancelOpen = TRUE]
CloseCancel == watch.cancelOpen /\ watch' = [watch EXCEPT !.cancelOpen = FALSE]
onCancel ==
    /\ watch.cancelOpen /\ ~watch.cancelling
    /\ watch' = WatchAsk([watch EXCEPT !.cancelling = TRUE, !.poller = "off", !.overtaken = FALSE],
                         "cancel")
onRetryJob ==
    /\ watch.onPage /\ watch.shown = "FAILED" /\ ~watch.retrying
    /\ watch' = WatchAsk([watch EXCEPT !.retrying = TRUE, !.pollError = FALSE], "retry")

\* The flags are lowered at the end of the whole handler, its reroute included.
Lowered(c) ==
    LET w == [watch EXCEPT !.asks = @ \ {c}] IN
    IF ~c.mine \/ c.kind = "done" THEN w
    ELSE IF c.kind \in {"retry", "retryReroute"} THEN [w EXCEPT !.retrying = FALSE]
    ELSE [w EXCEPT !.cancelling = FALSE, !.cancelOpen = FALSE]
Rerouted(c, kind) == [watch EXCEPT !.asks = (@ \ {c}) \cup {[c EXCEPT !.kind = kind]}]

\* Any call may end by the news that the session is gone.
AskGone(c) == c \in watch.asks /\ watch' = WatchGone(Lowered(c))

CancelEnds(c) ==
    LET w == Lowered(c)
        cancelled == [w EXCEPT !.job = "CANCELLED"]
        tryAgain(x) == IF c.mine THEN [x EXCEPT !.pollError = TRUE, !.poller = "on"] ELSE x
    IN  /\ c \in watch.asks /\ c.kind = "cancel"
        /\ \/ /\ watch.session /\ watch.job \in {"RUNNING", "CANCELLED"}
              /\ watch' \in {Unwatched(cancelled), tryAgain(cancelled)}     \* or the answer is lost
           \/ watch.session /\ watch.job \in {"SUCCEEDED", "FAILED"} /\ watch' = Rerouted(c, "cancelReroute")
           \/ watch' = tryAgain(w)

\* The visit's cancellation was refused because the job had ended, and the session it
\* reads now is one whose job runs again.
Overtakes(c) ==
    watch.overtaken \/ (~c.mine /\ [kind |-> "cancelReroute", mine |-> TRUE] \in watch.asks)

\* Mutant: after a retry the poller of the job that had failed is not replaced.
RetryEndsUnpolled(c) ==
    LET w == Lowered(c)
        again == [w EXCEPT !.job = "RUNNING", !.overtaken = Overtakes(c)]
        showError(x) == [x EXCEPT !.pollError = @ \/ c.mine]
    IN  /\ c \in watch.asks /\ c.kind = "retry"
        /\ \/ /\ watch.session /\ watch.job \in {"FAILED", "CANCELLED"}
              /\ watch' \in {IF c.mine THEN [again EXCEPT !.shown = "RUNNING"] ELSE again,
                             showError(again)}
           \/ watch.session /\ watch.job \in {"RUNNING", "SUCCEEDED"} /\ watch' = Rerouted(c, "retryReroute")
           \/ watch' = showError(w)

RetryEnds(c) ==
    LET w == Lowered(c)
        again == [w EXCEPT !.job = "RUNNING", !.overtaken = Overtakes(c)]
        showError(x) == [x EXCEPT !.pollError = @ \/ c.mine]
    IN  /\ c \in watch.asks /\ c.kind = "retry"
        /\ \/ /\ watch.session /\ watch.job \in {"FAILED", "CANCELLED"}
              /\ watch' \in {IF c.mine THEN [again EXCEPT !.shown = "RUNNING", !.poller = "on"] ELSE again,
                             showError(again)}                             \* the answer is lost
           \/ watch.session /\ watch.job \in {"RUNNING", "SUCCEEDED"} /\ watch' = Rerouted(c, "retryReroute")
           \/ watch' = showError(w)

\* The session has been read: after a success, on to the report; after a refusal,
\* to the page of its status, which for a job at work is this page again.
SessionRead(c) ==
    LET w == Lowered(c) IN
    /\ c \in watch.asks /\ c.kind \in {"done", "cancelReroute", "retryReroute"}
    /\ \/ watch.session /\ watch' = Unwatched(w)
       \/ /\ watch.session /\ watch.job = "RUNNING" /\ c.kind # "done"
          /\ watch' = IF w.onPage THEN w ELSE Watching(w)
       \/ watch' = [w EXCEPT !.pollError = @ \/ c.mine]

WatchProgress ==
    \/ PollShows \/ PollEnds
    \/ \E c \in watch.asks : CancelEnds(c) \/ RetryEnds(c) \/ SessionRead(c) \/ AskGone(c)
WatchNext ==
    \/ EnterWatch \/ LeaveWatch \/ JobFinishes \/ Repoll
    \/ OpenCancel \/ CloseCancel \/ onCancel \/ onRetryJob
    \/ WatchProgress
WatchSpec == WatchInit /\ [][WatchNext]_watch

-----------------------------------------------------------------------------
\* The page never shows a job that is not finished, or no job at all, without
\* anybody watching it: a poller, or a cancellation, a retry or the reading of
\* the session that is still to end, or else an error with its retry button.
\* Refused cancellations, lost answers, a page left and entered again and the
\* cancellation of a job that has just ended lead to no silent wait.  One order of
\* events does, and is left out: the poller is stopped, the cancellation refused,
\* and the job made to run again by a retry of an earlier visit, so that the reading
\* of the session leads to this page, which is there and starts no poller.
AnalysisWatched ==
    watch.onPage /\ watch.shown \in {"none", "RUNNING"} /\ ~watch.overtaken =>
        \/ watch.poller = "on" \/ watch.pollError
        \/ watch.cancelling \/ watch.retrying
        \/ \E c \in watch.asks : c.mine /\ c.kind = "done"
=============================================================================
