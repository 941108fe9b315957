------------------------------ MODULE PageProofs ------------------------------
(***************************************************************************)
(* Proofs about the pages that wait for the server, for any number of      *)
(* uploads, files and calls: neither the analysis nor the extraction of a  *)
(* plan is waited for in silence, the submission page and the report page  *)
(* keep no file, button or panel waiting for a call that is over; and what *)
(* the pages compute, for inputs of any size.                              *)
(***************************************************************************)
EXTENDS AnalysisPage, PlanUpload, ArtifactsPage, ReportPage, ClientUtils,
        FiniteSetTheorems, TLAPS

-----------------------------------------------------------------------------
(* The page that waits for an analysis *)

Mine(kinds) == \E c \in watch.asks : c.mine /\ c.kind \in kinds
CancelKinds == {"cancel", "cancelReroute"}
RetryKinds == {"retry", "retryReroute"}

\* The page needs neither of its handlers to go on, or has been overtaken.
GoesOn ==
    \/ watch.overtaken
    \/ watch.shown \notin {"none", "RUNNING"}
    \/ watch.poller = "on" \/ watch.pollError
    \/ Mine({"done"})

\* Only a page that is there has a poller, a dialog and calls of its own, a cancellation is one call at a
\* time and keeps its button disabled.
CallsOwned ==
    /\ ~watch.onPage => watch.poller = "off" /\ ~watch.cancelOpen /\ \A c \in watch.asks : ~c.mine
    /\ Mine(CancelKinds) => watch.cancelling
    /\ ~(Mine({"cancel"}) /\ Mine({"cancelReroute"}))

\* A cancellation that was refused found the job ended.  When it runs again at the
\* reading of the session, it was this visit's retry that made it run, and the retry
\* has put a poller to it, or an error; or else the visit has been overtaken.
RefusedLooksOn == Mine({"cancelReroute"}) /\ watch.job = "RUNNING" => GoesOn

\* A retry is asked for a job that is shown as failed.
RetryLooksOn == Mine(RetryKinds) => GoesOn \/ watch.cancelling

WInv == WatchTypeOK /\ AnalysisWatched /\ CallsOwned /\ RefusedLooksOn /\ RetryLooksOn

LEMMA WInvInit == WatchInit => WInv
<1> SUFFICES ASSUME WatchInit PROVE WInv
    OBVIOUS
<1>1. WatchTypeOK
    BY DEF WatchInit, WatchTypeOK, WatchStates, JobStatuses, WatchAsks
<1>2. AnalysisWatched /\ CallsOwned /\ RefusedLooksOn /\ RetryLooksOn
    BY DEF WatchInit, AnalysisWatched, CallsOwned, RefusedLooksOn, RetryLooksOn, Mine
<1>3. QED
    BY <1>1, <1>2 DEF WInv

LEMMA UnwatchedType ==
    ASSUME NEW w \in WatchStates
    PROVE  /\ Watching(w) \in WatchStates
           /\ Unwatched(w) \in WatchStates /\ ~Unwatched(w).onPage
           /\ Unwatched(w).poller = "off" /\ ~Unwatched(w).cancelOpen
           /\ Unwatched(w).asks = {[c EXCEPT !.mine = FALSE] : c \in w.asks}
<1>1. Watching(w) \in WatchStates /\ Watching(w).asks = w.asks /\ ~Watching(w).cancelOpen
    BY DEF Watching, WatchStates
<1>2. ASSUME NEW c \in WatchAsks PROVE [c EXCEPT !.mine = FALSE] \in WatchAsks
    BY DEF WatchAsks
<1>3. {[c EXCEPT !.mine = FALSE] : c \in w.asks} \in SUBSET WatchAsks
    BY <1>2 DEF WatchStates
<1>4. QED
    BY <1>1, <1>3 DEF Unwatched, WatchStates

\* Whoever leaves the page leaves nothing that waits.
LEMMA LeavingIsSafe ==
    ASSUME NEW w \in WatchStates, watch' = Unwatched(w) \/ watch' = WatchGone(w)
    PROVE  WInv'
<1>1. /\ watch' \in WatchStates /\ ~watch'.onPage /\ watch'.asks = Unwatched(w).asks
      /\ watch'.poller = "off" /\ ~watch'.cancelOpen
    BY UnwatchedType, ZenonT(40) DEF WatchGone, WatchStates
<1>2. \A c \in watch'.asks : ~c.mine
    <2>1. ASSUME NEW c \in w.asks PROVE ~[c EXCEPT !.mine = FALSE].mine
        BY DEF WatchStates, WatchAsks
    <2>2. watch'.asks = {[c EXCEPT !.mine = FALSE] : c \in w.asks}
        BY <1>1, UnwatchedType
    <2>3. QED
        BY <2>1, <2>2, Zenon
<1>3. \A kinds : ~Mine(kinds)'
    BY <1>2 DEF Mine
<1>4. QED
    BY <1>1, <1>2, <1>3 DEF WInv, WatchTypeOK, AnalysisWatched, CallsOwned, RefusedLooksOn, RetryLooksOn

LEMMA LoweredType ==
    ASSUME WatchTypeOK, NEW c \in watch.asks
    PROVE  /\ Lowered(c) \in WatchStates
           /\ Lowered(c).asks = watch.asks \ {c}
           /\ Lowered(c).onPage = watch.onPage /\ Lowered(c).shown = watch.shown
           /\ Lowered(c).poller = watch.poller /\ Lowered(c).pollError = watch.pollError
           /\ Lowered(c).job = watch.job /\ Lowered(c).overtaken = watch.overtaken
           /\ ~c.mine \/ c.kind \notin CancelKinds => Lowered(c).cancelling = watch.cancelling
           /\ ~c.mine \/ c.kind \notin RetryKinds => Lowered(c).retrying = watch.retrying
<1> DEFINE w == [watch EXCEPT !.asks = @ \ {c}]
<1>1. /\ c.kind \in {"cancel", "retry", "done", "cancelReroute", "retryReroute"}
      /\ c.mine \in BOOLEAN /\ w \in WatchStates /\ w.asks = watch.asks \ {c}
    BY DEF WatchTypeOK, WatchStates, WatchAsks
<1>2. CASE ~c.mine \/ c.kind = "done"
    <2>1. Lowered(c) = w
        BY <1>2 DEF Lowered
    <2>2. QED
        BY <1>1, <2>1 DEF WatchTypeOK, WatchStates
<1>3. CASE c.mine /\ c.kind \in CancelKinds
    <2>1. Lowered(c) = [w EXCEPT !.cancelling = FALSE, !.cancelOpen = FALSE]
        BY <1>1, <1>3 DEF Lowered, CancelKinds
    <2>2. QED
        BY <1>1, <1>3, <2>1, ZenonT(40) DEF WatchTypeOK, WatchStates, CancelKinds, RetryKinds
<1>4. CASE c.mine /\ c.kind \in RetryKinds
    <2>1. Lowered(c) = [w EXCEPT !.retrying = FALSE]
        BY <1>1, <1>4 DEF Lowered, RetryKinds
    <2>2. QED
        BY <1>1, <1>4, <2>1 DEF WatchTypeOK, WatchStates, CancelKinds, RetryKinds
<1>5. QED
    BY <1>1, <1>2, <1>3, <1>4 DEF CancelKinds, RetryKinds

\* A call of an earlier visit ends: this visit's calls and flags stay as they are.
LEMMA OthersEnd ==
    ASSUME WInv, NEW c \in watch.asks, ~c.mine
    PROVE  /\ Lowered(c) = [watch EXCEPT !.asks = @ \ {c}]
           /\ \A kinds : (\E d \in watch.asks \ {c} : d.mine /\ d.kind \in kinds) <=> Mine(kinds)
BY DEF Lowered, Mine

\* When one call of the page ends, no other cancellation is under way beside it.
LEMMA OwnEnds ==
    ASSUME WInv, NEW c \in watch.asks, c.mine
    PROVE  /\ watch.onPage
           /\ c.kind \in CancelKinds =>
                 \A d \in watch.asks \ {c} : d.mine => d.kind \notin CancelKinds
<1>1. watch.onPage
    BY DEF WInv, CallsOwned
<1>2. ASSUME c.kind \in CancelKinds, NEW d \in watch.asks \ {c}, d.mine, d.kind \in CancelKinds
      PROVE  FALSE
    <2>1. c.kind # d.kind
        BY <1>2 DEF WInv, WatchTypeOK, WatchStates, WatchAsks
    <2>2. QED
        BY <1>2, <2>1 DEF WInv, CallsOwned, Mine, CancelKinds
<1>3. QED
    BY <1>1, <1>2

LEMMA JobFinishesStep == WInv /\ JobFinishes => WInv'
<1> SUFFICES ASSUME WInv, JobFinishes PROVE WInv'
    OBVIOUS
<1>1. PICK s \in {"SUCCEEDED", "FAILED"} : watch' = [watch EXCEPT !.job = s]
    BY DEF JobFinishes
<1>2. /\ watch' \in WatchStates /\ watch'.job = s
      /\ watch'.onPage = watch.onPage /\ watch'.shown = watch.shown /\ watch'.asks = watch.asks
      /\ watch'.poller = watch.poller /\ watch'.pollError = watch.pollError
      /\ watch'.cancelling = watch.cancelling /\ watch'.retrying = watch.retrying
      /\ watch'.cancelOpen = watch.cancelOpen /\ watch'.overtaken = watch.overtaken
    BY <1>1 DEF WInv, WatchTypeOK, WatchStates, JobStatuses
<1>3. QED
    BY <1>2 DEF WInv, WatchTypeOK, AnalysisWatched, CallsOwned, RefusedLooksOn, RetryLooksOn,
                Mine, GoesOn

\* A page that has a poller, an error or neither button pressed is all right with the
\* calls it had.
LEMMA SettledIsSafe ==
    ASSUME WInv, watch' \in WatchStates, watch'.asks = watch.asks,
           watch'.onPage = watch.onPage, watch'.cancelling = watch.cancelling,
           watch'.cancelOpen = watch.cancelOpen, watch.onPage \/ watch'.poller = "off", GoesOn'
    PROVE  WInv'
BY DEF WInv, WatchTypeOK, AnalysisWatched, CallsOwned, RefusedLooksOn, RetryLooksOn, Mine, GoesOn

LEMMA EnterStep == WInv /\ EnterWatch => WInv'
<1> SUFFICES ASSUME WInv, EnterWatch PROVE WInv'
    OBVIOUS
<1>1. watch \in WatchStates /\ ~watch.onPage /\ watch' = Watching(watch)
    BY DEF WInv, WatchTypeOK, EnterWatch
<1>2. /\ watch' \in WatchStates /\ watch'.onPage = TRUE /\ watch'.poller = "on"
      /\ watch'.asks = watch.asks
    BY <1>1 DEF Watching, WatchStates
<1>3. \A kinds : ~Mine(kinds)'
    BY <1>1, <1>2 DEF WInv, CallsOwned, Mine
<1>4. QED
    BY <1>2, <1>3 DEF WInv, WatchTypeOK, AnalysisWatched, CallsOwned, RefusedLooksOn, RetryLooksOn

LEMMA AskedType ==
    ASSUME NEW w \in WatchStates, NEW kind \in {"cancel", "retry", "done"}
    PROVE  /\ WatchAsk(w, kind) \in WatchStates
           /\ WatchAsk(w, kind).asks = w.asks \cup {[kind |-> kind, mine |-> TRUE]}
           /\ WatchAsk(w, kind).onPage = w.onPage /\ WatchAsk(w, kind).shown = w.shown
           /\ WatchAsk(w, kind).job = w.job /\ WatchAsk(w, kind).cancelling = w.cancelling
<1>1. [kind |-> kind, mine |-> TRUE] \in WatchAsks
    BY DEF WatchAsks
<1>2. w.asks \cup {[kind |-> kind, mine |-> TRUE]} \in SUBSET WatchAsks
    BY <1>1 DEF WatchStates
<1>3. QED
    BY <1>2 DEF WatchAsk, WatchStates

LEMMA PollShowsStep == WInv /\ PollShows => WInv'
<1> SUFFICES ASSUME WInv, PollShows PROVE WInv'
    OBVIOUS
<1> DEFINE w == [watch EXCEPT !.shown = watch.job, !.pollError = FALSE]
           off == [w EXCEPT !.poller = "off"]
<1>1. /\ watch \in WatchStates /\ w \in WatchStates /\ off \in WatchStates
      /\ watch.poller = "on" /\ watch.onPage
    BY DEF WInv, WatchTypeOK, WatchStates, CallsOwned, PollShows, JobStatuses
<1>2. CASE watch' \in {w, off} /\ (watch.job = "FAILED" \/ watch' = w)
    <2>1. /\ GoesOn' /\ watch'.asks = watch.asks /\ watch'.onPage = watch.onPage
          /\ watch'.cancelling = watch.cancelling /\ watch'.cancelOpen = watch.cancelOpen
        BY <1>1, <1>2, ZenonT(40) DEF GoesOn, WatchStates
    <2>2. QED
        BY <1>1, <1>2, <2>1, SettledIsSafe
<1>3. CASE watch.job = "SUCCEEDED" /\ watch' = WatchAsk(off, "done")
    <2>1. /\ watch'.onPage = TRUE /\ watch'.shown = "SUCCEEDED" /\ watch'.job = "SUCCEEDED"
          /\ watch'.cancelling = watch.cancelling
          /\ watch'.asks = watch.asks \cup {[kind |-> "done", mine |-> TRUE]}
          /\ watch' \in WatchStates
        <3>1. /\ off.onPage = TRUE /\ off.shown = "SUCCEEDED" /\ off.job = "SUCCEEDED"
              /\ off.cancelling = watch.cancelling /\ off.asks = watch.asks
            BY <1>1, <1>3 DEF WatchStates
        <3>2. QED
            BY <1>1, <1>3, <3>1, AskedType
    <2>2. GoesOn'
        BY <2>1 DEF GoesOn
    <2>3. /\ Mine(CancelKinds)' <=> Mine(CancelKinds)
          /\ Mine({"cancel"})' <=> Mine({"cancel"})
          /\ Mine({"cancelReroute"})' <=> Mine({"cancelReroute"})
        BY <2>1 DEF Mine, CancelKinds
    <2>4. QED
        BY <2>1, <2>2, <2>3 DEF WInv, WatchTypeOK, AnalysisWatched, CallsOwned,
           RefusedLooksOn, RetryLooksOn
<1>4. CASE watch' = Unwatched(off)
    BY <1>1, <1>4, LeavingIsSafe
<1>5. QED
    BY <1>2, <1>3, <1>4 DEF PollShows

LEMMA PollEndsStep == WInv /\ (PollEnds \/ Repoll) => WInv'
<1> SUFFICES ASSUME WInv, PollEnds \/ Repoll PROVE WInv'
    OBVIOUS
<1>1. watch \in WatchStates
    BY DEF WInv, WatchTypeOK
<1>2. CASE PollEnds /\ watch' = WatchGone(watch)
    BY <1>1, <1>2, LeavingIsSafe
<1>3. CASE PollEnds /\ watch' = [watch EXCEPT !.poller = "off", !.pollError = TRUE]
    <2>1. /\ watch' \in WatchStates
          /\ GoesOn' /\ watch'.asks = watch.asks /\ watch'.onPage = watch.onPage
          /\ watch'.cancelling = watch.cancelling /\ watch'.cancelOpen = watch.cancelOpen
          /\ watch'.poller = "off"
        BY <1>1, <1>3 DEF GoesOn, WatchStates
    <2>2. QED
        BY <2>1, SettledIsSafe
<1>4. CASE Repoll
    <2>1. /\ watch' \in WatchStates
          /\ GoesOn' /\ watch'.asks = watch.asks /\ watch'.onPage = watch.onPage
          /\ watch'.cancelling = watch.cancelling /\ watch'.cancelOpen = watch.cancelOpen
        BY <1>1, <1>4 DEF Repoll, GoesOn, WatchStates
    <2>2. QED
        BY <1>4, <2>1, SettledIsSafe DEF Repoll
<1>5. QED
    BY <1>2, <1>3, <1>4 DEF PollEnds

LEMMA DialogStep == WInv /\ (OpenCancel \/ CloseCancel) => WInv'
<1> SUFFICES ASSUME WInv, OpenCancel \/ CloseCancel PROVE WInv'
    OBVIOUS
<1>1. watch \in WatchStates /\ watch.onPage
    BY DEF WInv, WatchTypeOK, CallsOwned, OpenCancel, CloseCancel
<1>2. PICK b \in BOOLEAN : watch' = [watch EXCEPT !.cancelOpen = b]
    BY DEF OpenCancel, CloseCancel
<1>3. /\ watch' \in WatchStates /\ watch'.asks = watch.asks /\ watch'.onPage = watch.onPage
      /\ watch'.shown = watch.shown /\ watch'.job = watch.job
      /\ watch'.poller = watch.poller /\ watch'.pollError = watch.pollError
      /\ watch'.cancelling = watch.cancelling /\ watch'.retrying = watch.retrying
      /\ watch'.overtaken = watch.overtaken
    BY <1>1, <1>2 DEF WatchStates
<1>4. QED
    BY <1>1, <1>3 DEF WInv, WatchTypeOK, AnalysisWatched, CallsOwned, RefusedLooksOn, RetryLooksOn,
                      Mine, GoesOn

LEMMA CancelStep == WInv /\ onCancel => WInv'
<1> SUFFICES ASSUME WInv, onCancel PROVE WInv'
    OBVIOUS
<1>1. watch \in WatchStates /\ watch.onPage /\ ~Mine(CancelKinds)
    BY DEF WInv, WatchTypeOK, CallsOwned, onCancel
<1>2. /\ watch' \in WatchStates /\ watch'.onPage = TRUE /\ watch'.cancelling = TRUE
      /\ watch'.asks = watch.asks \cup {[kind |-> "cancel", mine |-> TRUE]}
    <2> DEFINE w == [watch EXCEPT !.cancelling = TRUE, !.poller = "off", !.overtaken = FALSE]
    <2>1. w \in WatchStates /\ w.onPage = TRUE /\ w.cancelling = TRUE /\ w.asks = watch.asks
        BY <1>1 DEF WatchStates
    <2>2. watch' = WatchAsk(w, "cancel")
        BY DEF onCancel
    <2>3. QED
        BY <2>1, <2>2, AskedType
<1>3. ~Mine({"cancelReroute"})'
    BY <1>1, <1>2 DEF Mine, CancelKinds
<1>4. QED
    BY <1>2, <1>3 DEF WInv, WatchTypeOK, AnalysisWatched, CallsOwned, RefusedLooksOn, RetryLooksOn

LEMMA RetryStep == WInv /\ onRetryJob => WInv'
<1> SUFFICES ASSUME WInv, onRetryJob PROVE WInv'
    OBVIOUS
<1>1. watch \in WatchStates /\ watch.onPage /\ watch.shown = "FAILED"
    BY DEF WInv, WatchTypeOK, onRetryJob
<1>2. /\ watch' \in WatchStates /\ watch'.onPage = TRUE /\ watch'.shown = "FAILED"
      /\ watch'.cancelling = watch.cancelling
      /\ watch'.asks = watch.asks \cup {[kind |-> "retry", mine |-> TRUE]}
    <2> DEFINE w == [watch EXCEPT !.retrying = TRUE, !.pollError = FALSE]
    <2>1. /\ w \in WatchStates /\ w.onPage = TRUE /\ w.shown = "FAILED"
          /\ w.cancelling = watch.cancelling /\ w.asks = watch.asks
        BY <1>1 DEF WatchStates
    <2>2. watch' = WatchAsk(w, "retry")
        BY DEF onRetryJob
    <2>3. QED
        BY <2>1, <2>2, AskedType
<1>3. GoesOn'
    BY <1>2 DEF GoesOn
<1>4. /\ Mine(CancelKinds)' <=> Mine(CancelKinds)
      /\ Mine({"cancel"})' <=> Mine({"cancel"})
      /\ Mine({"cancelReroute"})' <=> Mine({"cancelReroute"})
    BY <1>2 DEF Mine, CancelKinds
<1>5. QED
    BY <1>1, <1>2, <1>3, <1>4 DEF WInv, WatchTypeOK, AnalysisWatched, CallsOwned,
       RefusedLooksOn, RetryLooksOn

\* A call goes and leaves the page as it finds it, or better.
LEMMA OwnCallGoes ==
    ASSUME WInv, NEW c \in watch.asks, c.mine, watch' \in WatchStates,
           watch'.onPage = watch.onPage, watch'.asks = watch.asks \ {c}, GoesOn',
           c.kind \in CancelKinds \/ watch'.cancelling = watch.cancelling
    PROVE  WInv'
<1>1. watch.onPage
    BY DEF WInv, CallsOwned
<1>2. /\ Mine(CancelKinds)' => Mine(CancelKinds)
      /\ Mine({"cancel"})' => Mine({"cancel"})
      /\ Mine({"cancelReroute"})' => Mine({"cancelReroute"})
    BY DEF Mine
<1>3. Mine(CancelKinds)' => watch'.cancelling
    <2>1. CASE c.kind \in CancelKinds
        BY <2>1, OwnEnds DEF Mine
    <2>2. CASE watch'.cancelling = watch.cancelling
        BY <1>2, <2>2 DEF WInv, CallsOwned
    <2>3. QED
        BY <2>1, <2>2
<1>4. CallsOwned'
    BY <1>1, <1>2, <1>3 DEF WInv, CallsOwned
<1>5. RefusedLooksOn'
    BY <1>2 DEF WInv, RefusedLooksOn
<1>6. AnalysisWatched'
    BY DEF AnalysisWatched, GoesOn, Mine
<1>7. QED
    BY <1>4, <1>5, <1>6 DEF WInv, WatchTypeOK, RetryLooksOn

\* The session says where a refused call leads, and calls the next one.
LEMMA ReroutedStep ==
    ASSUME WInv, NEW c \in watch.asks,
           \/ c.kind = "cancel" /\ watch.job # "RUNNING" /\ watch' = Rerouted(c, "cancelReroute")
           \/ c.kind = "retry" /\ watch' = Rerouted(c, "retryReroute")
    PROVE  WInv'
<1> DEFINE kind == IF c.kind = "cancel" THEN "cancelReroute" ELSE "retryReroute"
           d == [c EXCEPT !.kind = kind]
<1>1. watch \in WatchStates /\ c \in WatchAsks
    BY DEF WInv, WatchTypeOK, WatchStates
<1>2. d \in WatchAsks /\ d.kind = kind /\ d.mine = c.mine
    BY <1>1 DEF WatchAsks
<1>3. /\ watch' \in WatchStates /\ watch'.asks = (watch.asks \ {c}) \cup {d}
      /\ watch'.onPage = watch.onPage /\ watch'.shown = watch.shown /\ watch'.job = watch.job
      /\ watch'.poller = watch.poller /\ watch'.pollError = watch.pollError
      /\ watch'.cancelling = watch.cancelling /\ watch'.retrying = watch.retrying
      /\ watch'.cancelOpen = watch.cancelOpen /\ watch'.overtaken = watch.overtaken
    BY <1>1, <1>2 DEF Rerouted, WatchStates
<1> HIDE DEF d
<1>a. c.kind \in {"cancel", "retry"} /\ kind \in {"cancelReroute", "retryReroute"}
      /\ (kind = "cancelReroute" <=> c.kind = "cancel")
    OBVIOUS
<1> HIDE DEF kind
<1>4. Mine(CancelKinds)' => Mine(CancelKinds)
    BY <1>2, <1>3, <1>a DEF Mine, CancelKinds
<1>5. Mine(RetryKinds)' => Mine(RetryKinds)
    BY <1>2, <1>3, <1>a DEF Mine, RetryKinds
<1>6. Mine({"done"})' <=> Mine({"done"})
    BY <1>2, <1>3, <1>a DEF Mine
<1>7. Mine({"cancelReroute"})' => Mine({"cancelReroute"}) \/ (c.mine /\ c.kind = "cancel")
    BY <1>2, <1>3, <1>a DEF Mine
<1>8. Mine({"cancel"})' => Mine({"cancel"})
    BY <1>2, <1>3, <1>a DEF Mine
<1>9. ~(Mine({"cancel"})' /\ Mine({"cancelReroute"})')
    <2>1. CASE c.mine /\ c.kind = "cancel"
        <3>1. \A e \in watch.asks : e.mine /\ e.kind = "cancel" => e = c
            BY <1>1, <2>1 DEF WatchStates, WatchAsks
        <3>2. ~Mine({"cancel"})'
            BY <1>2, <1>3, <1>a, <2>1, <3>1 DEF Mine
        <3>3. QED
            BY <3>2
    <2>2. CASE ~(c.mine /\ c.kind = "cancel")
        BY <1>7, <1>8, <2>2 DEF WInv, CallsOwned
    <2>3. QED
        BY <2>1, <2>2
<1>10. ~watch.onPage => \A e \in watch'.asks : ~e.mine
    BY <1>2, <1>3 DEF WInv, CallsOwned
<1>11. GoesOn' <=> GoesOn
    BY <1>3, <1>6 DEF GoesOn
<1>12. Mine({"cancelReroute"})' /\ watch.job = "RUNNING" => Mine({"cancelReroute"})
    BY <1>3, <1>7
<1>13. QED
    BY <1>3, <1>4, <1>5, <1>6, <1>9, <1>10, <1>11, <1>12
       DEF WInv, WatchTypeOK, AnalysisWatched, CallsOwned, RefusedLooksOn, RetryLooksOn

\* A call of an earlier visit may change the job, and overtake this visit, no more.
LEMMA OtherCallGoes ==
    ASSUME WInv, NEW c \in watch.asks, ~c.mine, NEW j \in JobStatuses,
           NEW o \in BOOLEAN, watch.overtaken => o,
           watch' = [watch EXCEPT !.asks = @ \ {c}, !.job = j, !.overtaken = o],
           \/ j \in {watch.job, "CANCELLED"}
           \/ Mine({"cancelReroute"}) => o
    PROVE  WInv'
<1>1. watch \in WatchStates /\ c \in WatchAsks
    BY DEF WInv, WatchTypeOK, WatchStates
<1>2. /\ watch' \in WatchStates /\ watch'.asks = watch.asks \ {c} /\ watch'.job = j
      /\ watch'.onPage = watch.onPage /\ watch'.shown = watch.shown
      /\ watch'.poller = watch.poller /\ watch'.pollError = watch.pollError
      /\ watch'.cancelling = watch.cancelling /\ watch'.retrying = watch.retrying
      /\ watch'.cancelOpen = watch.cancelOpen /\ watch'.overtaken = o
    BY <1>1, ZenonT(40) DEF WatchStates
<1>3. \A kinds : Mine(kinds)' <=> Mine(kinds)
    BY <1>2 DEF Mine
<1>4. GoesOn => GoesOn'
    BY <1>2, <1>3 DEF GoesOn
<1>5. Mine({"cancelReroute"}) /\ j = "RUNNING" => GoesOn'
    <2>1. CASE j \in {watch.job, "CANCELLED"}
        BY <1>4, <2>1 DEF WInv, RefusedLooksOn
    <2>2. CASE Mine({"cancelReroute"}) => o
        BY <1>2, <2>2 DEF GoesOn
    <2>3. QED
        BY <2>1, <2>2
<1>6. QED
    BY <1>2, <1>3, <1>4, <1>5
       DEF WInv, WatchTypeOK, AnalysisWatched, CallsOwned, RefusedLooksOn, RetryLooksOn

LEMMA CancelEndsStep ==
    ASSUME WInv, NEW c \in watch.asks, CancelEnds(c)
    PROVE  WInv'
<1> DEFINE w == Lowered(c)
           cancelled == [w EXCEPT !.job = "CANCELLED"]
           tryAgain(x) == IF c.mine THEN [x EXCEPT !.pollError = TRUE, !.poller = "on"] ELSE x
<1>1. /\ watch \in WatchStates /\ w \in WatchStates /\ cancelled \in WatchStates
      /\ w.asks = watch.asks \ {c} /\ w.onPage = watch.onPage
    BY LoweredType DEF WInv, WatchTypeOK, WatchStates, JobStatuses
<1>2. CASE watch' = Unwatched(cancelled)
    BY <1>1, <1>2, LeavingIsSafe
<1>3. CASE watch' = Rerouted(c, "cancelReroute") /\ watch.job # "RUNNING"
    BY <1>3, ReroutedStep DEF CancelEnds
<1>4. CASE watch' \in {tryAgain(w), tryAgain(cancelled)}
    <2>1. CASE c.mine
        <3>1. /\ watch' \in WatchStates /\ watch'.asks = watch.asks \ {c}
              /\ watch'.onPage = watch.onPage /\ watch'.poller = "on"
            <4>1. CASE watch' = [w EXCEPT !.pollError = TRUE, !.poller = "on"]
                BY <1>1, <4>1 DEF WatchStates
            <4>2. CASE watch' = [cancelled EXCEPT !.pollError = TRUE, !.poller = "on"]
                BY <1>1, <4>2 DEF WatchStates
            <4>3. QED
                BY <1>4, <2>1, <4>1, <4>2
        <3>2. GoesOn' /\ c.kind \in CancelKinds
            BY <3>1 DEF GoesOn, CancelKinds, CancelEnds
        <3>3. QED
            BY <2>1, <3>1, <3>2, OwnCallGoes
    <2>2. CASE ~c.mine
        <3>1. w = [watch EXCEPT !.asks = @ \ {c}]
            BY <2>2, OthersEnd
        <3>2. PICK j \in {watch.job, "CANCELLED"} :
                 watch' = [watch EXCEPT !.asks = @ \ {c}, !.job = j, !.overtaken = watch.overtaken]
            <4>1. CASE watch' = w
                BY <1>1, <3>1, <4>1, ZenonT(40) DEF WatchStates
            <4>2. CASE watch' = cancelled
                BY <1>1, <3>1, <4>2, ZenonT(40) DEF WatchStates
            <4>3. QED
                BY <1>4, <2>2, <4>1, <4>2
        <3>3. /\ watch.job \in JobStatuses /\ "CANCELLED" \in JobStatuses
              /\ watch.overtaken \in BOOLEAN
            BY <1>1 DEF WatchStates, JobStatuses
        <3>4. QED
            BY <2>2, <3>2, <3>3, OtherCallGoes
    <2>3. QED
        BY <2>1, <2>2
<1>5. QED
    BY <1>2, <1>3, <1>4 DEF CancelEnds

LEMMA RetryEndsStep ==
    ASSUME WInv, NEW c \in watch.asks, RetryEnds(c)
    PROVE  WInv'
<1> DEFINE w == Lowered(c)
           again == [w EXCEPT !.job = "RUNNING", !.overtaken = Overtakes(c)]
           polled == IF c.mine THEN [again EXCEPT !.shown = "RUNNING", !.poller = "on"] ELSE again
           showError(x) == [x EXCEPT !.pollError = @ \/ c.mine]
<1>1. /\ watch \in WatchStates /\ w \in WatchStates /\ again \in WatchStates
      /\ w.asks = watch.asks \ {c} /\ w.onPage = watch.onPage
      /\ w.cancelling = watch.cancelling /\ c.kind = "retry" /\ c.mine \in BOOLEAN
    <2>1. /\ watch \in WatchStates /\ w \in WatchStates
          /\ w.asks = watch.asks \ {c} /\ w.onPage = watch.onPage
          /\ w.cancelling = watch.cancelling /\ c.kind = "retry" /\ c.mine \in BOOLEAN
        BY LoweredType DEF WInv, WatchTypeOK, WatchStates, WatchAsks, RetryEnds, CancelKinds
    <2>2. Overtakes(c) \in BOOLEAN
        BY <2>1 DEF Overtakes, WatchStates
    <2>3. QED
        BY <2>1, <2>2 DEF WatchStates, JobStatuses
<1>2. CASE watch' = Rerouted(c, "retryReroute")
    BY <1>1, <1>2, ReroutedStep
<1>3. CASE watch' \in {polled, showError(again), showError(w)}
    <2>1. CASE c.mine
        <3>1. /\ watch' \in WatchStates /\ watch'.asks = watch.asks \ {c}
              /\ watch'.onPage = watch.onPage /\ watch'.cancelling = watch.cancelling
              /\ watch'.poller = "on" \/ watch'.pollError
            <4>1. CASE watch' = [again EXCEPT !.shown = "RUNNING", !.poller = "on"]
                BY <1>1, <4>1 DEF WatchStates, JobStatuses
            <4>2. CASE watch' = [again EXCEPT !.pollError = @ \/ c.mine]
                BY <1>1, <2>1, <4>2 DEF WatchStates
            <4>3. CASE watch' = [w EXCEPT !.pollError = @ \/ c.mine]
                BY <1>1, <2>1, <4>3 DEF WatchStates
            <4>4. QED
                BY <1>3, <2>1, <4>1, <4>2, <4>3
        <3>2. GoesOn'
            BY <3>1 DEF GoesOn
        <3>3. QED
            BY <2>1, <3>1, <3>2, OwnCallGoes
    <2>2. CASE ~c.mine
        <3>1. w = [watch EXCEPT !.asks = @ \ {c}]
            BY <2>2, OthersEnd
        <3>2. showError(w) = w /\ showError(again) = again
            BY <1>1, <2>2 DEF WatchStates
        <3>3. /\ watch.job \in JobStatuses /\ "RUNNING" \in JobStatuses
              /\ watch.overtaken \in BOOLEAN /\ Overtakes(c) \in BOOLEAN
            BY <1>1 DEF WatchStates, JobStatuses, Overtakes
        <3>4. CASE watch' = w
            <4>1. watch' = [watch EXCEPT !.asks = @ \ {c}, !.job = watch.job,
                                         !.overtaken = watch.overtaken]
                BY <1>1, <3>1, <3>4, ZenonT(40) DEF WatchStates
            <4>2. QED
                BY <2>2, <3>3, <4>1, OtherCallGoes
        <3>5. CASE watch' = again
            <4>1. watch' = [watch EXCEPT !.asks = @ \ {c}, !.job = "RUNNING",
                                         !.overtaken = Overtakes(c)]
                BY <1>1, <3>1, <3>5, ZenonT(40) DEF WatchStates
            <4>2. watch.overtaken => Overtakes(c)
                BY DEF Overtakes
            <4>3. Mine({"cancelReroute"}) => Overtakes(c)
                <5>1. ASSUME NEW d \in watch.asks, d.mine, d.kind = "cancelReroute"
                      PROVE  d = [kind |-> "cancelReroute", mine |-> TRUE]
                    BY <1>1, <5>1 DEF WatchStates, WatchAsks
                <5>2. QED
                    BY <2>2, <5>1 DEF Mine, Overtakes
            <4>4. QED
                BY <2>2, <3>3, <4>1, <4>2, <4>3, OtherCallGoes
        <3>6. QED
            BY <1>3, <2>2, <3>2, <3>4, <3>5
    <2>3. QED
        BY <2>1, <2>2
<1>4. QED
    BY <1>2, <1>3 DEF RetryEnds

LEMMA SessionReadStep ==
    ASSUME WInv, NEW c \in watch.asks, SessionRead(c)
    PROVE  WInv'
<1> DEFINE w == Lowered(c)
<1>1. /\ watch \in WatchStates /\ w \in WatchStates /\ w.asks = watch.asks \ {c}
      /\ w.onPage = watch.onPage /\ w.shown = watch.shown /\ w.poller = watch.poller
      /\ w.pollError = watch.pollError /\ w.job = watch.job /\ w.overtaken = watch.overtaken
      /\ c.kind \in CancelKinds \/ w.cancelling = watch.cancelling
    BY LoweredType DEF WInv, WatchTypeOK
<1>2. CASE watch' = Unwatched(w)
    BY <1>1, <1>2, LeavingIsSafe
<1>3. CASE ~c.mine /\ watch' = w
    <2>1. watch' = [watch EXCEPT !.asks = @ \ {c}, !.job = watch.job, !.overtaken = watch.overtaken]
        BY <1>1, <1>3, OthersEnd, ZenonT(40) DEF WatchStates
    <2>2. watch.job \in JobStatuses /\ watch.overtaken \in BOOLEAN
        BY <1>1 DEF WatchStates
    <2>3. QED
        BY <1>3, <2>1, <2>2, OtherCallGoes
<1>4. CASE c.mine /\ watch' = w /\ watch.job = "RUNNING" /\ c.kind \in {"cancelReroute", "retryReroute"}
    <2>1. CASE GoesOn
        <3>1. GoesOn'
            BY <1>1, <1>4, <2>1 DEF GoesOn, Mine
        <3>2. QED
            BY <1>1, <1>4, <3>1, OwnCallGoes
    <2>2. CASE ~GoesOn
        <3>1. c.kind = "retryReroute" /\ watch.cancelling /\ watch.onPage
            BY <1>4, <2>2 DEF WInv, RefusedLooksOn, RetryLooksOn, Mine, RetryKinds, CallsOwned
        <3>2. w.cancelling = watch.cancelling
            BY <1>1, <3>1 DEF CancelKinds
        <3>3. \A kinds : Mine(kinds)' => Mine(kinds)
            BY <1>1, <1>4 DEF Mine
        <3>4. ~Mine({"cancelReroute"})'
            BY <1>4, <2>2, <3>3 DEF WInv, RefusedLooksOn
        <3>5. /\ watch' \in WatchStates /\ watch'.onPage /\ watch'.cancelling
            BY <1>1, <1>4, <3>1, <3>2
        <3>6. QED
            BY <3>3, <3>4, <3>5
               DEF WInv, WatchTypeOK, AnalysisWatched, CallsOwned, RefusedLooksOn, RetryLooksOn
    <2>3. QED
        BY <2>1, <2>2
<1>5. CASE watch' = Watching(w) /\ ~w.onPage
    <2>1. /\ watch' \in WatchStates /\ watch'.onPage /\ watch'.poller = "on"
          /\ watch'.asks = watch.asks \ {c}
        BY <1>1, <1>5, UnwatchedType DEF Watching, WatchStates
    <2>2. \A kinds : ~Mine(kinds)'
        BY <1>1, <1>5, <2>1 DEF WInv, CallsOwned, Mine
    <2>3. QED
        BY <2>1, <2>2 DEF WInv, WatchTypeOK, AnalysisWatched, CallsOwned, RefusedLooksOn, RetryLooksOn
<1>6. CASE c.mine /\ watch' = [w EXCEPT !.pollError = @ \/ c.mine]
    <2>1. /\ watch' \in WatchStates /\ watch'.asks = watch.asks \ {c}
          /\ watch'.onPage = watch.onPage /\ watch'.pollError = TRUE
          /\ watch'.cancelling = w.cancelling
        BY <1>1, <1>6 DEF WatchStates
    <2>2. GoesOn'
        BY <2>1 DEF GoesOn
    <2>3. QED
        BY <1>1, <1>6, <2>1, <2>2, OwnCallGoes
<1>7. ~c.mine => [w EXCEPT !.pollError = @ \/ c.mine] = w
    BY <1>1 DEF WatchStates
<1>8. QED
    BY <1>2, <1>3, <1>4, <1>5, <1>6, <1>7 DEF SessionRead

LEMMA WInvStep == WInv /\ [WatchNext]_watch => WInv'
<1> SUFFICES ASSUME WInv, [WatchNext]_watch PROVE WInv'
    OBVIOUS
<1>1. CASE LeaveWatch
    BY <1>1, LeavingIsSafe DEF LeaveWatch, WInv, WatchTypeOK
<1>2. ASSUME NEW c \in watch.asks, AskGone(c) PROVE WInv'
    BY <1>2, LoweredType, LeavingIsSafe DEF AskGone, WInv
<1>3. CASE UNCHANGED watch
    BY <1>3 DEF WInv, WatchTypeOK, AnalysisWatched, CallsOwned, RefusedLooksOn, RetryLooksOn, Mine, GoesOn
<1>4. QED
    BY <1>1, <1>2, <1>3, JobFinishesStep, EnterStep, PollShowsStep, PollEndsStep, DialogStep,
       CancelStep, RetryStep, CancelEndsStep, RetryEndsStep, SessionReadStep
       DEF WatchNext, WatchProgress

\* AnalysisPage.tsx: the page never waits in silence for a job nobody watches, however
\* its polling, its cancellations, its retries and its readings of the session end.
THEOREM AnalysisStaysWatched == WatchSpec => []AnalysisWatched
<1>1. WInv => AnalysisWatched
    BY DEF WInv
<1>2. QED
    BY WInvInit, WInvStep, <1>1, PTL DEF WatchSpec

\* AnalysisPage.tsx: the page, the job it watches and its calls keep their types.
THEOREM WatchTypeCorrect == WatchSpec => []WatchTypeOK
<1>1. WInv => WatchTypeOK
    BY DEF WInv
<1>2. QED
    BY WInvInit, WInvStep, <1>1, PTL DEF WatchSpec

-----------------------------------------------------------------------------
(* The home page with a plan *)

\* An extraction that the page shows has a job; a page that was left shows none and
\* owns no upload.
ExtractionOwned ==
    /\ plan.phase = "extracting" \/ plan.polling => plan.job \in PlanJobs
    /\ ~OnPlanPage =>
          plan.phase = "idle" /\ ~plan.polling /\ \A u \in plan.uploads : ~u.mine

PInv == PlanTypeOK /\ ExtractionOwned /\ UploadWatched

LEMMA PInvInit == PlanInit => PInv
<1>1. 0 \in 0..MaxPlanJobs
    BY PlanBound DEF PlanBound
<1>2. PlanInit => PlanTypeOK
    BY <1>1 DEF PlanInit, PlanTypeOK, PlanStates, JobStates
<1>3. PlanInit => ExtractionOwned /\ UploadWatched
    BY DEF PlanInit, ExtractionOwned, UploadWatched, OnPlanPage
<1>4. QED
    BY <1>2, <1>3 DEF PInv

\* Wherever the visitor is taken, no page waits.
LEMMA PlanLeaveStep ==
    ASSUME NEW p \in PlanStates, NEW page \in {"artifacts", "expired"},
           p.page # "home" => p.phase = "idle" /\ ~p.polling /\ \A u \in p.uploads : ~u.mine,
           plan' = PlanLeave(p, page)
    PROVE  PInv'
<1>1. 0 \in 0..MaxPlanJobs
    BY PlanBound DEF PlanBound
<1> DEFINE up == {[live |-> FALSE, mine |-> FALSE] : u \in p.uploads}
           re == {[r EXCEPT !.mine = FALSE] : r \in p.refreshing}
<1>2. up \in SUBSET [live : BOOLEAN, mine : BOOLEAN] /\ \A u \in up : ~u.mine
    <2>1. /\ [live |-> FALSE, mine |-> FALSE] \in [live : BOOLEAN, mine : BOOLEAN]
          /\ ~[live |-> FALSE, mine |-> FALSE].mine
        OBVIOUS
    <2>2. \A u \in up : u = [live |-> FALSE, mine |-> FALSE]
        OBVIOUS
    <2> HIDE DEF up
    <2>3. QED
        BY <2>1, <2>2
<1>3. re \in SUBSET [job : PlanJobs, mine : BOOLEAN]
    <2>1. ASSUME NEW r \in p.refreshing
          PROVE  [r EXCEPT !.mine = FALSE] \in [job : PlanJobs, mine : BOOLEAN]
        BY DEF PlanStates
    <2>2. QED
        BY <2>1
<1> HIDE DEF up, re
<1>4. CASE p.page = "home"
    <2>1. plan' = [p EXCEPT !.page = page, !.polling = FALSE, !.phase = "idle", !.error = FALSE,
                            !.selected = FALSE, !.job = 0, !.uploads = up, !.refreshing = re]
        BY <1>4 DEF PlanLeave, up, re
    <2>2. plan' \in PlanStates /\ plan'.phase = "idle" /\ plan'.page = page /\ plan'.uploads = up
          /\ ~plan'.polling
        BY <1>1, <1>2, <1>3, <2>1 DEF PlanStates
    <2>3. QED
        BY <1>2, <2>2 DEF PInv, PlanTypeOK, ExtractionOwned, UploadWatched, OnPlanPage
<1>5. CASE p.page # "home"
    <2>1. /\ plan' \in PlanStates /\ plan'.phase = "idle" /\ plan'.page = page
          /\ plan'.uploads = p.uploads /\ plan'.polling = p.polling
        BY <1>5 DEF PlanLeave, PlanStates
    <2>2. QED
        BY <1>5, <2>1 DEF PInv, PlanTypeOK, ExtractionOwned, UploadWatched, OnPlanPage
<1>6. QED
    BY <1>4, <1>5

\* What the page shows stays, and so do the calls that are its own.
LEMMA SameShown ==
    ASSUME PInv, plan' \in PlanStates,
           plan'.page = plan.page \/ (~OnPlanPage /\ plan'.page = "home"),
           plan'.phase = plan.phase, plan'.job = plan.job, plan'.polling = plan.polling,
           plan.error => plan'.error, ~plan.selected => ~plan'.selected,
           \A u \in plan'.uploads : u \in plan.uploads,
           \A r \in plan.refreshing : r.mine => r \in plan'.refreshing,
           plan.phase = "extracting" /\ plan.jobs[plan.job] = "CANCELLED"
              => plan'.jobs[plan.job] = "CANCELLED"
    PROVE  PInv'
BY DEF PInv, PlanTypeOK, ExtractionOwned, UploadWatched, OnPlanPage

LEMMA UploadStarts ==
    ASSUME PInv, NEW p \in PlanStates, p.page = "home", plan' = uploadPlanFile(p)
    PROVE  PInv'
<1> DEFINE up == {[u EXCEPT !.live = FALSE] : u \in p.uploads} \cup {[live |-> TRUE, mine |-> TRUE]}
<1>1. up \in SUBSET [live : BOOLEAN, mine : BOOLEAN]
    <2>1. ASSUME NEW u \in p.uploads
          PROVE  [u EXCEPT !.live = FALSE] \in [live : BOOLEAN, mine : BOOLEAN]
        BY DEF PlanStates
    <2>2. [live |-> TRUE, mine |-> TRUE] \in [live : BOOLEAN, mine : BOOLEAN]
        OBVIOUS
    <2>3. ASSUME NEW u \in up PROVE u \in [live : BOOLEAN, mine : BOOLEAN]
        <3>1. u = [live |-> TRUE, mine |-> TRUE] \/ \E v \in p.uploads : u = [v EXCEPT !.live = FALSE]
            OBVIOUS
        <3> HIDE DEF up
        <3>2. QED
            BY <2>1, <2>2, <3>1
    <2> HIDE DEF up
    <2>4. QED
        BY <2>3
<1> HIDE DEF up
<1>2. plan' = [p EXCEPT !.error = FALSE, !.phase = "uploading", !.polling = FALSE, !.uploads = up]
    BY DEF uploadPlanFile, up
<1>3. plan' \in PlanStates /\ plan'.phase = "uploading" /\ plan'.page = "home"
      /\ ~plan'.polling
    BY <1>1, <1>2 DEF PlanStates
<1>4. QED
    BY <1>3 DEF PInv, PlanTypeOK, ExtractionOwned, UploadWatched, OnPlanPage

LEMMA FileStep == PInv /\ (ChooseFile \/ RetryUpload \/ Deselect) => PInv'
<1> SUFFICES ASSUME PInv, ChooseFile \/ RetryUpload \/ Deselect PROVE PInv'
    OBVIOUS
<1>1. plan \in PlanStates /\ plan.page = "home"
    BY DEF PInv, PlanTypeOK, ChooseFile, RetryUpload, Deselect, MayUpload, OnPlanPage
<1>2. CASE RetryUpload
    BY <1>1, <1>2, UploadStarts DEF RetryUpload
<1>3. CASE plan' = uploadPlanFile([plan EXCEPT !.selected = TRUE])
    <2>1. [plan EXCEPT !.selected = TRUE] \in PlanStates /\ [plan EXCEPT !.selected = TRUE].page = "home"
        BY <1>1 DEF PlanStates
    <2>2. QED
        BY <1>3, <2>1, UploadStarts
<1>4. CASE plan' \in {[plan EXCEPT !.error = FALSE, !.selected = FALSE],
                      [plan EXCEPT !.error = TRUE, !.selected = TRUE]}
    <2>1. /\ plan' \in PlanStates /\ plan'.page = "home" /\ plan'.phase = plan.phase
          /\ plan'.job = plan.job /\ plan'.polling = plan.polling
          /\ plan'.error \/ ~plan'.selected
        BY <1>1, <1>4 DEF PlanStates
    <2>2. QED
        BY <2>1 DEF PInv, PlanTypeOK, ExtractionOwned, UploadWatched, OnPlanPage
<1>5. CASE Deselect
    <2>1. /\ plan' \in PlanStates /\ plan'.page = "home" /\ plan'.phase # "extracting"
          /\ plan'.polling = plan.polling /\ plan'.job = plan.job
        BY <1>1, <1>5 DEF Deselect, PlanStates
    <2>2. QED
        BY <2>1 DEF PInv, PlanTypeOK, ExtractionOwned, UploadWatched, OnPlanPage
<1>6. QED
    BY <1>2, <1>3, <1>4, <1>5 DEF ChooseFile

LEMMA AcceptedStep ==
    ASSUME PInv, NEW u \in plan.uploads, UploadAccepted(u)
    PROVE  PInv'
<1>1. PICK j \in PlanJobs :
        LET p == [plan EXCEPT !.uploads = @ \ {u}, !.jobs[j] = "RUNNING"] IN
        /\ plan.jobs[j] = "none"
        /\ plan' = IF u.mine THEN [p EXCEPT !.phase = "extracting", !.job = j, !.polling = TRUE]
                   ELSE [p EXCEPT !.strays = @ \cup {j}]
    BY DEF UploadAccepted
<1> DEFINE p == [plan EXCEPT !.uploads = @ \ {u}, !.jobs[j] = "RUNNING"]
<1>2. plan \in PlanStates /\ j \in 0..MaxPlanJobs /\ "RUNNING" \in JobStates
    BY PlanBound DEF PlanBound, PInv, PlanTypeOK, PlanJobs, JobStates
<1>3. /\ p \in PlanStates /\ p.page = plan.page /\ p.phase = plan.phase /\ p.job = plan.job
      /\ p.polling = plan.polling /\ p.error = plan.error /\ p.selected = plan.selected
      /\ p.uploads = plan.uploads \ {u} /\ p.refreshing = plan.refreshing
      /\ p.jobs = [plan.jobs EXCEPT ![j] = "RUNNING"]
    BY <1>2 DEF PlanStates
<1>4. CASE u.mine
    <2>1. plan.page = "home"
        BY <1>4 DEF PInv, ExtractionOwned, OnPlanPage
    <2>2. plan' = [p EXCEPT !.phase = "extracting", !.job = j, !.polling = TRUE]
        BY <1>1, <1>4
    <2> HIDE DEF p
    <2>3. plan' \in PlanStates /\ plan'.page = "home" /\ plan'.polling = TRUE /\ plan'.job = j
        BY <1>2, <1>3, <2>1, <2>2 DEF PlanStates
    <2>4. QED
        BY <2>3 DEF PInv, PlanTypeOK, ExtractionOwned, UploadWatched, OnPlanPage
<1>5. CASE ~u.mine
    <2>1. plan' = [p EXCEPT !.strays = @ \cup {j}]
        BY <1>1, <1>5
    <2> HIDE DEF p
    <2>2. /\ plan' \in PlanStates /\ plan'.page = plan.page /\ plan'.phase = plan.phase
          /\ plan'.job = plan.job /\ plan'.polling = plan.polling /\ plan'.error = plan.error
          /\ plan'.selected = plan.selected /\ plan'.uploads = plan.uploads \ {u}
          /\ plan'.refreshing = plan.refreshing /\ plan'.jobs = [plan.jobs EXCEPT ![j] = "RUNNING"]
        BY <1>2, <1>3, <2>1 DEF PlanStates
    <2>3. plan.phase = "extracting" /\ plan.jobs[plan.job] = "CANCELLED"
          => plan'.jobs[plan.job] = "CANCELLED"
        BY <1>1, <1>2, <2>2 DEF PInv, ExtractionOwned, PlanStates
    <2>4. QED
        BY <2>2, <2>3, SameShown
<1>6. QED
    BY <1>4, <1>5

LEMMA FailsStep ==
    ASSUME PInv, NEW u \in plan.uploads, UploadFails(u)
    PROVE  PInv'
<1> DEFINE p == [plan EXCEPT !.uploads = @ \ {u}]
           failed == IF u.mine THEN [p EXCEPT !.phase = "failed"] ELSE p
<1>1. /\ plan \in PlanStates /\ p \in PlanStates /\ p.page = plan.page /\ p.phase = plan.phase
      /\ p.job = plan.job /\ p.polling = plan.polling /\ p.error = plan.error
      /\ p.selected = plan.selected /\ p.uploads = plan.uploads \ {u}
      /\ p.refreshing = plan.refreshing /\ p.jobs = plan.jobs
    BY DEF PInv, PlanTypeOK, PlanStates
<1>2. CASE plan' = PlanLeave(p, "expired")
    BY <1>1, <1>2, PlanLeaveStep DEF PInv, ExtractionOwned, OnPlanPage
<1>3. CASE plan' = p
    BY <1>1, <1>3, SameShown
<1>4. CASE u.mine /\ plan' \in {failed, [failed EXCEPT !.error = TRUE]}
    <2>1. plan.page = "home"
        BY <1>4 DEF PInv, ExtractionOwned, OnPlanPage
    <2>2. /\ plan' \in PlanStates /\ plan'.phase = "failed" /\ plan'.page = "home"
          /\ plan'.polling = plan.polling /\ plan'.job = plan.job
        <3>1. CASE plan' = [p EXCEPT !.phase = "failed"]
            BY <1>1, <2>1, <3>1 DEF PlanStates
        <3>2. CASE plan' = [[p EXCEPT !.phase = "failed"] EXCEPT !.error = TRUE]
            BY <1>1, <2>1, <3>2 DEF PlanStates
        <3>3. QED
            BY <1>4, <3>1, <3>2
    <2>3. QED
        BY <2>2 DEF PInv, PlanTypeOK, ExtractionOwned, UploadWatched, OnPlanPage
<1>5. QED
    BY <1>2, <1>3, <1>4 DEF UploadFails

\* A poller of the page ends: the session is read, or the page says why not.
LEMMA PollerStep == PInv /\ (Terminal \/ PollFails) => PInv'
<1> SUFFICES ASSUME PInv, Terminal \/ PollFails PROVE PInv'
    OBVIOUS
<1> DEFINE p == [plan EXCEPT !.polling = FALSE]
<1>1. /\ plan \in PlanStates /\ p \in PlanStates /\ p.page = plan.page /\ p.phase = plan.phase
      /\ p.job = plan.job /\ p.uploads = plan.uploads /\ p.jobs = plan.jobs
      /\ p.refreshing = plan.refreshing
    BY DEF PInv, PlanTypeOK, PlanStates
<1>2. CASE plan' = PlanLeave(plan, "expired")
    BY <1>1, <1>2, PlanLeaveStep DEF PInv, ExtractionOwned, OnPlanPage
<1>3. CASE plan' = p /\ plan.jobs[plan.job] = "CANCELLED"
    BY <1>1, <1>3 DEF PInv, PlanTypeOK, ExtractionOwned, UploadWatched, OnPlanPage
<1>4. CASE plan' = [plan EXCEPT !.polling = FALSE, !.phase = "failed", !.error = TRUE]
    <2>1. plan.page = "home"
        BY DEF PInv, ExtractionOwned, OnPlanPage, Terminal, PollFails
    <2>2. plan' \in PlanStates /\ plan'.page = "home" /\ plan'.phase = "failed" /\ ~plan'.polling
        BY <1>1, <1>4, <2>1 DEF PlanStates
    <2>3. QED
        BY <2>2 DEF PInv, PlanTypeOK, ExtractionOwned, UploadWatched, OnPlanPage
<1>5. CASE Terminal /\ plan' = ReadSession(p, plan.job, TRUE)
    <2>1. [job |-> plan.job, mine |-> TRUE] \in [job : PlanJobs, mine : BOOLEAN]
        BY <1>5 DEF PInv, ExtractionOwned, Terminal
    <2>2. /\ plan' \in PlanStates /\ plan'.page = p.page /\ ~plan'.polling /\ plan'.phase = p.phase
          /\ plan'.job = p.job /\ plan'.uploads = p.uploads
          /\ [job |-> plan.job, mine |-> TRUE] \in plan'.refreshing
        BY <1>1, <1>5, <2>1 DEF ReadSession, PlanStates
    <2>3. \E r \in plan'.refreshing : r.mine
        BY <2>2
    <2>4. QED
        BY <1>1, <2>2, <2>3 DEF PInv, PlanTypeOK, ExtractionOwned, UploadWatched, OnPlanPage
<1>6. QED
    BY <1>2, <1>3, <1>4, <1>5 DEF Terminal, PollFails

\* A poller of a page that was left: it may take the visitor along.
LEMMA StrayStep ==
    ASSUME PInv, NEW j \in PlanJobs, StrayEnds(j)
    PROVE  PInv'
<1> DEFINE p == [plan EXCEPT !.strays = @ \ {j}]
<1>1. /\ plan \in PlanStates /\ p \in PlanStates /\ p.page = plan.page /\ p.phase = plan.phase
      /\ p.job = plan.job /\ p.polling = plan.polling /\ p.error = plan.error
      /\ p.selected = plan.selected /\ p.uploads = plan.uploads
      /\ p.refreshing = plan.refreshing /\ p.jobs = plan.jobs
    BY DEF PInv, PlanTypeOK, PlanStates
<1>2. CASE plan' = PlanLeave(p, "expired")
    BY <1>1, <1>2, PlanLeaveStep DEF PInv, ExtractionOwned, OnPlanPage
<1>3. CASE plan' = p
    BY <1>1, <1>3, SameShown
<1>4. CASE plan' = ReadSession(p, j, FALSE)
    <2>1. [job |-> j, mine |-> FALSE] \in [job : PlanJobs, mine : BOOLEAN]
        OBVIOUS
    <2> HIDE DEF p
    <2>2. /\ plan' \in PlanStates /\ plan'.page = p.page /\ plan'.phase = p.phase
          /\ plan'.job = p.job /\ plan'.polling = p.polling /\ plan'.error = p.error
          /\ plan'.selected = p.selected /\ plan'.uploads = p.uploads /\ plan'.jobs = p.jobs
          /\ plan'.refreshing = p.refreshing \cup {[job |-> j, mine |-> FALSE]}
        BY <1>1, <1>4, <2>1 DEF ReadSession, PlanStates
    <2>3. QED
        BY <1>1, <2>2, SameShown
<1>5. QED
    BY <1>2, <1>3, <1>4 DEF StrayEnds

LEMMA RefreshedStep ==
    ASSUME PInv, NEW r \in plan.refreshing, Refreshed(r)
    PROVE  PInv'
<1> DEFINE p == [plan EXCEPT !.refreshing = @ \ {r}]
<1>1. /\ plan \in PlanStates /\ p \in PlanStates /\ p.page = plan.page /\ p.phase = plan.phase
      /\ p.job = plan.job /\ p.polling = plan.polling /\ p.error = plan.error
      /\ p.selected = plan.selected /\ p.uploads = plan.uploads
      /\ p.refreshing = plan.refreshing \ {r} /\ p.jobs = plan.jobs
      /\ r.mine \in BOOLEAN /\ plan.error \in BOOLEAN
    BY DEF PInv, PlanTypeOK, PlanStates
<1>2. CASE plan' \in {PlanLeave(p, "artifacts"), PlanLeave(p, "expired")}
    BY <1>1, <1>2, PlanLeaveStep DEF PInv, ExtractionOwned, OnPlanPage
<1>3. CASE plan' = [p EXCEPT !.error = @ \/ r.mine]
    <2> HIDE DEF p
    <2>1. /\ plan' \in PlanStates /\ plan'.page = p.page /\ plan'.phase = p.phase
          /\ plan'.job = p.job /\ plan'.polling = p.polling /\ plan'.error = (p.error \/ r.mine)
          /\ plan'.selected = p.selected /\ plan'.uploads = p.uploads /\ plan'.jobs = p.jobs
          /\ plan'.refreshing = p.refreshing
        BY <1>1, <1>3 DEF PlanStates
    <2>2. CASE r.mine
        BY <1>1, <2>1, <2>2 DEF PInv, PlanTypeOK, ExtractionOwned, UploadWatched, OnPlanPage
    <2>3. CASE ~r.mine
        BY <1>1, <2>1, <2>3, SameShown
    <2>4. QED
        BY <2>2, <2>3
<1>4. QED
    BY <1>2, <1>3 DEF Refreshed

LEMMA PInvStep == PInv /\ [PlanNext]_plan => PInv'
<1> SUFFICES ASSUME PInv, [PlanNext]_plan PROVE PInv'
    OBVIOUS
<1>1. plan \in PlanStates
    BY DEF PInv, PlanTypeOK
<1>2. CASE PlanGoes
    BY <1>1, <1>2, PlanLeaveStep DEF PlanGoes, OnPlanPage
<1>3. CASE PlanReturns
    <2>1. /\ plan' \in PlanStates /\ plan'.page = "home" /\ plan'.phase = "idle" /\ ~plan'.polling
        BY <1>1, <1>3 DEF PlanReturns, PlanStates, PInv, ExtractionOwned
    <2>2. QED
        BY <2>1 DEF PInv, PlanTypeOK, ExtractionOwned, UploadWatched, OnPlanPage
<1>4. ASSUME NEW j \in PlanJobs, JobEnds(j) PROVE PInv'
    <2>1. PICK s \in {"SUCCEEDED", "FAILED", "CANCELLED"} : plan' = [plan EXCEPT !.jobs[j] = s]
        BY <1>4 DEF JobEnds
    <2>2. /\ plan' \in PlanStates /\ plan'.page = plan.page /\ plan'.phase = plan.phase
          /\ plan'.job = plan.job /\ plan'.polling = plan.polling /\ plan'.error = plan.error
          /\ plan'.selected = plan.selected /\ plan'.uploads = plan.uploads
          /\ plan'.refreshing = plan.refreshing /\ plan'.jobs = [plan.jobs EXCEPT ![j] = s]
        BY <1>1, <2>1 DEF PlanStates, JobStates
    <2>3. plan.phase = "extracting" /\ plan.jobs[plan.job] = "CANCELLED"
          => plan'.jobs[plan.job] = "CANCELLED"
        BY <1>1, <1>4, <2>2 DEF PInv, ExtractionOwned, PlanStates, JobEnds
    <2>4. QED
        BY <2>2, <2>3, SameShown
<1>5. CASE UNCHANGED plan
    BY <1>5 DEF PInv, PlanTypeOK, ExtractionOwned, UploadWatched, OnPlanPage
<1>6. QED
    BY <1>2, <1>3, <1>4, <1>5, FileStep, AcceptedStep, FailsStep, PollerStep, StrayStep,
       RefreshedStep DEF PlanNext, PlanProgress

\* HomePage.tsx: while the home page says that a plan is being extracted, somebody
\* watches or the page says why not, whatever number of files is dropped, aborted and
\* answered, and in whatever order.
THEOREM ExtractionStaysWatched == PlanSpec => []UploadWatched
<1>1. PInv => UploadWatched
    BY DEF PInv
<1>2. QED
    BY PInvInit, PInvStep, <1>1, PTL DEF PlanSpec

\* HomePage.tsx: the page with a plan keeps its type, for any number of uploads.
THEOREM PlanTypeCorrect == PlanSpec => []PlanTypeOK
<1>1. PInv => PlanTypeOK
    BY DEF PInv
<1>2. QED
    BY PInvInit, PInvStep, <1>1, PTL DEF PlanSpec

-----------------------------------------------------------------------------
(* The submission page *)

ArtStates ==
    [onPage : BOOLEAN, session : BOOLEAN, sample : BOOLEAN, sampleStarted : BOOLEAN,
     listed : Counts, accepted : Counts, analysing : BOOLEAN,
     loading : BOOLEAN, loadError : BOOLEAN, starting : BOOLEAN,
     loads : SUBSET [mine : BOOLEAN, signal : {"none", "live", "aborted"}, since : Counts],
     files : [Files -> File], submittingLink : LinkTabs \cup {"none"},
     links : SUBSET [tab : LinkTabs, mine : BOOLEAN],
     asks : SUBSET [kind : {"start", "sampleSubmit", "sampleStart"}, mine : BOOLEAN]]

\* A file waits behind one of its own chain that is going up.
Queues(files) ==
    \A f \in Files : files[f].status = "queued" =>
        /\ files[f].behind \in Files
        /\ files[files[f].behind].status = "uploading"
        /\ files[files[f].behind].mine = files[f].mine

\* A flag of the page is up only while the call that lowers it is on its way.
FlagsAwaited(a) ==
    /\ a.loading => \E l \in a.loads : l.mine /\ l.signal # "aborted"
    /\ a.starting => [kind |-> "start", mine |-> TRUE] \in a.asks
    /\ a.submittingLink # "none" => [tab |-> a.submittingLink, mine |-> TRUE] \in a.links

AInv(a) == a \in ArtStates /\ Queues(a.files) /\ FlagsAwaited(a)

\* Of the files chosen, or of those that wait, one is the first.
LEMMA FirstFile ==
    ASSUME NEW files \in SUBSET Files, files # {}
    PROVE  First(files) \in files /\ \A g \in files : First(files) <= g
<1>1. PICK m \in files : \A n \in files : <<n, m>> \notin OpToRel(<, Nat)
    <2>1. files \subseteq Nat
        BY DEF Files
    <2>2. QED
        BY <2>1, WFMin, NatLessThanWellFounded, Zenon
<1>2. \A n \in files : ~(n < m)
    <2>1. \A n \in files : n \in Nat
        BY DEF Files
    <2>2. QED
        BY <1>1, <2>1, Zenon DEF OpToRel
<1>3. \A n \in files : m <= n
    BY <1>2 DEF Files
<1>4. QED
    BY <1>3, Zenon DEF First

LEMMA FileFacts ==
    /\ NoFile \in File
    /\ \A file \in File : Deserted(file) \in File /\ Deserted(file).status = file.status
                          /\ Deserted(file).behind = file.behind /\ Deserted(file).mine = FALSE
BY DEF NoFile, File, Alone, Deserted

\* A file at the end of its upload leaves its place to the next of its chain.
LEMMA NextFacts ==
    ASSUME NEW files \in [Files -> File], Queues(files), NEW f \in Files,
           files[f].status = "uploading", NEW done \in File, done.status # "queued"
    PROVE  /\ NextOf([files EXCEPT ![f] = done], f) \in [Files -> File]
           /\ Queues(NextOf([files EXCEPT ![f] = done], f))
<1> DEFINE ended == [files EXCEPT ![f] = done]
           waiting == Behind(ended, f)
           next == First(waiting)
           then == NextOf(ended, f)
           raised(x) == [x EXCEPT !.status = "uploading", !.behind = Alone]
           behind(x, b) == [x EXCEPT !.behind = b]
<1>1. /\ ended \in [Files -> File] /\ ended[f] = done
      /\ \A g \in Files \ {f} : ended[g] = files[g]
      /\ waiting \subseteq Files \ {f}
      /\ \A g \in Files : g \in waiting <=> g # f /\ files[g].status = "queued" /\ files[g].behind = f
    BY DEF Behind
<1>2. \A g \in Files :
        /\ g \notin waiting => then[g] = ended[g]
        /\ g \in waiting /\ g = next => then[g] = raised(ended[g])
        /\ g \in waiting /\ g # next => then[g] = behind(ended[g], next)
    BY DEF NextOf
<1>3. waiting # {} => next \in waiting
    BY <1>1, FirstFile
<1>4. \A x \in File :
        /\ raised(x) \in File /\ raised(x).status = "uploading" /\ raised(x).mine = x.mine
        /\ \A b \in Files : /\ behind(x, b) \in File /\ behind(x, b).status = x.status
                             /\ behind(x, b).behind = b /\ behind(x, b).mine = x.mine
    BY DEF File
<1>5. DOMAIN then = Files /\ then = [g \in Files |-> then[g]]
    BY DEF NextOf
<1> HIDE DEF ended, waiting, next, then, raised, behind
<1>6. \A g \in Files : then[g] \in File
    <2> TAKE g \in Files
    <2>1. next \in Files \/ g \notin waiting
        BY <1>1, <1>3
    <2>2. ended[g] \in File
        BY <1>1
    <2>3. then[g] \in {ended[g], raised(ended[g]), behind(ended[g], next)}
        BY <1>2
    <2>4. CASE g \in waiting
        <3>1. next \in Files
            BY <2>1, <2>4
        <3>2. raised(ended[g]) \in File /\ behind(ended[g], next) \in File
            BY <1>4, <2>2, <3>1, Zenon
        <3>3. QED
            BY <2>2, <2>3, <3>2
    <2>5. CASE g \notin waiting
        BY <1>2, <2>2, <2>5
    <2>6. QED
        BY <2>4, <2>5
<1>7. Queues(then)
    <2> SUFFICES ASSUME NEW g \in Files, then[g].status = "queued"
                 PROVE  /\ then[g].behind \in Files /\ then[then[g].behind].status = "uploading"
                        /\ then[then[g].behind].mine = then[g].mine
        BY DEF Queues
    <2>1. CASE g \in waiting
        <3>1. g # next /\ next \in waiting /\ next \in Files
            BY <1>1, <1>2, <1>3, <1>4, <2>1
        <3>2. then[g].behind = next /\ then[g].mine = files[g].mine
            <4>1. then[g] = behind(files[g], next) /\ files[g] \in File
                BY <1>1, <1>2, <2>1, <3>1
            <4>2. QED
                <5>1. behind(files[g], next).behind = next /\ behind(files[g], next).mine = files[g].mine
                    BY <1>4, <3>1, <4>1, Zenon
                <5>2. QED
                    BY <4>1, <5>1
        <3>3. then[next].status = "uploading" /\ then[next].mine = files[next].mine
            BY <1>1, <1>2, <1>4, <3>1
        <3>4. files[g].mine = files[f].mine /\ files[next].mine = files[f].mine
            BY <1>1, <2>1, <3>1 DEF Queues
        <3>5. QED
            BY <3>1, <3>2, <3>3, <3>4
    <2>2. CASE g \notin waiting
        <3>1. g # f /\ then[g] = files[g]
            BY <1>1, <1>2, <2>2
        <3>2. files[g].behind \in Files \ {f} /\ files[files[g].behind].status = "uploading"
              /\ files[files[g].behind].mine = files[g].mine
            BY <1>1, <2>2, <3>1 DEF Queues
        <3>3. then[files[g].behind] = files[files[g].behind]
            BY <1>1, <1>2, <3>2
        <3>4. QED
            BY <3>1, <3>2, <3>3
    <2>3. QED
        BY <2>1, <2>2
<1>8. then \in [Files -> File]
    BY <1>5, <1>6, Zenon
<1>9. QED
    BY <1>7, <1>8 DEF then, ended

\* Leaving lowers every flag and keeps every chain.
LEMMA LeftFacts ==
    ASSUME NEW a, AInv(a)
    PROVE  /\ AInv(Left(a)) /\ AInv(ArtGone(a))
           /\ \A f \in Files : Left(a).files[f] =
                 IF a.files[f].status \in {"queued", "uploading"} THEN Deserted(a.files[f]) ELSE NoFile
           /\ ArtGone(a).files = Left(a).files
<1> DEFINE loads == {[l EXCEPT !.mine = FALSE, !.signal = IF @ = "none" THEN @ ELSE "aborted"] : l \in a.loads}
           links == {Deserted(l) : l \in a.links}
           asks == {Deserted(c) : c \in a.asks}
           files == [f \in Files |-> IF a.files[f].status \in {"queued", "uploading"}
                                     THEN Deserted(a.files[f]) ELSE NoFile]
           u == [a EXCEPT !.onPage = FALSE, !.loading = FALSE, !.loadError = FALSE, !.starting = FALSE,
                          !.sampleStarted = FALSE, !.submittingLink = "none",
                          !.loads = loads, !.links = links, !.asks = asks, !.files = files]
<1>1. a \in ArtStates
    BY DEF AInv
<1>2. loads \in SUBSET [mine : BOOLEAN, signal : {"none", "live", "aborted"}, since : Counts]
    <2> SUFFICES ASSUME NEW l \in a.loads
                 PROVE  [l EXCEPT !.mine = FALSE, !.signal = IF @ = "none" THEN @ ELSE "aborted"]
                            \in [mine : BOOLEAN, signal : {"none", "live", "aborted"}, since : Counts]
        OBVIOUS
    <2>1. l \in [mine : BOOLEAN, signal : {"none", "live", "aborted"}, since : Counts]
        BY <1>1 DEF ArtStates
    <2>2. QED
        BY <2>1
<1>3. links \in SUBSET [tab : LinkTabs, mine : BOOLEAN]
    <2>1. \A l \in [tab : LinkTabs, mine : BOOLEAN] : Deserted(l) \in [tab : LinkTabs, mine : BOOLEAN]
        BY DEF Deserted
    <2>2. a.links \subseteq [tab : LinkTabs, mine : BOOLEAN]
        BY <1>1 DEF ArtStates
    <2>3. QED
        BY <2>1, <2>2
<1>4. asks \in SUBSET [kind : {"start", "sampleSubmit", "sampleStart"}, mine : BOOLEAN]
    <2> DEFINE Ask == [kind : {"start", "sampleSubmit", "sampleStart"}, mine : BOOLEAN]
    <2>1. \A c \in Ask : Deserted(c) \in Ask
        BY DEF Deserted
    <2>2. a.asks \subseteq Ask
        BY <1>1 DEF ArtStates
    <2>3. QED
        BY <2>1, <2>2
<1>5. files \in [Files -> File]
    BY <1>1, FileFacts DEF ArtStates
<1>6. Left(a) = u
    BY <1>1 DEF Left, ArtStates
<1>7. Queues(files)
    <2> SUFFICES ASSUME NEW f \in Files, files[f].status = "queued"
                 PROVE  /\ files[f].behind \in Files /\ files[files[f].behind].status = "uploading"
                        /\ files[files[f].behind].mine = files[f].mine
        BY DEF Queues
    <2>1. a.files \in [Files -> File]
        BY <1>1 DEF ArtStates
    <2>2. a.files[f].status = "queued" /\ files[f] = Deserted(a.files[f])
        BY <2>1, FileFacts DEF NoFile
    <2>3. /\ a.files[f].behind \in Files /\ a.files[a.files[f].behind].status = "uploading"
        BY <2>2 DEF AInv, Queues
    <2>4. files[a.files[f].behind] = Deserted(a.files[a.files[f].behind])
        BY <2>3
    <2>5. QED
        <3>1. a.files[f] \in File /\ a.files[a.files[f].behind] \in File
            BY <2>1, <2>3
        <3>2. files[f].behind = a.files[f].behind /\ files[f].mine = FALSE
            BY <2>2, <3>1, FileFacts
        <3>3. /\ files[a.files[f].behind].status = "uploading"
              /\ files[a.files[f].behind].mine = FALSE
            BY <2>3, <2>4, <3>1, FileFacts
        <3>4. QED
            BY <2>3, <3>2, <3>3
<1> HIDE DEF loads, links, asks, files
<1>8. u \in ArtStates /\ [u EXCEPT !.session = FALSE] \in ArtStates
    <2>1. u \in ArtStates
        BY <1>1, <1>2, <1>3, <1>4, <1>5, ZenonT(40) DEF ArtStates
    <2>2. \A v \in ArtStates : [v EXCEPT !.session = FALSE] \in ArtStates
        BY DEF ArtStates
    <2>3. QED
        BY <2>1, <2>2, Zenon
<1>9. u.files = files /\ ~u.loading /\ ~u.starting /\ u.submittingLink = "none"
    BY <1>1 DEF ArtStates
<1>10. LET v == [u EXCEPT !.session = FALSE]
       IN  v.files = files /\ ~v.loading /\ ~v.starting /\ v.submittingLink = "none"
    BY <1>1 DEF ArtStates
<1>11. ArtGone(a) = [u EXCEPT !.session = FALSE]
    BY <1>6 DEF ArtGone
<1>12. AInv(u) /\ AInv([u EXCEPT !.session = FALSE])
    BY <1>7, <1>8, <1>9, <1>10 DEF AInv, FlagsAwaited
<1>13. \A f \in Files : files[f] = IF a.files[f].status \in {"queued", "uploading"}
                                   THEN Deserted(a.files[f]) ELSE NoFile
    BY DEF files
<1> HIDE DEF u
<1>14. QED
    BY <1>6, <1>9, <1>10, <1>11, <1>12, <1>13

\* A mounted page waits for its first load.
LEMMA OpenedFacts ==
    ASSUME NEW a \in ArtStates, Queues(a.files)
    PROVE  AInv(Opened(a))
<1> DEFINE load == [mine |-> TRUE, signal |-> "live", since |-> a.accepted]
           u == [a EXCEPT !.onPage = TRUE, !.sampleStarted = FALSE, !.submittingLink = "none",
                          !.starting = FALSE, !.loading = TRUE, !.loadError = FALSE,
                          !.loads = @ \cup {load}]
<1>1. Opened(a) = u
    BY DEF Opened, fetchArtifacts, ArtStates
<1>2. load \in [mine : BOOLEAN, signal : {"none", "live", "aborted"}, since : Counts]
    BY DEF ArtStates
<1>3. u \in ArtStates /\ u.files = a.files /\ load \in u.loads /\ ~u.starting /\ u.submittingLink = "none"
    BY <1>2 DEF ArtStates
<1>4. load.mine /\ load.signal # "aborted"
    OBVIOUS
<1> HIDE DEF load, u
<1>5. QED
    BY <1>1, <1>3, <1>4 DEF AInv, FlagsAwaited

LEMMA AInvInit == ArtInit => AInv(art)
<1> SUFFICES ASSUME ArtInit PROVE AInv(art)
    OBVIOUS
<1>1. 0 \in Counts
    BY ArtifactsAssumption DEF Counts
<1>2. PICK sample \in BOOLEAN :
        art = Opened([onPage |-> FALSE, session |-> TRUE, sample |-> sample,
                      sampleStarted |-> FALSE, listed |-> 0, accepted |-> 0,
                      analysing |-> FALSE, loading |-> FALSE, loadError |-> FALSE,
                      starting |-> FALSE, loads |-> {},
                      files |-> [f \in Files |-> NoFile], submittingLink |-> "none",
                      links |-> {}, asks |-> {}])
    BY DEF ArtInit
<1>3. [onPage |-> FALSE, session |-> TRUE, sample |-> sample,
       sampleStarted |-> FALSE, listed |-> 0, accepted |-> 0,
       analysing |-> FALSE, loading |-> FALSE, loadError |-> FALSE,
       starting |-> FALSE, loads |-> {},
       files |-> [f \in Files |-> NoFile], submittingLink |-> "none",
       links |-> {}, asks |-> {}] \in ArtStates
    BY <1>1, FileFacts DEF ArtStates
<1>4. Queues([f \in Files |-> NoFile])
    BY DEF Queues, NoFile
<1>5. QED
    BY <1>2, <1>3, <1>4, OpenedFacts

\* What keeps the files, the calls and the flags keeps the invariant.
LEMMA CountFacts ==
    ASSUME NEW a, AInv(a)
    PROVE  /\ AInv(AddArtifact(a)) /\ AddArtifact(a).files = a.files
           /\ AddArtifact(a).accepted = a.accepted
           /\ AddArtifact(a).asks = a.asks
           /\ a.accepted < ArtifactMaxCount =>
                 AInv(Accept(a)) /\ Accept(a).files = a.files /\ Accept(a).asks = a.asks
           /\ \A n \in Counts : AInv([a EXCEPT !.listed = n])
           /\ \A error \in BOOLEAN : AInv([a EXCEPT !.loadError = error])
           /\ AInv([a EXCEPT !.analysing = TRUE])
<1>1. a \in ArtStates /\ a.listed \in Counts /\ a.accepted \in Counts
    BY DEF AInv, ArtStates
<1>2. /\ \A n \in Counts : n < ArtifactMaxCount => n + 1 \in Counts
    BY ArtifactsAssumption DEF Counts
<1>3. \A n \in Counts : AInv([a EXCEPT !.listed = n]) /\ [a EXCEPT !.listed = n].files = a.files
                        /\ [a EXCEPT !.listed = n].accepted = a.accepted
                        /\ [a EXCEPT !.listed = n].asks = a.asks
    BY <1>1 DEF AInv, ArtStates, FlagsAwaited
<1>4. \A n \in Counts : AInv([a EXCEPT !.accepted = n]) /\ [a EXCEPT !.accepted = n].files = a.files
                        /\ [a EXCEPT !.accepted = n].asks = a.asks
    BY <1>1 DEF AInv, ArtStates, FlagsAwaited
<1>5. \A error \in BOOLEAN : AInv([a EXCEPT !.loadError = error])
    BY <1>1 DEF AInv, ArtStates, FlagsAwaited
<1>6. AInv([a EXCEPT !.analysing = TRUE])
    BY <1>1 DEF AInv, ArtStates, FlagsAwaited
<1>7. AddArtifact(a) = [a EXCEPT !.listed = IF a.listed < ArtifactMaxCount THEN a.listed + 1 ELSE a.listed]
    BY DEF AddArtifact
<1>8. Accept(a) = [a EXCEPT !.accepted = a.accepted + 1]
    BY DEF Accept
<1>9. PICK n \in Counts : n = IF a.listed < ArtifactMaxCount THEN a.listed + 1 ELSE a.listed
    BY <1>1, <1>2
<1>10. /\ AInv(AddArtifact(a)) /\ AddArtifact(a).files = a.files
       /\ AddArtifact(a).accepted = a.accepted /\ AddArtifact(a).asks = a.asks
    BY <1>3, <1>7, <1>9
<1>11. a.accepted < ArtifactMaxCount =>
          AInv(Accept(a)) /\ Accept(a).files = a.files /\ Accept(a).asks = a.asks
    BY <1>1, <1>2, <1>4, <1>8
<1>12. QED
    BY <1>3, <1>5, <1>6, <1>10, <1>11

LEMMA EnterKeepsArt == ASSUME AInv(art), EnterArtifacts \/ LeaveArtifacts PROVE AInv(art')
BY OpenedFacts, LeftFacts DEF EnterArtifacts, LeaveArtifacts, AInv

\* The load that ends lowers the flag if it is the page's own and not aborted.
LEMMA FetchKeeps == ASSUME AInv(art), NEW l \in art.loads, FetchEnds(l) PROVE AInv(art')
<1> DEFINE a == [art EXCEPT !.loads = @ \ {l}, !.loading = @ /\ ~(l.mine /\ l.signal # "aborted")]
<1>1. art \in ArtStates /\ l \in [mine : BOOLEAN, signal : {"none", "live", "aborted"}, since : Counts]
    BY DEF AInv, ArtStates
<1>2. a \in ArtStates
    BY <1>1, ZenonT(90) DEF ArtStates
<1>3. /\ a.files = art.files /\ a.loads = art.loads \ {l} /\ a.starting = art.starting
      /\ a.asks = art.asks /\ a.links = art.links /\ a.submittingLink = art.submittingLink
      /\ a.loading => art.loading /\ ~(l.mine /\ l.signal # "aborted")
    BY <1>1 DEF ArtStates
<1>4. /\ \/ \E n \in l.since..art.accepted : art' = [a EXCEPT !.listed = n]
         \/ art' \in {[a EXCEPT !.loadError = a.loadError \/ l.mine], ArtGone(a), a}
    BY DEF FetchEnds
<1>5. a.loadError \/ l.mine \in BOOLEAN
    BY <1>1, <1>2 DEF ArtStates
<1> HIDE DEF a
<1>6. AInv(a)
    BY <1>2, <1>3 DEF AInv, FlagsAwaited
<1>7. \A n \in l.since..art.accepted : n \in Counts
    BY <1>1, ArtifactsAssumption DEF Counts, ArtStates
<1>8. /\ \A n \in Counts : AInv([a EXCEPT !.listed = n])
      /\ AInv([a EXCEPT !.loadError = a.loadError \/ l.mine]) /\ AInv(ArtGone(a))
    BY <1>5, <1>6, CountFacts, LeftFacts, Zenon
<1>9. QED
    BY <1>4, <1>6, <1>7, <1>8

LEMMA ReloadKeepsArt == ASSUME AInv(art), ReloadArtifacts PROVE AInv(art')
<1> DEFINE load == [mine |-> TRUE, signal |-> "none", since |-> art.accepted]
<1>1. art \in ArtStates
    BY DEF AInv
<1>2. art' = [art EXCEPT !.loading = TRUE, !.loadError = FALSE, !.loads = @ \cup {load}]
    BY DEF ReloadArtifacts, fetchArtifacts
<1>3. load \in [mine : BOOLEAN, signal : {"none", "live", "aborted"}, since : Counts]
    BY <1>1 DEF ArtStates
<1>4. /\ art' \in ArtStates /\ art'.files = art.files /\ load \in art'.loads
      /\ art'.starting = art.starting /\ art'.asks = art.asks
      /\ art'.links = art.links /\ art'.submittingLink = art.submittingLink
    BY <1>1, <1>2, <1>3 DEF ArtStates
<1>5. load.mine /\ load.signal # "aborted"
    OBVIOUS
<1> HIDE DEF load
<1>6. QED
    BY <1>4, <1>5 DEF AInv, FlagsAwaited

\* The files chosen form a chain behind its first file; no other file waited for them.
LEMMA ChooseKeeps == ASSUME AInv(art), NEW chosen \in SUBSET Files, onFiles(chosen) PROVE AInv(art')
<1> DEFINE head == [status |-> "uploading", behind |-> Alone, mine |-> TRUE]
           tail == [status |-> "queued", behind |-> First(chosen), mine |-> TRUE]
           files == [f \in Files |-> IF f \notin chosen THEN art.files[f]
                                     ELSE IF f = First(chosen) THEN head ELSE tail]
<1>1. art \in ArtStates /\ art.files \in [Files -> File] /\ Queues(art.files)
    BY DEF AInv, ArtStates
<1>2. First(chosen) \in chosen /\ \A f \in chosen : art.files[f].status = "none"
    BY FirstFile DEF onFiles
<1>3. head \in File /\ tail \in File
    BY <1>2 DEF File, Alone
<1>4. files \in [Files -> File]
    BY <1>1, <1>3
<1>5. Queues(files)
    <2> SUFFICES ASSUME NEW f \in Files, files[f].status = "queued"
                 PROVE  /\ files[f].behind \in Files /\ files[files[f].behind].status = "uploading"
                        /\ files[files[f].behind].mine = files[f].mine
        BY DEF Queues
    <2>1. CASE f \in chosen
        BY <1>2, <2>1
    <2>2. CASE f \notin chosen
        <3>1. /\ files[f] = art.files[f] /\ art.files[f].behind \in Files
              /\ art.files[art.files[f].behind].status = "uploading"
              /\ art.files[art.files[f].behind].mine = art.files[f].mine
            BY <1>1, <2>2 DEF Queues
        <3>2. art.files[f].behind \notin chosen
            BY <1>2, <3>1
        <3>3. QED
            BY <3>1, <3>2
    <2>3. QED
        BY <2>1, <2>2
<1>6. art' = [art EXCEPT !.files = files]
    BY DEF onFiles
<1> HIDE DEF files
<1>7. QED
    BY <1>1, <1>4, <1>5, <1>6 DEF AInv, ArtStates, FlagsAwaited

LEMMA RetryFileKeeps == ASSUME AInv(art), NEW f \in Files, retryFile(f) PROVE AInv(art')
<1> DEFINE up == [status |-> "uploading", behind |-> Alone, mine |-> TRUE]
           files == [art.files EXCEPT ![f] = up]
<1>1. art \in ArtStates /\ art.files \in [Files -> File] /\ Queues(art.files)
    BY DEF AInv, ArtStates
<1>2. art' = [art EXCEPT !.files = files] /\ art.files[f].status = "failed"
    BY <1>1 DEF retryFile, ArtStates
<1>3. up \in File
    BY DEF File, Alone
<1>4. files \in [Files -> File] /\ Queues(files)
    BY <1>1, <1>2, <1>3 DEF Queues
<1> HIDE DEF files
<1>5. QED
    BY <1>1, <1>2, <1>4 DEF AInv, ArtStates, FlagsAwaited

\* An upload ends, and the next of its chain goes up, or the chain ends.
LEMMA UploadedFacts ==
    ASSUME NEW a, AInv(a), NEW f \in Files, a.files[f].status = "uploading",
           NEW status \in {"success", "failed"}
    PROVE  AInv(Uploaded(a, f, status))
<1> DEFINE shown == [status |-> status, behind |-> Alone, mine |-> TRUE]
           done == IF a.files[f].mine THEN shown ELSE NoFile
           files == NextOf([a.files EXCEPT ![f] = done], f)
<1>1. a \in ArtStates /\ a.files \in [Files -> File] /\ Queues(a.files)
    BY DEF AInv, ArtStates
<1>2. done \in File /\ done.status # "queued"
    BY FileFacts DEF File, Alone, NoFile
<1>3. files \in [Files -> File] /\ Queues(files)
    BY <1>1, <1>2, NextFacts
<1>4. Uploaded(a, f, status) = [a EXCEPT !.files = files]
    BY <1>1 DEF Uploaded
<1> HIDE DEF files
<1>5. QED
    BY <1>1, <1>3, <1>4 DEF AInv, ArtStates, FlagsAwaited

LEMMA UploadKeeps == ASSUME AInv(art), NEW f \in Files, UploadEnds(f) PROVE AInv(art')
<1>1. art.files[f].status = "uploading" /\ art.files \in [Files -> File] /\ Queues(art.files)
    BY DEF UploadEnds, AInv, ArtStates
<1>2. CASE Room /\ art' = Uploaded(AddArtifact(Accept(art)), f, "success")
    <2>1. AInv(Accept(art)) /\ Accept(art).files = art.files
        BY <1>2, CountFacts DEF Room
    <2>2. AInv(AddArtifact(Accept(art))) /\ AddArtifact(Accept(art)).files = art.files
        BY <2>1, CountFacts
    <2>3. QED
        BY <1>1, <1>2, <2>2, UploadedFacts
<1>3. CASE art' = Uploaded(art, f, "failed")
    BY <1>1, <1>3, UploadedFacts
<1>4. CASE Room /\ art' = Uploaded(Accept(art), f, "failed")
    BY <1>1, <1>4, CountFacts, UploadedFacts DEF Room
<1>5. CASE art' = [ArtGone(art) EXCEPT
                      !.files = [g \in Files |-> IF g = f \/ g \in Behind(art.files, f)
                                                 THEN NoFile ELSE @[g]]]
    <2> DEFINE gone == ArtGone(art)
               files == [g \in Files |-> IF g = f \/ g \in Behind(art.files, f)
                                         THEN NoFile ELSE gone.files[g]]
    <2>1. AInv(gone) /\ \A g \in Files : gone.files[g] =
             IF art.files[g].status \in {"queued", "uploading"} THEN Deserted(art.files[g]) ELSE NoFile
        BY LeftFacts
    <2>2. gone \in ArtStates /\ gone.files \in [Files -> File] /\ Queues(gone.files)
        BY <2>1 DEF AInv, ArtStates
    <2>3. art' = [gone EXCEPT !.files = files]
        BY <1>5, <2>2 DEF ArtStates
    <2> HIDE DEF gone
    <2>4. files \in [Files -> File]
        BY <2>2, FileFacts
    <2>5. Queues(files)
        <3> SUFFICES ASSUME NEW g \in Files, files[g].status = "queued"
                     PROVE  /\ files[g].behind \in Files /\ files[files[g].behind].status = "uploading"
                            /\ files[files[g].behind].mine = files[g].mine
            BY DEF Queues
        <3>1. files[g] = gone.files[g] /\ g # f /\ g \notin Behind(art.files, f)
            BY DEF NoFile
        <3>2. /\ gone.files[g].behind \in Files /\ gone.files[gone.files[g].behind].status = "uploading"
              /\ gone.files[gone.files[g].behind].mine = gone.files[g].mine
            BY <2>2, <3>1 DEF Queues
        <3>3. gone.files[g].behind = art.files[g].behind /\ art.files[g].status = "queued"
            BY <1>1, <2>1, <3>1, FileFacts DEF NoFile
        <3>4. gone.files[g].behind # f
            BY <3>1, <3>3 DEF Behind
        <3>5. gone.files[g].behind \notin Behind(art.files, f)
            BY <1>1, <2>1, <3>2, FileFacts DEF Behind
        <3>6. files[gone.files[g].behind] = gone.files[gone.files[g].behind]
            BY <3>2, <3>4, <3>5
        <3>7. QED
            BY <3>1, <3>2, <3>6
    <2> HIDE DEF files
    <2>6. QED
        BY <2>1, <2>2, <2>3, <2>4, <2>5 DEF AInv, ArtStates, FlagsAwaited
<1>6. QED
    BY <1>2, <1>3, <1>4, <1>5 DEF UploadEnds

LEMMA SubmitUrlKeeps == ASSUME AInv(art), NEW tab \in LinkTabs, submitUrl(tab) PROVE AInv(art')
<1> DEFINE link == [tab |-> tab, mine |-> TRUE]
<1>1. art \in ArtStates /\ art' = [art EXCEPT !.submittingLink = tab, !.links = @ \cup {link}]
    BY DEF AInv, submitUrl
<1>2. link \in [tab : LinkTabs, mine : BOOLEAN]
    OBVIOUS
<1>3. /\ art' \in ArtStates /\ art'.files = art.files /\ art'.submittingLink = tab
      /\ art'.links = art.links \cup {link} /\ art'.loading = art.loading /\ art'.loads = art.loads
      /\ art'.starting = art.starting /\ art'.asks = art.asks
    BY <1>1, <1>2 DEF ArtStates
<1>4. QED
    BY <1>3 DEF AInv, FlagsAwaited

LEMMA LinkKeeps == ASSUME AInv(art), NEW l \in art.links, LinkEnds(l) PROVE AInv(art')
<1> DEFINE a == [art EXCEPT !.links = @ \ {l}, !.submittingLink = IF l.mine THEN "none" ELSE @]
<1>1. art \in ArtStates /\ l \in [tab : LinkTabs, mine : BOOLEAN]
    BY DEF AInv, ArtStates
<1>2. /\ a \in ArtStates /\ a.files = art.files /\ a.loading = art.loading /\ a.loads = art.loads
      /\ a.links = art.links \ {l} /\ a.starting = art.starting /\ a.asks = art.asks
      /\ a.accepted = art.accepted
      /\ a.submittingLink = IF l.mine THEN "none" ELSE art.submittingLink
    BY <1>1 DEF ArtStates
<1>3. \/ Room /\ art' \in {AddArtifact(Accept(a)), Accept(a)}
      \/ art' \in {a, ArtGone(a)}
    BY DEF LinkEnds
<1> HIDE DEF a
<1>4. AInv(a)
    BY <1>1, <1>2 DEF AInv, FlagsAwaited
<1>5. Room => AInv(Accept(a))
    BY <1>2, <1>4, CountFacts DEF Room
<1>6. Room => AInv(AddArtifact(Accept(a)))
    BY <1>5, CountFacts
<1>7. QED
    BY <1>3, <1>4, <1>5, <1>6, LeftFacts

LEMMA BeginKeeps == ASSUME AInv(art), beginAnalysis \/ SampleBegins PROVE AInv(art')
<1>1. art \in ArtStates
    BY DEF AInv
<1>2. CASE beginAnalysis
    <2> DEFINE ask == [kind |-> "start", mine |-> TRUE]
    <2>1. art' = [art EXCEPT !.starting = TRUE, !.asks = @ \cup {ask}]
        BY <1>1, <1>2 DEF beginAnalysis, AskServer, ArtStates
    <2>2. ask \in [kind : {"start", "sampleSubmit", "sampleStart"}, mine : BOOLEAN]
        OBVIOUS
    <2> HIDE DEF ask
    <2>3. /\ art' \in ArtStates /\ art'.files = art.files /\ art'.loading = art.loading
          /\ art'.loads = art.loads /\ art'.links = art.links
          /\ art'.submittingLink = art.submittingLink /\ ask \in art'.asks
        BY <1>1, <2>1, <2>2 DEF ArtStates
    <2>4. QED
        BY <2>3 DEF AInv, FlagsAwaited, ask
<1>3. CASE SampleBegins
    <2> DEFINE ask == [kind |-> "sampleSubmit", mine |-> TRUE]
    <2>1. art' = [art EXCEPT !.sampleStarted = TRUE, !.asks = @ \cup {ask}]
        BY <1>1, <1>3 DEF SampleBegins, AskServer, ArtStates
    <2>2. ask \in [kind : {"start", "sampleSubmit", "sampleStart"}, mine : BOOLEAN]
        OBVIOUS
    <2> HIDE DEF ask
    <2>3. /\ art' \in ArtStates /\ art'.files = art.files /\ art'.loading = art.loading
          /\ art'.loads = art.loads /\ art'.links = art.links /\ art'.starting = art.starting
          /\ art'.submittingLink = art.submittingLink /\ art.asks \subseteq art'.asks
        BY <1>1, <2>1, <2>2 DEF ArtStates
    <2>4. QED
        BY <2>3 DEF AInv, FlagsAwaited
<1>4. QED
    BY <1>2, <1>3

\* The start's own answer lowers its flag; the sample goes on from its submission to
\* its start.
LEMMA AskKeeps == ASSUME AInv(art), NEW c \in art.asks, AskEnds(c) PROVE AInv(art')
<1> DEFINE a == [art EXCEPT !.asks = @ \ {c}, !.starting = @ /\ ~(c.mine /\ c.kind = "start")]
           started == [a EXCEPT !.analysing = TRUE]
           next == [c EXCEPT !.kind = "sampleStart"]
           Ask == [kind : {"start", "sampleSubmit", "sampleStart"}, mine : BOOLEAN]
<1>1. art \in ArtStates /\ c \in Ask
    BY DEF AInv, ArtStates
<1>2. a \in ArtStates
    BY <1>1, ZenonT(90) DEF ArtStates
<1>10. /\ a.files = art.files /\ a.loading = art.loading /\ a.loads = art.loads
       /\ a.links = art.links /\ a.submittingLink = art.submittingLink
       /\ a.asks = art.asks \ {c} /\ a.accepted = art.accepted
       /\ a.starting => art.starting /\ ~(c.mine /\ c.kind = "start")
    BY <1>1 DEF ArtStates
<1>3. \/ Room /\ art' = [AddArtifact(Accept(a)) EXCEPT !.asks = @ \cup {next}]
      \/ art' \in {Left(started), started}
      \/ art' \in {a, ArtGone(a)}
    BY DEF AskEnds
<1>4. c.kind # "start" \/ ~c.mine <=> c # [kind |-> "start", mine |-> TRUE]
    BY <1>1
<1> HIDE DEF a
<1>5. AInv(a)
    BY <1>1, <1>2, <1>10, <1>4 DEF AInv, FlagsAwaited
<1>6. AInv(started)
    BY <1>5, CountFacts
<1>7. ASSUME Room PROVE AInv([AddArtifact(Accept(a)) EXCEPT !.asks = @ \cup {next}])
    <2> DEFINE u == AddArtifact(Accept(a))
    <2>1. AInv(Accept(a))
        BY <1>10, <1>5, <1>7, CountFacts DEF Room
    <2>2. AInv(u)
        BY <2>1, CountFacts
    <2>3. next \in Ask
        BY <1>1
    <2> HIDE DEF u, next
    <2>4. u \in ArtStates
        BY <2>2 DEF AInv
    <2>5. \A v \in ArtStates, x \in Ask :
             LET w == [v EXCEPT !.asks = @ \cup {x}]
             IN  /\ w \in ArtStates /\ w.files = v.files /\ w.loading = v.loading /\ w.loads = v.loads
                 /\ w.links = v.links /\ w.submittingLink = v.submittingLink
                 /\ w.starting = v.starting /\ v.asks \subseteq w.asks
        BY DEF ArtStates
    <2> DEFINE w == [u EXCEPT !.asks = @ \cup {next}]
    <2>6. /\ w \in ArtStates /\ w.files = u.files /\ w.loading = u.loading /\ w.loads = u.loads
          /\ w.links = u.links /\ w.submittingLink = u.submittingLink
          /\ w.starting = u.starting /\ u.asks \subseteq w.asks
        BY <2>3, <2>4, <2>5, Zenon
    <2> HIDE DEF w
    <2>7. AInv(w)
        BY <2>2, <2>6 DEF AInv, FlagsAwaited
    <2>8. QED
        BY <2>7 DEF w, u
<1>8. QED
    BY <1>3, <1>5, <1>6, <1>7, LeftFacts

LEMMA AInvNext == AInv(art) /\ [ArtNext]_art => AInv(art')
<1> SUFFICES ASSUME AInv(art), [ArtNext]_art PROVE AInv(art')
    OBVIOUS
<1>1. CASE EnterArtifacts \/ LeaveArtifacts
    BY <1>1, EnterKeepsArt
<1>2. CASE ReloadArtifacts
    BY <1>2, ReloadKeepsArt
<1>3. CASE beginAnalysis \/ SampleBegins
    BY <1>3, BeginKeeps
<1>4. CASE \E chosen \in SUBSET Files : onFiles(chosen)
    BY <1>4, ChooseKeeps
<1>5. CASE \E f \in Files : retryFile(f) \/ UploadEnds(f)
    BY <1>5, RetryFileKeeps, UploadKeeps
<1>6. CASE \E tab \in LinkTabs : submitUrl(tab)
    BY <1>6, SubmitUrlKeeps
<1>7. CASE \E l \in art.loads : FetchEnds(l)
    BY <1>7, FetchKeeps
<1>8. CASE \E l \in art.links : LinkEnds(l)
    BY <1>8, LinkKeeps
<1>9. CASE \E c \in art.asks : AskEnds(c)
    BY <1>9, AskKeeps
<1>10. CASE UNCHANGED art
    BY <1>10
<1>11. QED
    BY <1>1, <1>2, <1>3, <1>4, <1>5, <1>6, <1>7, <1>8, <1>9, <1>10, Zenon DEF ArtNext, ArtProgress

SubmissionInv == AInv(art)

\* ArtifactsPage.tsx: however its loads, chains of uploads and calls overlap with
\* leaving, opening and reloading the page, every step keeps the invariant.
THEOREM SubmissionInvariance == ArtSpec => []SubmissionInv
<1>1. ArtInit => SubmissionInv
    BY AInvInit DEF SubmissionInv
<1>2. SubmissionInv /\ [ArtNext]_art => SubmissionInv'
    BY AInvNext DEF SubmissionInv
<1>3. QED
    BY <1>1, <1>2, PTL DEF ArtSpec

\* ArtifactsPage.tsx: the page, its files and its calls keep their types, for any number
\* of files: the server holds no more artifacts than its limit, nor does the page list more.
THEOREM ArtTypeCorrect == ArtSpec => []ArtTypeOK
<1>1. SubmissionInv => ArtTypeOK
    BY DEF SubmissionInv, AInv, ArtStates, ArtTypeOK
<1>2. QED
    BY <1>1, SubmissionInvariance, PTL

\* A queued file has one of its own chain going up before it, and the page's flags are
\* up only while the call that lowers them is on its way.
SubmissionAwaited == Queues(art.files) /\ FlagsAwaited(art)

\* submitValidFiles and the other handlers of the submission page leave no file queued
\* behind an upload that is over and no button waiting for a call that has ended.
THEOREM SubmissionsAreAwaited == ArtSpec => []SubmissionAwaited
<1>1. SubmissionInv => SubmissionAwaited
    BY DEF SubmissionInv, AInv, SubmissionAwaited
<1>2. QED
    BY <1>1, SubmissionInvariance, PTL

-----------------------------------------------------------------------------
(* The report page *)

RepStates ==
    [onPage : BOOLEAN, session : BOOLEAN, panels : [Panels -> PanelState],
     held : SUBSET Panels, loadings : SUBSET Loadings]

\* A panel that turns its spinner waits for a loading of the page that will fill it.
PanelAwaited(r, p) ==
    r.panels[p] = "loading" => \E l \in r.loadings : l.mine /\ l.kind \in {"all", p}

\* Only what a page that is left began can be aborted.
OwnNotAborted(r) == \A l \in r.loadings : l.mine => l.signal # "aborted"

RepInv(r) == r \in RepStates /\ OwnNotAborted(r) /\ \A p \in Panels : PanelAwaited(r, p)

LEMMA LoadingFacts ==
    ASSUME NEW r, RepInv(r), NEW kind \in {"all", "charts", "artifacts"},
           NEW signal \in {"none", "live"}
    PROVE  RepInv(Loading(r, kind, signal))
<1> DEFINE load == [kind |-> kind, mine |-> TRUE, signal |-> signal]
           panels == [p \in Panels |-> IF kind \in {"all", p} THEN "loading" ELSE r.panels[p]]
           u == [r EXCEPT !.loadings = @ \cup {load}, !.panels = panels]
<1>1. r \in RepStates /\ load \in Loadings
    BY DEF RepInv, Loadings
<1>2. panels \in [Panels -> PanelState]
    BY <1>1 DEF RepStates, PanelState
<1>3. Loading(r, kind, signal) = u
    BY <1>1 DEF Loading, RepStates
<1>4. \A p \in Panels : panels[p] = "loading" => kind \in {"all", p} \/ r.panels[p] = "loading"
    OBVIOUS
<1>5. load.mine /\ load.kind = kind /\ load.signal # "aborted"
    OBVIOUS
<1> HIDE DEF load, panels
<1>6. u \in RepStates /\ u.panels = panels /\ u.loadings = r.loadings \cup {load}
    BY <1>1, <1>2 DEF RepStates
<1> HIDE DEF u
<1>7. OwnNotAborted(u)
    BY <1>5, <1>6 DEF RepInv, OwnNotAborted
<1>8. ASSUME NEW p \in Panels PROVE PanelAwaited(u, p)
    BY <1>4, <1>5, <1>6 DEF RepInv, PanelAwaited
<1>9. QED
    BY <1>3, <1>6, <1>7, <1>8 DEF RepInv

LEMMA MountFacts ==
    ASSUME NEW r, RepInv(r)
    PROVE  RepInv(Mount(r))
<1> DEFINE u == [r EXCEPT !.onPage = TRUE]
<1>1. RepInv(u)
    BY DEF RepInv, RepStates, OwnNotAborted, PanelAwaited
<1> HIDE DEF u
<1>2. RepInv(Loading(u, "all", "live"))
    BY <1>1, LoadingFacts
<1>3. QED
    BY <1>2 DEF Mount, loadAll, u

LEMMA UnmountFacts ==
    ASSUME NEW r, RepInv(r)
    PROVE  RepInv(UnmountReport(r)) /\ RepInv([UnmountReport(r) EXCEPT !.session = FALSE])
<1> DEFINE left(l) == [l EXCEPT !.mine = FALSE, !.signal = IF @ = "none" THEN @ ELSE "aborted"]
           loadings == {left(l) : l \in r.loadings}
           panels == [p \in Panels |-> "idle"]
           u == [r EXCEPT !.onPage = FALSE, !.panels = panels, !.loadings = loadings]
<1>1. r \in RepStates /\ r.loadings \subseteq Loadings
    BY DEF RepInv, RepStates
<1>2. \A l \in Loadings : left(l) \in Loadings /\ left(l).mine = FALSE
    BY DEF Loadings
<1>3. UnmountReport(r) = u
    BY DEF UnmountReport
<1> HIDE DEF left
<1>4. loadings \subseteq Loadings /\ \A l \in loadings : l.mine = FALSE
    BY <1>1, <1>2
<1>5. panels \in [Panels -> PanelState] /\ \A p \in Panels : panels[p] # "loading"
    BY DEF PanelState
<1> HIDE DEF loadings, panels
<1>6. u \in RepStates /\ u.panels = panels /\ u.loadings = loadings
    BY <1>1, <1>4, <1>5 DEF RepStates
<1> HIDE DEF u
<1>7. LET v == [u EXCEPT !.session = FALSE]
      IN  v \in RepStates /\ v.panels = panels /\ v.loadings = loadings
    BY <1>6 DEF RepStates
<1>8. QED
    BY <1>3, <1>4, <1>5, <1>6, <1>7 DEF RepInv, OwnNotAborted, PanelAwaited

LEMMA RepInvInit == ReportInit => RepInv(rep)
<1> DEFINE r == [onPage |-> FALSE, session |-> TRUE, panels |-> [p \in Panels |-> "idle"],
                 held |-> {}, loadings |-> {}]
<1>1. RepInv(r)
    BY DEF RepInv, RepStates, PanelState, OwnNotAborted, PanelAwaited
<1> HIDE DEF r
<1>2. RepInv(Mount(r))
    BY <1>1, MountFacts
<1>3. QED
    BY <1>2 DEF ReportInit, r

\* Settled together: every panel of the loading is filled, unless it was aborted.
LEMMA SettledKeeps == ASSUME RepInv(rep), NEW l \in rep.loadings, Settled(l) PROVE RepInv(rep')
<1> DEFINE asked == IF l.kind = "all" THEN Panels ELSE {l.kind}
           r == [rep EXCEPT !.loadings = @ \ {l}]
<1>1. rep \in RepStates /\ l \in Loadings
    BY DEF RepInv, RepStates
<1>2. PICK result \in [asked -> Results(l)] :
         \/ rep' = Show(r, l, result)
         \/ rep' = [UnmountReport(Show(r, l, result)) EXCEPT !.session = FALSE]
    BY DEF Settled
<1> DEFINE panels == [p \in Panels |-> IF l.mine /\ p \in DOMAIN result /\ result[p] # "aborted"
                                       THEN result[p] ELSE rep.panels[p]]
           held == rep.held \cup {p \in DOMAIN result : result[p] = "ready"}
           u == [rep EXCEPT !.loadings = @ \ {l}, !.held = held, !.panels = panels]
<1>3. asked \subseteq Panels /\ DOMAIN result = asked
    BY <1>1 DEF Panels, Loadings
<1>4. \A p \in asked : result[p] \in {"ready", "error", "aborted"}
    BY DEF Results
<1>5. l.mine => \A p \in asked : result[p] # "aborted"
    BY DEF RepInv, OwnNotAborted, Results
<1>6. panels \in [Panels -> PanelState] /\ held \subseteq Panels
    BY <1>1, <1>3, <1>4 DEF RepStates, PanelState
<1>7. \A p \in Panels : panels[p] = "loading" => rep.panels[p] = "loading" /\ ~(l.mine /\ p \in asked)
    BY <1>3, <1>4, <1>5
<1>8. Show(r, l, result) = u
    BY <1>1 DEF Show, RepStates
<1> HIDE DEF panels, held
<1>9. u \in RepStates /\ u.panels = panels /\ u.loadings = rep.loadings \ {l}
    BY <1>1, <1>6 DEF RepStates
<1> HIDE DEF u
<1>10. OwnNotAborted(u)
    BY <1>9 DEF RepInv, OwnNotAborted
<1>11. ASSUME NEW p \in Panels PROVE PanelAwaited(u, p)
    <2> SUFFICES ASSUME u.panels[p] = "loading"
                 PROVE  \E k \in u.loadings : k.mine /\ k.kind \in {"all", p}
        BY DEF PanelAwaited
    <2>1. rep.panels[p] = "loading" /\ ~(l.mine /\ p \in asked)
        BY <1>7, <1>9
    <2>2. PICK k \in rep.loadings : k.mine /\ k.kind \in {"all", p}
        BY <2>1 DEF RepInv, PanelAwaited
    <2>3. k # l
        BY <2>1, <2>2
    <2>4. QED
        BY <1>9, <2>2, <2>3
<1>12. RepInv(u)
    BY <1>9, <1>10, <1>11 DEF RepInv
<1>13. QED
    BY <1>2, <1>8, <1>12, UnmountFacts

LEMMA RepInvNext == RepInv(rep) /\ [ReportNext]_rep => RepInv(rep')
<1> SUFFICES ASSUME RepInv(rep), [ReportNext]_rep PROVE RepInv(rep')
    OBVIOUS
<1>1. CASE EnterReport
    BY <1>1, MountFacts DEF EnterReport
<1>2. CASE LeaveReport
    BY <1>2, UnmountFacts DEF LeaveReport
<1>3. CASE retryReport
    BY <1>3, LoadingFacts DEF retryReport, loadAll
<1>4. CASE \E p \in Panels : retryPanel(p)
    <2>1. PICK p \in {"charts", "artifacts"} : rep' = Loading(rep, p, "none")
        BY <1>4 DEF retryPanel, Panels
    <2>2. QED
        BY <2>1, LoadingFacts
<1>5. CASE \E l \in rep.loadings : Settled(l)
    BY <1>5, SettledKeeps
<1>6. CASE UNCHANGED rep
    BY <1>6
<1>7. QED
    BY <1>1, <1>2, <1>3, <1>4, <1>5, <1>6 DEF ReportNext, ReportProgress

ReportInv == RepInv(rep)

\* ReportPage.tsx: mounting, leaving, retrying a panel and every answer, of this visit
\* or of an earlier one, keep the invariant.
THEOREM ReportInvariance == ReportSpec => []ReportInv
<1>1. ReportInit => ReportInv
    BY RepInvInit DEF ReportInv
<1>2. ReportInv /\ [ReportNext]_rep => ReportInv'
    BY RepInvNext DEF ReportInv
<1>3. QED
    BY <1>1, <1>2, PTL DEF ReportSpec

\* ReportPage.tsx: the panels and the loadings keep their types.
THEOREM ReportTypeCorrect == ReportSpec => []ReportTypeOK
<1>1. ReportInv => ReportTypeOK
    BY DEF ReportInv, RepInv, RepStates, ReportTypeOK
<1>2. QED
    BY <1>1, ReportInvariance, PTL

\* While a panel turns its spinner, a loading of this page that fills it is on its way.
PanelsAwaited == \A p \in Panels : PanelAwaited(rep, p)

\* loadAll, loadCharts and loadArtifacts: the loadings of an earlier visit take nothing
\* from the panels of this one, so none of them waits for a loading that is over.
THEOREM PanelsAreAwaited == ReportSpec => []PanelsAwaited
<1>1. ReportInv => PanelsAwaited
    BY DEF ReportInv, RepInv, PanelsAwaited
<1>2. QED
    BY <1>1, ReportInvariance, PTL

-----------------------------------------------------------------------------
(* What the pages compute *)

\* clampConfuseThreshold: whatever number the slider reports, the threshold sent is one
\* of its steps, the nearest to what was chosen, and choosing it again changes nothing.
THEOREM ThresholdAlwaysOnSlider ==
    ASSUME NEW value \in Int
    PROVE  LET sent == clampConfuseThreshold(value) IN
           /\ sent \in 0..THRESHOLD_MAX /\ sent % THRESHOLD_STEP = 0
           /\ value \in 0..THRESHOLD_MAX => 2 * (sent - value) \in (-THRESHOLD_STEP)..THRESHOLD_STEP
           /\ clampConfuseThreshold(sent) = sent
<1> DEFINE Nearest(v) == ((2 * v + 5) \div 10) * 5
           clamped == CASE value < 0 -> 0 [] value > 100 -> 100 [] OTHER -> value
<1>1. clamped \in 0..100 /\ (value \in 0..100 => clamped = value)
    OBVIOUS
<1>2. \A v \in 0..100 : /\ Nearest(v) \in 0..100 /\ Nearest(v) % 5 = 0
                        /\ 2 * (Nearest(v) - v) \in (-5)..5
    OBVIOUS
<1>3. \A v \in 0..100 : v % 5 = 0 => Nearest(v) = v
    OBVIOUS
<1>4. \A v \in 0..100 : clampConfuseThreshold(v) = Nearest(v)
    BY DEF clampConfuseThreshold, THRESHOLD_MAX, THRESHOLD_STEP
<1>5. clampConfuseThreshold(value) = Nearest(clamped)
    BY DEF clampConfuseThreshold, THRESHOLD_MAX, THRESHOLD_STEP
<1> HIDE DEF Nearest, clamped
<1>6. QED
    BY <1>1, <1>2, <1>3, <1>4, <1>5 DEF THRESHOLD_MAX, THRESHOLD_STEP

\* Of the numbers of a set of positions, one is the first.
LEMMA FirstOfSome ==
    ASSUME NEW S \in SUBSET Nat, S # {}
    PROVE  \E i \in S : \A j \in S : i <= j
<1>1. PICK m \in S : \A n \in S : <<n, m>> \notin OpToRel(<, Nat)
    <2>1. S \subseteq Nat
        OBVIOUS
    <2>2. QED
        BY <2>1, WFMin, NatLessThanWellFounded, Zenon
<1>2. \A n \in S : ~(n < m)
    <2>1. \A n \in S : <<n, m>> \in Nat \X Nat
        OBVIOUS
    <2>2. QED
        BY <1>1, <2>1 DEF OpToRel
<1>3. QED
    BY <1>2

\* reportStore.ts: a footnote selects a finding that names its block, or changes
\* nothing; the card of the selected finding takes the selection back.
THEOREM SelectionAlwaysNamesBlock ==
    ASSUME NEW Blocks, NEW findings \in Seq(SUBSET Blocks), NEW block \in Blocks,
           NEW selected \in 0..Len(findings)
    PROVE  LET chosen == selectByFootnote(findings, block, selected) IN
           /\ chosen \in 0..Len(findings)
           /\ chosen # selected => block \in findings[chosen]
           /\ chosen # 0 => selectByCard(chosen, chosen) = 0
<1> DEFINE named == {i \in DOMAIN findings : block \in findings[i]}
<1>1. named \in SUBSET Nat /\ named \subseteq 1..Len(findings)
    OBVIOUS
<1>2. CASE named = {}
    BY <1>2 DEF selectByFootnote, selectByCard
<1>3. CASE named # {}
    <2> DEFINE chosen == CHOOSE i \in named : \A j \in named : i <= j
    <2>1. \E i \in named : \A j \in named : i <= j
        <3> HIDE DEF named
        <3>1. QED
            BY <1>1, <1>3, FirstOfSome
    <2>2. chosen \in named
        <3> HIDE DEF named
        <3>1. QED
            BY <2>1
    <2>3. selectByFootnote(findings, block, selected) = chosen
        BY <1>3 DEF selectByFootnote
    <2> HIDE DEF chosen
    <2>4. QED
        BY <1>1, <2>2, <2>3 DEF selectByCard
<1>4. QED
    BY <1>2, <1>3

\* reportStore.ts: the footnotes number the blocks from 1, each number once, in the
\* order of the numbers in their ids, for any number of blocks.
THEOREM FootnotesAlwaysInOrder ==
    ASSUME NEW seqs \in Seq(Int)
    PROVE  LET notes == deriveFootnotes(seqs) IN
           /\ \A n \in 1..Len(seqs) : \E i \in DOMAIN seqs : notes[i] = n
           /\ \A i, j \in DOMAIN seqs :
                 /\ notes[i] \in 1..Len(seqs)
                 /\ seqs[i] < seqs[j] => notes[i] < notes[j]
                 /\ notes[i] = notes[j] => i = j
<1> DEFINE D == 1..Len(seqs)
           Before(i) == {j \in D : seqs[j] < seqs[i] \/ (seqs[j] = seqs[i] /\ j < i)}
           notes == deriveFootnotes(seqs)
<1>1. /\ DOMAIN seqs = D /\ Len(seqs) \in Nat /\ \A i \in D : seqs[i] \in Int /\ i \in Int
      /\ IsFiniteSet(D) /\ Cardinality(D) = Len(seqs)
    <2>1. Len(seqs) \in Nat
        OBVIOUS
    <2>2. IsFiniteSet(D) /\ Cardinality(D) = IF 1 > Len(seqs) THEN 0 ELSE Len(seqs) - 1 + 1
        BY <2>1, FS_Interval, SMTT(30)
    <2>3. QED
        BY <2>1, <2>2
<1>2. ASSUME NEW i \in D PROVE notes[i] = 1 + Cardinality(Before(i))
    BY <1>1 DEF deriveFootnotes
<1>3. ASSUME NEW i \in D
      PROVE  /\ IsFiniteSet(Before(i)) /\ Cardinality(Before(i)) \in Nat
             /\ Cardinality(Before(i)) + 1 <= Len(seqs)
    <2>1. Before(i) \in SUBSET (D \ {i})
        BY <1>1
    <2>2. IsFiniteSet(D \ {i}) /\ Cardinality(D \ {i}) = Len(seqs) - 1
        <3> HIDE DEF D
        <3>1. QED
            BY <1>1, FS_RemoveElement, ZenonT(40)
    <2> HIDE DEF Before
    <2>3. IsFiniteSet(Before(i)) /\ Cardinality(Before(i)) <= Len(seqs) - 1
        BY <2>1, <2>2, FS_Subset
    <2>4. QED
        BY <1>1, <2>3, FS_CardinalityType
<1>4. ASSUME NEW i \in D, NEW j \in D, i \in Before(j)
      PROVE  Cardinality(Before(i)) < Cardinality(Before(j))
    <2>1. Before(i) \cup {i} \in SUBSET Before(j) /\ i \notin Before(i)
        BY <1>1, <1>4
    <2> HIDE DEF Before
    <2>2. Cardinality(Before(i) \cup {i}) = Cardinality(Before(i)) + 1
        BY <1>3, <2>1, FS_AddElement
    <2>3. Cardinality(Before(i) \cup {i}) <= Cardinality(Before(j))
        BY <1>3, <2>1, FS_Subset
    <2>4. QED
        BY <1>3, <2>2, <2>3
<1>5. \A i, j \in D : /\ seqs[i] < seqs[j] => i \in Before(j)
                      /\ i # j => i \in Before(j) \/ j \in Before(i)
    BY <1>1
<1> HIDE DEF Before, notes
<1>6. \A i \in D : notes[i] \in D
    BY <1>1, <1>2, <1>3
<1>7. \A i, j \in D : i \in Before(j) => notes[i] < notes[j]
    BY <1>2, <1>3, <1>4
<1>8. \A i, j \in D : notes[i] = notes[j] => i = j
    <2> SUFFICES ASSUME NEW i \in D, NEW j \in D, i # j PROVE notes[i] # notes[j]
        OBVIOUS
    <2>1. i \in Before(j) \/ j \in Before(i)
        BY <1>5
    <2>2. notes[i] < notes[j] \/ notes[j] < notes[i]
        BY <1>7, <2>1
    <2>3. notes[i] \in Int /\ notes[j] \in Int
        BY <1>6
    <2>4. QED
        BY <2>2, <2>3
<1>9. \A n \in D : \E i \in D : notes[i] = n
    <2> DEFINE f == [i \in D |-> notes[i]]
    <2>1. f \in Injection(D, D)
        BY <1>6, <1>8 DEF Injection, IsInjective
    <2>2. f \in Surjection(D, D)
        <3> HIDE DEF D, f
        <3>1. QED
            BY <1>1, <2>1, FS_Injection
    <2>3. \A n \in D : \E i \in D : f[i] = n
        BY <2>2 DEF Surjection
    <2>4. QED
        BY <2>3
<1>10. QED
    BY <1>1, <1>5, <1>6, <1>7, <1>8, <1>9 DEF notes

-----------------------------------------------------------------------------
\* Of the columns that share a header, one is the last.
LastNamed(headers, h) ==
    CHOOSE i \in 2..Len(headers) : /\ headers[i] = h
                                  /\ \A j \in (i + 1)..Len(headers) : headers[j] # h
LEMMA LastColumn ==
    ASSUME NEW Words, NEW headers \in Seq(Words), NEW h, \E i \in 2..Len(headers) : headers[i] = h
    PROVE  LastNamed(headers, h) \in 2..Len(headers) /\ headers[LastNamed(headers, h)] = h
<1> DEFINE n == Len(headers)
           S == {k \in 0..n : \E i \in 2..n : headers[i] = h /\ k = n - i}
<1>1. S \in SUBSET Nat /\ S # {}
    <2>1. PICK i \in 2..n : headers[i] = h
        OBVIOUS
    <2>2. n - i \in 0..n
        OBVIOUS
    <2>3. n - i \in S
        BY <2>1, <2>2
    <2>4. S \subseteq Nat
        OBVIOUS
    <2> HIDE DEF S
    <2>5. QED
        BY <2>3, <2>4
<1> HIDE DEF S
<1>2. PICK k \in S : \A m \in S : k <= m
    BY <1>1, FirstOfSome
<1>3. PICK i \in 2..n : headers[i] = h /\ k = n - i
    BY <1>2 DEF S
<1>4. \A j \in (i + 1)..n : headers[j] # h
    <2> SUFFICES ASSUME NEW j \in (i + 1)..n, headers[j] = h PROVE FALSE
        OBVIOUS
    <2>1. n - j \in S /\ n - j < n - i
        BY DEF S
    <2>2. QED
        BY <1>2, <1>3, <2>1
<1>5. QED
    BY <1>3, <1>4 DEF LastNamed

\* csv.ts: what is drawn as a chart has a number for every series in every row, though
\* the kind of the chart and its data are computed apart; one row of one series is a
\* metric, and what is not a number is shown as a table.  For every table.
THEOREM ChartsAlwaysHaveNumbers ==
    ASSUME NEW Words, NEW headers \in Seq(Words),
           NEW rows \in Seq(Seq({"number", "text", "blank"})),
           NEW timeLike \in BOOLEAN, NEW themeLike \in BOOLEAN
    PROVE  LET parsed == [headers |-> headers, rows |-> rows]
               data == toChartData(parsed)
               type == inferChartType(parsed, timeLike, themeLike)
               numeric == \A r \in DOMAIN data : \A h \in {headers[i] : i \in 2..Len(headers)} :
                             data[r][h] = "number"
           IN  /\ type # "table" => numeric
               /\ Len(headers) = 2 /\ rows # <<>> /\ numeric =>
                    (type = "metric" <=> Len(rows) = 1) /\ type # "table"
<1> DEFINE parsed == [headers |-> headers, rows |-> rows]
           data == toChartData(parsed)
           type == inferChartType(parsed, timeLike, themeLike)
           series == {headers[i] : i \in 2..Len(headers)}
           numeric == \A r \in DOMAIN data : \A h \in series : data[r][h] = "number"
<1>1. /\ DOMAIN data = DOMAIN rows
      /\ \A r \in DOMAIN rows, h \in series : data[r][h] = Cell(rows[r], LastNamed(headers, h))
    BY DEF toChartData, LastNamed
<1>2. \A h \in series : LastNamed(headers, h) \in 2..Len(headers) /\ headers[LastNamed(headers, h)] = h
    <2> SUFFICES ASSUME NEW h \in series
                 PROVE  LastNamed(headers, h) \in 2..Len(headers) /\ headers[LastNamed(headers, h)] = h
        OBVIOUS
    <2>1. \E i \in 2..Len(headers) : headers[i] = h
        OBVIOUS
    <2>2. QED
        BY <2>1, LastColumn
<1>3. type # "table" =>
          /\ Len(headers) >= 2 /\ rows # <<>>
          /\ \A i \in 2..Len(headers) : isNumericColumn(rows, i)
    BY DEF inferChartType
<1>4. type = "metric" => Len(rows) = 1
    BY DEF inferChartType
<1>5. /\ Len(headers) >= 2 /\ rows # <<>>
      /\ \A i \in 2..Len(headers) : isNumericColumn(rows, i)
      => type # "table" /\ (Len(rows) = 1 /\ Len(headers) = 2 => type = "metric")
    BY DEF inferChartType
<1>6. Len(headers) = 2 => headers[2] \in series
    OBVIOUS
<1> HIDE DEF parsed, data, type, series
<1>7. numeric <=> \A r \in DOMAIN rows, h \in series : Cell(rows[r], LastNamed(headers, h)) = "number"
    BY <1>1
<1>8. ASSUME type # "table" PROVE numeric
    <2> SUFFICES ASSUME NEW r \in DOMAIN rows, NEW h \in series
                 PROVE  Cell(rows[r], LastNamed(headers, h)) = "number"
        BY <1>7
    <2>1. isNumericColumn(rows, LastNamed(headers, h))
        BY <1>2, <1>3, <1>8
    <2>2. QED
        BY <2>1 DEF isNumericColumn
<1>9. ASSUME Len(headers) = 2, rows # <<>>, numeric
      PROVE  (type = "metric" <=> Len(rows) = 1) /\ type # "table"
    <2>1. headers[2] \in series
        BY <1>6, <1>9
    <2>2. LastNamed(headers, headers[2]) = 2
        BY <1>2, <1>9, <2>1
    <2>3. \A r \in DOMAIN rows : Cell(rows[r], 2) = "number"
        BY <1>7, <1>9, <2>1, <2>2
    <2>4. isNumericColumn(rows, 2)
        BY <1>9, <2>3 DEF isNumericColumn
    <2>5. \A i \in 2..Len(headers) : isNumericColumn(rows, i)
        BY <1>9, <2>4
    <2>6. QED
        BY <1>4, <1>5, <1>9, <2>5
<1>10. QED
    BY <1>8, <1>9 DEF parsed, data, type, series
=============================================================================
