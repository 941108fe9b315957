---------------------------- MODULE BrowserProofs ----------------------------
(***************************************************************************)
(* Proofs that the browser keeps its visitor on the way: no circle of      *)
(* redirects, no home page without a session, an error or a creation, and  *)
(* a backend in the browser that moves a session as the real one does.     *)
(***************************************************************************)
EXTENDS ClientRouting, HomeSession, MockBackend, SequenceTheorems, FiniteSetTheorems, TLAPS

-----------------------------------------------------------------------------
(* Routing *)

BrowserStates ==
    [store : Store({0, 1}), page : Routes, bootstrapped : BOOLEAN,
     bootPath : Routes, asks : SUBSET Kinds]
BrowserTypeOK == browser \in BrowserStates

LEMMA RouteIsRoute ==
    ASSUME NEW appStatus \in AppStatuses, NEW job \in BOOLEAN
    PROVE  routeForAppStatus(appStatus, job) \in Routes
BY DEF routeForAppStatus, AppStatuses, Routes

LEMMA RedirectIsRoute ==
    ASSUME NEW store \in Store({0, 1}), NEW p \in Routes
    PROVE  redirect(store, p) \in Routes
<1>1. store.appStatus \in AppStatuses /\ store.activeJobId \in BOOLEAN
    BY DEF Store
<1>2. routeForAppStatus(store.appStatus, store.activeJobId) \in Routes
    BY <1>1, RouteIsRoute
<1>3. QED
    BY <1>2 DEF redirect, Routes

\* What the server said is what the pages show, or nothing was said, for a store
\* of any type: the two redirects of a page are enough whether they agree or not.
LEMMA TwoRedirects ==
    ASSUME NEW store \in Store({0, 1}), NEW p \in Routes
    PROVE  LET settled == redirect(store, redirect(store, p))
           IN  redirect(store, settled) = settled
<1>1. /\ store.appStatus \in AppStatuses /\ store.activeJobId \in BOOLEAN
      /\ store.serverStatus \in ServerStatuses \cup {"none"}
    BY DEF Store
<1>2. CASE store.sessionId = 0
    BY <1>2 DEF redirect, Routes
<1>3. CASE store.sessionId # 0
    <2> DEFINE route == routeForAppStatus(store.appStatus, store.activeJobId)
    <2>1. route \in Routes
        BY <1>1, RouteIsRoute
    <2>2. \A q \in {"home", "analysis", "expired"} : redirect(store, q) = q
        BY <1>3 DEF redirect
    <2>3. redirect(store, "interview") \in {"interview", route}
        BY <1>3 DEF redirect
    <2>4. redirect(store, "report") \in {"report", route}
        BY <1>3 DEF redirect
    <2>5. route = "interview" => redirect(store, "interview") = "interview"
        BY <1>3 DEF redirect
    <2>6. route = "report" => redirect(store, "report") = "report"
        BY <1>3 DEF redirect
    <2>7. redirect(store, "artifacts") \in {"artifacts", "analysis", "report", route}
        BY <1>3 DEF redirect
    <2>8. redirect(store, "artifacts") = "report" => \/ redirect(store, "report") = "report"
                                                    \/ route = "report"
        BY <1>3 DEF redirect
    <2> HIDE DEF route
    <2>9. QED
        BY <2>1, <2>2, <2>3, <2>4, <2>5, <2>6, <2>7, <2>8 DEF Routes
<1>4. QED
    BY <1>2, <1>3

LEMMA StoreSteps ==
    /\ \A reason \in {"expired", "deleted", "new-session"} : clearSession(reason) \in Store({0, 1})
    /\ \A kept \in {0, 1} : FreshStore(kept) \in Store({0, 1})
    /\ \A store \in Store({0, 1}) :
          /\ setCreated(store, 1) \in Store({0, 1})
          /\ \A status \in ServerStatuses, job \in BOOLEAN :
                setFromServer(store, 1, status, job) \in Store({0, 1})
<1> USE DEF Store, FreshStore, AppStatuses
<1>1. \A status \in ServerStatuses : mapServerStatus(status) \in AppStatuses
    BY DEF mapServerStatus, ServerStatuses
<1>2. \A reason \in {"expired", "deleted", "new-session"} : clearSession(reason) \in Store({0, 1})
    BY DEF clearSession
<1>3. \A kept \in {0, 1} : FreshStore(kept) \in Store({0, 1})
    OBVIOUS
<1>4. \A store \in Store({0, 1}), status \in ServerStatuses, job \in BOOLEAN :
          setFromServer(store, 1, status, job) \in Store({0, 1})
    BY <1>1 DEF setFromServer
<1>5. \A store \in Store({0, 1}) : setCreated(store, 1) \in Store({0, 1})
    <2> SUFFICES ASSUME NEW store \in Store({0, 1}) PROVE setCreated(store, 1) \in Store({0, 1})
        OBVIOUS
    <2>1. setFromServer(store, 1, "CREATED", FALSE) \in Store({0, 1})
        BY <1>4 DEF ServerStatuses
    <2>2. QED
        BY <2>1 DEF setCreated
<1>6. QED
    BY <1>2, <1>3, <1>4, <1>5

LEMMA BrowserTypeInit == RoutingInit => BrowserTypeOK
<1>1. FreshStore(0) \in Store({0, 1})
    BY StoreSteps
<1>2. QED
    BY <1>1 DEF RoutingInit, Started, BrowserTypeOK, BrowserStates, Routes, Kinds

\* Whatever a call was told, the store keeps its type: no order of late answers
\* leads out of what TwoRedirects covers.
LEMMA BrowserTypeStep == BrowserTypeOK /\ [RoutingNext]_browser => BrowserTypeOK'
<1> SUFFICES ASSUME BrowserTypeOK, [RoutingNext]_browser PROVE browser' \in BrowserStates
    BY DEF BrowserTypeOK
<1> USE DEF BrowserTypeOK, BrowserStates
<1>0. /\ browser.store \in Store({0, 1}) /\ browser.page \in Routes
      /\ browser.store.token \in {0, 1} /\ browser.store.appStatus \in AppStatuses
      /\ browser.store.activeJobId \in BOOLEAN
    BY DEF Store
<1>1. CASE Boot
    BY <1>1 DEF Boot, Kinds, AskedOn
<1>2. CASE RunRedirect
    BY <1>0, <1>2, RedirectIsRoute DEF RunRedirect
<1>3. CASE Visit
    BY <1>3 DEF Visit
<1>4. CASE Reload
    BY <1>0, <1>4, StoreSteps DEF Reload, Started, Routes
<1>5. CASE Resume
    <2>1. routeForAppStatus(browser.store.appStatus, browser.store.activeJobId) \in Routes
        BY <1>0, RouteIsRoute
    <2>2. QED
        BY <1>5, <2>1 DEF Resume
<1>6. CASE CreateSession
    <2>1. setCreated(browser.store, 1) \in Store({0, 1})
        BY <1>0, StoreSteps
    <2>2. QED
        BY <1>6, <2>1 DEF CreateSession
<1>7. CASE StartOver
    <2>1. clearSession("new-session") \in Store({0, 1})
        BY StoreSteps
    <2>2. QED
        BY <1>7, <2>1 DEF StartOver, Routes
<1>8. CASE JobCancelled
    BY <1>0, <1>8 DEF JobCancelled, Routes, Store
<1>9. ASSUME NEW kind \in Kinds, Ask(kind) PROVE browser' \in BrowserStates
    BY <1>9 DEF Ask
<1>10. ASSUME NEW kind \in Kinds, NEW b \in BrowserStates PROVE Awaited(kind, b) \in BrowserStates
    BY DEF Awaited, Routes
<1>11. ASSUME NEW kind \in Kinds, Follow(kind) PROVE browser' \in BrowserStates
    <2>1. PICK status \in ServerStatuses, job \in BOOLEAN :
             LET store == setFromServer(browser.store, 1, status, job)
             IN \E p \in {"interview", "artifacts", "report", browser.page,
                          routeForAppStatus(store.appStatus, job)} :
                  browser' = [Awaited(kind, browser) EXCEPT !.store = store, !.page = p]
        BY <1>11, ZenonT(40) DEF Follow
    <2> DEFINE store == setFromServer(browser.store, 1, status, job)
    <2>2. store \in Store({0, 1})
        BY <1>0, StoreSteps
    <2>3. routeForAppStatus(store.appStatus, job) \in Routes
        BY <2>2, RouteIsRoute DEF Store
    <2>4. Awaited(kind, browser) \in BrowserStates
        BY <1>10
    <2>5. PICK p \in Routes : browser' = [Awaited(kind, browser) EXCEPT !.store = store, !.page = p]
        BY <1>0, <2>1, <2>3 DEF Routes
    <2> HIDE DEF store
    <2>6. QED
        BY <2>2, <2>4, <2>5
<1>12. ASSUME NEW kind \in Kinds, Confirmed(kind) PROVE browser' \in BrowserStates
    <2> DEFINE b == Awaited(kind, browser)
    <2>1. b \in BrowserStates
        BY <1>10
    <2>2. clearSession("deleted") \in Store({0, 1}) /\ "sync" \in Kinds
        BY StoreSteps DEF Kinds, AskedOn
    <2>3. \A x \in BrowserStates :
             /\ \A job \in BOOLEAN : [x EXCEPT !.store.activeJobId = job] \in BrowserStates
             /\ \A s \in AppStatuses : [x EXCEPT !.store.appStatus = s] \in BrowserStates
        BY DEF Store
    <2>4. \A x \in BrowserStates, p \in Routes : [x EXCEPT !.page = p] \in BrowserStates
        OBVIOUS
    <2>5. CASE kind \in {"upload", "retry"}
        BY <1>12, <2>1, <2>3, <2>5 DEF Confirmed
    <2>6. CASE kind = "tree"
        BY <1>12, <2>1, <2>3, <2>6 DEF Confirmed, AppStatuses
    <2>7. CASE kind \in {"answer", "complete"}
        <3>1. browser' = [[b EXCEPT !.store.appStatus = "SUBMITTING"] EXCEPT !.asks = @ \cup {"sync"}]
            BY <1>12, <2>1, <2>7 DEF Confirmed
        <3>2. [b EXCEPT !.store.appStatus = "SUBMITTING"] \in BrowserStates
            BY <2>1, <2>3 DEF AppStatuses
        <3> HIDE DEF b
        <3>3. QED
            BY <2>2, <3>1, <3>2
    <2>8. CASE kind = "begin"
        <3> DEFINE c == [b EXCEPT !.store.activeJobId = TRUE]
                   d == [c EXCEPT !.store.appStatus = "ANALYZING"]
        <3>1. c \in BrowserStates
            BY <2>1, <2>3
        <3>2. d \in BrowserStates
            BY <2>3, <3>1 DEF AppStatuses
        <3>3. [d EXCEPT !.page = "analysis"] \in BrowserStates
            BY <2>4, <3>2 DEF Routes
        <3>4. browser' = [d EXCEPT !.page = "analysis"]
            BY <1>12, <2>1, <2>8 DEF Confirmed
        <3>5. QED
            BY <3>3, <3>4
    <2>9. CASE kind = "cancel"
        <3> DEFINE c == [b EXCEPT !.store.activeJobId = FALSE]
        <3>1. c \in BrowserStates
            BY <2>1, <2>3
        <3>2. browser' = [c EXCEPT !.page = "artifacts"]
            BY <1>12, <2>1, <2>9 DEF Confirmed
        <3>3. QED
            BY <2>4, <3>1, <3>2 DEF Routes
    <2>10. CASE kind \in {"leave", "delete"}
        <3>1. \/ browser' = [b EXCEPT !.page = "home"]
              \/ browser' = [b EXCEPT !.store = clearSession("deleted"), !.page = "home"]
            BY <1>12, <2>10 DEF Confirmed
        <3> HIDE DEF b
        <3>2. QED
            BY <2>1, <2>2, <3>1 DEF Routes
    <2>11. QED
        BY <1>12, <2>5, <2>6, <2>7, <2>8, <2>9, <2>10 DEF Confirmed
<1>13. ASSUME NEW kind \in Kinds, Refused(kind) PROVE browser' \in BrowserStates
    <2> DEFINE b == Awaited(kind, browser)
    <2>1. b \in BrowserStates
        BY <1>10
    <2>2. browser' \in {b, [b EXCEPT !.page = "artifacts"], [b EXCEPT !.page = "home"],
                        [b EXCEPT !.asks = @ \cup {"reroute"}]}
        BY <1>13 DEF Refused
    <2>3. "reroute" \in Kinds
        BY DEF Kinds, AskedOn
    <2> HIDE DEF b
    <2>4. QED
        BY <2>1, <2>2, <2>3 DEF Routes
<1>14. ASSUME NEW kind \in Kinds, Gone(kind) PROVE browser' \in BrowserStates
    <2>1. Awaited(kind, browser) \in BrowserStates
        BY <1>10
    <2>2. clearSession("expired") \in Store({0, 1})
        BY StoreSteps
    <2>3. QED
        BY <1>14, <2>1, <2>2 DEF Gone, Routes
<1>15. ASSUME NEW kind \in Kinds, Aborted(kind) PROVE browser' \in BrowserStates
    BY <1>15 DEF Aborted
<1>16. CASE UNCHANGED browser
    BY <1>16
<1>17. QED
    BY <1>1, <1>2, <1>3, <1>4, <1>5, <1>6, <1>7, <1>8, <1>9, <1>11, <1>12, <1>13,
       <1>14, <1>15, <1>16 DEF RoutingNext

\* From any page, whatever the late answers have made of the store, at most two
\* redirects lead to a page that stays; any number of calls may be on their way.
THEOREM NoRedirectCircle == RoutingSpec => []RedirectsEnd
<1>1. BrowserTypeOK => RedirectsEnd
    <2> SUFFICES ASSUME BrowserTypeOK, NEW p \in Routes
                 PROVE  LET settled == redirect(browser.store, redirect(browser.store, p))
                        IN  redirect(browser.store, settled) = settled
        BY DEF RedirectsEnd
    <2>1. browser.store \in Store({0, 1})
        BY DEF BrowserTypeOK, BrowserStates
    <2>2. QED
        BY <2>1, TwoRedirects
<1>2. RoutingSpec => []BrowserTypeOK
    BY BrowserTypeInit, BrowserTypeStep, PTL DEF RoutingSpec
<1>3. QED
    BY <1>1, <1>2, PTL

\* What a step makes of the calls on their way, the boot aside: none is new, or one
\* is while there is room, or one takes the place of another.
LEMMA CallsMove ==
    ASSUME BrowserTypeOK, [RoutingNext]_browser
    PROVE  LET now == browser.asks \ {"boot"}
               next == browser'.asks \ {"boot"}
           IN  \/ next \subseteq now
               \/ Cardinality(now) < MaxAsks /\ \E kind \in Kinds : next = now \cup {kind}
               \/ \E kind \in now, x \in Kinds : next = (now \ {kind}) \cup {x}
<1> USE DEF BrowserTypeOK, BrowserStates
<1>1. CASE Boot \/ RunRedirect \/ Visit \/ Reload \/ Resume \/ CreateSession \/ StartOver \/ JobCancelled
    <2>1. browser'.asks \in {browser.asks, browser.asks \cup {"boot"}, {}}
        <3>1. CASE Boot
            BY <3>1 DEF Boot
        <3>2. CASE RunRedirect \/ Visit \/ Resume
            BY <3>2 DEF RunRedirect, Visit, Resume
        <3>3. CASE Reload
            BY <3>3 DEF Reload, Started
        <3>4. CASE CreateSession
            BY <3>4 DEF CreateSession
        <3>5. CASE StartOver \/ JobCancelled
            BY <3>5 DEF StartOver, JobCancelled
        <3>6. QED
            BY <1>1, <3>1, <3>2, <3>3, <3>4, <3>5
    <2>2. QED
        BY <2>1, Zenon
<1>2. ASSUME NEW kind \in Kinds, Ask(kind)
      PROVE  /\ Cardinality(browser.asks \ {"boot"}) < MaxAsks
             /\ browser'.asks \ {"boot"} = (browser.asks \ {"boot"}) \cup {kind}
    BY <1>2 DEF Ask
<1>3. ASSUME NEW kind
      PROVE  Awaited(kind, browser) \in BrowserStates /\ Awaited(kind, browser).asks = browser.asks \ {kind}
    BY DEF Awaited, Routes
<1>4. ASSUME NEW kind \in Kinds, Follow(kind) \/ Gone(kind) \/ Aborted(kind)
      PROVE  browser'.asks = browser.asks \ {kind}
    <2>1. CASE Follow(kind)
        <3>1. \E store, p : browser' = [Awaited(kind, browser) EXCEPT !.store = store, !.page = p]
            BY <2>1, ZenonT(40) DEF Follow
        <3>2. QED
            BY <1>3, <3>1
    <2>2. CASE Gone(kind)
        BY <1>3, <2>2 DEF Gone
    <2>3. CASE Aborted(kind)
        BY <2>3 DEF Aborted
    <2>4. QED
        BY <1>4, <2>1, <2>2, <2>3
<1>5. ASSUME NEW kind \in Kinds, Confirmed(kind)
      PROVE  \/ browser'.asks = browser.asks \ {kind}
             \/ kind \in browser.asks \ {"boot"} /\ browser'.asks = (browser.asks \ {kind}) \cup {"sync"}
    BY <1>3, <1>5 DEF Confirmed
<1>6. ASSUME NEW kind \in Kinds, Refused(kind)
      PROVE  \/ browser'.asks = browser.asks \ {kind}
             \/ kind \in browser.asks \ {"boot"} /\ browser'.asks = (browser.asks \ {kind}) \cup {"reroute"}
    BY <1>3, <1>6 DEF Refused
<1>7. {"sync", "reroute"} \subseteq Kinds \ {"boot"}
    BY DEF Kinds, AskedOn
<1>8. ASSUME NEW kind \in Kinds, browser'.asks = browser.asks \ {kind}
      PROVE  browser'.asks \ {"boot"} \subseteq browser.asks \ {"boot"}
    BY <1>8
<1>9. ASSUME NEW kind \in browser.asks \ {"boot"}, NEW x \in Kinds \ {"boot"},
             browser'.asks = (browser.asks \ {kind}) \cup {x}
      PROVE  browser'.asks \ {"boot"} = ((browser.asks \ {"boot"}) \ {kind}) \cup {x}
    BY <1>9
<1>10. CASE UNCHANGED browser
    BY <1>10
<1>11. CASE \E kind \in Kinds : \/ Ask(kind) \/ Follow(kind) \/ Confirmed(kind)
                                 \/ Refused(kind) \/ Gone(kind) \/ Aborted(kind)
    <2>1. PICK kind \in Kinds : \/ Ask(kind) \/ Follow(kind) \/ Confirmed(kind)
                                 \/ Refused(kind) \/ Gone(kind) \/ Aborted(kind)
        BY <1>11
    <2>2. CASE Ask(kind)
        BY <1>2, <2>2
    <2>3. CASE Follow(kind) \/ Gone(kind) \/ Aborted(kind)
        <3>1. browser'.asks = browser.asks \ {kind}
            BY <1>4, <2>3
        <3>2. QED
            BY <1>8, <3>1
    <2>4. CASE Confirmed(kind) \/ Refused(kind)
        <3>1. \/ browser'.asks = browser.asks \ {kind}
              \/ /\ kind \in browser.asks \ {"boot"}
                 /\ \E x \in {"sync", "reroute"} : browser'.asks = (browser.asks \ {kind}) \cup {x}
            BY <1>5, <1>6, <2>4
        <3>2. CASE browser'.asks = browser.asks \ {kind}
            BY <1>8, <3>2
        <3>3. ASSUME kind \in browser.asks \ {"boot"}, NEW x \in {"sync", "reroute"},
                     browser'.asks = (browser.asks \ {kind}) \cup {x}
              PROVE  browser'.asks \ {"boot"} = ((browser.asks \ {"boot"}) \ {kind}) \cup {x}
            BY <1>7, <1>9, <3>3
        <3>4. QED
            BY <1>7, <3>1, <3>2, <3>3
    <2>5. QED
        BY <2>1, <2>2, <2>3, <2>4
<1>12. QED
    BY <1>1, <1>10, <1>11 DEF RoutingNext

\* The type of the browser's state and the room it has for calls.
CallsBounded ==
    /\ BrowserTypeOK
    /\ IsFiniteSet(browser.asks \ {"boot"})
    /\ Cardinality(browser.asks \ {"boot"}) <= MaxAsks

\* useBootstrap, the pages' redirects and the late answers keep the browser's state to
\* its type, however many calls may be on their way: none is started without room, and
\* an answer that makes another call leaves its place to it.
THEOREM RoutingTypeCorrect == RoutingSpec => []RoutingTypeOK
<1>1. RoutingInit => CallsBounded
    <2>1. RoutingInit => browser.asks \ {"boot"} = {}
        BY DEF RoutingInit, Started
    <2>2. QED
        BY <2>1, BrowserTypeInit, FS_EmptySet, RoutingBound DEF CallsBounded
<1>2. CallsBounded /\ [RoutingNext]_browser => CallsBounded'
    <2> SUFFICES ASSUME CallsBounded, [RoutingNext]_browser PROVE CallsBounded'
        OBVIOUS
    <2> DEFINE now == browser.asks \ {"boot"}
               next == browser'.asks \ {"boot"}
    <2>1. BrowserTypeOK'
        BY BrowserTypeStep DEF CallsBounded
    <2>2. IsFiniteSet(now) /\ Cardinality(now) \in Nat /\ Cardinality(now) <= MaxAsks
        BY FS_CardinalityType DEF CallsBounded
    <2>3. \/ next \subseteq now
          \/ Cardinality(now) < MaxAsks /\ \E kind \in Kinds : next = now \cup {kind}
          \/ \E kind \in now, x \in Kinds : next = (now \ {kind}) \cup {x}
        BY CallsMove DEF CallsBounded
    <2> HIDE DEF now, next
    <2>4. CASE next \subseteq now
        <3>1. IsFiniteSet(next) /\ Cardinality(next) <= Cardinality(now)
            BY <2>2, <2>4, FS_Subset
        <3>2. Cardinality(next) \in Nat
            BY <3>1, FS_CardinalityType
        <3>3. IsFiniteSet(next) /\ Cardinality(next) <= MaxAsks
            BY <2>2, <3>1, <3>2, RoutingBound
        <3>4. QED
            BY <2>1, <3>3 DEF CallsBounded, next
    <2>5. ASSUME Cardinality(now) < MaxAsks, NEW kind \in Kinds, next = now \cup {kind}
          PROVE  CallsBounded'
        <3>1. IsFiniteSet(next) /\ Cardinality(next) <= MaxAsks
            BY <2>2, <2>5, FS_AddElement, RoutingBound
        <3>2. QED
            BY <2>1, <3>1 DEF CallsBounded, next
    <2>6. ASSUME NEW kind \in now, NEW x \in Kinds, next = (now \ {kind}) \cup {x}
          PROVE  CallsBounded'
        <3>1. IsFiniteSet(now \ {kind}) /\ Cardinality(now \ {kind}) = Cardinality(now) - 1
            BY <2>2, FS_RemoveElement
        <3>2. IsFiniteSet(next) /\ Cardinality(next) <= Cardinality(now)
            <4>1. /\ IsFiniteSet(next)
                  /\ Cardinality(next) \in {Cardinality(now \ {kind}), Cardinality(now \ {kind}) + 1}
                BY <2>6, <3>1, FS_AddElement
            <4>2. QED
                BY <2>2, <3>1, <4>1
        <3>3. Cardinality(next) \in Nat
            BY <3>2, FS_CardinalityType
        <3>4. IsFiniteSet(next) /\ Cardinality(next) <= MaxAsks
            BY <2>2, <3>2, <3>3, RoutingBound
        <3>5. QED
            BY <2>1, <3>4 DEF CallsBounded, next
    <2>7. QED
        BY <2>3, <2>4, <2>5, <2>6
<1>3. CallsBounded => RoutingTypeOK
    BY DEF CallsBounded, RoutingTypeOK, BrowserTypeOK, BrowserStates
<1>4. QED
    BY <1>1, <1>2, <1>3, PTL DEF RoutingSpec

-----------------------------------------------------------------------------
(* The home page *)

HomeStates ==
    [store : Store(HomeIds), page : Routes, startedRef : BOOLEAN,
     creating : BOOLEAN, createError : {"none", "other", "limited"},
     starting : BOOLEAN, sampling : BOOLEAN, saveArmed : BOOLEAN,
     calls : SUBSET HomeCalls, created : HomeIds, mock : BOOLEAN,
     mocked : HomeIds, deletedHere : BOOLEAN]

\* A creation that will still move this page, and HomeRecoverable of any state.
Creates(h) == \E c \in h.calls : c.kind = "create" /\ c.live /\ c.mine
Recoverable(h) ==
    h.page = "home" => \/ h.store.sessionId # 0 \/ h.createError # "none"
                       \/ ~h.startedRef \/ h.deletedHere \/ Creates(h)
Good(h) == h \in HomeStates /\ Recoverable(h)
HInv == Good(home)

LEMMA HomeStores ==
    /\ \A reason \in {"expired", "deleted", "new-session"} :
          clearSession(reason) \in Store(HomeIds) /\ FreshStore(0) \in Store(HomeIds)
    /\ \A store \in Store(HomeIds), id \in HomeIds :
          /\ setCreated(store, id) \in Store(HomeIds) /\ setCreated(store, id).sessionId = id
          /\ setFromServer(store, id, "INTERVIEWING", FALSE) \in Store(HomeIds)
<1>0. 0 \in HomeIds
    BY HomeBound DEF HomeBound, HomeIds
<1> USE <1>0 DEF Store, FreshStore, AppStatuses, ServerStatuses
<1>1. \A reason \in {"expired", "deleted", "new-session"} :
          clearSession(reason) \in Store(HomeIds) /\ FreshStore(0) \in Store(HomeIds)
    BY DEF clearSession
<1>2. mapServerStatus("CREATED") = "INITIAL" /\ mapServerStatus("INTERVIEWING") = "INTERVIEWING"
    BY DEF mapServerStatus
<1>3. \A store \in Store(HomeIds), id \in HomeIds :
          /\ setFromServer(store, id, "CREATED", FALSE) \in Store(HomeIds)
          /\ setFromServer(store, id, "CREATED", FALSE).sessionId = id
          /\ setFromServer(store, id, "INTERVIEWING", FALSE) \in Store(HomeIds)
    BY <1>2 DEF setFromServer
<1>4. \A store \in Store(HomeIds), id \in HomeIds :
          setCreated(store, id) \in Store(HomeIds) /\ setCreated(store, id).sessionId = id
    <2> SUFFICES ASSUME NEW store \in Store(HomeIds), NEW id \in HomeIds
                 PROVE  setCreated(store, id) \in Store(HomeIds) /\ setCreated(store, id).sessionId = id
        OBVIOUS
    <2> DEFINE made == setFromServer(store, id, "CREATED", FALSE)
    <2>1. made \in Store(HomeIds) /\ made.sessionId = id
        BY <1>3
    <2> HIDE DEF made
    <2>2. [made EXCEPT !.token = id] \in Store(HomeIds) /\ [made EXCEPT !.token = id].sessionId = id
        BY <2>1
    <2>3. QED
        BY <2>2 DEF setCreated, made
<1> HIDE DEF Store, FreshStore, AppStatuses, ServerStatuses
<1>5. QED
    BY <1>1, <1>3, <1>4

\* An abort takes nothing but the calls' signals; without "create" among the kinds
\* a creation that was under way still is.
LEMMA AbortFacts ==
    ASSUME NEW h \in HomeStates, NEW kinds
    PROVE  /\ AbortHome(h, kinds) \in HomeStates
           /\ AbortHome(h, kinds).page = h.page /\ AbortHome(h, kinds).store = h.store
           /\ AbortHome(h, kinds).createError = h.createError
           /\ AbortHome(h, kinds).startedRef = h.startedRef
           /\ AbortHome(h, kinds).deletedHere = h.deletedHere
           /\ AbortHome(h, kinds).created = h.created
           /\ "create" \notin kinds /\ Creates(h) => Creates(AbortHome(h, kinds))
<1> DEFINE signal(c) == [c EXCEPT !.live = @ /\ ~(c.mine /\ c.kind \in kinds)]
           after == {signal(c) : c \in h.calls}
<1>1. \A c \in HomeCalls : signal(c) \in HomeCalls
    BY DEF HomeCalls
<1>2. after \in SUBSET HomeCalls
    BY <1>1 DEF HomeStates
<1>3. AbortHome(h, kinds) = [h EXCEPT !.calls = after]
    BY DEF AbortHome
<1>4. ASSUME "create" \notin kinds, Creates(h) PROVE \E c \in after : c.kind = "create" /\ c.live /\ c.mine
    <2>1. PICK c \in h.calls : c.kind = "create" /\ c.live /\ c.mine
        BY <1>4 DEF Creates
    <2>2. signal(c) \in after
        OBVIOUS
    <2>3. signal(c).kind = "create" /\ signal(c).live /\ signal(c).mine
        BY <1>4, <2>1 DEF HomeStates, HomeCalls
    <2>4. QED
        BY <2>2, <2>3
<1> HIDE DEF after
<1>5. QED
    BY <1>2, <1>3, <1>4 DEF HomeStates, Creates

\* A call that is sent takes nothing away, and a creation sent is one that moves
\* the page.
LEMMA SendFacts ==
    ASSUME NEW h \in HomeStates, NEW id \in HomeIds,
           NEW kind \in {"create", "start", "get", "save"} \cup SampleKinds
    PROVE  /\ HomeCall(h, kind, id) \in HomeCalls
           /\ Send(h, kind, id) \in HomeStates
           /\ Recoverable(h) => Recoverable(Send(h, kind, id))
           /\ kind = "create" => Recoverable(Send(h, kind, id))
           /\ \A c \in HomeCalls : /\ Then(h, c, kind, id) \in HomeStates
                                   /\ Recoverable(h) => Recoverable(Then(h, c, kind, id))
<1> DEFINE call == HomeCall(h, kind, id)
<1>1. /\ call \in HomeCalls /\ call.kind = kind /\ call.live /\ call.mine
    <2>1. h.mock \in BOOLEAN
        BY DEF HomeStates
    <2>2. (IF id = 0 THEN h.mock ELSE h.store.token = id /\ (h.mock <=> h.mocked = id)) \in BOOLEAN
        BY <2>1
    <2>3. QED
        BY <2>2 DEF HomeCall, HomeCalls
<1> HIDE DEF call
<1>2. ASSUME NEW more \in HomeCalls
      PROVE  /\ [h EXCEPT !.calls = @ \cup {more}] \in HomeStates
             /\ Recoverable(h) => Recoverable([h EXCEPT !.calls = @ \cup {more}])
             /\ more.kind = "create" /\ more.live /\ more.mine
                   => Recoverable([h EXCEPT !.calls = @ \cup {more}])
    BY DEF HomeStates, Recoverable, Creates
<1>3. /\ Send(h, kind, id) \in HomeStates
      /\ Recoverable(h) => Recoverable(Send(h, kind, id))
      /\ kind = "create" => Recoverable(Send(h, kind, id))
    BY <1>1, <1>2 DEF Send, call
<1>4. ASSUME NEW c \in HomeCalls
      PROVE  /\ Then(h, c, kind, id) \in HomeStates
             /\ Recoverable(h) => Recoverable(Then(h, c, kind, id))
    <2>1. [call EXCEPT !.live = c.live, !.mine = c.mine] \in HomeCalls
        BY <1>1 DEF HomeCalls
    <2>2. QED
        BY <1>2, <2>1 DEF Then, call
<1>5. QED
    BY <1>1, <1>3, <1>4 DEF call

\* The visitor is taken elsewhere.
LEMMA LeaveFacts ==
    ASSUME NEW h \in HomeStates, NEW page \in Routes \ {"home"}
    PROVE  Good(Leave(h, page))
<1> DEFINE aborted == AbortHome(h, {"create", "start", "get", "save"})
           orphan(c) == [c EXCEPT !.mine = FALSE]
           left == {orphan(c) : c \in aborted.calls}
<1>1. aborted \in HomeStates
    BY AbortFacts
<1>2. \A c \in HomeCalls : orphan(c) \in HomeCalls
    BY DEF HomeCalls
<1>3. left \in SUBSET HomeCalls
    BY <1>1, <1>2 DEF HomeStates
<1>4. Unmount(h, page) = [aborted EXCEPT !.page = page, !.saveArmed = FALSE, !.calls = left]
    BY DEF Unmount
<1> HIDE DEF aborted, left
<1>a. ASSUME NEW x \in HomeStates, NEW calls \in SUBSET HomeCalls
      PROVE  LET u == [x EXCEPT !.page = page, !.saveArmed = FALSE, !.calls = calls]
             IN  u \in HomeStates /\ u.page = page
    BY DEF HomeStates
<1>5. Unmount(h, page) \in HomeStates /\ Unmount(h, page).page = page
    BY <1>1, <1>3, <1>4, <1>a
<1>6. [h EXCEPT !.page = page] \in HomeStates /\ [h EXCEPT !.page = page].page = page
    BY DEF HomeStates
<1>7. QED
    BY <1>5, <1>6 DEF Leave, Good, Recoverable

\* A page just mounted is about to create a session if there is none.
LEMMA MountedFacts == \A h \in HomeStates : Good(Mounted(h))
BY ZenonT(40) DEF Mounted, Good, HomeStates, Recoverable, Routes

LEMMA WithStoreFacts ==
    ASSUME NEW h \in HomeStates, NEW store \in Store(HomeIds)
    PROVE  /\ WithStore(h, store) \in HomeStates
           /\ WithStore(h, store).page = h.page /\ WithStore(h, store).store = store
           /\ WithStore(h, store).createError = h.createError
           /\ WithStore(h, store).startedRef = h.startedRef
           /\ WithStore(h, store).deletedHere = h.deletedHere
<1> DEFINE aborted == AbortHome(h, {"save"})
           armed == store.sessionId # 0
<1>1. /\ aborted \in HomeStates /\ aborted.page = h.page
      /\ aborted.createError = h.createError /\ aborted.startedRef = h.startedRef
      /\ aborted.deletedHere = h.deletedHere
    BY AbortFacts
<1>2. \/ WithStore(h, store) = [aborted EXCEPT !.store = store, !.saveArmed = armed]
      \/ WithStore(h, store) = [h EXCEPT !.store = store]
    BY DEF WithStore
<1>3. armed \in BOOLEAN
    OBVIOUS
<1> HIDE DEF aborted, armed
<1>4. CASE WithStore(h, store) = [aborted EXCEPT !.store = store, !.saveArmed = armed]
    BY <1>1, <1>3, <1>4 DEF HomeStates
<1>5. CASE WithStore(h, store) = [h EXCEPT !.store = store]
    BY <1>5 DEF HomeStates
<1>6. QED
    BY <1>2, <1>4, <1>5

LEMMA ClearedFacts ==
    ASSUME NEW h \in HomeStates, NEW reason \in {"expired", "deleted", "new-session"}
    PROVE  Cleared(h, reason) \in HomeStates /\ Cleared(h, reason).page = h.page
<1>1. clearSession(reason) \in Store(HomeIds)
    BY HomeStores
<1>2. /\ WithStore(h, clearSession(reason)) \in HomeStates
      /\ WithStore(h, clearSession(reason)).page = h.page
    BY <1>1, WithStoreFacts
<1>3. QED
    BY <1>2 DEF Cleared, HomeStates

LEMMA GoneFacts == \A h \in HomeStates : Good(HomeGone(h))
<1> SUFFICES ASSUME NEW h \in HomeStates PROVE Good(HomeGone(h))
    OBVIOUS
<1>1. Cleared(h, "expired") \in HomeStates
    BY ClearedFacts
<1>2. QED
    BY <1>1, LeaveFacts DEF HomeGone, Routes

\* A creation that is answered leaves the store with a session.
LEMMA CreatedFacts ==
    ASSUME NEW h \in HomeStates, h.created < MaxSessions, NEW c \in HomeCalls
    PROVE  Good(Created(h, c)) /\ Created(h, c).store.sessionId \in HomeIds
<1> DEFINE id == h.created + 1
           kept == WithStore(h, setCreated(h.store, id))
<1>1. id \in HomeIds /\ id # 0
    BY HomeBound DEF HomeBound, HomeStates, HomeIds
<1>2. setCreated(h.store, id) \in Store(HomeIds) /\ setCreated(h.store, id).sessionId = id
    BY <1>1, HomeStores DEF HomeStates
<1>3. kept \in HomeStates /\ kept.store.sessionId = id
    BY <1>2, WithStoreFacts
<1>4. Created(h, c) = [kept EXCEPT !.created = id, !.mocked = IF c.fits THEN id ELSE @]
    BY DEF Created
<1> HIDE DEF kept, id
<1>5. Created(h, c) \in HomeStates /\ Created(h, c).store.sessionId = id
    BY <1>1, <1>3, <1>4 DEF HomeStates
<1>6. QED
    BY <1>1, <1>5 DEF Good, Recoverable

\* The end of a call, but for that of a creation that still counts.
LEMMA EndedFacts ==
    ASSUME Good(home), NEW c \in home.calls, c.kind # "create" \/ ~c.live \/ ~c.mine
    PROVE  c \in HomeCalls /\ Good(Ended(c)) /\ Good(Finished(c))
<1>1. c \in HomeCalls
    BY DEF Good, HomeStates
<1>2. Good(Ended(c))
    BY DEF Good, HomeStates, Ended, Recoverable, Creates
<1>3. Ended(c) \in HomeStates
    BY <1>2 DEF Good
<1>4. \A h \in HomeStates : Recoverable(h) => /\ Good([h EXCEPT !.starting = FALSE])
                                             /\ Good([h EXCEPT !.sampling = FALSE])
    BY ZenonT(40) DEF Good, HomeStates, Recoverable, Creates
<1>5. Good(Finished(c))
    BY <1>2, <1>3, <1>4 DEF Good, Finished
<1>6. QED
    BY <1>1, <1>2, <1>5

LEMMA HomeInitGood == HomeInit => Good(home)
<1>1. FreshStore(0) \in Store(HomeIds) /\ 0 \in HomeIds
    BY HomeStores, HomeBound DEF HomeBound, HomeIds
<1>2. QED
    BY <1>1 DEF HomeInit, Good, Recoverable, HomeStates, Routes

\* createInitialSession makes any page recoverable.
LEMMA CreationFacts == \A h \in HomeStates : Good(createInitialSession(h))
<1> SUFFICES ASSUME NEW h \in HomeStates PROVE Good(createInitialSession(h))
    OBVIOUS
<1> DEFINE aborted == AbortHome(h, {"create"})
           begun == [aborted EXCEPT !.creating = TRUE, !.createError = "none"]
<1>1. aborted \in HomeStates
    BY AbortFacts
<1> HIDE DEF aborted
<1>2. begun \in HomeStates
    BY <1>1 DEF HomeStates
<1> HIDE DEF begun
<1>3. 0 \in HomeIds
    BY HomeBound DEF HomeBound, HomeIds
<1>4. Send(begun, "create", 0) \in HomeStates /\ Recoverable(Send(begun, "create", 0))
    BY <1>2, <1>3, SendFacts
<1>5. QED
    BY <1>4 DEF createInitialSession, Good, begun, aborted

LEMMA HomeStep == Good(home) /\ [HomeNext]_home => Good(home')
<1> SUFFICES ASSUME Good(home), [HomeNext]_home PROVE Good(home')
    OBVIOUS
<1>0. /\ home \in HomeStates /\ Recoverable(home) /\ home.store \in Store(HomeIds)
      /\ home.store.sessionId \in HomeIds /\ home.calls \subseteq HomeCalls /\ 0 \in HomeIds
    BY HomeBound DEF Good, HomeStates, Store, HomeBound, HomeIds
<1>1. CASE CountedDown
    BY <1>0, <1>1 DEF CountedDown, Good, HomeStates, Recoverable
<1>2. CASE RetryCreate \/ EffectCreates
    <2>1. [home EXCEPT !.startedRef = TRUE] \in HomeStates
        BY <1>0 DEF HomeStates
    <2>2. QED
        BY <1>2, <2>1, CreationFacts DEF RetryCreate, EffectCreates
<1>3. CASE NewSession
    <2>1. Cleared(home, "new-session") \in HomeStates
        BY <1>0, ClearedFacts
    <2>2. [Cleared(home, "new-session") EXCEPT !.startedRef = FALSE] \in HomeStates
        BY <2>1 DEF HomeStates
    <2>3. QED
        BY <1>3, <2>2, CreationFacts DEF NewSession
<1>4. CASE EditSettings
    <2> DEFINE aborted == AbortHome(home, {"save"})
    <2>1. aborted \in HomeStates /\ Recoverable(aborted)
        BY <1>0, AbortFacts DEF Recoverable
    <2>2. home' = [aborted EXCEPT !.saveArmed = TRUE]
        BY <1>4 DEF EditSettings
    <2> HIDE DEF aborted
    <2>3. QED
        BY <2>1, <2>2 DEF Good, HomeStates, Recoverable, Creates
<1>5. CASE Save
    <2>1. Good([home EXCEPT !.saveArmed = FALSE])
        BY <1>0 DEF Good, HomeStates, Recoverable, Creates
    <2>2. QED
        BY <1>0, <1>5, <2>1, SendFacts DEF Save, Good
<1>6. CASE handleStartInterview
    <2>1. Good([home EXCEPT !.starting = TRUE])
        BY <1>0 DEF Good, HomeStates, Recoverable, Creates
    <2>2. QED
        BY <1>0, <1>6, <2>1, SendFacts DEF handleStartInterview, Good
<1>7. CASE handleStartSample
    <2> DEFINE h == [home EXCEPT !.sampling = TRUE]
    <2>1. Good(h)
        BY <1>0 DEF Good, HomeStates, Recoverable, Creates
    <2>2. home' \in {Send(h, "sampleCreate", 0), Send(h, "sampleStart", home.store.sessionId)}
        BY <1>7 DEF handleStartSample
    <2> HIDE DEF h
    <2>3. \A kind \in {"sampleCreate", "sampleStart"}, id \in HomeIds : Good(Send(h, kind, id))
        BY <2>1, SendFacts DEF Good, SampleKinds
    <2>4. QED
        BY <1>0, <2>2, <2>3
<1>8. CASE DeleteData
    <2> DEFINE h == Cleared(home, "deleted")
    <2>1. h \in HomeStates /\ Good(Mounted(h))
        BY <1>0, ClearedFacts, MountedFacts
    <2>2. home' \in {[h EXCEPT !.deletedHere = TRUE], Mounted(h)}
        BY <1>8 DEF DeleteData
    <2> HIDE DEF h
    <2>3. Good([h EXCEPT !.deletedHere = TRUE])
        BY <2>1 DEF Good, HomeStates, Recoverable
    <2>4. QED
        BY <2>1, <2>2, <2>3
<1>9. CASE GoAway
    BY <1>0, <1>9, LeaveFacts DEF GoAway, Routes
<1>10. CASE ComeBack
    BY <1>0, <1>10, MountedFacts DEF ComeBack
<1>11. ASSUME NEW c \in home.calls, CreateEnds(c) PROVE Good(home')
    <2> DEFINE h == IF c.mine THEN [Ended(c) EXCEPT !.creating = FALSE] ELSE Ended(c)
    <2>1. c \in HomeCalls /\ c.kind = "create"
        BY <1>0, <1>11 DEF CreateEnds
    <2>2. /\ h \in HomeStates /\ h.created = home.created
          /\ ~c.live \/ ~c.mine => Recoverable(h)
        BY <1>0 DEF Ended, HomeStates, Recoverable, Creates
    <2>3. \/ home.created < MaxSessions /\ home' = Created(h, c)
          \/ ~c.live /\ home' = h
          \/ \E error \in {"other", "limited"} :
                home' = IF c.mine THEN [h EXCEPT !.createError = error] ELSE h
        BY <1>11 DEF CreateEnds
    <2> HIDE DEF h
    <2>4. CASE home.created < MaxSessions /\ home' = Created(h, c)
        BY <2>1, <2>2, <2>4, CreatedFacts
    <2>5. CASE home' = h /\ (~c.live \/ ~c.mine)
        BY <2>2, <2>5 DEF Good
    <2>6. ASSUME NEW error \in {"other", "limited"}, home' = [h EXCEPT !.createError = error]
          PROVE  Good(home')
        BY <2>2, <2>6 DEF Good, HomeStates, Recoverable
    <2>7. QED
        BY <2>3, <2>4, <2>5, <2>6
<1>12. ASSUME NEW c \in home.calls, SampleCreated(c) PROVE Good(home')
    <2>1. c.kind \in {"sampleCreate", "sampleCreateAgain"}
        BY <1>12 DEF SampleCreated
    <2>2. c \in HomeCalls /\ Good(Ended(c)) /\ Good(Finished(c))
        BY <2>1, EndedFacts
    <2>3. ASSUME home.created < MaxSessions, NEW next \in {"sampleStart", "sampleStartAgain"},
                 home' = Then(Created(Ended(c), c), c, next, Created(Ended(c), c).store.sessionId)
          PROVE  Good(home')
        <3>1. Ended(c) \in HomeStates /\ Ended(c).created = home.created
            BY <1>0, <2>2 DEF Good, Ended, HomeStates
        <3>2. Good(Created(Ended(c), c)) /\ Created(Ended(c), c).store.sessionId \in HomeIds
            BY <2>2, <2>3, <3>1, CreatedFacts
        <3>3. QED
            BY <2>2, <2>3, <3>2, SendFacts DEF Good, SampleKinds
    <2>4. CASE home' = Then([Ended(c) EXCEPT !.mock = TRUE, !.mocked = 0], c, c.kind, 0)
        <3>1. Good([Ended(c) EXCEPT !.mock = TRUE, !.mocked = 0])
            BY <1>0, <2>2 DEF Good, HomeStates, Recoverable, Creates
        <3>2. QED
            BY <1>0, <2>1, <2>2, <2>4, <3>1, SendFacts DEF Good, SampleKinds
    <2>5. CASE home' \in {Finished(c), HomeGone(Finished(c))}
        BY <2>2, <2>5, GoneFacts DEF Good
    <2>6. QED
        BY <1>12, <2>2, <2>3, <2>4, <2>5 DEF SampleCreated
<1>13. ASSUME NEW c \in home.calls, SampleStartFails(c) PROVE Good(home')
    <2>1. c \in HomeCalls /\ Good(Ended(c))
        BY <1>13, EndedFacts DEF SampleStartFails
    <2>2. QED
        BY <1>0, <1>13, <2>1, SendFacts DEF SampleStartFails, Good, SampleKinds
<1>14. ASSUME NEW c \in home.calls, Succeeds(c) PROVE Good(home')
    <2>1. c.kind \in {"save", "start", "sampleStart", "sampleStartAgain", "get", "sampleGet"}
        BY <1>14 DEF Succeeds
    <2>2. c \in HomeCalls /\ Good(Ended(c)) /\ Good(Finished(c)) /\ c.id \in HomeIds
        BY <2>1, EndedFacts DEF HomeCalls
    <2>3. \A kind \in {"get", "sampleGet"} : Good(Then(Ended(c), c, kind, c.id))
        BY <2>2, SendFacts DEF Good, SampleKinds
    <2>4. Good(Leave(WithStore(Finished(c), setFromServer(home.store, c.id, "INTERVIEWING", FALSE)),
                     "interview"))
        <3>1. setFromServer(home.store, c.id, "INTERVIEWING", FALSE) \in Store(HomeIds)
            BY <1>0, <2>2, HomeStores
        <3>2. WithStore(Finished(c), setFromServer(home.store, c.id, "INTERVIEWING", FALSE)) \in HomeStates
            BY <2>2, <3>1, WithStoreFacts DEF Good
        <3>3. QED
            BY <3>2, LeaveFacts DEF Routes
    <2>5. QED
        BY <1>14, <2>1, <2>2, <2>3, <2>4 DEF Succeeds
<1>15. ASSUME NEW c \in home.calls, Fails(c) PROVE Good(home')
    <2>1. Good(Finished(c))
        BY <1>15, EndedFacts DEF Fails
    <2>2. QED
        BY <1>15, <2>1, GoneFacts DEF Fails, Good
<1>16. CASE UNCHANGED home
    BY <1>16
<1>17. QED
    BY <1>1, <1>2, <1>3, <1>4, <1>5, <1>6, <1>7, <1>8, <1>9, <1>10, <1>11, <1>12, <1>13,
       <1>14, <1>15, <1>16 DEF HomeNext, HomeProgress

\* However creations, samples and sessions given up overlap, the home page holds a
\* session or has a way to one, for any number of sessions and of calls under way.
THEOREM HomeStaysRecoverable == HomeSpec => []HomeRecoverable
<1>1. HInv => HomeRecoverable
    BY DEF HInv, Good, Recoverable, Creates, HomeRecoverable, OnHome
<1>2. HomeInit => HInv
    BY HomeInitGood DEF HInv
<1>3. HInv /\ [HomeNext]_home => HInv'
    BY HomeStep DEF HInv
<1>4. QED
    BY <1>1, <1>2, <1>3, PTL DEF HomeSpec

\* HomePage.tsx, sessionStore.ts: the home page and the store keep their types, for
\* any number of sessions and of calls under way.
THEOREM HomeTypeCorrect == HomeSpec => []HomeTypeOK
<1>1. HInv => HomeTypeOK
    BY DEF HInv, Good, HomeStates, HomeTypeOK
<1>2. HomeInit => HInv
    BY HomeInitGood DEF HInv
<1>3. HInv /\ [HomeNext]_home => HInv'
    BY HomeStep DEF HInv
<1>4. QED
    BY <1>1, <1>2, <1>3, PTL DEF HomeSpec

-----------------------------------------------------------------------------
(* The backend in the browser *)

QuestionStates == {"ACTIVE", "ANSWERED", "SKIPPED"}
MockStates ==
    [session : {"none", "CREATED", "INTERVIEWING", "INTERVIEW_DONE", "ANALYZING", "REPORT_READY"},
     activeJobId : 0..MaxMockJobs, questions : Seq(QuestionStates),
     artifacts : 0..MaxMockArtifacts, jobs : [MockJobs -> MockJob],
     earlyCompleted : BOOLEAN, interviewCompleted : BOOLEAN, planUploaded : BOOLEAN]

\* A job that has not ended lacks a stage; without a plan there are analyses only,
\* after the interview.
JobFits(job) ==
    /\ job.kind # "none" =>
          /\ job.status # "SUCCEEDED" => job.done < Len(Stages(job))
          /\ ~mock.planUploaded => job.kind = "ANALYSIS" /\ mock.interviewCompleted
    /\ job.kind = "none" => job = NoJob
JobsFit == \A j \in MockJobs : JobFits(mock.jobs[j])
\* The question put to the user is the last one asked.
QuestionsFit ==
    /\ Len(mock.questions) <= LastMockQuestion
    /\ \A i \in 1..Len(mock.questions) : mock.questions[i] = "ACTIVE" => i = Len(mock.questions)
\* Without a plan and a late start the status tells how far the interview is.
SessionFits ==
    mock.session # "none" /\ ~mock.planUploaded /\ ~StartedLate =>
        /\ mock.interviewCompleted <=> mock.session \notin {"CREATED", "INTERVIEWING"}
        /\ ~mock.interviewCompleted => ((mock.questions = <<>>) <=> (mock.session = "CREATED"))
MInv == mock \in MockStates /\ JobsFit /\ QuestionsFit /\ SessionFits

\* Six stages, or three.
LEMMA StageCounts ==
    /\ Len(ANALYSIS_STAGES) = 6 /\ Len(PLAN_STAGES) = 3
    /\ \A job \in MockJob : Len(Stages(job)) \in {3, 6}
<1>1. Len(ANALYSIS_STAGES) = 6
    BY DEF ANALYSIS_STAGES
<1>2. Len(PLAN_STAGES) = 3
    <2>1. ASSUME NEW i \in 1..3 PROVE ANALYSIS_STAGES[i] \in {"INGEST", "NORMALIZE", "EVALUATE"}
        <3>1. i = 1 \/ i = 2 \/ i = 3
            OBVIOUS
        <3>2. QED
            BY <3>1 DEF ANALYSIS_STAGES
    <2>2. Len(SubSeq(ANALYSIS_STAGES, 1, 3)) = IF 1 <= 3 THEN 3 - 1 + 1 ELSE 0
        BY <2>1, SubSeqProperties
    <2>3. QED
        BY <2>2 DEF PLAN_STAGES
<1>3. QED
    BY <1>1, <1>2 DEF Stages

\* A new session, or none.
LEMMA EmptyFits ==
    ASSUME NEW status \in {"none", "CREATED"}, mock' = [Empty EXCEPT !.session = status]
    PROVE  MInv'
<1>1. mock' \in MockStates
    <2>1. NoJob \in MockJob
        BY StageCounts DEF NoJob, MockJob
    <2>2. <<>> \in Seq(QuestionStates)
        BY EmptySeq
    <2>3. Empty \in MockStates
        BY <2>1, <2>2, MockAssumption DEF Empty, MockStates
    <2>4. QED
        BY <2>3 DEF MockStates
<1>2. \A j \in MockJobs : mock'.jobs[j] = NoJob
    BY DEF Empty
<1>3. JobsFit'
    BY <1>2 DEF JobsFit, JobFits, NoJob
<1>4. mock'.questions = <<>> /\ mock'.session = status /\ mock'.interviewCompleted = FALSE
    BY DEF Empty
<1>5. QuestionsFit'
    BY <1>4, EmptySeq DEF QuestionsFit, LastMockQuestion
<1>6. SessionFits'
    BY <1>4 DEF SessionFits
<1>7. QED
    BY <1>1, <1>3, <1>5, <1>6 DEF MInv

\* A step that asks nothing and moves no job but j.
LEMMA MockJobMoves ==
    ASSUME MInv, NEW j \in MockJobs, NEW job \in MockJob, mock' \in MockStates,
           mock'.jobs = [mock.jobs EXCEPT ![j] = job],
           mock.planUploaded => mock'.planUploaded, mock.interviewCompleted => mock'.interviewCompleted,
           JobFits(job)'
    PROVE  JobsFit'
<1>1. mock.jobs \in [MockJobs -> MockJob]
    BY DEF MInv, MockStates
<1>2. ASSUME NEW i \in MockJobs, i # j PROVE JobFits(mock.jobs[i])'
    <2>1. mock'.jobs[i] = mock.jobs[i]
        BY <1>1, <1>2
    <2>2. JobFits(mock.jobs[i])
        BY DEF MInv, JobsFit
    <2>3. QED
        BY <2>1, <2>2 DEF JobFits
<1>3. mock'.jobs[j] = job
    BY <1>1
<1>4. QED
    BY <1>2, <1>3 DEF JobsFit

\* One that moves no job.
LEMMA NoJobMoves ==
    ASSUME MInv, mock'.jobs = mock.jobs,
           mock.planUploaded => mock'.planUploaded, mock.interviewCompleted => mock'.interviewCompleted
    PROVE  JobsFit'
BY DEF MInv, JobsFit, JobFits

\* The questions are a list within the mock's three.
LEMMA QuestionsShape ==
    ASSUME MInv
    PROVE  /\ mock.questions \in Seq(QuestionStates)
           /\ Len(mock.questions) \in Nat /\ Len(mock.questions) <= LastMockQuestion
           /\ DOMAIN mock.questions = 1..Len(mock.questions)
           /\ mock.questions = <<>> <=> Len(mock.questions) = 0
BY LenProperties, EmptySeq DEF MInv, MockStates, QuestionsFit

\* A plan is uploaded: the session has passed its interview.
LEMMA PostPlanKeeps == ASSUME MInv, PostPlan PROVE MInv'
<1>1. PICK j \in Unused : mock' = createJob([mock EXCEPT !.planUploaded = TRUE, !.interviewCompleted = TRUE], j, "PLAN_EXTRACTION")
    BY DEF PostPlan
<1>2. PICK job : job = [kind |-> "PLAN_EXTRACTION", status |-> "QUEUED", done |-> 0]
    OBVIOUS
<1>3. job \in MockJob /\ Len(Stages(job)) > 0
    <2>1. job \in MockJob
        BY <1>2, StageCounts DEF MockJob
    <2>2. Len(Stages(job)) \in {3, 6}
        BY <2>1, StageCounts, Zenon
    <2>3. Len(Stages(job)) > 0
        BY <2>2, SMTT(30)
    <2>4. QED
        BY <2>1, <2>3
<1>4. j \in MockJobs /\ j \in 0..MaxMockJobs
    BY MockAssumption DEF Unused, MockJobs
<1>5. mock' = [mock EXCEPT !.planUploaded = TRUE, !.interviewCompleted = TRUE,
                           !.jobs[j] = job, !.session = "ANALYZING", !.activeJobId = j]
    BY <1>1, <1>2 DEF createJob, MInv, MockStates
<1>6. mock' \in MockStates
    <2>1. mock \in MockStates
        BY DEF MInv
    <2>2. QED
        BY <1>3, <1>4, <1>5, <2>1 DEF MockStates
<1>7. /\ mock'.jobs = [mock.jobs EXCEPT ![j] = job] /\ mock'.questions = mock.questions
      /\ mock'.planUploaded = TRUE /\ mock'.interviewCompleted = TRUE
    BY <1>5 DEF MInv, MockStates
<1>8. JobFits(job)'
    BY <1>2, <1>3, <1>7 DEF JobFits
<1>9. JobsFit'
    BY <1>3, <1>4, <1>6, <1>7, <1>8, MockJobMoves
<1>10. QuestionsFit' /\ SessionFits'
    BY <1>7 DEF MInv, QuestionsFit, SessionFits
<1>11. QED
    BY <1>6, <1>9, <1>10 DEF MInv

\* The first question is asked.
LEMMA PostStartKeeps == ASSUME MInv, PostStart PROVE MInv'
<1>1. mock \in MockStates /\ mock' = [mock EXCEPT !.questions = <<"ACTIVE">>, !.session = "INTERVIEWING"]
    BY DEF MInv, PostStart
<1>2. /\ <<"ACTIVE">> \in Seq(QuestionStates) /\ Len(<<"ACTIVE">>) = 1 /\ <<"ACTIVE">> # <<>>
    BY DEF QuestionStates
<1>3. mock' \in MockStates
    BY <1>1, <1>2 DEF MockStates
<1>4. /\ mock'.jobs = mock.jobs /\ mock'.questions = <<"ACTIVE">> /\ mock'.session = "INTERVIEWING"
      /\ mock'.planUploaded = mock.planUploaded /\ mock'.interviewCompleted = mock.interviewCompleted
    BY <1>1 DEF MockStates
<1>5. JobsFit'
    BY <1>4, NoJobMoves
<1>6. QuestionsFit'
    BY <1>2, <1>4 DEF QuestionsFit, LastMockQuestion
<1>7. SessionFits'
    <2>1. CASE mock.interviewCompleted
        <3>1. 1 \in activeQuestion'
            BY <1>2, <1>4 DEF activeQuestion
        <3>2. StartedLate'
            BY <1>4, <2>1, <3>1 DEF StartedLate
        <3>3. QED
            BY <3>2 DEF SessionFits
    <2>2. CASE ~mock.interviewCompleted
        BY <1>2, <1>4, <2>2 DEF SessionFits
    <2>3. QED
        BY <2>1, <2>2
<1>8. QED
    BY <1>3, <1>5, <1>6, <1>7 DEF MInv

\* What an answer makes of the questions.
LEMMA AnsweredFacts ==
    ASSUME MInv, NEW i \in activeQuestion, NEW answered, answered = [mock.questions EXCEPT ![i] = "ANSWERED"]
    PROVE  /\ i \in Nat /\ i = Len(mock.questions) /\ i \in 1..LastMockQuestion
           /\ answered \in Seq(QuestionStates) /\ Len(answered) = i
           /\ \A k \in 1..i : answered[k] # "ACTIVE"
<1>1. /\ mock.questions \in Seq(QuestionStates) /\ Len(mock.questions) \in Nat
      /\ DOMAIN mock.questions = 1..Len(mock.questions)
      /\ Len(mock.questions) <= LastMockQuestion
    BY QuestionsShape
<1>2. i \in 1..Len(mock.questions) /\ mock.questions[i] = "ACTIVE"
    BY <1>1 DEF activeQuestion
<1>3. i = Len(mock.questions)
    BY <1>2 DEF MInv, QuestionsFit
<1>4. "ANSWERED" \in QuestionStates
    BY DEF QuestionStates
<1>5. /\ answered \in Seq(QuestionStates) /\ Len(answered) = Len(mock.questions)
      /\ \A k \in 1..Len(mock.questions) : answered[k] = IF k = i THEN "ANSWERED" ELSE mock.questions[k]
    BY <1>1, <1>2, <1>4, ExceptSeq
<1>6. \A k \in 1..i : answered[k] # "ACTIVE"
    BY <1>2, <1>3, <1>5 DEF MInv, QuestionsFit
<1>7. QED
    BY <1>1, <1>2, <1>3, <1>5, <1>6

\* An answer brings the next question, or the end.
LEMMA PostAnswerKeeps == ASSUME MInv, PostAnswer PROVE MInv'
<1>1. PICK i \in activeQuestion :
          LET answered == [mock.questions EXCEPT ![i] = "ANSWERED"] IN
          mock' = IF i < LastMockQuestion
                  THEN [mock EXCEPT !.questions = Append(answered, "ACTIVE")]
                  ELSE [mock EXCEPT !.questions = answered, !.interviewCompleted = TRUE,
                                    !.session = "INTERVIEW_DONE"]
    BY DEF PostAnswer
<1>2. PICK answered : answered = [mock.questions EXCEPT ![i] = "ANSWERED"]
    OBVIOUS
<1>3. /\ i \in Nat /\ i = Len(mock.questions) /\ i \in 1..LastMockQuestion
      /\ answered \in Seq(QuestionStates) /\ Len(answered) = i
      /\ \A k \in 1..i : answered[k] # "ACTIVE"
    BY <1>2, AnsweredFacts
<1>4. mock \in MockStates
    BY DEF MInv
<1>5. /\ requireSession /\ ~mock.interviewCompleted
      /\ mock.questions # <<>> /\ SessionFits
    BY <1>3, QuestionsShape DEF MInv, PostAnswer
<1>6. CASE i < LastMockQuestion
    <2>1. PICK more : more = Append(answered, "ACTIVE")
        OBVIOUS
    <2>2. mock' = [mock EXCEPT !.questions = more]
        BY <1>1, <1>2, <1>6, <2>1
    <2>3. /\ more \in Seq(QuestionStates) /\ Len(more) = i + 1
          /\ \A k \in 1..i : more[k] = answered[k]
        BY <1>3, <2>1, AppendProperties DEF QuestionStates
    <2>4. more # <<>>
        BY <1>3, <2>3, EmptySeq
    <2>5. mock' \in MockStates
        BY <1>4, <2>2, <2>3 DEF MockStates
    <2>6. /\ mock'.questions = more /\ mock'.jobs = mock.jobs /\ mock'.session = mock.session
          /\ mock'.planUploaded = mock.planUploaded /\ mock'.interviewCompleted = mock.interviewCompleted
        BY <1>4, <2>2 DEF MockStates
    <2>7. JobsFit'
        BY <2>6, NoJobMoves
    <2>8. QuestionsFit'
        <3>1. \A k \in 1..(i + 1) : k \in 1..i \/ k = i + 1
            BY <1>3
        <3>2. i + 1 <= LastMockQuestion
            BY <1>3, <1>6 DEF LastMockQuestion
        <3>3. QED
            BY <1>3, <2>3, <2>6, <3>1, <3>2, Zenon DEF QuestionsFit
    <2>9. SessionFits'
        <3>1. ~StartedLate
            BY <1>5 DEF StartedLate
        <3>2. QED
            BY <1>5, <2>4, <2>6, <3>1, Zenon DEF SessionFits
    <2>10. QED
        BY <2>5, <2>7, <2>8, <2>9 DEF MInv
<1>7. CASE ~(i < LastMockQuestion)
    <2>1. mock' = [mock EXCEPT !.questions = answered, !.interviewCompleted = TRUE, !.session = "INTERVIEW_DONE"]
        BY <1>1, <1>2, <1>7
    <2>2. mock' \in MockStates
        BY <1>3, <1>4, <2>1 DEF MockStates
    <2>3. /\ mock'.questions = answered /\ mock'.jobs = mock.jobs /\ mock'.session = "INTERVIEW_DONE"
          /\ mock'.planUploaded = mock.planUploaded /\ mock'.interviewCompleted = TRUE
        BY <1>4, <2>1 DEF MockStates
    <2>4. answered # <<>>
        BY <1>3, EmptySeq
    <2>5. JobsFit'
        BY <2>3, NoJobMoves
    <2>6. QuestionsFit'
        BY <1>3, <2>3 DEF QuestionsFit
    <2>7. SessionFits'
        BY <2>3, <2>4 DEF SessionFits
    <2>8. QED
        BY <2>2, <2>5, <2>6, <2>7 DEF MInv
<1>8. QED
    BY <1>6, <1>7

\* The interview is ended early: nothing is left open.
LEMMA PostCompleteKeeps == ASSUME MInv, NEW confirm, PostComplete(confirm) PROVE MInv'
<1>1. PICK left : left = [i \in DOMAIN mock.questions |->
                              IF mock.questions[i] = "ACTIVE" THEN "SKIPPED" ELSE mock.questions[i]]
    OBVIOUS
<1>2. mock \in MockStates
    BY DEF MInv
<1>3. mock' = [mock EXCEPT !.interviewCompleted = TRUE, !.earlyCompleted = TRUE,
                           !.questions = left, !.session = "INTERVIEW_DONE"]
    BY <1>1, <1>2 DEF PostComplete, MockStates
<1>4. PICK n \in Nat : n = Len(mock.questions) /\ DOMAIN mock.questions = 1..n /\ n <= LastMockQuestion
    BY QuestionsShape
<1>5. left \in [1..n -> QuestionStates] /\ \A i \in 1..n : left[i] # "ACTIVE"
    <2>1. \A i \in 1..n : mock.questions[i] \in QuestionStates
        BY <1>4, QuestionsShape, ElementOfSeq
    <2>2. QED
        BY <1>1, <1>4, <2>1 DEF QuestionStates
<1>6. left \in Seq(QuestionStates) /\ Len(left) = n
    <2>1. left \in Seq(QuestionStates)
        BY <1>5
    <2>2. DOMAIN left = 1..n /\ DOMAIN left = 1..Len(left) /\ Len(left) \in Nat
        BY <1>5, <2>1, LenProperties
    <2>3. Len(left) = n
        BY <2>2
    <2>4. QED
        BY <2>1, <2>3
<1>7. mock' \in MockStates
    BY <1>2, <1>3, <1>6 DEF MockStates
<1>8. /\ mock'.questions = left /\ mock'.jobs = mock.jobs /\ mock'.session = "INTERVIEW_DONE"
      /\ mock'.planUploaded = mock.planUploaded /\ mock'.interviewCompleted = TRUE
    BY <1>2, <1>3 DEF MockStates
<1>9. JobsFit'
    BY <1>8, NoJobMoves
<1>10. QuestionsFit'
    BY <1>4, <1>5, <1>6, <1>8 DEF QuestionsFit
<1>11. SessionFits'
    BY <1>8 DEF SessionFits
<1>12. QED
    BY <1>7, <1>9, <1>10, <1>11 DEF MInv

\* An artifact more, or a job asked for or cancelled: what the interview left stays.
LEMMA InterviewLeft ==
    ASSUME MInv, mock'.questions = mock.questions,
           mock'.planUploaded = mock.planUploaded, mock'.interviewCompleted = mock.interviewCompleted,
           \/ mock'.session = mock.session
           \/ /\ mock'.session \in {"INTERVIEW_DONE", "ANALYZING", "REPORT_READY"}
              /\ mock.session # "none" /\ (mock.interviewCompleted \/ mock.planUploaded)
    PROVE  QuestionsFit' /\ SessionFits'
<1>1. QuestionsFit'
    BY DEF MInv, QuestionsFit
<1>2. StartedLate' <=> StartedLate
    BY DEF StartedLate, activeQuestion
<1>3. SessionFits'
    BY <1>2 DEF MInv, SessionFits
<1>4. QED
    BY <1>1, <1>3

\* An artifact more.
LEMMA PostArtifactKeeps == ASSUME MInv, PostArtifact PROVE MInv'
<1>1. mock \in MockStates /\ mock.artifacts + 1 \in 0..MaxMockArtifacts
    BY MockAssumption DEF MInv, MockStates, PostArtifact
<1>2. mock' \in MockStates
    BY <1>1 DEF MockStates, PostArtifact
<1>3. /\ mock'.questions = mock.questions /\ mock'.jobs = mock.jobs /\ mock'.session = mock.session
      /\ mock'.planUploaded = mock.planUploaded /\ mock'.interviewCompleted = mock.interviewCompleted
    BY <1>1 DEF MockStates, PostArtifact
<1>4. QED
    BY <1>2, <1>3, NoJobMoves, InterviewLeft DEF MInv

\* An analysis is queued, after the interview or a plan.
LEMMA PostAnalysisKeeps == ASSUME MInv, PostAnalysis PROVE MInv'
<1>1. PICK j \in Unused : mock' = createJob(mock, j, "ANALYSIS")
    BY DEF PostAnalysis
<1>2. PICK job : job = [kind |-> "ANALYSIS", status |-> "QUEUED", done |-> 0]
    OBVIOUS
<1>3. job \in MockJob /\ Len(Stages(job)) = 6
    BY <1>2, StageCounts DEF MockJob, Stages
<1>4. j \in MockJobs /\ j \in 0..MaxMockJobs
    BY MockAssumption DEF Unused, MockJobs
<1>5. mock \in MockStates
    BY DEF MInv
<1>6. mock' = [mock EXCEPT !.jobs[j] = job, !.session = "ANALYZING", !.activeJobId = j]
    BY <1>1, <1>2 DEF createJob
<1>7. mock' \in MockStates
    BY <1>3, <1>4, <1>5, <1>6 DEF MockStates
<1>8. /\ mock'.jobs = [mock.jobs EXCEPT ![j] = job] /\ mock'.questions = mock.questions
      /\ mock'.session = "ANALYZING"
      /\ mock'.planUploaded = mock.planUploaded /\ mock'.interviewCompleted = mock.interviewCompleted
    BY <1>5, <1>6 DEF MockStates
<1>9. mock.session # "none" /\ (mock.interviewCompleted \/ mock.planUploaded)
    BY DEF PostAnalysis, requireSession
<1>10. JobFits(job)'
    <2>1. job.kind = "ANALYSIS" /\ job.done < Len(Stages(job))
        BY <1>2, <1>3
    <2>2. mock'.planUploaded \/ mock'.interviewCompleted
        BY <1>8, <1>9
    <2>3. QED
        BY <2>1, <2>2 DEF JobFits
<1>11. JobsFit'
    BY <1>3, <1>4, <1>7, <1>8, <1>10, MockJobMoves
<1>12. QED
    BY <1>7, <1>8, <1>9, <1>11, InterviewLeft DEF MInv

\* What a job that is not "none" says of the session.
LEMMA JobShape ==
    ASSUME MInv, NEW j \in MockJobs, mock.jobs[j].kind # "none"
    PROVE  /\ mock \in MockStates /\ mock.jobs[j] \in MockJob
           /\ JobFits(mock.jobs[j])
           /\ mock.interviewCompleted \/ mock.planUploaded
           /\ Len(Stages(mock.jobs[j])) \in {3, 6}
<1>1. mock \in MockStates /\ mock.jobs[j] \in MockJob /\ JobFits(mock.jobs[j])
    BY DEF MInv, MockStates, JobsFit
<1>2. Len(Stages(mock.jobs[j])) \in {3, 6}
    BY <1>1, StageCounts, Zenon
<1>3. QED
    BY <1>1, <1>2 DEF JobFits, MockStates

\* A step of the job j.
LEMMA JobStepKeeps ==
    ASSUME MInv, NEW j \in MockJobs, mock.jobs[j].kind # "none", mock.session # "none",
           NEW status \in {"RUNNING", "SUCCEEDED", "CANCELLED"}, NEW done \in 0..6,
           status # "SUCCEEDED" => done < Len(Stages(mock.jobs[j])),
           NEW session \in {"INTERVIEW_DONE", "ANALYZING", "REPORT_READY", mock.session},
           NEW active \in 0..MaxMockJobs,
           mock' = [mock EXCEPT !.jobs[j].status = status, !.jobs[j].done = done,
                                !.session = session, !.activeJobId = active]
    PROVE  MInv'
<1>1. /\ mock \in MockStates /\ mock.jobs[j] \in MockJob /\ JobFits(mock.jobs[j])
      /\ mock.interviewCompleted \/ mock.planUploaded
    BY JobShape
<1>2. PICK job : job = [mock.jobs[j] EXCEPT !.status = status, !.done = done]
    OBVIOUS
<1>3. /\ job \in MockJob /\ job.kind = mock.jobs[j].kind /\ job.status = status /\ job.done = done
    BY <1>1, <1>2, StageCounts DEF MockJob
<1>4. mock' = [mock EXCEPT !.jobs[j] = job, !.session = session, !.activeJobId = active]
    BY <1>1, <1>2 DEF MockStates
<1>5. mock' \in MockStates
    <2>1. mock.session \in {"none", "CREATED", "INTERVIEWING", "INTERVIEW_DONE", "ANALYZING", "REPORT_READY"}
        BY <1>1 DEF MockStates
    <2>2. session \in {"none", "CREATED", "INTERVIEWING", "INTERVIEW_DONE", "ANALYZING", "REPORT_READY"}
        BY <2>1
    <2>3. [mock.jobs EXCEPT ![j] = job] \in [MockJobs -> MockJob]
        BY <1>1, <1>3 DEF MockStates
    <2>4. QED
        BY <1>1, <1>4, <2>2, <2>3 DEF MockStates
<1>6. /\ mock'.jobs = [mock.jobs EXCEPT ![j] = job] /\ mock'.questions = mock.questions
      /\ mock'.session = session
      /\ mock'.planUploaded = mock.planUploaded /\ mock'.interviewCompleted = mock.interviewCompleted
    BY <1>1, <1>4 DEF MockStates
<1>7. JobFits(job)'
    BY <1>1, <1>3, <1>6 DEF JobFits, Stages
<1>8. JobsFit'
    BY <1>3, <1>5, <1>6, <1>7, MockJobMoves
<1>9. QED
    BY <1>1, <1>5, <1>6, <1>8, InterviewLeft DEF MInv

\* A job moves when it is asked for.
LEMMA GetJobKeeps == ASSUME MInv, NEW j \in MockJobs, GetJob(j) PROVE MInv'
<1>1. /\ mock.session # "none" /\ mock.jobs[j].kind # "none"
    BY DEF GetJob, requireSession
<1>2. /\ mock \in MockStates /\ mock.jobs[j] \in MockJob /\ JobFits(mock.jobs[j])
      /\ Len(Stages(mock.jobs[j])) \in {3, 6}
    BY <1>1, JobShape
<1>3. mock.jobs[j].done \in 0..6 /\ mock.activeJobId \in 0..MaxMockJobs /\ 0 \in 0..MaxMockJobs
    BY <1>2, StageCounts, MockAssumption DEF MockJob, MockStates
<1>4. mock.jobs[j].status # "SUCCEEDED" => mock.jobs[j].done < Len(Stages(mock.jobs[j]))
    BY <1>1, <1>2 DEF JobFits
<1>5. CASE mock.jobs[j].status = "QUEUED" /\ mock' = [mock EXCEPT !.jobs[j].status = "RUNNING"]
    <2>1. mock' = [mock EXCEPT !.jobs[j].status = "RUNNING", !.jobs[j].done = mock.jobs[j].done,
                               !.session = mock.session, !.activeJobId = mock.activeJobId]
        BY <1>2, <1>5 DEF MockStates, MockJob
    <2>2. QED
        <3>1. mock.jobs[j].done < Len(Stages(mock.jobs[j]))
            BY <1>4, <1>5
        <3>2. QED
            BY <1>1, <1>3, <2>1, <3>1, JobStepKeeps
<1>6. CASE /\ mock.jobs[j].status = "RUNNING" /\ mock.jobs[j].done + 1 # Len(Stages(mock.jobs[j]))
           /\ mock' = [mock EXCEPT !.jobs[j].done = @ + 1]
    <2>1. mock' = [mock EXCEPT !.jobs[j].status = "RUNNING", !.jobs[j].done = mock.jobs[j].done + 1,
                               !.session = mock.session, !.activeJobId = mock.activeJobId]
        BY <1>2, <1>6, ZenonT(40) DEF MockStates, MockJob
    <2>2. mock.jobs[j].done + 1 \in 0..6 /\ mock.jobs[j].done + 1 < Len(Stages(mock.jobs[j]))
        <3>1. PICK d \in 0..6, l \in {3, 6} : d = mock.jobs[j].done /\ l = Len(Stages(mock.jobs[j]))
            BY <1>2, <1>3, Zenon
        <3>2. d < l /\ d + 1 # l
            BY <1>4, <1>6, <3>1
        <3>3. d + 1 \in 0..6 /\ d + 1 < l
            BY <3>2
        <3>4. QED
            BY <3>1, <3>3, Zenon
    <2>3. QED
        BY <1>1, <1>3, <2>1, <2>2, JobStepKeeps
<1>7. CASE /\ mock.jobs[j].status = "RUNNING" /\ mock.jobs[j].done + 1 = Len(Stages(mock.jobs[j]))
           /\ mock' = Finish([mock EXCEPT !.jobs[j].done = @ + 1, !.jobs[j].status = "SUCCEEDED"],
                             mock.jobs[j].kind)
    <2>1. PICK session \in {"REPORT_READY", "INTERVIEW_DONE"} :
              mock' = [mock EXCEPT !.jobs[j].status = "SUCCEEDED", !.jobs[j].done = mock.jobs[j].done + 1,
                                   !.session = session, !.activeJobId = 0]
        <3>1. PICK m : m = [mock EXCEPT !.jobs[j].done = @ + 1, !.jobs[j].status = "SUCCEEDED"]
            OBVIOUS
        <3>2. \E session \in {"REPORT_READY", "INTERVIEW_DONE"} :
                  mock' = [m EXCEPT !.session = session, !.activeJobId = 0]
            BY <1>7, <3>1 DEF Finish
        <3>3. m = [mock EXCEPT !.jobs[j].status = "SUCCEEDED", !.jobs[j].done = mock.jobs[j].done + 1]
            <4>1. [[mock.jobs[j] EXCEPT !.done = @ + 1] EXCEPT !.status = "SUCCEEDED"]
                     = [[mock.jobs[j] EXCEPT !.status = "SUCCEEDED"] EXCEPT !.done = mock.jobs[j].done + 1]
                BY <1>2 DEF MockJob
            <4>2. m = [mock EXCEPT !.jobs = [mock.jobs EXCEPT ![j] =
                         [[mock.jobs[j] EXCEPT !.done = @ + 1] EXCEPT !.status = "SUCCEEDED"]]]
                BY <1>2, <3>1 DEF MockStates
            <4>3. [mock EXCEPT !.jobs[j].status = "SUCCEEDED", !.jobs[j].done = mock.jobs[j].done + 1]
                     = [mock EXCEPT !.jobs = [mock.jobs EXCEPT ![j] =
                         [[mock.jobs[j] EXCEPT !.status = "SUCCEEDED"] EXCEPT !.done = mock.jobs[j].done + 1]]]
                BY <1>2 DEF MockStates
            <4>4. QED
                BY <4>1, <4>2, <4>3, Zenon
        <3>4. QED
            BY <1>2, <3>2, <3>3 DEF MockStates
    <2>2. mock.jobs[j].done + 1 \in 0..6
        <3>1. PICK l \in {3, 6} : l = Len(Stages(mock.jobs[j]))
            BY <1>2, Zenon
        <3>2. mock.jobs[j].done + 1 = l
            BY <1>7, <3>1, Zenon
        <3>3. l \in 0..6
            OBVIOUS
        <3>4. QED
            BY <3>2, <3>3, Zenon
    <2>3. QED
        BY <1>1, <1>3, <2>1, <2>2, JobStepKeeps
<1>8. QED
    BY <1>5, <1>6, <1>7 DEF GetJob

\* A job that has not succeeded is cancelled.
LEMMA CancelKeeps == ASSUME MInv, NEW j \in MockJobs, CancelMockJob(j) PROVE MInv'
<1>1. /\ mock.session # "none" /\ mock.jobs[j].kind # "none" /\ mock.jobs[j].status # "SUCCEEDED"
    BY DEF CancelMockJob, requireSession
<1>2. /\ mock \in MockStates /\ mock.jobs[j] \in MockJob /\ JobFits(mock.jobs[j])
      /\ mock.interviewCompleted \/ mock.planUploaded
    BY <1>1, JobShape
<1>3. /\ mock.jobs[j].done \in 0..6 /\ 0 \in 0..MaxMockJobs
      /\ mock.jobs[j].done < Len(Stages(mock.jobs[j]))
    BY <1>1, <1>2, StageCounts, MockAssumption DEF MockJob, JobFits
<1>4. mock' = [mock EXCEPT !.jobs[j].status = "CANCELLED", !.jobs[j].done = mock.jobs[j].done,
                           !.session = "INTERVIEW_DONE", !.activeJobId = 0]
    <2>1. mock' = [mock EXCEPT !.jobs[j].status = "CANCELLED", !.activeJobId = 0, !.session = "INTERVIEW_DONE"]
        BY <1>2 DEF CancelMockJob
    <2>2. QED
        <3>1. [mock EXCEPT !.jobs[j].status = "CANCELLED"]
                 = [mock EXCEPT !.jobs[j].status = "CANCELLED", !.jobs[j].done = mock.jobs[j].done]
            BY <1>2 DEF MockStates, MockJob
        <3>2. \A m \in MockStates : [m EXCEPT !.activeJobId = 0, !.session = "INTERVIEW_DONE"]
                                   = [m EXCEPT !.session = "INTERVIEW_DONE", !.activeJobId = 0]
            BY DEF MockStates
        <3>3. [mock EXCEPT !.jobs[j].status = "CANCELLED"] \in MockStates
            BY <1>2 DEF MockStates, MockJob
        <3>4. QED
            BY <2>1, <3>1, <3>2, <3>3
<1>5. QED
    BY <1>1, <1>3, <1>4, JobStepKeeps

\* A cancelled job goes on where it was.
LEMMA RetryKeeps == ASSUME MInv, NEW j \in MockJobs, RetryMockJob(j) PROVE MInv'
<1>1. /\ mock.session # "none" /\ mock.jobs[j].kind # "none" /\ mock.jobs[j].status = "CANCELLED"
    BY DEF RetryMockJob, requireSession
<1>2. /\ mock \in MockStates /\ mock.jobs[j] \in MockJob /\ JobFits(mock.jobs[j])
    BY <1>1, JobShape
<1>3. /\ mock.jobs[j].done \in 0..6 /\ j \in 0..MaxMockJobs
      /\ mock.jobs[j].done < Len(Stages(mock.jobs[j]))
    BY <1>1, <1>2, StageCounts, MockAssumption DEF MockJob, JobFits, MockJobs
<1>4. mock' = [mock EXCEPT !.jobs[j].status = "RUNNING", !.jobs[j].done = mock.jobs[j].done,
                           !.session = "ANALYZING", !.activeJobId = j]
    BY <1>2 DEF RetryMockJob, MockStates, MockJob
<1>5. QED
    BY <1>1, <1>3, <1>4, JobStepKeeps

\* There is no session at first.
LEMMA MInvInit == MockInit => MInv
<1> SUFFICES ASSUME MockInit PROVE MInv
    OBVIOUS
<1>1. mock \in MockStates
    <2>1. NoJob \in MockJob
        BY StageCounts DEF NoJob, MockJob
    <2>2. <<>> \in Seq(QuestionStates)
        BY EmptySeq
    <2>3. QED
        BY <2>1, <2>2, MockAssumption DEF Empty, MockStates, MockInit
<1>2. \A j \in MockJobs : mock.jobs[j] = NoJob
    BY DEF Empty, MockInit
<1>3. JobsFit
    BY <1>2 DEF JobsFit, JobFits, NoJob
<1>4. mock.questions = <<>> /\ mock.session = "none"
    BY DEF Empty, MockInit
<1>5. QuestionsFit
    BY <1>4, EmptySeq DEF QuestionsFit, LastMockQuestion
<1>6. SessionFits
    BY <1>4 DEF SessionFits
<1>7. QED
    BY <1>1, <1>3, <1>5, <1>6 DEF MInv

\* Every request keeps the invariant.
LEMMA MInvNext == MInv /\ [MockNext]_mock => MInv'
<1> SUFFICES ASSUME MInv, [MockNext]_mock PROVE MInv'
    OBVIOUS
<1>1. CASE PostSession
    BY <1>1, EmptyFits DEF PostSession
<1>2. CASE DeleteMockSession
    <2>1. mock \in MockStates /\ mock' = [mock EXCEPT !.session = "none"]
        BY <1>2 DEF DeleteMockSession, MInv
    <2>2. mock' \in MockStates
        BY <2>1 DEF MockStates
    <2>3. /\ mock'.questions = mock.questions /\ mock'.jobs = mock.jobs /\ mock'.session = "none"
          /\ mock'.planUploaded = mock.planUploaded /\ mock'.interviewCompleted = mock.interviewCompleted
        BY <2>1 DEF MockStates
    <2>4. JobsFit'
        BY <2>3, NoJobMoves
    <2>5. QuestionsFit' /\ SessionFits'
        BY <2>3 DEF QuestionsFit, SessionFits, MInv
    <2>6. QED
        BY <2>2, <2>4, <2>5 DEF MInv
<1>3. CASE PostPlan
    BY <1>3, PostPlanKeeps
<1>4. CASE PostStart
    BY <1>4, PostStartKeeps
<1>5. CASE PostAnswer
    BY <1>5, PostAnswerKeeps
<1>6. ASSUME NEW confirm, PostComplete(confirm) PROVE MInv'
    BY <1>6, PostCompleteKeeps
<1>7. CASE PostArtifact
    BY <1>7, PostArtifactKeeps
<1>8. CASE PostAnalysis
    BY <1>8, PostAnalysisKeeps
<1>9. ASSUME NEW j \in MockJobs, GetJob(j) PROVE MInv'
    BY <1>9, GetJobKeeps
<1>10. ASSUME NEW j \in MockJobs, CancelMockJob(j) PROVE MInv'
    BY <1>10, CancelKeeps
<1>11. ASSUME NEW j \in MockJobs, RetryMockJob(j) PROVE MInv'
    BY <1>11, RetryKeeps
<1>12. CASE UNCHANGED mock
    BY <1>12 DEF MInv, JobsFit, JobFits, QuestionsFit, SessionFits, StartedLate, activeQuestion
<1>13. QED
    BY <1>1, <1>2, <1>3, <1>4, <1>5, <1>6, <1>7, <1>8, <1>9, <1>10, <1>11, <1>12, Zenon DEF MockNext

\* The invariant holds in every state of the mock.
THEOREM MockInvariance == MockSpec => []MInv
BY MInvInit, MInvNext, PTL DEF MockSpec

\* The mock's state keeps its types: no fourth question, no seventh stage.
THEOREM MockTypeCorrect == MockSpec => []MockTypeOK
<1>1. MInv => MockTypeOK
    BY QuestionsShape, ElementOfSeq DEF MInv, MockStates, MockTypeOK, QuestionStates
<1>2. QED
    BY <1>1, MockInvariance, PTL

-----------------------------------------------------------------------------
\* What the lifecycle sees of the mock.
Delivered == \E j \in MockJobs : mock.jobs[j].kind = "ANALYSIS" /\ mock.jobs[j].status = "SUCCEEDED"

\* What MockFollowsLifecycle allows a step.
Follows == \/ Lifecycle!Next \/ Lifecycle!Init' \/ mock'.planUploaded \/ StartedLate'
           \/ UNCHANGED Lifecycle!vars

\* A step the lifecycle does not see.
LEMMA Unseen ==
    ASSUME mock'.session = mock.session, mock'.jobs = mock.jobs
    PROVE  Follows
BY DEF Follows, Lifecycle!vars, AtWork

\* A job moves: what becomes of the workers and the report.
LEMMA JobSeen ==
    ASSUME MInv, NEW j \in MockJobs, NEW job \in MockJob,
           mock'.jobs = [mock.jobs EXCEPT ![j] = job],
           ~(mock.jobs[j].kind = "ANALYSIS" /\ mock.jobs[j].status = "SUCCEEDED")
    PROVE  /\ AtWork' = IF job.kind = "ANALYSIS" /\ job.status \in {"QUEUED", "RUNNING"}
                        THEN AtWork \cup {j} ELSE AtWork \ {j}
           /\ Delivered' <=> Delivered \/ (job.kind = "ANALYSIS" /\ job.status = "SUCCEEDED")
<1>1. /\ mock'.jobs[j] = job /\ \A i \in MockJobs \ {j} : mock'.jobs[i] = mock.jobs[i]
    BY DEF MInv, MockStates
<1>2. AtWork' = IF job.kind = "ANALYSIS" /\ job.status \in {"QUEUED", "RUNNING"}
                THEN AtWork \cup {j} ELSE AtWork \ {j}
    BY <1>1 DEF AtWork
<1>3. Delivered' <=> Delivered \/ (job.kind = "ANALYSIS" /\ job.status = "SUCCEEDED")
    BY <1>1 DEF Delivered
<1>4. QED
    BY <1>2, <1>3

\* Without a plan and a late start a session with a job has been interviewed, and the job is an analysis.
LEMMA AnalysesOnly ==
    ASSUME MInv, NEW j \in MockJobs, mock.session # "none", ~mock.planUploaded,
           ~StartedLate, mock.jobs[j].kind # "none"
    PROVE  /\ mock.jobs[j].kind = "ANALYSIS" /\ mock.jobs[j] \in MockJob
           /\ mock.session \in {"INTERVIEW_DONE", "ANALYZING", "REPORT_READY"}
BY DEF MInv, MockStates, JobsFit, JobFits, SessionFits

\* A job asked for delivers its report at its last stage, and stutters before.
LEMMA GetJobFollows ==
    ASSUME MInv, NEW j \in MockJobs, GetJob(j), ~mock.planUploaded, ~StartedLate
    PROVE  Follows
<1>1. mock.session # "none" /\ mock.jobs[j].kind # "none"
    BY DEF GetJob, requireSession
<1>2. /\ mock.jobs[j].kind = "ANALYSIS" /\ mock.jobs[j] \in MockJob /\ mock \in MockStates
      /\ mock.session \in {"INTERVIEW_DONE", "ANALYZING", "REPORT_READY"}
    BY <1>1, AnalysesOnly DEF MInv
<1>3. ASSUME NEW job \in MockJob, mock'.jobs = [mock.jobs EXCEPT ![j] = job], mock'.session = mock.session,
             job.kind = "ANALYSIS", job.status = "RUNNING", mock.jobs[j].status \in {"QUEUED", "RUNNING"}
      PROVE  Follows
    <2>1. AtWork' = AtWork /\ (Delivered' <=> Delivered)
        <3>1. j \in AtWork
            BY <1>2, <1>3 DEF AtWork
        <3>2. QED
            BY <1>3, <3>1, JobSeen
    <2>2. QED
        BY <1>3, <2>1 DEF Follows, Lifecycle!vars, Delivered
<1>4. CASE mock.jobs[j].status = "QUEUED" /\ mock' = [mock EXCEPT !.jobs[j].status = "RUNNING"]
    <2>1. PICK job : job = [mock.jobs[j] EXCEPT !.status = "RUNNING"]
        OBVIOUS
    <2>2. job \in MockJob /\ job.kind = "ANALYSIS" /\ job.status = "RUNNING"
        BY <1>2, <2>1 DEF MockJob
    <2>3. mock'.jobs = [mock.jobs EXCEPT ![j] = job] /\ mock'.session = mock.session
        BY <1>2, <1>4, <2>1 DEF MockStates
    <2>4. QED
        BY <1>3, <1>4, <2>2, <2>3
<1>5. CASE mock.jobs[j].status = "RUNNING" /\ mock' = [mock EXCEPT !.jobs[j].done = @ + 1]
           /\ mock.jobs[j].done + 1 # Len(Stages(mock.jobs[j]))
    <2>1. PICK job : job = [mock.jobs[j] EXCEPT !.done = @ + 1]
        OBVIOUS
    <2>2. mock'.jobs = [mock.jobs EXCEPT ![j] = job] /\ mock'.session = mock.session
        BY <1>2, <1>5, <2>1 DEF MockStates
    <2>3. job \in MockJob
        <3>1. mock' \in MockStates
            BY GetJobKeeps DEF MInv
        <3>2. mock'.jobs[j] = job
            BY <1>2, <2>2 DEF MockStates
        <3>3. QED
            BY <3>1, <3>2 DEF MockStates
    <2>4. job.kind = "ANALYSIS" /\ job.status = "RUNNING"
        BY <1>2, <1>5, <2>1 DEF MockJob
    <2>5. QED
        BY <1>3, <1>5, <2>2, <2>3, <2>4
<1>6. CASE /\ mock.jobs[j].status = "RUNNING"
           /\ mock' = Finish([mock EXCEPT !.jobs[j].done = @ + 1, !.jobs[j].status = "SUCCEEDED"],
                             mock.jobs[j].kind)
    <2>1. PICK job : job = [[mock.jobs[j] EXCEPT !.done = @ + 1] EXCEPT !.status = "SUCCEEDED"]
        OBVIOUS
    <2>2. mock'.jobs = [mock.jobs EXCEPT ![j] = job] /\ mock'.session = "REPORT_READY"
        BY <1>2, <1>6, <2>1 DEF MockStates, Finish
    <2>3. job \in MockJob
        <3>1. mock' \in MockStates
            BY GetJobKeeps DEF MInv
        <3>2. mock'.jobs[j] = job
            BY <1>2, <2>2 DEF MockStates
        <3>3. QED
            BY <3>1, <3>2 DEF MockStates
    <2>4. job.kind = "ANALYSIS" /\ job.status = "SUCCEEDED"
        BY <1>2, <2>1 DEF MockJob
    <2>5. AtWork' = AtWork \ {j} /\ Delivered' /\ j \in AtWork
        BY <1>2, <1>6, <2>2, <2>3, <2>4, JobSeen DEF AtWork
    <2>6. Lifecycle!Deliver(j)
        BY <1>1, <2>2, <2>5 DEF Lifecycle!Deliver, Delivered
    <2>7. QED
        BY <2>6 DEF Follows, Lifecycle!Next
<1>7. QED
    BY <1>4, <1>5, <1>6 DEF GetJob

\* A cancellation takes a pipeline from its work, or comes after it.
LEMMA CancelFollows ==
    ASSUME MInv, NEW j \in MockJobs, CancelMockJob(j), ~mock.planUploaded, ~StartedLate
    PROVE  Follows
<1>1. mock.session # "none" /\ mock.jobs[j].kind # "none" /\ mock.jobs[j].status # "SUCCEEDED"
    BY DEF CancelMockJob, requireSession
<1>2. /\ mock.jobs[j].kind = "ANALYSIS" /\ mock.jobs[j] \in MockJob /\ mock \in MockStates
      /\ mock.session \in {"INTERVIEW_DONE", "ANALYZING", "REPORT_READY"}
    BY <1>1, AnalysesOnly DEF MInv
<1>3. mock.interviewCompleted \/ mock.planUploaded
    BY <1>1, JobShape
<1>4. PICK job : job = [mock.jobs[j] EXCEPT !.status = "CANCELLED"]
    OBVIOUS
<1>5. job \in MockJob /\ job.kind = "ANALYSIS" /\ job.status = "CANCELLED"
    BY <1>2, <1>4 DEF MockJob
<1>6. mock'.jobs = [mock.jobs EXCEPT ![j] = job] /\ mock'.session = "INTERVIEW_DONE"
    BY <1>2, <1>3, <1>4 DEF CancelMockJob, MockStates
<1>7. AtWork' = AtWork \ {j} /\ (Delivered' <=> Delivered)
    BY <1>1, <1>5, <1>6, JobSeen
<1>8. CASE j \in AtWork
    <2>1. Lifecycle!GiveBack(j)
        BY <1>1, <1>6, <1>7, <1>8 DEF Lifecycle!GiveBack, Delivered
    <2>2. QED
        BY <2>1 DEF Follows, Lifecycle!Next
<1>9. CASE j \notin AtWork
    <2>1. Lifecycle!Cancel
        BY <1>1, <1>2, <1>6, <1>7, <1>9 DEF Lifecycle!Cancel, Lifecycle!Interviewed, Delivered
    <2>2. QED
        BY <2>1 DEF Follows, Lifecycle!Next
<1>10. QED
    BY <1>8, <1>9

\* A retry puts a pipeline to work.
LEMMA RetryFollows ==
    ASSUME MInv, NEW j \in MockJobs, RetryMockJob(j), ~mock.planUploaded, ~StartedLate
    PROVE  Follows
<1>1. mock.session # "none" /\ mock.jobs[j].kind # "none" /\ mock.jobs[j].status = "CANCELLED"
    BY DEF RetryMockJob, requireSession
<1>2. /\ mock.jobs[j].kind = "ANALYSIS" /\ mock.jobs[j] \in MockJob /\ mock \in MockStates
      /\ mock.session \in {"INTERVIEW_DONE", "ANALYZING", "REPORT_READY"}
    BY <1>1, AnalysesOnly DEF MInv
<1>3. PICK job : job = [mock.jobs[j] EXCEPT !.status = "RUNNING"]
    OBVIOUS
<1>4. job \in MockJob /\ job.kind = "ANALYSIS" /\ job.status = "RUNNING"
    BY <1>2, <1>3 DEF MockJob
<1>5. mock'.jobs = [mock.jobs EXCEPT ![j] = job] /\ mock'.session = "ANALYZING"
    BY <1>2, <1>3 DEF RetryMockJob, MockStates
<1>6. AtWork' = AtWork \cup {j} /\ (Delivered' <=> Delivered) /\ j \notin AtWork
    BY <1>1, <1>4, <1>5, JobSeen DEF AtWork
<1>7. Lifecycle!Analyze(j)
    BY <1>1, <1>2, <1>5, <1>6 DEF Lifecycle!Analyze, Lifecycle!Interviewed, Delivered
<1>8. QED
    BY <1>7 DEF Follows, Lifecycle!Next

\* So does a new analysis.
LEMMA PostAnalysisFollows ==
    ASSUME MInv, PostAnalysis, ~mock.planUploaded, ~StartedLate
    PROVE  Follows
<1>1. PICK j \in Unused : mock' = createJob(mock, j, "ANALYSIS")
    BY DEF PostAnalysis
<1>2. j \in MockJobs /\ mock.jobs[j].kind = "none" /\ mock \in MockStates
    BY DEF Unused, MInv
<1>3. mock.session \in {"INTERVIEW_DONE", "ANALYZING", "REPORT_READY"}
    BY <1>2 DEF MInv, SessionFits, PostAnalysis, requireSession, MockStates
<1>4. PICK job : job = [kind |-> "ANALYSIS", status |-> "QUEUED", done |-> 0]
    OBVIOUS
<1>5. job \in MockJob /\ job.kind = "ANALYSIS" /\ job.status = "QUEUED"
    BY <1>4, StageCounts DEF MockJob
<1>6. mock'.jobs = [mock.jobs EXCEPT ![j] = job] /\ mock'.session = "ANALYZING"
    BY <1>1, <1>2, <1>4 DEF createJob, MockStates
<1>7. AtWork' = AtWork \cup {j} /\ (Delivered' <=> Delivered) /\ j \notin AtWork
    BY <1>2, <1>5, <1>6, JobSeen DEF AtWork
<1>8. Lifecycle!Analyze(j)
    BY <1>2, <1>3, <1>6, <1>7 DEF Lifecycle!Analyze, Lifecycle!Interviewed, Delivered
<1>9. QED
    BY <1>2, <1>8 DEF Follows, Lifecycle!Next

\* The interview begins and ends.
LEMMA InterviewFollows ==
    ASSUME MInv, PostStart \/ PostAnswer \/ (\E confirm \in BOOLEAN : PostComplete(confirm)),
           ~mock.planUploaded
    PROVE  Follows
<1>1. mock \in MockStates /\ mock.session # "none" /\ SessionFits
    BY DEF MInv, PostStart, PostAnswer, PostComplete, requireSession
<1>2. mock'.jobs = mock.jobs
    BY <1>1 DEF PostStart, PostAnswer, PostComplete, MockStates
<1>3. AtWork' = AtWork /\ (Delivered' <=> Delivered)
    BY <1>2 DEF AtWork, Delivered
<1>4. CASE PostStart
    <2>1. /\ mock'.session = "INTERVIEWING" /\ mock'.questions = <<"ACTIVE">>
          /\ mock'.interviewCompleted = mock.interviewCompleted
        BY <1>1, <1>4 DEF PostStart, MockStates
    <2>2. CASE mock.interviewCompleted
        <3>1. 1 \in activeQuestion'
            BY <2>1 DEF activeQuestion
        <3>2. StartedLate'
            BY <2>1, <2>2, <3>1 DEF StartedLate
        <3>3. QED
            BY <3>2 DEF Follows
    <2>3. CASE ~mock.interviewCompleted
        <3>1. mock.session = "CREATED"
            BY <1>1, <1>4, <2>3 DEF PostStart, SessionFits, StartedLate
        <3>2. Lifecycle!StartInterview
            BY <1>1, <1>3, <2>1, <3>1 DEF Lifecycle!StartInterview, Delivered
        <3>3. QED
            BY <3>2 DEF Follows, Lifecycle!Next
    <2>4. QED
        BY <2>2, <2>3
<1>5. CASE mock'.session = "INTERVIEW_DONE" /\ ~mock.interviewCompleted
    <2>1. mock.session \in {"CREATED", "INTERVIEWING"}
        BY <1>1, <1>5 DEF SessionFits, StartedLate
    <2>2. Lifecycle!EndInterview
        BY <1>1, <1>3, <1>5, <2>1 DEF Lifecycle!EndInterview, Lifecycle!Interviewed, Delivered
    <2>3. QED
        BY <2>2 DEF Follows, Lifecycle!Next
<1>6. CASE mock'.session = mock.session
    BY <1>2, <1>6, Unseen
<1>7. ASSUME NEW confirm \in BOOLEAN, PostComplete(confirm) PROVE Follows
    <2>1. mock'.session = "INTERVIEW_DONE" /\ ~mock.interviewCompleted
        BY <1>1, <1>7 DEF PostComplete, MockStates
    <2>2. QED
        BY <1>5, <2>1
<1>8. CASE PostAnswer
    <2>1. mock'.session = mock.session \/ mock'.session = "INTERVIEW_DONE"
        BY <1>1, <1>8 DEF PostAnswer, MockStates
    <2>2. QED
        BY <1>5, <1>6, <1>8, <2>1 DEF PostAnswer
<1>9. QED
    BY <1>4, <1>7, <1>8

\* Every request is a step of the lifecycle, a new session or none, or one with a plan
\* or a late start.
LEMMA MockStepFollows == MInv /\ [MockNext]_mock => Follows
<1> SUFFICES ASSUME MInv, [MockNext]_mock PROVE Follows
    OBVIOUS
<1>0. mock \in MockStates
    BY DEF MInv
<1>1. CASE PostSession
    <2>1. mock'.session = "CREATED" /\ \A j \in MockJobs : mock'.jobs[j] = NoJob
        BY <1>1 DEF PostSession, Empty
    <2>2. AtWork' = {} /\ ~Delivered'
        BY <2>1 DEF AtWork, Delivered, NoJob
    <2>3. Lifecycle!Init'
        BY <2>1, <2>2 DEF Lifecycle!Init, Delivered
    <2>4. QED
        BY <2>3 DEF Follows
<1>2. CASE DeleteMockSession
    <2>1. mock'.session = "none"
        BY <1>0, <1>2 DEF DeleteMockSession, MockStates
    <2>2. Lifecycle!Init'
        BY <2>1 DEF Lifecycle!Init
    <2>3. QED
        BY <2>2 DEF Follows
<1>3. CASE PostPlan
    <2>1. mock'.planUploaded
        BY <1>0, <1>3 DEF PostPlan, createJob, MockStates
    <2>2. QED
        BY <2>1 DEF Follows
<1>4. CASE /\ mock.planUploaded \/ StartedLate
           /\ mock'.planUploaded = mock.planUploaded
           /\ mock'.questions = mock.questions
           /\ mock'.interviewCompleted = mock.interviewCompleted
    <2>1. StartedLate' <=> StartedLate
        BY <1>4 DEF StartedLate, activeQuestion
    <2>2. QED
        BY <1>4, <2>1 DEF Follows
<1>5. CASE PostStart \/ PostAnswer \/ \E confirm \in BOOLEAN : PostComplete(confirm)
    <2>1. mock'.planUploaded = mock.planUploaded
        BY <1>0, <1>5 DEF PostStart, PostAnswer, PostComplete, MockStates
    <2>2. CASE mock.planUploaded
        BY <2>1, <2>2 DEF Follows
    <2>3. QED
        BY <1>5, <2>2, InterviewFollows
<1>6. CASE PostArtifact
    BY <1>0, <1>6, Unseen DEF PostArtifact, MockStates
<1>7. CASE PostAnalysis
    <2>1. /\ mock'.planUploaded = mock.planUploaded /\ mock'.questions = mock.questions
          /\ mock'.interviewCompleted = mock.interviewCompleted
        BY <1>0, <1>7 DEF PostAnalysis, createJob, MockStates
    <2>2. QED
        BY <1>0, <1>4, <1>7, <2>1, PostAnalysisFollows DEF MockStates
<1>8. ASSUME NEW j \in MockJobs, GetJob(j) \/ CancelMockJob(j) \/ RetryMockJob(j) PROVE Follows
    <2>1. /\ mock'.planUploaded = mock.planUploaded /\ mock'.questions = mock.questions
          /\ mock'.interviewCompleted = mock.interviewCompleted
        BY <1>0, <1>8 DEF GetJob, CancelMockJob, RetryMockJob, Finish, MockStates
    <2>2. QED
        BY <1>0, <1>4, <1>8, <2>1, GetJobFollows, CancelFollows, RetryFollows DEF MockStates
<1>9. CASE UNCHANGED mock
    BY <1>9, Unseen
<1>10. QED
    BY <1>1, <1>2, <1>3, <1>5, <1>6, <1>7, <1>8, <1>9, Zenon DEF MockNext

\* mockBackend.ts: the mock moves a session as SessionLifecycle allows, but for sessions
\* created or deleted, an uploaded plan, and a start after the completion.
THEOREM MockFollows == MockSpec => MockFollowsLifecycle
<1>1. MockInit => Lifecycle!Init
    BY DEF MockInit, Empty, Lifecycle!Init
<1>2. MInv /\ [MockNext]_mock =>
          [Lifecycle!Next \/ Lifecycle!Init' \/ mock'.planUploaded \/ StartedLate']_(Lifecycle!vars)
    BY MockStepFollows DEF Follows
<1>3. QED
    BY <1>1, <1>2, MockInvariance, PTL DEF MockSpec, MockFollowsLifecycle
=============================================================================
