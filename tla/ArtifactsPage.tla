---------------------------- MODULE ArtifactsPage ----------------------------
(***************************************************************************)
(* The submission page (pages/ArtifactsPage.tsx): the list of artifacts is *)
(* loaded, files go up one after the other in the order they were chosen,  *)
(* several such chains beside each other, links beside them; then the      *)
(* analysis is started, by hand or by the sample.  The calls other than    *)
(* the first load outlive the page, and so do the chains.                  *)
(***************************************************************************)
EXTENDS Naturals, FiniteSets

CONSTANTS MaxFiles,          \* bound: files on the page, or on their way, at once
          MaxArtCalls,       \* bound: calls on their way at once when one more is made
          ArtifactMaxCount

ASSUME ArtifactsAssumption == ArtifactMaxCount \in Nat

VARIABLE art

Files == 1..MaxFiles
Alone == 0                   \* behind no other file
LinkTabs == {"LINK", "GITHUB"}
Counts == 0..ArtifactMaxCount
\* behind: of a file that waits, the file of its chain that is going up.
File == [status : {"none", "queued", "uploading", "success", "failed"},
         behind : Files \cup {Alone}, mine : BOOLEAN]

ArtTypeOK ==
    art \in [onPage : BOOLEAN, session : BOOLEAN, sample : BOOLEAN, sampleStarted : BOOLEAN,
             listed : Counts, accepted : Counts, analysing : BOOLEAN,
             loading : BOOLEAN, loadError : BOOLEAN, starting : BOOLEAN,
             loads : SUBSET [mine : BOOLEAN, signal : {"none", "live", "aborted"}, since : Counts],
             files : [Files -> File], submittingLink : LinkTabs \cup {"none"},
             links : SUBSET [tab : LinkTabs, mine : BOOLEAN],
             asks : SUBSET [kind : {"start", "sampleSubmit", "sampleStart"}, mine : BOOLEAN]]

NoFile == [status |-> "none", behind |-> Alone, mine |-> FALSE]
First(files) == CHOOSE f \in files : \A g \in files : f <= g
fetchArtifacts(a, signal) ==
    [a EXCEPT !.loading = TRUE, !.loadError = FALSE,
              !.loads = @ \cup {[mine |-> TRUE, signal |-> signal, since |-> a.accepted]}]
\* The page just mounted.
Opened(a) ==
    fetchArtifacts([a EXCEPT !.onPage = TRUE, !.sampleStarted = FALSE, !.submittingLink = "none",
                             !.starting = FALSE], "live")
ArtInit ==
    \E sample \in BOOLEAN :
        art = Opened([onPage |-> FALSE, session |-> TRUE, sample |-> sample,
                      sampleStarted |-> FALSE, listed |-> 0, accepted |-> 0,
                      analysing |-> FALSE, loading |-> FALSE, loadError |-> FALSE,
                      starting |-> FALSE, loads |-> {},
                      files |-> [f \in Files |-> NoFile], submittingLink |-> "none",
                      links |-> {}, asks |-> {}])

\* Leaving: the first load is aborted, the rest goes on without its component.
Deserted(r) == [r EXCEPT !.mine = FALSE]
Left(a) ==
    [a EXCEPT !.onPage = FALSE, !.loading = FALSE, !.loadError = FALSE, !.starting = FALSE,
              !.sampleStarted = FALSE, !.submittingLink = "none",
              !.loads = {[l EXCEPT !.mine = FALSE, !.signal = IF @ = "none" THEN @ ELSE "aborted"] : l \in @},
              !.links = {Deserted(l) : l \in @}, !.asks = {Deserted(c) : c \in @},
              !.files = [f \in Files |-> IF @[f].status \in {"queued", "uploading"}
                                         THEN Deserted(@[f]) ELSE NoFile]]
ArtGone(a) == [Left(a) EXCEPT !.session = FALSE]

\* The list may hold an artifact twice, by a load and by its own answer; what is
\* beyond the maximum makes no difference and is not counted.
AddArtifact(a) == [a EXCEPT !.listed = IF @ < ArtifactMaxCount THEN @ + 1 ELSE @]
\* The server takes an artifact of the session while there is room.
Room == art.session /\ art.accepted < ArtifactMaxCount
Accept(a) == [a EXCEPT !.accepted = @ + 1]
MayAskServer ==
    Cardinality(art.loads) + Cardinality(art.links) + Cardinality(art.asks)
    + Cardinality({f \in Files : art.files[f].status = "uploading"}) < MaxArtCalls

-----------------------------------------------------------------------------
EnterArtifacts == ~art.onPage /\ art.session /\ MayAskServer /\ art' = Opened(art)
LeaveArtifacts == art.onPage /\ art' = Left(art)

\* A load lists what the server had at some moment since it was sent; one that
\* was aborted leaves the flag to the next one.
FetchEnds(l) ==
    LET a == [art EXCEPT !.loads = @ \ {l}, !.loading = @ /\ ~(l.mine /\ l.signal # "aborted")] IN
    /\ l \in art.loads
    /\ \/ art.session /\ \E n \in l.since..art.accepted : art' = [a EXCEPT !.listed = n]
       \/ l.signal # "aborted" /\ art' \in {[a EXCEPT !.loadError = @ \/ l.mine], ArtGone(a)}
       \/ l.signal = "aborted" /\ art' = a
\* "다시 불러오기", by a load without a signal.
ReloadArtifacts ==
    /\ art.onPage /\ art.loadError /\ ~art.loading /\ MayAskServer
    /\ art' = fetchArtifacts(art, "none")

\* Valid files are chosen: as long as there is room beside what is listed, going
\* up or up, they form a chain that goes up in order.  The others are only shown.
Counted == Cardinality({f \in Files : art.files[f].mine
                                      /\ art.files[f].status \in {"queued", "uploading", "success"}})
onFiles(chosen) ==
    /\ art.onPage /\ art.session /\ chosen # {} /\ MayAskServer
    /\ \A f \in chosen : art.files[f].status = "none"
    /\ art.listed + Counted + Cardinality(chosen) <= ArtifactMaxCount
    /\ art' = [art EXCEPT !.files = [f \in Files |->
          IF f \notin chosen THEN @[f]
          ELSE IF f = First(chosen) THEN [status |-> "uploading", behind |-> Alone, mine |-> TRUE]
          ELSE [status |-> "queued", behind |-> First(chosen), mine |-> TRUE]]]
retryFile(f) ==
    /\ art.onPage /\ art.files[f].status = "failed" /\ MayAskServer
    /\ art' = [art EXCEPT !.files[f] = [status |-> "uploading", behind |-> Alone, mine |-> TRUE]]

\* submitValidFiles after the await: the next file of the chain goes up.
Behind(files, f) == {g \in Files : files[g].status = "queued" /\ files[g].behind = f}
NextOf(files, f) ==
    LET next == First(Behind(files, f))
    IN  [g \in Files |-> IF g \notin Behind(files, f) THEN files[g]
                         ELSE IF g = next THEN [files[g] EXCEPT !.status = "uploading", !.behind = Alone]
                         ELSE [files[g] EXCEPT !.behind = next]]
Uploaded(a, f, status) ==
    [a EXCEPT !.files = NextOf([@ EXCEPT ![f] = IF a.files[f].mine
           THEN [status |-> status, behind |-> Alone, mine |-> TRUE] ELSE NoFile], f)]
UploadEnds(f) ==
    /\ art.files[f].status = "uploading"
    /\ \/ Room /\ art' = Uploaded(AddArtifact(Accept(art)), f, "success")
       \/ art' = Uploaded(art, f, "failed")
       \/ Room /\ art' = Uploaded(Accept(art), f, "failed")          \* the answer is lost
       \/ art' = [ArtGone(art) EXCEPT                                \* the chain ends
                     !.files = [g \in Files |-> IF g = f \/ g \in Behind(art.files, f)
                                                THEN NoFile ELSE @[g]]]

\* A link of this tab; the flag is shared by the tabs.  Bound: one on its way
\* from this page a tab.
submitUrl(tab) ==
    LET link == [tab |-> tab, mine |-> TRUE] IN
    /\ art.onPage /\ art.session /\ art.submittingLink # tab
    /\ art.listed < ArtifactMaxCount /\ MayAskServer /\ link \notin art.links
    /\ art' = [art EXCEPT !.submittingLink = tab, !.links = @ \cup {link}]
LinkEnds(l) ==
    LET a == [art EXCEPT !.links = @ \ {l}, !.submittingLink = IF l.mine THEN "none" ELSE @] IN
    /\ l \in art.links
    /\ \/ Room /\ art' \in {AddArtifact(Accept(a)), Accept(a)}
       \/ art' \in {a, ArtGone(a)}

AskServer(a, kind) == [a EXCEPT !.asks = @ \cup {[kind |-> kind, mine |-> TRUE]}]
beginAnalysis ==
    /\ art.onPage /\ art.session /\ art.listed > 0 /\ ~art.starting /\ MayAskServer
    /\ art' = AskServer([art EXCEPT !.starting = TRUE], "start")
\* The sample submits and starts by itself, once per visit.
SampleBegins ==
    /\ art.onPage /\ art.session /\ art.sample /\ ~art.sampleStarted
    /\ ~art.loading /\ ~art.loadError /\ art.listed = 0 /\ MayAskServer
    /\ art' = AskServer([art EXCEPT !.sampleStarted = TRUE], "sampleSubmit")

AskEnds(c) ==
    LET a == [art EXCEPT !.asks = @ \ {c}, !.starting = @ /\ ~(c.mine /\ c.kind = "start")]
        started == [a EXCEPT !.analysing = TRUE]
    IN  /\ c \in art.asks
        /\ \/ /\ c.kind = "sampleSubmit" /\ Room
              /\ art' = [AddArtifact(Accept(a)) EXCEPT !.asks = @ \cup {[c EXCEPT !.kind = "sampleStart"]}]
           \/ /\ c.kind # "sampleSubmit" /\ art.session /\ art.accepted > 0 /\ ~art.analysing
              /\ art' \in {Left(started), started}
           \/ art' \in {a, ArtGone(a)}

ArtProgress ==
    \/ SampleBegins
    \/ \E l \in art.loads : FetchEnds(l)
    \/ \E f \in Files : UploadEnds(f)
    \/ \E l \in art.links : LinkEnds(l)
    \/ \E c \in art.asks : AskEnds(c)
ArtNext ==
    \/ EnterArtifacts \/ LeaveArtifacts \/ ReloadArtifacts \/ beginAnalysis
    \/ (\E chosen \in SUBSET Files : onFiles(chosen)) \/ (\E f \in Files : retryFile(f))
    \/ (\E tab \in LinkTabs : submitUrl(tab))
    \/ ArtProgress
ArtSpec == ArtInit /\ [][ArtNext]_art
=============================================================================
