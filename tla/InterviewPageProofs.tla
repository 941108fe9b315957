------------------------- MODULE InterviewPageProofs -------------------------
(***************************************************************************)
(* Proofs about the interview page, for any number of sessions, questions, *)
(* submissions, loads and early ends: its state keeps its type, and in the *)
(* first session of a browser, without the sample's timers, it hides no    *)
(* lost answer behind a tick.                                              *)
(***************************************************************************)
EXTENDS InterviewPage, TLAPS

Submission ==
    [seq : 1..MaxSeq, session : Talks, node : Nodes, orig : Trees, mine : BOOLEAN, reply : Reply]
Load == [session : Talks, mine : BOOLEAN, reply : Reply]
Ending == [session : Talks, mine : BOOLEAN, confirm : BOOLEAN]
TalkStates ==
    [session : 0..LastTalk, opened : 0..LastTalk, onPage : BOOLEAN, sample : BOOLEAN,
     nodes : Trees, active : Nodes \cup {NoNode}, submitSeq : 0..MaxSeq,
     submitting : BOOLEAN, loading : BOOLEAN, completing : BOOLEAN,
     error : BOOLEAN, modal : BOOLEAN, finishing : BOOLEAN,
     subs : SUBSET Submission, loads : SUBSET Load, ends : SUBSET Ending,
     server : [Talks -> Progress]]

\* The ticks of a tree are answers the server has.
Ticked(server, nodes) ==
    \A n \in Nodes : nodes[n] = "ANSWERED" => n[2] <= server[n[1]].answered

\* Before there is a session nothing is on its way.
Begun(t) == t.opened = 0 =>
    t.session = 0 /\ t.nodes = NoTree /\ t.subs = {} /\ t.loads = {} /\ ~t.submitting

\* The page is shown for a session.
OfSession(t) == t.onPage => t.session # 0

\* What a load has seen, the server has not lost since.
LoadsSeen(t) == \A load \in t.loads : load.reply.seen.answered <= t.server[load.session].answered

\* In the first session of the browser, and without the sample's timers.
FirstTalk(t) == t.opened <= 1 /\ t.session # 0 /\ ~t.sample

\* Without the sample one submission is on its way at a time, the tree it would put
\* back shows what the server had, and one that succeeded was of an answered question.
Honest(t) == FirstTalk(t) =>
    /\ \A n \in Nodes : t.nodes[n] = "ANSWERED" =>
          n[2] <= t.server[n[1]].answered \/ \E sub \in t.subs : sub.node = n
    /\ t.submitting \/ t.subs = {}
    /\ \A a, b \in t.subs : a = b
    /\ \A sub \in t.subs : /\ Ticked(t.server, sub.orig)
                           /\ sub.reply.state = "ok" =>
                                 sub.node[2] <= t.server[sub.node[1]].answered

TInv(t) == t \in TalkStates /\ Begun(t) /\ OfSession(t) /\ LoadsSeen(t) /\ Honest(t)
TalkInv == TInv(talk)

\* What most steps leave alone.
Framed(t, u) ==
    /\ u.onPage => t.onPage
    /\ u.session = t.session /\ u.opened = t.opened /\ u.sample = t.sample
    /\ u.nodes = t.nodes /\ u.submitting = t.submitting
    /\ u.server = t.server

LEMMA FrameKeeps ==
    ASSUME NEW t, TInv(t), NEW u \in TalkStates, Framed(t, u), u.subs = t.subs,
           u.loads \subseteq t.loads
    PROVE  TInv(u)
BY DEF TInv, Framed, Begun, OfSession, LoadsSeen, Honest, FirstTalk

LEMMA NodeFacts == \A n \in Nodes : n[1] \in Talks /\ n[2] \in 1..LastQuestion
BY DEF Nodes

LEMMA TreeFacts ==
    ASSUME NEW s \in Talks, NEW known \in Progress
    PROVE  TreeOf(s, known) \in Trees
BY DEF TreeOf, Trees, Status

\* Leaving the page orphans its calls and nothing else.
LEMMA LeaveKeeps ==
    ASSUME NEW t, TInv(t)
    PROVE  /\ TInv(LeaveTalk(t)) /\ TInv(TalkGone(t))
           /\ LeaveTalk(t).opened = t.opened /\ TalkGone(t).opened = t.opened
<1> DEFINE orphan(c) == [c EXCEPT !.mine = FALSE]
           subs == {orphan(c) : c \in t.subs}
           loads == {orphan(c) : c \in t.loads}
           ends == {orphan(c) : c \in t.ends}
           u == [t EXCEPT !.onPage = FALSE, !.loading = FALSE, !.completing = FALSE, !.error = FALSE,
                          !.modal = FALSE, !.subs = subs, !.loads = loads, !.ends = ends]
<1>0. t \in TalkStates /\ t.subs \subseteq Submission /\ t.loads \subseteq Load /\ t.ends \subseteq Ending
    BY DEF TInv, TalkStates
<1>1. \A c \in Submission : /\ orphan(c) \in Submission /\ orphan(c).node = c.node
                            /\ orphan(c).orig = c.orig /\ orphan(c).reply = c.reply
    BY DEF Submission
<1>2. \A c \in Load : /\ orphan(c) \in Load /\ orphan(c).reply = c.reply
                      /\ orphan(c).session = c.session
    BY DEF Load
<1>3. \A c \in Ending : orphan(c) \in Ending
    BY DEF Ending
<1>4. /\ subs \in SUBSET Submission /\ loads \in SUBSET Load /\ ends \in SUBSET Ending
      /\ \A c \in t.subs : orphan(c) \in subs
      /\ \A c \in subs : \E d \in t.subs : c = orphan(d)
      /\ \A c \in loads : \E d \in t.loads : c = orphan(d)
    BY <1>0, <1>1, <1>2, <1>3
<1>5. LeaveTalk(t) = u
    BY DEF LeaveTalk
<1> HIDE DEF subs, loads, ends
<1>6. /\ u \in TalkStates /\ Framed(t, u) /\ u.subs = subs /\ u.loads = loads /\ ~u.onPage
    BY <1>0, <1>4, ZenonT(40) DEF TalkStates, Framed
<1> HIDE DEF u
<1>7. Begun(u) /\ OfSession(u)
    BY <1>4, <1>6 DEF TInv, Begun, OfSession, Framed
<1> HIDE DEF orphan
<1>8. LoadsSeen(u)
    <2> SUFFICES ASSUME NEW c \in loads
                 PROVE  c.reply.seen.answered <= t.server[c.session].answered
        BY <1>6 DEF LoadsSeen, Framed
    <2>1. PICK d \in t.loads : c = orphan(d)
        BY <1>4
    <2>2. d \in Load /\ d.reply.seen.answered <= t.server[d.session].answered
        BY <1>0 DEF TInv, LoadsSeen
    <2>3. QED
        BY <1>2, <2>1, <2>2
<1>9. Honest(u)
    <2> SUFFICES ASSUME FirstTalk(t) PROVE Honest(u)
        BY <1>6 DEF Honest, FirstTalk, Framed
    <2>1. /\ \A n \in Nodes : t.nodes[n] = "ANSWERED" =>
                n[2] <= t.server[n[1]].answered \/ \E sub \in t.subs : sub.node = n
          /\ t.submitting \/ t.subs = {}
          /\ \A a, b \in t.subs : a = b
          /\ \A sub \in t.subs : /\ Ticked(t.server, sub.orig)
                                 /\ sub.reply.state = "ok" =>
                                       sub.node[2] <= t.server[sub.node[1]].answered
        BY DEF TInv, Honest, FirstTalk
    <2>2. \A c \in subs : \E d \in t.subs : /\ c = orphan(d) /\ c.node = d.node
                                             /\ c.orig = d.orig /\ c.reply = d.reply
        BY <1>0, <1>1, <1>4
    <2>3. \A n \in Nodes : t.nodes[n] = "ANSWERED" =>
                n[2] <= t.server[n[1]].answered \/ \E sub \in subs : sub.node = n
        <3> SUFFICES ASSUME NEW n \in Nodes, NEW d \in t.subs, d.node = n
                     PROVE  \E sub \in subs : sub.node = n
            BY <2>1
        <3>1. orphan(d) \in subs /\ orphan(d).node = n
            BY <1>0, <1>1, <1>4
        <3>2. QED
            BY <3>1
    <2>4. t.submitting \/ subs = {}
        BY <2>1, <2>2
    <2>5. \A a, b \in subs : a = b
        <3> SUFFICES ASSUME NEW a \in subs, NEW b \in subs PROVE a = b
            OBVIOUS
        <3>1. PICK d \in t.subs : a = orphan(d)
            BY <1>4
        <3>2. PICK e \in t.subs : b = orphan(e)
            BY <1>4
        <3>3. d = e
            BY <2>1
        <3>4. QED
            BY <3>1, <3>2, <3>3
    <2>6. \A sub \in subs : /\ Ticked(t.server, sub.orig)
                            /\ sub.reply.state = "ok" =>
                                  sub.node[2] <= t.server[sub.node[1]].answered
        <3> SUFFICES ASSUME NEW c \in subs
                     PROVE  /\ Ticked(t.server, c.orig)
                            /\ c.reply.state = "ok" =>
                                  c.node[2] <= t.server[c.node[1]].answered
            OBVIOUS
        <3>1. PICK d \in t.subs : c.node = d.node /\ c.orig = d.orig /\ c.reply = d.reply
            BY <2>2
        <3>2. QED
            BY <2>1, <3>1
    <2>7. QED
        BY <1>6, <2>3, <2>4, <2>5, <2>6 DEF Honest, FirstTalk, Framed
<1>10. TInv(u) /\ u.opened = t.opened
    BY <1>6, <1>7, <1>8, <1>9 DEF TInv, Framed
<1>11. TInv(TalkGone(t)) /\ TalkGone(t).opened = t.opened
    <2> DEFINE v == [u EXCEPT !.session = 0, !.sample = FALSE]
    <2>1. v = TalkGone(t)
        BY <1>5 DEF TalkGone
    <2>2. 0 \in 0..LastTalk
        BY TalkBound DEF TalkBound
    <2>3. /\ v \in TalkStates /\ v.session = 0 /\ ~v.onPage /\ v.opened = u.opened /\ v.nodes = u.nodes
          /\ v.subs = u.subs /\ v.submitting = u.submitting /\ v.loads = u.loads
          /\ v.server = u.server
        BY <1>6, <2>2 DEF TalkStates
    <2> HIDE DEF v
    <2>4. TInv(v)
        BY <1>10, <2>3 DEF TInv, Begun, OfSession, LoadsSeen, Honest, FirstTalk
    <2>5. QED
        BY <1>10, <2>1, <2>3, <2>4
<1>12. QED
    BY <1>5, <1>10, <1>11

\* The store's reset, when there is no session any more.
LEMMA ResetKeeps ==
    ASSUME NEW t, TInv(t), t.session = 0
    PROVE  TInv(Reset(t))
<1>1. NoTree \in Trees /\ 0 \in 0..MaxSeq
    BY TalkBound DEF NoTree, Trees, Status, TalkBound
<1>2. QED
    BY <1>1 DEF TInv, TalkStates, Reset, Begun, OfSession, LoadsSeen, Honest, FirstTalk

\* A load that has just been sent has seen nothing yet.
LEMMA LoadKeeps ==
    ASSUME NEW t, TInv(t)
    PROVE  TInv(LoadIfEmpty(t)) /\ (t.session # 0 => TInv(loadTree(t)))
<1>1. SUFFICES ASSUME t.session # 0 PROVE TInv(loadTree(t))
    BY DEF TInv, OfSession, LoadIfEmpty
<1> DEFINE load == [session |-> t.session, mine |-> TRUE, reply |-> Sent]
           u == [t EXCEPT !.loading = TRUE, !.error = FALSE, !.loads = @ \cup {load}]
<1>2. t \in TalkStates /\ t.session \in Talks /\ t.server \in [Talks -> Progress]
    BY <1>1, TalkBound DEF TInv, TalkStates, Talks, TalkBound
<1>3. Nothing \in Progress /\ Nothing.answered = 0
    BY TalkBound DEF Nothing, Progress, TalkBound
<1>4. /\ load \in Load /\ load.session = t.session
      /\ load.reply.seen.answered = 0
    BY <1>2, <1>3 DEF Load, Sent, Reply
<1>5. t.server[t.session].answered \in 0..LastQuestion
    BY <1>2 DEF Progress
<1>6. load.reply.seen.answered <= t.server[load.session].answered
    BY <1>4, <1>5, TalkBound DEF TalkBound
<1> HIDE DEF load
<1>7. /\ u \in TalkStates /\ u.loads = t.loads \cup {load} /\ u.session = t.session
      /\ u.opened = t.opened /\ u.onPage = t.onPage /\ u.sample = t.sample /\ u.nodes = t.nodes
      /\ u.subs = t.subs /\ u.submitting = t.submitting /\ u.server = t.server
    BY <1>2, <1>4 DEF TalkStates
<1>8. loadTree(t) = u
    BY DEF loadTree, load
<1> HIDE DEF u
<1>9. TInv(u)
    BY <1>1, <1>6, <1>7 DEF TInv, Begun, OfSession, LoadsSeen, Honest, FirstTalk
<1>10. QED
    BY <1>8, <1>9

\* What showing a tree, or merging a question into it, leaves alone.
Shown(t, u) ==
    /\ u \in TalkStates /\ u.session = t.session /\ u.opened = t.opened
    /\ u.onPage = t.onPage /\ u.sample = t.sample /\ u.subs = t.subs /\ u.loads = t.loads
    /\ u.submitting = t.submitting /\ u.server = t.server

LEMMA SetTreeShows ==
    ASSUME NEW t \in TalkStates, NEW nodes \in Trees, NEW u \in setTree(t, nodes)
    PROVE  Shown(t, u) /\ u.nodes = nodes
<1>1. PICK n \in pickActive(nodes) : u = [t EXCEPT !.nodes = nodes, !.active = n]
    BY DEF setTree
<1>2. n \in Nodes \cup {NoNode}
    BY <1>1 DEF pickActive
<1>3. QED
    BY <1>1, <1>2 DEF Shown, TalkStates

LEMMA MergeShows ==
    ASSUME NEW t \in TalkStates, NEW incoming \in SUBSET Nodes,
           NEW u \in mergeNodes(t, incoming)
    PROVE  /\ Shown(t, u)
           /\ \A n \in Nodes : u.nodes[n] = "ANSWERED" => t.nodes[n] = "ANSWERED"
<1> DEFINE nodes == [n \in Nodes |-> IF n \in incoming THEN "ACTIVE" ELSE t.nodes[n]]
<1>1. nodes \in Trees
    BY DEF Trees, Status, TalkStates
<1>2. \A n \in Nodes : nodes[n] = "ANSWERED" => t.nodes[n] = "ANSWERED"
    OBVIOUS
<1>3. PICK n \in (IF incoming = {} THEN pickActive(nodes) ELSE incoming) :
                u = [t EXCEPT !.nodes = nodes, !.active = n]
    BY DEF mergeNodes
<1> HIDE DEF nodes
<1>4. n \in Nodes \cup {NoNode}
    BY <1>3 DEF pickActive
<1>5. QED
    BY <1>1, <1>2, <1>3, <1>4 DEF Shown, TalkStates

-----------------------------------------------------------------------------
\* One lemma per step.
LEMMA OpenKeeps == ASSUME TalkInv, OpenTalk PROVE TalkInv'
<1> DEFINE u == [talk EXCEPT !.session = talk.opened + 1, !.opened = talk.opened + 1, !.sample = FALSE]
<1>1. /\ talk \in TalkStates /\ ~talk.onPage /\ Begun(talk) /\ LoadsSeen(talk)
      /\ talk.opened + 1 \in 0..LastTalk /\ talk.opened + 1 # 0
    BY TalkBound DEF TalkInv, TInv, OpenTalk, TalkStates, TalkBound
<1>2. talk' = u
    BY <1>1 DEF OpenTalk
<1>3. /\ talk'.session # 0 /\ talk'.opened = talk.opened + 1 /\ talk'.onPage = talk.onPage
      /\ talk'.nodes = talk.nodes /\ talk'.subs = talk.subs /\ talk'.loads = talk.loads
      /\ talk'.submitting = talk.submitting /\ talk'.server = talk.server /\ talk' \in TalkStates
    BY <1>1, <1>2 DEF TalkStates
<1>4. Honest(talk')
    <2> SUFFICES ASSUME talk'.opened <= 1 PROVE Honest(talk')
        BY DEF Honest, FirstTalk
    <2>1. talk.opened = 0
        BY <1>1, <1>3 DEF TalkStates
    <2>2. talk'.nodes = NoTree /\ talk'.subs = {}
        BY <1>1, <1>3, <2>1 DEF Begun
    <2>3. \A n \in Nodes : talk'.nodes[n] # "ANSWERED"
        BY <2>2 DEF NoTree
    <2>4. QED
        BY <2>2, <2>3 DEF Honest
<1>5. Begun(talk') /\ OfSession(talk') /\ LoadsSeen(talk')
    BY <1>1, <1>3, TalkBound DEF Begun, OfSession, LoadsSeen, TalkStates, TalkBound
<1>6. QED
    BY <1>3, <1>4, <1>5 DEF TalkInv, TInv

LEMMA EnterKeeps == ASSUME TalkInv, EnterPage PROVE TalkInv'
<1>1. PICK sample \in {talk.sample, TRUE} :
            talk' = LoadIfEmpty([talk EXCEPT !.onPage = TRUE, !.sample = sample])
    BY DEF EnterPage
<1> DEFINE u == [talk EXCEPT !.onPage = TRUE, !.sample = sample]
<1>2. /\ u \in TalkStates /\ u.session = talk.session /\ u.opened = talk.opened
      /\ u.sample = sample /\ u.nodes = talk.nodes /\ u.subs = talk.subs /\ u.loads = talk.loads
      /\ u.submitting = talk.submitting /\ u.server = talk.server
    BY DEF TalkInv, TInv, TalkStates
<1> HIDE DEF u
<1>3. TInv(u)
    BY <1>2 DEF TalkInv, TInv, Begun, OfSession, LoadsSeen, Honest, FirstTalk, EnterPage
<1>4. TInv(talk')
    BY <1>1, <1>3, LoadKeeps DEF u
<1>5. QED
    BY <1>4 DEF TalkInv

LEMMA DeleteKeeps == ASSUME TalkInv, DeleteTalk PROVE TalkInv'
<1>1. TInv(TalkGone(talk)) /\ talk' = Reset(TalkGone(talk))
    BY LeaveKeeps DEF TalkInv, DeleteTalk
<1>2. TalkGone(talk).session = 0
    BY DEF TalkGone, LeaveTalk, TalkInv, TInv, TalkStates
<1>3. TInv(talk')
    BY <1>1, <1>2, ResetKeeps
<1>4. QED
    BY <1>3 DEF TalkInv

LEMMA LeaveStepKeeps == ASSUME TalkInv, LeavePage \/ FinishEnds PROVE TalkInv'
<1> DEFINE v == LeaveTalk(talk)
<1>1. TInv(v)
    BY LeaveKeeps DEF TalkInv
<1>2. CASE LeavePage
    BY <1>1, <1>2 DEF TalkInv, LeavePage
<1>3. CASE FinishEnds
    <2>1. talk' = [v EXCEPT !.finishing = FALSE]
        BY <1>3 DEF FinishEnds
    <2> HIDE DEF v
    <2>2. talk' \in TalkStates /\ Framed(v, talk') /\ talk'.subs = v.subs /\ talk'.loads = v.loads
        BY <1>1, <2>1 DEF TInv, TalkStates, Framed
    <2>3. TInv(talk')
        BY <1>1, <2>2, FrameKeeps
    <2>4. QED
        BY <2>3 DEF TalkInv
<1>4. QED
    BY <1>2, <1>3

LEMMA ReloadKeeps == ASSUME TalkInv, ReloadTree PROVE TalkInv'
<1>1. TInv(loadTree(talk)) /\ talk' = loadTree(talk)
    BY LoadKeeps DEF TalkInv, TInv, OfSession, ReloadTree
<1>2. QED
    BY <1>1 DEF TalkInv

\* Without the sample nothing is on its way when an answer is submitted, so the
\* tree the submission keeps shows answers the server has.
LEMMA SubmitKeeps == ASSUME TalkInv, NEW n \in Nodes, handleSubmit(n) PROVE TalkInv'
<1> DEFINE sub == [seq |-> talk.submitSeq + 1, session |-> talk.session, node |-> n,
                   orig |-> talk.nodes, mine |-> TRUE, reply |-> Sent]
<1>1. /\ talk \in TalkStates /\ talk.session \in Talks /\ talk.nodes \in Trees
      /\ talk.submitSeq + 1 \in 1..MaxSeq
    BY TalkBound DEF TalkInv, TInv, TalkStates, handleSubmit, Talks, TalkBound
<1>2. Sent \in Reply /\ Sent.state = "sent"
    BY TalkBound DEF Sent, Reply, Nothing, Progress, TalkBound
<1>3. /\ sub \in Submission /\ sub.node = n /\ sub.orig = talk.nodes
      /\ sub.reply.state = "sent"
    BY <1>1, <1>2 DEF Submission
<1>4. /\ markAnswered(talk.nodes, n) \in Trees
      /\ \A m \in Nodes : m # n => markAnswered(talk.nodes, n)[m] = talk.nodes[m]
    BY <1>1 DEF markAnswered, Trees, Status
<1> HIDE DEF sub
<1>a. talk' = [talk EXCEPT !.submitSeq = @ + 1, !.submitting = TRUE, !.error = FALSE,
                          !.nodes = markAnswered(@, n), !.subs = @ \cup {sub}]
    BY DEF handleSubmit, sub
<1>b. talk.subs \cup {sub} \in SUBSET Submission /\ talk.submitSeq + 1 \in 0..MaxSeq
    BY <1>1, <1>3, TalkBound DEF TalkStates, TalkBound
<1>5. /\ talk' \in TalkStates /\ talk'.session = talk.session /\ talk'.opened = talk.opened
      /\ talk'.onPage = talk.onPage /\ talk'.sample = talk.sample /\ talk'.submitting
      /\ talk'.nodes = markAnswered(talk.nodes, n) /\ talk'.subs = talk.subs \cup {sub}
      /\ talk'.loads = talk.loads /\ talk'.server = talk.server
    BY <1>1, <1>4, <1>a, <1>b DEF TalkStates
<1>6. talk.opened # 0
    BY DEF TalkInv, TInv, Begun, handleSubmit
<1>7. Honest(talk')
    <2> SUFFICES ASSUME FirstTalk(talk) PROVE Honest(talk')
        BY <1>5 DEF Honest, FirstTalk
    <2>1. talk.subs = {} /\ Ticked(talk.server, talk.nodes)
        BY DEF TalkInv, TInv, Honest, FirstTalk, handleSubmit, Ticked
    <2>2. QED
        BY <1>3, <1>4, <1>5, <2>1 DEF Honest, FirstTalk, Ticked
<1>8. QED
    BY <1>5, <1>6, <1>7 DEF TalkInv, TInv, Begun, OfSession, LoadsSeen, handleSubmit

LEMMA RequestKeeps ==
    ASSUME TalkInv, NEW confirm \in BOOLEAN, requestComplete(confirm) PROVE TalkInv'
<1>1. talk.session \in Talks
    BY TalkBound DEF TalkInv, TInv, TalkStates, requestComplete, Talks, TalkBound
<1> DEFINE ends == {[session |-> talk.session, mine |-> TRUE, confirm |-> confirm]}
<1>a. ends \in SUBSET Ending
    BY <1>1 DEF Ending
<1>b. talk' = [talk EXCEPT !.completing = TRUE, !.error = FALSE, !.ends = ends]
    BY DEF requestComplete
<1> HIDE DEF ends
<1>2. talk' \in TalkStates /\ Framed(talk, talk') /\ talk'.subs = talk.subs /\ talk'.loads = talk.loads
    BY <1>a, <1>b DEF TalkInv, TInv, TalkStates, Framed
<1>3. QED
    BY <1>2, FrameKeeps DEF TalkInv

\* One answer more is over at the last question, and before it is not.
LEMMA AnswerCounts ==
    ASSUME NEW a \in 0..LastQuestion, a < LastQuestion
    PROVE  [answered |-> a + 1, over |-> a + 1 = LastQuestion] \in Progress
<1>1. a + 1 \in 0..LastQuestion /\ (a + 1 # LastQuestion => a + 1 < LastQuestion)
    BY TalkBound DEF TalkBound
<1>2. CASE a + 1 = LastQuestion
    <2>1. [answered |-> a + 1, over |-> TRUE] \in Progress
        BY <1>1 DEF Progress
    <2>2. (a + 1 = LastQuestion) = TRUE
        BY <1>2
    <2>3. QED
        BY <2>1, <2>2, Zenon
<1>3. CASE a + 1 # LastQuestion
    <2>1. [answered |-> a + 1, over |-> FALSE] \in Progress
        BY <1>1, <1>3 DEF Progress
    <2>2. (a + 1 = LastQuestion) = FALSE
        BY <1>3
    <2>3. QED
        BY <2>1, <2>2, Zenon
<1>4. QED
    BY <1>2, <1>3

\* The server only learns answers, and says "ok" only of a question that is answered.
LEMMA ArriveKeeps == ASSUME TalkInv, NEW sub \in talk.subs, AnswerArrives(sub) PROVE TalkInv'
<1> DEFINE known == talk.server[sub.session]
           mayAnswer == sub.node[1] = sub.session /\ ~known.over /\ sub.node[2] = known.answered + 1
           next == IF mayAnswer THEN [answered |-> known.answered + 1,
                                      over |-> known.answered + 1 = LastQuestion] ELSE known
           repeated == sub.node[1] = sub.session /\ sub.node[2] <= known.answered
           replies == {"failed"} \cup (IF mayAnswer \/ repeated THEN {"ok"} ELSE {})
           told(state) == [sub EXCEPT !.reply.state = state,
                                      !.reply.seen = IF state = "ok" THEN next ELSE @]
<1>1. /\ talk \in TalkStates /\ sub \in Submission /\ sub.session \in Talks /\ sub.node \in Nodes
      /\ sub.reply \in Reply /\ known \in Progress /\ talk.server \in [Talks -> Progress]
    BY DEF TalkInv, TInv, TalkStates, Submission
<1>2. /\ known.answered \in 0..LastQuestion /\ known.over \in BOOLEAN
      /\ sub.node[2] \in 1..LastQuestion
    BY <1>1, NodeFacts DEF Progress
<1>3. /\ next \in Progress /\ next.answered >= known.answered
      /\ mayAnswer \/ repeated => sub.node[1] = sub.session /\ sub.node[2] <= next.answered
    <2>1. CASE mayAnswer
        <3>1. known.answered < LastQuestion /\ known.answered + 1 \in 0..LastQuestion
            BY <1>1, <1>2, <2>1, TalkBound DEF Progress, TalkBound
        <3>2. next = [answered |-> known.answered + 1, over |-> known.answered + 1 = LastQuestion]
            BY <2>1
        <3>3. next \in Progress
            BY <1>2, <3>1, <3>2, AnswerCounts
        <3>4. QED
            BY <1>2, <2>1, <3>1, <3>2, <3>3
    <2>2. CASE ~mayAnswer
        BY <1>1, <1>2, <2>2
    <2>3. QED
        BY <2>1, <2>2
<1>4. PICK state \in replies :
          talk' = [talk EXCEPT !.server[sub.session] = next,
                               !.subs = (@ \ {sub}) \cup {told(state)}]
    BY DEF AnswerArrives
<1>5. state \in {"failed", "ok"} /\ (state = "ok" => mayAnswer \/ repeated)
    BY <1>4
<1>6. /\ told(state) \in Submission /\ told(state).node = sub.node /\ told(state).orig = sub.orig
      /\ told(state).reply.state = state
    BY <1>1, <1>3, <1>5 DEF Submission, Reply
<1>7. state = "ok" => sub.node[1] = sub.session /\ sub.node[2] <= next.answered
    BY <1>3, <1>5
<1> DEFINE new == told(state)
           server == [talk.server EXCEPT ![sub.session] = next]
<1>8. /\ server \in [Talks -> Progress] /\ server[sub.session] = next
      /\ \A s \in Talks : server[s].answered >= talk.server[s].answered
    <2>1. server \in [Talks -> Progress] /\ server[sub.session] = next
        BY <1>1, <1>3
    <2>2. ASSUME NEW s \in Talks PROVE server[s].answered >= talk.server[s].answered
        <3>1. talk.server[s].answered \in 0..LastQuestion
            BY <1>1 DEF Progress
        <3>2. CASE s = sub.session
            BY <1>1, <1>3, <3>2
        <3>3. CASE s # sub.session
            BY <1>1, <3>1, <3>3, TalkBound DEF TalkBound
        <3>4. QED
            BY <3>2, <3>3
    <2>3. QED
        BY <2>1, <2>2
<1> HIDE DEF known, mayAnswer, next, repeated, replies, told
<1>9. (talk.subs \ {sub}) \cup {new} \in SUBSET Submission
    BY <1>1, <1>6 DEF TalkStates
<1> HIDE DEF new, server
<1>10. talk' = [talk EXCEPT !.server = server, !.subs = (talk.subs \ {sub}) \cup {new}]
    BY <1>4, <1>1 DEF new, server, TalkStates
<1>11. /\ talk' \in TalkStates /\ talk'.session = talk.session /\ talk'.opened = talk.opened
       /\ talk'.onPage = talk.onPage /\ talk'.sample = talk.sample /\ talk'.nodes = talk.nodes
       /\ talk'.submitting = talk.submitting /\ talk'.loads = talk.loads
       /\ talk'.subs = (talk.subs \ {sub}) \cup {new} /\ talk'.server = server
    BY <1>1, <1>8, <1>9, <1>10 DEF TalkStates
<1>12. Begun(talk') /\ OfSession(talk')
    BY <1>11 DEF TalkInv, TInv, Begun, OfSession
<1>13. LoadsSeen(talk')
    <2> SUFFICES ASSUME NEW load \in talk.loads
                 PROVE  load.reply.seen.answered <= server[load.session].answered
        BY <1>11 DEF LoadsSeen
    <2>1. load.session \in Talks /\ load.reply.seen.answered \in Nat
        BY <1>1 DEF TalkStates, Load, Reply, Progress
    <2>2. server[load.session].answered \in Nat /\ talk.server[load.session].answered \in Nat
        BY <1>1, <1>8, <2>1 DEF Progress
    <2>3. QED
        BY <1>8, <2>1, <2>2 DEF TalkInv, TInv, LoadsSeen
<1>14. Honest(talk')
    <2> SUFFICES ASSUME FirstTalk(talk) PROVE Honest(talk')
        BY <1>11 DEF Honest, FirstTalk
    <2>1. /\ \A n \in Nodes : talk.nodes[n] = "ANSWERED" =>
                n[2] <= talk.server[n[1]].answered \/ \E c \in talk.subs : c.node = n
          /\ talk.submitting /\ talk.subs = {sub} /\ Ticked(talk.server, sub.orig)
        BY DEF TalkInv, TInv, Honest, FirstTalk
    <2>2. talk'.subs = {new} /\ new.node = sub.node /\ new.orig = sub.orig /\ new.reply.state = state
        BY <1>6, <1>11, <2>1 DEF new
    <2>3. \A n \in Nodes : n[2] <= talk.server[n[1]].answered => n[2] <= server[n[1]].answered
        <3> SUFFICES ASSUME NEW n \in Nodes, n[2] <= talk.server[n[1]].answered
                     PROVE  n[2] <= server[n[1]].answered
            OBVIOUS
        <3>1. n[1] \in Talks /\ n[2] \in Nat
            BY NodeFacts
        <3>2. server[n[1]].answered \in Nat /\ talk.server[n[1]].answered \in Nat
            BY <1>1, <1>8, <3>1 DEF Progress
        <3>3. QED
            BY <1>8, <3>1, <3>2
    <2>4. new.reply.state = "ok" => new.node[2] <= server[new.node[1]].answered
        BY <1>7, <1>8, <2>2
    <2>5. QED
        BY <1>11, <2>1, <2>2, <2>3, <2>4 DEF Honest, FirstTalk, Ticked
<1>15. QED
    BY <1>11, <1>12, <1>13, <1>14 DEF TalkInv, TInv

\* A load that has arrived has seen what the server had.
LEMMA LoadArrivesKeeps == ASSUME TalkInv, NEW load \in talk.loads, LoadArrives(load) PROVE TalkInv'
<1> DEFINE reply(state) == [state |-> state, seen |-> IF state = "ok"
                                                      THEN talk.server[load.session] ELSE Nothing]
           told(state) == [load EXCEPT !.reply = reply(state)]
<1>1. PICK state \in {"ok", "failed"} :
          talk' = [talk EXCEPT !.loads = (@ \ {load}) \cup {told(state)}]
    BY DEF LoadArrives
<1>2. /\ talk \in TalkStates /\ load \in Load /\ talk.server[load.session] \in Progress
      /\ Nothing \in Progress /\ Nothing.answered = 0
    BY TalkBound DEF TalkInv, TInv, TalkStates, Load, Nothing, Progress, TalkBound
<1>3. /\ reply(state) \in Reply
      /\ reply(state).seen.answered <= talk.server[load.session].answered
    BY <1>2, TalkBound DEF Reply, Progress, TalkBound
<1> HIDE DEF reply
<1>4. told(state) \in Load /\ told(state).session = load.session /\ told(state).reply = reply(state)
    BY <1>2, <1>3 DEF Load
<1> DEFINE new == told(state)
<1> HIDE DEF told
<1>5. (talk.loads \ {load}) \cup {new} \in SUBSET Load
    BY <1>2, <1>4 DEF TalkStates
<1> HIDE DEF new
<1>6. /\ talk' \in TalkStates /\ talk'.session = talk.session /\ talk'.opened = talk.opened
      /\ talk'.onPage = talk.onPage /\ talk'.sample = talk.sample /\ talk'.nodes = talk.nodes
      /\ talk'.submitting = talk.submitting /\ talk'.subs = talk.subs
      /\ talk'.loads = (talk.loads \ {load}) \cup {new} /\ talk'.server = talk.server
    BY <1>1, <1>2, <1>5 DEF TalkStates, new
<1>7. LoadsSeen(talk')
    BY <1>3, <1>4, <1>6 DEF TalkInv, TInv, LoadsSeen, new
<1>8. QED
    BY <1>6, <1>7 DEF TalkInv, TInv, Begun, OfSession, Honest, FirstTalk

\* The submission that ends was the only one: what it leaves behind is true without it.
LEMMA SubmitEndsKeeps == ASSUME TalkInv, NEW sub \in talk.subs, SubmitEnds(sub) PROVE TalkInv'
<1> DEFINE t == [talk EXCEPT !.subs = @ \ {sub}, !.submitting = FALSE]
<1>1. /\ t \in TalkStates /\ t.session = talk.session /\ t.opened = talk.opened
      /\ t.onPage = talk.onPage /\ t.sample = talk.sample /\ t.nodes = talk.nodes
      /\ ~t.submitting /\ t.subs = talk.subs \ {sub} /\ t.loads = talk.loads
      /\ t.server = talk.server /\ sub \in Submission
    BY DEF TalkInv, TInv, TalkStates
<1> HIDE DEF t
<1>2. /\ sub.orig \in Trees /\ sub.node \in Nodes /\ sub.session \in Talks
      /\ sub.reply.seen \in Progress
    BY <1>1 DEF Submission, Reply
<1> DEFINE Left(u) == /\ Shown(t, u)
                      /\ FirstTalk(talk) => Ticked(talk.server, u.nodes)
<1>3. ASSUME FirstTalk(talk)
      PROVE  /\ talk.subs = {sub} /\ Ticked(talk.server, sub.orig)
             /\ sub.reply.state = "ok" => Ticked(talk.server, talk.nodes)
    BY <1>3 DEF TalkInv, TInv, Honest, FirstTalk, Ticked
<1>4. Left(talk')
    <2>1. CASE sub.reply.state = "ok" /\ talk' = t
        BY <1>1, <1>3, <2>1 DEF Shown, FirstTalk
    <2>2. CASE sub.reply.state = "ok" /\ talk' \in mergeNodes([t EXCEPT !.finishing = @ \/ sub.reply.seen.over],
                                               OpenQuestion(sub.session, sub.reply.seen))
        <3> DEFINE v == [t EXCEPT !.finishing = @ \/ sub.reply.seen.over]
        <3>1. OpenQuestion(sub.session, sub.reply.seen) \in SUBSET Nodes
            BY <1>2, TalkBound DEF OpenQuestion, Progress, TalkBound, Nodes
        <3>2. Shown(t, v) /\ v \in TalkStates /\ v.nodes = talk.nodes
            BY <1>1, <1>2 DEF TalkStates, Shown, Progress
        <3> HIDE DEF v
        <3>3. Shown(v, talk') /\ \A n \in Nodes : talk'.nodes[n] = "ANSWERED" => talk.nodes[n] = "ANSWERED"
            BY <2>2, <3>1, <3>2, MergeShows, ZenonT(40) DEF v
        <3>4. QED
            BY <1>3, <2>2, <3>2, <3>3 DEF Shown, Ticked
    <2>3. CASE talk' \in setTree([t EXCEPT !.error = @ \/ sub.mine], [sub.orig EXCEPT ![sub.node] = "ACTIVE"])
        <3> DEFINE v == [t EXCEPT !.error = @ \/ sub.mine]
                   nodes == [sub.orig EXCEPT ![sub.node] = "ACTIVE"]
        <3>1. nodes \in Trees /\ \A n \in Nodes : nodes[n] = "ANSWERED" => sub.orig[n] = "ANSWERED"
            BY <1>2 DEF Trees, Status
        <3>2. Shown(t, v) /\ v \in TalkStates
            BY <1>1 DEF TalkStates, Shown, Submission
        <3> HIDE DEF v, nodes
        <3>3. Shown(v, talk') /\ talk'.nodes = nodes
            BY <2>3, <3>1, <3>2, SetTreeShows DEF v, nodes
        <3>4. QED
            BY <1>3, <3>1, <3>2, <3>3 DEF Shown, Ticked
    <2>4. QED
        BY <2>1, <2>2, <2>3 DEF SubmitEnds, t
<1>5. Honest(talk')
    <2> SUFFICES ASSUME FirstTalk(talk) PROVE Honest(talk')
        BY <1>1, <1>4 DEF Honest, FirstTalk, Shown
    <2>1. talk'.subs = {} /\ Ticked(talk'.server, talk'.nodes)
        BY <1>1, <1>3, <1>4 DEF Shown
    <2>2. QED
        BY <2>1 DEF Honest, FirstTalk, Ticked
<1>6. QED
    BY <1>1, <1>4, <1>5 DEF TalkInv, TInv, Begun, OfSession, LoadsSeen, Shown

\* A tree that has been loaded shows no more than the server has.
LEMMA LoadEndsKeeps == ASSUME TalkInv, NEW load \in talk.loads, LoadEnds(load) PROVE TalkInv'
<1> DEFINE t == [talk EXCEPT !.loads = @ \ {load}, !.loading = @ /\ ~load.mine]
           v == [t EXCEPT !.error = @ \/ load.mine]
<1>1. /\ load \in Load /\ load.session \in Talks /\ load.reply.seen \in Progress
      /\ talk.opened # 0
    BY DEF TalkInv, TInv, TalkStates, Load, Reply, Begun
<1>a. talk \in TalkStates /\ (talk.loading /\ ~load.mine) \in BOOLEAN /\ (talk.error \/ load.mine) \in BOOLEAN
      /\ talk.loads \ {load} \in SUBSET Load
    BY <1>1 DEF TalkInv, TInv, TalkStates
<1>b. t \in TalkStates /\ Framed(talk, t) /\ t.subs = talk.subs /\ t.loads = talk.loads \ {load}
      /\ t.error = talk.error
    BY <1>a DEF TalkStates, Framed
<1> HIDE DEF t
<1>c. v \in TalkStates /\ Framed(t, v) /\ v.subs = t.subs /\ v.loads = t.loads
    BY <1>a, <1>b DEF TalkStates, Framed
<1>2. /\ t \in TalkStates /\ Framed(talk, t) /\ t.subs = talk.subs /\ t.loads \subseteq talk.loads
      /\ v \in TalkStates /\ Framed(talk, v) /\ v.subs = talk.subs /\ v.loads \subseteq talk.loads
    BY <1>b, <1>c DEF Framed
<1>3. TInv(t) /\ TInv(v)
    BY <1>2, FrameKeeps DEF TalkInv
<1> HIDE DEF v
<1>4. CASE talk' \in setTree(t, TreeOf(load.session, load.reply.seen))
    <2> DEFINE nodes == TreeOf(load.session, load.reply.seen)
    <2>1. nodes \in Trees
        BY <1>1, TreeFacts
    <2>2. Ticked(talk.server, nodes)
        <3> SUFFICES ASSUME NEW n \in Nodes, nodes[n] = "ANSWERED"
                     PROVE  n[2] <= talk.server[n[1]].answered
            BY DEF Ticked
        <3>1. n[1] = load.session /\ n[2] <= load.reply.seen.answered
            BY DEF TreeOf
        <3>2. load.reply.seen.answered <= talk.server[load.session].answered
            BY DEF TalkInv, TInv, LoadsSeen
        <3>3. /\ n[2] \in Nat /\ load.reply.seen.answered \in Nat
              /\ talk.server[load.session].answered \in Nat
            BY <1>1, NodeFacts, TalkBound DEF TalkInv, TInv, TalkStates, Progress, TalkBound
        <3>4. QED
            BY <3>1, <3>2, <3>3
    <2> HIDE DEF nodes
    <2>3. Shown(t, talk') /\ talk'.nodes = nodes
        BY <1>2, <1>4, <2>1, SetTreeShows DEF nodes
    <2>4. QED
        BY <1>1, <1>2, <1>3, <2>2, <2>3
           DEF TalkInv, TInv, Begun, OfSession, LoadsSeen, Honest, FirstTalk, Shown, Ticked, Framed
<1>5. CASE talk' = v \/ talk' = t
    BY <1>3, <1>5 DEF TalkInv
<1>6. CASE talk' = TalkGone(t)
    BY <1>3, <1>6, LeaveKeeps DEF TalkInv
<1>7. QED
    BY <1>4, <1>5, <1>6 DEF LoadEnds, v, t

\* Ending an interview answers nothing.
LEMMA CompleteKeeps == ASSUME TalkInv, NEW end \in talk.ends, CompleteEnds(end) PROVE TalkInv'
<1> DEFINE t == [talk EXCEPT !.ends = {}, !.completing = @ /\ ~end.mine,
                             !.modal = @ /\ ~(end.confirm /\ end.mine)]
           ended == [t EXCEPT !.server[end.session].over = TRUE]
           marked(b) == [b EXCEPT !.error = @ \/ end.mine]
<1>1. end \in Ending /\ end.session \in Talks
    BY DEF TalkInv, TInv, TalkStates, Ending
<1>a. talk \in TalkStates /\ (talk.completing /\ ~end.mine) \in BOOLEAN
      /\ (talk.modal /\ ~(end.confirm /\ end.mine)) \in BOOLEAN /\ {} \in SUBSET Ending
    BY <1>1 DEF TalkInv, TInv, TalkStates
<1>2. t \in TalkStates /\ Framed(talk, t) /\ t.subs = talk.subs /\ t.loads = talk.loads
    BY <1>a, ZenonT(90) DEF TalkStates, Framed
<1>3. TInv(t)
    BY <1>2, FrameKeeps DEF TalkInv
<1>d. talk' \in {LoadIfEmpty([ended EXCEPT !.finishing = TRUE]), [t EXCEPT !.modal = @ \/ end.mine],
                 marked(t), marked(ended), TalkGone(t), TalkGone(ended)}
    BY DEF CompleteEnds
<1> HIDE DEF t
<1>4. TInv(ended)
    <2> DEFINE server == [t.server EXCEPT ![end.session].over = TRUE]
    <2>1. t.server \in [Talks -> Progress]
        BY <1>2 DEF TalkStates
    <2>2. server \in [Talks -> Progress] /\ \A s \in Talks : server[s].answered = t.server[s].answered
        BY <1>1, <2>1 DEF Progress
    <2>3. ended = [t EXCEPT !.server = server]
        BY <1>2 DEF TalkStates
    <2> HIDE DEF server, ended
    <2>4. /\ ended \in TalkStates /\ ended.session = t.session /\ ended.opened = t.opened
          /\ ended.onPage = t.onPage /\ ended.sample = t.sample /\ ended.nodes = t.nodes
          /\ ended.submitting = t.submitting /\ ended.subs = t.subs
          /\ ended.loads = t.loads /\ ended.server = server
        BY <1>2, <2>2, <2>3 DEF TalkStates
    <2>5. LoadsSeen(ended)
        BY <1>2, <1>3, <2>2, <2>4 DEF TInv, LoadsSeen, TalkStates, Load
    <2>6. Honest(ended)
        <3> SUFFICES ASSUME FirstTalk(t) PROVE Honest(ended)
            BY <2>4 DEF Honest, FirstTalk
        <3>1. \A n \in Nodes : server[n[1]].answered = t.server[n[1]].answered
            BY <2>2, NodeFacts
        <3>2. \A sub \in t.subs : sub.node \in Nodes
            BY <1>2 DEF TalkStates, Submission
        <3>3. QED
            BY <1>3, <2>4, <3>1, <3>2 DEF TInv, Honest, FirstTalk, Ticked
    <2>7. QED
        BY <1>3, <2>4, <2>5, <2>6 DEF TInv, Begun, OfSession
<1> HIDE DEF ended
<1>5. ASSUME NEW b, TInv(b)
      PROVE  /\ TInv(marked(b)) /\ TInv(TalkGone(b)) /\ TInv([b EXCEPT !.finishing = TRUE])
             /\ TInv([b EXCEPT !.modal = @ \/ end.mine])
    <2> DEFINE c == [b EXCEPT !.finishing = TRUE]
               d == [b EXCEPT !.modal = @ \/ end.mine]
               e == marked(b)
    <2>1. c \in TalkStates /\ Framed(b, c) /\ c.subs = b.subs /\ c.loads = b.loads
        BY <1>5 DEF TInv, TalkStates, Framed
    <2>2. d \in TalkStates /\ Framed(b, d) /\ d.subs = b.subs /\ d.loads = b.loads
        BY <1>1, <1>5 DEF TInv, TalkStates, Framed, Ending
    <2>3. e \in TalkStates /\ Framed(b, e) /\ e.subs = b.subs /\ e.loads = b.loads
        BY <1>1, <1>5 DEF TInv, TalkStates, Framed, Ending
    <2> HIDE DEF c, d, e
    <2>4. TInv(c) /\ TInv(d) /\ TInv(e)
        BY <1>5, <2>1, <2>2, <2>3, FrameKeeps
    <2>5. TInv(TalkGone(b))
        BY <1>5, LeaveKeeps
    <2>6. QED
        BY <2>4, <2>5 DEF c, d, e
<1>6. TInv(LoadIfEmpty([ended EXCEPT !.finishing = TRUE]))
    BY <1>4, <1>5, LoadKeeps
<1>7. TInv(talk')
    BY <1>3, <1>4, <1>5, <1>6, <1>d
<1>8. QED
    BY <1>7 DEF TalkInv

LEMMA TalkInitInv == TalkInit => TalkInv
<1> SUFFICES ASSUME TalkInit PROVE TInv(talk)
    BY DEF TalkInv
<1>1. /\ NoTree \in Trees /\ 0 \in 0..LastTalk /\ 0 \in 0..MaxSeq
      /\ [s \in Talks |-> Nothing] \in [Talks -> Progress]
    BY TalkBound DEF NoTree, Trees, Status, Nothing, Progress, TalkBound
<1>2. talk \in TalkStates
    BY <1>1 DEF TalkInit, TalkStates
<1>3. QED
    BY <1>2 DEF TalkInit, TInv, Begun, OfSession, LoadsSeen, Honest, FirstTalk

LEMMA TalkStep == ASSUME TalkInv, [TalkNext]_talk PROVE TalkInv'
<1>1. CASE OpenTalk
    BY <1>1, OpenKeeps
<1>2. CASE EnterPage
    BY <1>2, EnterKeeps
<1>3. CASE LeavePage \/ FinishEnds
    BY <1>3, LeaveStepKeeps
<1>4. CASE DeleteTalk
    BY <1>4, DeleteKeeps
<1>5. CASE ReloadTree
    BY <1>5, ReloadKeeps
<1>6. CASE \E n \in Nodes : handleSubmit(n)
    BY <1>6, SubmitKeeps
<1>7. CASE \E confirm \in BOOLEAN : requestComplete(confirm)
    BY <1>7, RequestKeeps
<1>8. CASE \E sub \in talk.subs : AnswerArrives(sub) \/ SubmitEnds(sub)
    BY <1>8, ArriveKeeps, SubmitEndsKeeps
<1>9. CASE \E load \in talk.loads : LoadArrives(load) \/ LoadEnds(load)
    BY <1>9, LoadArrivesKeeps, LoadEndsKeeps
<1>10. CASE \E end \in talk.ends : CompleteEnds(end)
    BY <1>10, CompleteKeeps
<1>11. CASE talk' = talk
    BY <1>11 DEF TalkInv
<1>12. QED
    BY <1>1, <1>2, <1>3, <1>4, <1>5, <1>6, <1>7, <1>8, <1>9, <1>10, <1>11 DEF TalkNext, TalkProgress

\* InterviewPage.tsx: whatever is answered, aborted, reloaded or deleted, and however
\* late, every step keeps the invariant.
THEOREM TalkInvariance == TalkSpec => []TalkInv
<1>1. TalkInv /\ [TalkNext]_talk => TalkInv'
    BY TalkStep
<1>2. QED
    BY TalkInitInv, <1>1, PTL DEF TalkSpec

\* Type correctness of the page, its store, its calls and the server's answers, for any
\* number of sessions, questions and calls: an open question is one the session has.
THEOREM TalkTypeCorrect == TalkSpec => []TalkTypeOK
<1>1. TalkInv => TalkTypeOK
    BY DEF TalkInv, TInv, TalkStates, TalkTypeOK, Submission, Load, Ending
<1>2. QED
    BY <1>1, TalkInvariance, PTL

\* In the first session of a browser, and as long as it is not the sample, no answer
\* is lost behind a tick, whatever the number of questions, loads and submissions, and
\* however many sessions follow: handleSubmit's rollback and the store's submitSeq see
\* to it together.
THEOREM FirstTicksAreAnswers == TalkSpec => []NoFalseAnswered
<1>1. TalkInv => NoFalseAnswered
    BY DEF TalkInv, TInv, Honest, FirstTalk, NoFalseAnswered
<1>2. QED
    BY <1>1, TalkInvariance, PTL
=============================================================================
