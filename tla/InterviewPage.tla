---------------------------- MODULE InterviewPage ----------------------------
(***************************************************************************)
(* The interview page (pages/InterviewPage.tsx) over the interview store,  *)
(* which outlives the page and the session: answers are shown at once and  *)
(* taken back when their submission fails, the tree is loaded when there   *)
(* is none, the interview may be ended early.  A session's questions come  *)
(* one after the other, so its server state is how many are answered.      *)
(***************************************************************************)
EXTENDS Naturals, FiniteSets

CONSTANTS LastTalk,          \* bound: sessions, one after the other
          LastQuestion,      \* the answer to this question ends an interview
          MaxSubmissions,    \* bound: submissions on their way at once
          MaxLoads,          \* bound: loads of the tree on their way at once
          MaxSeq             \* bound: submissions between two resets of the store
ASSUME TalkBound == LastTalk \in Nat /\ LastQuestion \in Nat \ {0} /\ MaxSeq \in Nat

VARIABLE talk

Talks == 1..LastTalk
Nodes == Talks \X (1..LastQuestion)
Status == {"none", "ACTIVE", "ANSWERED", "SKIPPED"}
Trees == [Nodes -> Status]
NoNode == <<0, 0>>

\* What the server knows of a session, and so what it answers.
Progress == {p \in [answered : 0..LastQuestion, over : BOOLEAN] : p.over \/ p.answered < LastQuestion}
\* A call is "sent", has an answer "ok" with what the server then knew, or failed.
Reply == [state : {"sent", "ok", "failed"}, seen : Progress]
Nothing == [answered |-> 0, over |-> FALSE]
Sent == [state |-> "sent", seen |-> Nothing]

TalkTypeOK ==
    talk \in [session : 0..LastTalk, opened : 0..LastTalk, onPage : BOOLEAN, sample : BOOLEAN,
              nodes : Trees, active : Nodes \cup {NoNode}, submitSeq : 0..MaxSeq,
              submitting : BOOLEAN, loading : BOOLEAN, completing : BOOLEAN,
              error : BOOLEAN, modal : BOOLEAN, finishing : BOOLEAN,
              subs : SUBSET [seq : 1..MaxSeq, session : Talks, node : Nodes, orig : Trees,
                             mine : BOOLEAN, reply : Reply],
              loads : SUBSET [session : Talks, mine : BOOLEAN, reply : Reply],
              ends : SUBSET [session : Talks, mine : BOOLEAN, confirm : BOOLEAN],
              server : [Talks -> Progress]]

NoTree == [n \in Nodes |-> "none"]
TalkInit ==
    talk = [session |-> 0, opened |-> 0, onPage |-> FALSE, sample |-> FALSE,
            nodes |-> NoTree, active |-> NoNode, submitSeq |-> 0, submitting |-> FALSE,
            loading |-> FALSE, completing |-> FALSE, error |-> FALSE, modal |-> FALSE,
            finishing |-> FALSE, subs |-> {}, loads |-> {}, ends |-> {},
            server |-> [s \in Talks |-> Nothing]]

-----------------------------------------------------------------------------
\* The interview store.  Of several active questions the first is picked.
pickActive(nodes) ==
    LET open == {n \in Nodes : nodes[n] = "ACTIVE"}
    IN  IF open = {} THEN {NoNode} ELSE open
setTree(t, nodes) ==
    {[t EXCEPT !.nodes = nodes, !.active = n] : n \in pickActive(nodes)}
mergeNodes(t, incoming) ==
    LET nodes == [n \in Nodes |-> IF n \in incoming THEN "ACTIVE" ELSE t.nodes[n]]
    IN  {[t EXCEPT !.nodes = nodes, !.active = n] :
            n \in IF incoming = {} THEN pickActive(nodes) ELSE incoming}
markAnswered(nodes, node) == [nodes EXCEPT ![node] = IF @ = "none" THEN @ ELSE "ANSWERED"]
Reset(t) == [t EXCEPT !.nodes = NoTree, !.active = NoNode, !.submitSeq = 0, !.submitting = FALSE]

\* The server's tree of session s, and its open question.
TreeOf(s, known) ==
    [n \in Nodes |-> IF n[1] # s \/ n[2] > known.answered + 1 THEN "none"
                     ELSE IF n[2] <= known.answered THEN "ANSWERED"
                     ELSE IF known.over THEN "SKIPPED" ELSE "ACTIVE"]
OpenQuestion(s, known) == IF known.over THEN {} ELSE {<<s, known.answered + 1>>}

\* The page is left: its state is gone, its first load is aborted.
LeaveTalk(t) ==
    [t EXCEPT !.onPage = FALSE, !.loading = FALSE, !.completing = FALSE, !.error = FALSE,
              !.modal = FALSE,
              !.subs = {[c EXCEPT !.mine = FALSE] : c \in @},
              !.loads = {[c EXCEPT !.mine = FALSE] : c \in @},
              !.ends = {[c EXCEPT !.mine = FALSE] : c \in @}]
\* clearSession('expired') forgets the session, not the interview store.
TalkGone(t) == [LeaveTalk(t) EXCEPT !.session = 0, !.sample = FALSE]

loadTree(t) ==
    [t EXCEPT !.loading = TRUE, !.error = FALSE,
              !.loads = @ \cup {[session |-> t.session, mine |-> TRUE, reply |-> Sent]}]
\* The page's effect, when it is entered and when the session's status changes.
LoadIfEmpty(t) == IF t.onPage /\ t.nodes = NoTree THEN loadTree(t) ELSE t

-----------------------------------------------------------------------------
\* On the home page: a session is created, in place of the one there was; the
\* sample may be turned on, and stays on as long as the session.
OpenTalk ==
    /\ ~talk.onPage /\ talk.opened < LastTalk
    /\ talk' = [talk EXCEPT !.session = talk.opened + 1, !.opened = @ + 1, !.sample = FALSE]
EnterPage ==
    /\ ~talk.onPage /\ talk.session # 0 /\ Cardinality(talk.loads) < MaxLoads
    /\ \E sample \in {talk.sample, TRUE} :
          talk' = LoadIfEmpty([talk EXCEPT !.onPage = TRUE, !.sample = sample])
LeavePage == talk.onPage /\ talk' = LeaveTalk(talk)
DeleteTalk ==
    /\ talk.session # 0
    /\ talk' = Reset(TalkGone(talk))

\* "다시 불러오기"
ReloadTree ==
    /\ talk.onPage /\ talk.error /\ ~talk.loading /\ Cardinality(talk.loads) < MaxLoads
    /\ talk' = loadTree(talk)

\* The card of an active question, by its button or by the sample's timer, which
\* does not look at "submitting"; or "다시 제출" beside the error.
handleSubmit(n) ==
    /\ talk.onPage /\ talk.session # 0
    /\ \/ talk.nodes[n] = "ACTIVE" /\ (talk.sample \/ ~talk.submitting)
       \/ talk.nodes[n] # "none" /\ n = talk.active /\ talk.error /\ ~talk.submitting
    /\ Cardinality(talk.subs) < MaxSubmissions /\ talk.submitSeq < MaxSeq
    /\ talk' = [talk EXCEPT
                  !.submitSeq = @ + 1, !.submitting = TRUE, !.error = FALSE,
                  !.nodes = markAnswered(@, n),
                  !.subs = @ \cup {[seq |-> talk.submitSeq + 1, session |-> talk.session,
                                    node |-> n, orig |-> talk.nodes, mine |-> TRUE,
                                    reply |-> Sent]}]

requestComplete(confirm) ==
    /\ talk.onPage /\ talk.session # 0
    /\ talk.ends = {}           \* bound: one early end on its way at a time
    /\ ~(talk.loading /\ talk.nodes = NoTree)
    /\ IF confirm THEN talk.modal \/ talk.sample ELSE ~talk.completing
    /\ talk' = [talk EXCEPT !.completing = TRUE, !.error = FALSE,
                  !.ends = {[session |-> talk.session, mine |-> TRUE, confirm |-> confirm]}]

\* The server: the open question of the session is answered, an answered one
\* answers again what is open now, any other is refused; a reply may be lost.
AnswerArrives(sub) ==
    LET known == talk.server[sub.session]
        mayAnswer == sub.node[1] = sub.session /\ ~known.over /\ sub.node[2] = known.answered + 1
        next == IF mayAnswer THEN [answered |-> known.answered + 1,
                                   over |-> known.answered + 1 = LastQuestion] ELSE known
        repeated == sub.node[1] = sub.session /\ sub.node[2] <= known.answered
        replies == {"failed"} \cup (IF mayAnswer \/ repeated THEN {"ok"} ELSE {})
    IN  /\ sub \in talk.subs /\ sub.reply.state = "sent"
        /\ \E state \in replies :
              talk' = [talk EXCEPT !.server[sub.session] = next,
                          !.subs = (@ \ {sub}) \cup
                              {[sub EXCEPT !.reply.state = state,
                                           !.reply.seen = IF state = "ok" THEN next ELSE @]}]
LoadArrives(load) ==
    /\ load \in talk.loads /\ load.reply.state = "sent"
    /\ \E state \in {"ok", "failed"} :
          talk' = [talk EXCEPT !.loads = (@ \ {load}) \cup
              {[load EXCEPT !.reply = [state |-> state, seen |-> IF state = "ok"
                                       THEN talk.server[load.session] ELSE Nothing]]}]

\* Mutant: only the page that is still there takes a failed answer back.
SubmitEndsOnPage(sub) ==
    LET t == [talk EXCEPT !.subs = @ \ {sub}, !.submitting = FALSE]
        seen == sub.reply.seen
    IN  /\ sub \in talk.subs
        /\ \/ /\ sub.reply.state = "ok" /\ sub.seq # talk.submitSeq
              /\ talk' = t
           \/ /\ sub.reply.state = "ok" /\ sub.seq = talk.submitSeq
              /\ talk' \in mergeNodes([t EXCEPT !.finishing = @ \/ seen.over],
                                      OpenQuestion(sub.session, seen))
           \/ /\ sub.reply.state = "failed" /\ sub.mine
              /\ talk' \in setTree([t EXCEPT !.error = TRUE],
                                   [sub.orig EXCEPT ![sub.node] = "ACTIVE"])
           \/ /\ sub.reply.state = "failed" /\ ~sub.mine
              /\ talk' = t
\* handleSubmit after the await.
SubmitEnds(sub) ==
    LET t == [talk EXCEPT !.subs = @ \ {sub}, !.submitting = FALSE]
        seen == sub.reply.seen
    IN  /\ sub \in talk.subs
        /\ \/ /\ sub.reply.state = "ok" /\ sub.seq # talk.submitSeq
              /\ talk' = t
           \/ /\ sub.reply.state = "ok" /\ sub.seq = talk.submitSeq
              /\ talk' \in mergeNodes([t EXCEPT !.finishing = @ \/ seen.over],
                                      OpenQuestion(sub.session, seen))
           \/ /\ sub.reply.state = "failed"
              /\ talk' \in setTree([t EXCEPT !.error = @ \/ sub.mine],
                                   [sub.orig EXCEPT ![sub.node] = "ACTIVE"])

LoadEnds(load) ==
    LET t == [talk EXCEPT !.loads = @ \ {load}, !.loading = @ /\ ~load.mine] IN
    /\ load \in talk.loads
    /\ \/ load.reply.state = "ok" /\ talk' \in setTree(t, TreeOf(load.session, load.reply.seen))
       \/ load.reply.state = "failed" /\ talk' \in {[t EXCEPT !.error = @ \/ load.mine], TalkGone(t)}
       \/ ~load.mine /\ talk' = t                              \* aborted

CompleteEnds(end) ==
    LET t == [talk EXCEPT !.ends = {}, !.completing = @ /\ ~end.mine,
                          !.modal = @ /\ ~(end.confirm /\ end.mine)]
        ended == [t EXCEPT !.server[end.session].over = TRUE]
    IN  /\ end \in talk.ends
        /\ \/ talk' = LoadIfEmpty([ended EXCEPT !.finishing = TRUE])
           \/ ~end.confirm /\ ~talk.server[end.session].over /\ talk' = [t EXCEPT !.modal = @ \/ end.mine]
           \/ \E b \in {t, ended} : talk' \in {[b EXCEPT !.error = @ \/ end.mine], TalkGone(b)}

\* finishToArtifacts reads the session, and goes on whatever comes of it.
FinishEnds == talk.finishing /\ talk' = [LeaveTalk(talk) EXCEPT !.finishing = FALSE]

TalkProgress ==
    \/ \E sub \in talk.subs : AnswerArrives(sub) \/ SubmitEnds(sub)
    \/ \E load \in talk.loads : LoadArrives(load) \/ LoadEnds(load)
    \/ \E end \in talk.ends : CompleteEnds(end)
    \/ FinishEnds
TalkNext ==
    \/ OpenTalk \/ EnterPage \/ LeavePage \/ DeleteTalk \/ ReloadTree
    \/ (\E n \in Nodes : handleSubmit(n)) \/ (\E confirm \in BOOLEAN : requestComplete(confirm))
    \/ TalkProgress
TalkSpec == TalkInit /\ [][TalkNext]_talk

-----------------------------------------------------------------------------
\* In the first session of a browser, a question shown as answered is answered at the
\* server, or its submission has not ended yet: whatever trees were loaded meanwhile,
\* and although the submission that is taken back puts back the tree it was sent with,
\* no answer is lost behind a tick.  Not so with the sample, whose timers send two
\* answers at once, one of which may put back the other's tick; nor in a second
\* session: submitSeq starts again at the deletion of the first, and a submission that
\* outlives it is taken for one of the second.
NoFalseAnswered ==
    talk.opened <= 1 /\ talk.session # 0 /\ ~talk.sample =>
        \A n \in Nodes : talk.nodes[n] = "ANSWERED" =>
            \/ n[2] <= talk.server[n[1]].answered
            \/ \E sub \in talk.subs : sub.node = n

\* TRD 5.1: the start of an interview empties the question store
\* (interviewStore's reset), so the page shows no question of another session.
TreeOfThisSession ==
    talk.onPage => \A n \in Nodes : talk.nodes[n] # "none" => n[1] = talk.session
=============================================================================
