---------------------------- MODULE QuestionTree ----------------------------
(***************************************************************************)
(* How the interview's questions are ordered, laid out and walked by the   *)
(* keyboard (features/interview/layout.ts, MindMapCanvas.tsx): pure        *)
(* functions of the set of questions the server sent.                      *)
(***************************************************************************)
EXTENDS Integers, Sequences, SequencesExt

QuestionNode(Ids, Times) ==
    [questionId : Ids, parentId : Ids \cup {0}, depth : Nat, createdAt : Times]

X_GAP == 32
Y_GAP == 16      \* in place of 380 and 190, so that the halves are whole

compareQuestion(a, b) ==
    \/ a.createdAt < b.createdAt
    \/ a.createdAt = b.createdAt /\ a.questionId < b.questionId

\* 0: the questions without a parent.
getChildren(nodes, id) ==
    SetToSortSeq({n \in nodes : n.parentId = id}, compareQuestion)

\* Depth first; a question whose parent was not sent is not listed.
flattenQuestionTree(nodes) ==
    LET append(seen, more) == seen \o more
        visit[n \in nodes] ==
            FoldLeft(LAMBDA seen, child : append(seen, visit[child]), <<n>>,
                     getChildren(nodes, n.questionId))
    IN  FoldLeft(LAMBDA seen, root : append(seen, visit[root]), <<>>, getChildren(nodes, 0))

IndexOf(seq, n) == IF \E i \in DOMAIN seq : seq[i] = n
                   THEN CHOOSE i \in DOMAIN seq : seq[i] = n ELSE 0

\* The leaves one below the other, as they are visited; a parent midway between
\* its first and its last child; what is not visited at the top.
layoutQuestionTree(nodes) ==
    LET visited == flattenQuestionTree(nodes)
        leaves == SelectSeq(visited, LAMBDA n : getChildren(nodes, n.questionId) = <<>>)
        y[n \in nodes] ==
            LET kids == getChildren(nodes, n.questionId)
            IN  IF kids = <<>> THEN (IndexOf(leaves, n) - 1) * Y_GAP
                ELSE (y[kids[1]] + y[kids[Len(kids)]]) \div 2
    IN  [n \in nodes |-> [x |-> n.depth * X_GAP,
                          y |-> IF IndexOf(visited, n) = 0 THEN 0 ELSE y[n]]]

Keys == {"ArrowDown", "ArrowUp", "ArrowLeft", "ArrowRight", "Home", "End"}

\* The question a key moves the focus to, from the question "current", which a
\* new tree may not hold any more; active: the open question's id, 0: none.
onKeyDown(nodes, current, active, key) ==
    LET visual == flattenQuestionTree(nodes)
        listed == {i \in DOMAIN visual : visual[i].questionId = current}
        index == IF listed = {} THEN 0 ELSE CHOOSE i \in listed : TRUE
        children == getChildren(nodes, current)
    IN  CASE key = "ArrowDown" -> visual[IF index < Len(visual) THEN index + 1 ELSE index].questionId
          [] key = "ArrowUp" -> visual[IF index > 1 THEN index - 1 ELSE 1].questionId
          [] key = "ArrowLeft" -> IF index # 0 /\ visual[index].parentId # 0
                                  THEN visual[index].parentId ELSE current
          [] key = "ArrowRight" -> IF index # 0 /\ children # <<>>
                                   THEN children[1].questionId ELSE current
          [] key = "Home" -> visual[1].questionId
          [] key = "End" -> IF active # 0 THEN active ELSE visual[Len(visual)].questionId
=============================================================================
