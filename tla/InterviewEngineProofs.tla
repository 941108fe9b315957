----------------------- MODULE InterviewEngineProofs -----------------------
(***************************************************************************)
(* Proofs about InterviewEngine, for any caps on questions, depth and      *)
(* batch, with agents that reply in any shape.                             *)
(***************************************************************************)
EXTENDS InterviewEngine, FiniteSetTheorems, TLAPS

(***************************************************************************)
(* The strengthening: the statuses of the questions agree with the tree's  *)
(* size, and the turn's locals with where the turn is suspended.           *)
(***************************************************************************)

\* A question has a status from the moment it is made.
Made == \A q \in Questions : qstatus[q] = "none" <=> q > count

OneActive == \A q, r \in Questions : qstatus[q] = "ACTIVE" /\ qstatus[r] = "ACTIVE" => q = r

NoneActive == \A q \in Questions : qstatus[q] # "ACTIVE"

\* The question of a turn has its answer, and no follow-ups yet.
Answering ==
    /\ current \in Asked
    /\ qstatus[current] = "ANSWERED"
    /\ \A q \in Asked : parent[q] # current

TurnShape ==
    /\ turn = "roots" => status = "INTERVIEWING" /\ count = 0
    /\ turn \in {"assess", "followups"} => status = "INTERVIEWING" /\ NoneActive /\ Answering
    /\ turn = "followups" =>
           depth[current] < MaxDepth \/ (depth[current] = MaxDepth /\ current \in bonusUsed)
    /\ turn = "derive" => status = "INTERVIEW_DONE"
    /\ turn \notin {"assess", "followups"} => current = 0
    /\ status = "CREATED" => turn = "free" /\ count = 0
    /\ status # "INTERVIEW_DONE" => reason = "NONE" /\ ~early

TreeInv == TreeWellFormed /\ DepthEarned /\ ExpandedOnce

IInv ==
    /\ TypeOK
    /\ Made
    /\ OneActive
    /\ TurnShape
    /\ TreeInv
    /\ RequiredFirst
    /\ CompletionJustified

-----------------------------------------------------------------------------
(* What adding questions and selecting one does *)

\* Adding a batch below p leaves the questions that were there alone.
LEMMA AddNodesFacts ==
    ASSUME TypeOK, NEW n \in 0..Batch, NEW ks \in [1..n -> Kinds], NEW p \in {0} \cup Questions,
           NEW d \in 0..(MaxDepth + 1), AddNodes(n, ks, p, d)
    PROVE  /\ count' \in count..MaxQuestions
           /\ count' <= count + n
           /\ parent' \in [Questions -> {0} \cup Questions]
           /\ depth' \in [Questions -> 0..(MaxDepth + 1)]
           /\ kind' \in [Questions -> Kinds]
           /\ \A q \in Questions : q <= count =>
                  parent'[q] = parent[q] /\ depth'[q] = depth[q] /\ kind'[q] = kind[q]
           /\ \A q \in Questions : count < q /\ q <= count' => parent'[q] = p /\ depth'[q] = d
<1>1. count \in Nat /\ MaxQuestions \in Nat /\ n \in Nat /\ count <= MaxQuestions
  BY InterviewAssumption DEF TypeOK
<1>2. count' \in count..MaxQuestions /\ count' <= count + n
  BY <1>1 DEF AddNodes
<1>3. \A q \in Questions : q \in Nat
  BY <1>1 DEF Questions
<1>4. ASSUME NEW q \in Questions, count < q, q <= count + n
      PROVE  ks[q - count] \in Kinds
  BY <1>1, <1>3, <1>4
<1>5. /\ parent' \in [Questions -> {0} \cup Questions]
      /\ depth' \in [Questions -> 0..(MaxDepth + 1)]
  BY DEF AddNodes, TypeOK
<1>6. kind' \in [Questions -> Kinds]
  BY <1>4 DEF AddNodes, TypeOK
<1>7. \A q \in Questions : q <= count =>
          parent'[q] = parent[q] /\ depth'[q] = depth[q] /\ kind'[q] = kind[q]
  BY <1>1, <1>3 DEF AddNodes
<1>8. \A q \in Questions : count < q /\ q <= count' => parent'[q] = p /\ depth'[q] = d
  BY <1>1, <1>2, <1>3 DEF AddNodes
<1> QED
  BY <1>2, <1>5, <1>6, <1>7, <1>8

\* What a selection does to the statuses, whichever question it selects.
Selected ==
    /\ qstatus' \in [Questions -> {"none", "PENDING", "ACTIVE", "ANSWERED"}]
    /\ Made'
    /\ OneActive'
    /\ RequiredFirst'
    /\ \A q \in Questions : qstatus'[q] = "ANSWERED" <=> qstatus[q] = "ANSWERED"

\* A question is the one put to the user after a step, and was open before it.
Picked(q) ==
    /\ qstatus[q] # "ANSWERED"
    /\ \A r \in Questions : qstatus'[r] = "ACTIVE" <=> r = q

LEMMA OfferFacts ==
    ASSUME TypeOK, Made, count' \in count..MaxQuestions, NEW late \in BOOLEAN,
           NEW q \in Questions, Offer(q, late)
    PROVE  Selected /\ Picked(q)
<1>1. count \in Nat /\ count' \in Nat /\ count <= count' /\ \A r \in Questions : r \in Nat
  BY InterviewAssumption DEF TypeOK, Questions
<1>2. q \in Candidates(late) /\ q \in Open
  BY DEF Offer, Candidates, Required, Children
<1>3. \A r \in Questions :
          qstatus'[r] = IF r = q THEN "ACTIVE" ELSE IF r \in Open THEN "PENDING" ELSE qstatus[r]
  BY DEF Offer
<1>4. qstatus' \in [Questions -> {"none", "PENDING", "ACTIVE", "ANSWERED"}]
  BY DEF Offer, TypeOK
<1>5. \A r \in Questions : r \in Open <=>
          r <= count' /\ qstatus[r] \in {"none", "PENDING", "ACTIVE"}
  BY DEF Open, Asked
<1>6. \A r \in Questions : r \notin Open => qstatus[r] # "ACTIVE"
  BY <1>1, <1>5 DEF Made
<1>7. \A r \in Questions : qstatus'[r] = "ACTIVE" <=> r = q
  BY <1>3, <1>6
<1>8. \A r \in Questions : qstatus'[r] = "ANSWERED" <=> qstatus[r] = "ANSWERED"
  BY <1>2, <1>3, <1>5
<1>9. \A r \in Questions : r \notin Open => (qstatus[r] = "none" <=> r > count')
  <2> SUFFICES ASSUME NEW r \in Questions, r \notin Open
               PROVE  qstatus[r] = "none" <=> r > count'
    OBVIOUS
  <2>1. CASE r > count'
    BY <2>1, <1>1 DEF Made
  <2>2. CASE ~(r > count')
    BY <2>2, <1>1, <1>5
  <2> QED
    BY <2>1, <2>2
<1>10. Made'
  <2> SUFFICES ASSUME NEW r \in Questions
               PROVE  qstatus'[r] = "none" <=> r > count'
    BY DEF Made, Questions
  <2>1. CASE r \in Open
    BY <2>1, <1>1, <1>3, <1>5
  <2>2. CASE r \notin Open
    BY <2>2, <1>2, <1>3, <1>9
  <2> QED
    BY <2>1, <2>2
<1>11. OneActive'
  BY <1>7 DEF OneActive, Questions
<1>12. RequiredFirst'
  <2> SUFFICES ASSUME NEW r \in Questions, qstatus'[r] = "ACTIVE", kind'[r] = "OPTIONAL",
                      NEW z \in Questions, kind'[z] = "REQUIRED",
                      qstatus'[z] \in {"PENDING", "ACTIVE"}
               PROVE  FALSE
    BY DEF RequiredFirst, PendingRequired, Questions
  <2>1. r = q
    BY <1>7
  <2>2. z \in Open
    BY <1>1, <1>2, <1>3, <1>5 DEF Made
  <2>3. z \in Required
    BY <2>2 DEF Required
  <2>4. q \in Required
    BY <2>3, <1>2 DEF Candidates
  <2> QED
    BY <2>1, <2>4 DEF Required
<1>13. qstatus[q] # "ANSWERED"
  BY <1>2, <1>5
<1> QED
  BY <1>4, <1>7, <1>8, <1>10, <1>11, <1>12, <1>13 DEF Selected, Picked

\* When nothing is selected, no candidate was there.
LEMMA OfferNothingFacts ==
    ASSUME TypeOK, Made, count' \in count..MaxQuestions, NEW late \in BOOLEAN, OfferNothing(late)
    PROVE  /\ Selected
           /\ NoneActive'
           /\ PendingRequired' = {}
           /\ ~late => \A q \in Asked' : qstatus'[q] = "ANSWERED"
<1>1. count \in Nat /\ count' \in Nat /\ count <= count' /\ \A r \in Questions : r \in Nat
  BY InterviewAssumption DEF TypeOK, Questions
<1>2. \A r \in Questions : qstatus'[r] = IF r \in Open THEN "PENDING" ELSE qstatus[r]
  BY DEF OfferNothing
<1>3. qstatus' \in [Questions -> {"none", "PENDING", "ACTIVE", "ANSWERED"}]
  BY DEF OfferNothing, TypeOK
<1>4. \A r \in Questions : r \in Open <=>
          r <= count' /\ qstatus[r] \in {"none", "PENDING", "ACTIVE"}
  BY DEF Open, Asked
<1>5. \A r \in Questions : r \notin Open => qstatus[r] # "ACTIVE" /\ qstatus[r] # "PENDING"
  BY <1>1, <1>4 DEF Made
<1>6. NoneActive'
  BY <1>2, <1>5 DEF NoneActive, Questions
<1>7. \A r \in Questions : qstatus'[r] = "ANSWERED" <=> qstatus[r] = "ANSWERED"
  BY <1>2, <1>4
<1>8. Made'
  <2> SUFFICES ASSUME NEW r \in Questions
               PROVE  qstatus'[r] = "none" <=> r > count'
    BY DEF Made, Questions
  <2>1. CASE r > count'
    BY <2>1, <1>1, <1>2, <1>4 DEF Made
  <2>2. CASE ~(r > count')
    BY <2>2, <1>1, <1>2, <1>4
  <2> QED
    BY <2>1, <2>2
<1>9. Required = {}
  BY DEF OfferNothing, Candidates
<1>10. PendingRequired' = {}
  <2> SUFFICES ASSUME NEW z \in Questions, kind'[z] = "REQUIRED",
                      qstatus'[z] \in {"PENDING", "ACTIVE"}
               PROVE  FALSE
    BY DEF PendingRequired, Questions
  <2>1. z \in Open
    BY <1>2, <1>5
  <2> QED
    BY <2>1, <1>9 DEF Required
<1>11. ASSUME ~late PROVE \A q \in Asked' : qstatus'[q] = "ANSWERED"
  <2>1. Open = {}
    BY <1>11 DEF OfferNothing, Candidates
  <2> QED
    BY <2>1, <1>2, <1>4 DEF Asked, Questions, TypeOK
<1> QED
  BY <1>3, <1>6, <1>7, <1>8, <1>10, <1>11 DEF Selected, OneActive, NoneActive, RequiredFirst

\* The end of a turn: a question is put to the user, or the interview is over.
LEMMA EndTurnFacts ==
    ASSUME TypeOK, Made, count' \in count..MaxQuestions, NEW late \in BOOLEAN, EndTurn(late)
    PROVE  /\ Selected
           /\ current' = 0 /\ deeper' = FALSE
           /\ \/ /\ \E q \in Questions : Picked(q)
                 /\ turn' = "free"
                 /\ UNCHANGED <<status, reason, early>>
              \/ /\ NoneActive'
                 /\ status' = "INTERVIEW_DONE"
                 /\ turn' \in {"free", "derive"}
                 /\ reason' \in {"THRESHOLD", "WATCHDOG", "TIME_LIMIT"}
                 /\ early' \in BOOLEAN
                 /\ CompletionJustified'
<1>0. current' = 0 /\ deeper' = FALSE
  BY DEF EndTurn
<1>1. CASE /\ \E q \in Questions : Offer(q, late)
           /\ turn' = "free"
           /\ UNCHANGED <<status, reason, early>>
  BY <1>0, <1>1, OfferFacts
<1>2. CASE /\ OfferNothing(late)
           /\ Complete(CompletionReason(late, count'), CompletionReason(late, count') # "THRESHOLD")
  <2>1. /\ Selected /\ NoneActive' /\ PendingRequired' = {}
        /\ ~late => \A q \in Asked' : qstatus'[q] = "ANSWERED"
    BY <1>2, OfferNothingFacts
  <2>2. /\ status' = "INTERVIEW_DONE"
        /\ turn' \in {"free", "derive"}
        /\ reason' = CompletionReason(late, count')
        /\ early' = (CompletionReason(late, count') # "THRESHOLD")
    BY <1>2 DEF Complete
  <2>3. /\ reason' \in {"THRESHOLD", "WATCHDOG", "TIME_LIMIT"}
        /\ reason' = "WATCHDOG" => count' = MaxQuestions
        /\ reason' # "TIME_LIMIT" => ~late
        /\ early' \in BOOLEAN
        /\ early' <=> reason' # "THRESHOLD"
    BY <2>2 DEF CompletionReason
  <2>4. CompletionJustified'
    BY <2>1, <2>2, <2>3 DEF CompletionJustified
  <2> QED
    BY <1>0, <2>1, <2>2, <2>3, <2>4
<1> QED
  BY <1>1, <1>2 DEF EndTurn

-----------------------------------------------------------------------------
(* The tree *)

AnsweredKept == \A q \in Questions : qstatus[q] = "ANSWERED" => qstatus'[q] = "ANSWERED"

\* Without new questions the tree stays well-formed as answers are only added.
LEMMA TreeStays ==
    ASSUME TypeOK, TreeInv, UNCHANGED <<count, parent, depth>>, bonusUsed \subseteq bonusUsed',
           AnsweredKept
    PROVE  TreeInv'
<1>1. TreeWellFormed'
  BY DEF TreeInv, TreeWellFormed, Asked, Questions, AnsweredKept, TypeOK
<1>2. DepthEarned'
  BY DEF TreeInv, DepthEarned, Asked, Questions
<1>3. ExpandedOnce'
  BY DEF TreeInv, ExpandedOnce, Asked, Questions
<1> QED
  BY <1>1, <1>2, <1>3 DEF TreeInv

\* A batch of roots in an empty tree, or of follow-ups below a question that has none.
LEMMA TreeGrows ==
    ASSUME TypeOK, TreeInv, NEW n \in 0..Batch, NEW ks \in [1..n -> Kinds],
           NEW p \in {0} \cup Questions, NEW d \in 0..(MaxDepth + 1), AddNodes(n, ks, p, d),
           \/ p = 0 /\ d = 0 /\ count = 0
           \/ /\ p \in Asked /\ qstatus[p] = "ANSWERED" /\ d = depth[p] + 1
              /\ \A q \in Asked : parent[q] # p
              /\ depth[p] < MaxDepth \/ p \in bonusUsed,
           bonusUsed' = bonusUsed, AnsweredKept
    PROVE  TreeInv'
<1>1. /\ count \in Nat /\ count' \in Nat /\ count <= count' /\ count' <= count + n
      /\ n \in Nat /\ n <= Batch /\ Batch \in Nat /\ MaxDepth \in Nat
      /\ \A q \in Questions : q \in Nat /\ q # 0
      /\ \A q \in Questions : q <= count => parent'[q] = parent[q] /\ depth'[q] = depth[q]
      /\ \A q \in Questions : count < q /\ q <= count' => parent'[q] = p /\ depth'[q] = d
  <2>1. /\ count' \in count..MaxQuestions
        /\ count' <= count + n
        /\ \A q \in Questions : q <= count => parent'[q] = parent[q] /\ depth'[q] = depth[q]
        /\ \A q \in Questions : count < q /\ q <= count' => parent'[q] = p /\ depth'[q] = d
    BY AddNodesFacts
  <2>2. /\ count \in Nat /\ count' \in Nat /\ count <= count'
        /\ n \in Nat /\ n <= Batch /\ Batch \in Nat /\ MaxDepth \in Nat
    BY <2>1, InterviewAssumption DEF TypeOK
  <2>3. \A q \in Questions : q \in Nat /\ q # 0
    BY InterviewAssumption DEF Questions
  <2> QED
    BY <2>1, <2>2, <2>3
<1>2. \A q \in Asked' : q \in Asked \/ (count < q /\ q <= count' /\ q \in Questions)
  BY <1>1 DEF Asked, Questions
<1>3. \A q \in Asked : parent[q] = 0 \/ parent[q] \in Asked
  BY <1>1 DEF TreeInv, TreeWellFormed, Asked, TypeOK
<1>4. \A q \in Asked : q \in Questions /\ q <= count
  BY DEF Asked
<1>5. TreeWellFormed'
  <2> SUFFICES ASSUME NEW q \in Asked'
               PROVE  IF parent'[q] = 0
                      THEN depth'[q] = 0
                      ELSE /\ parent'[q] < q
                           /\ qstatus'[parent'[q]] = "ANSWERED"
                           /\ depth'[q] = depth'[parent'[q]] + 1
    BY DEF TreeWellFormed
  <2>1. CASE q \in Asked
    <3>1. parent'[q] = parent[q] /\ depth'[q] = depth[q]
      BY <1>1, <1>4, <2>1
    <3>2. CASE parent[q] = 0
      BY <2>1, <3>1, <3>2 DEF TreeInv, TreeWellFormed
    <3>3. CASE parent[q] # 0
      <4>1. parent[q] \in Asked /\ depth'[parent[q]] = depth[parent[q]]
        BY <1>1, <1>3, <1>4, <2>1, <3>3
      <4>2. /\ parent[q] < q /\ qstatus[parent[q]] = "ANSWERED"
            /\ depth[q] = depth[parent[q]] + 1
        BY <2>1, <3>3 DEF TreeInv, TreeWellFormed
      <4> QED
        BY <1>4, <3>1, <3>3, <4>1, <4>2 DEF AnsweredKept
    <3> QED
      BY <3>2, <3>3
  <2>2. CASE count < q /\ q <= count' /\ q \in Questions
    <3>1. parent'[q] = p /\ depth'[q] = d
      BY <1>1, <2>2
    <3>2. CASE p = 0
      BY <1>4, <1>1, <3>1, <3>2
    <3>3. CASE p # 0
      <4>1. p \in Asked /\ qstatus[p] = "ANSWERED" /\ d = depth[p] + 1
        BY <3>3
      <4>2. p \in Questions /\ p <= count /\ depth'[p] = depth[p]
        BY <1>1, <1>4, <4>1
      <4>3. p < q
        BY <1>1, <2>2, <4>2
      <4> QED
        BY <3>1, <3>3, <4>1, <4>2, <4>3 DEF AnsweredKept
    <3> QED
      BY <3>2, <3>3
  <2> QED
    BY <1>2, <2>1, <2>2
<1>6. DepthEarned'
  <2> SUFFICES ASSUME NEW q \in Asked', depth'[q] > MaxDepth
               PROVE  parent'[q] \in bonusUsed
    BY DEF DepthEarned
  <2>1. CASE q \in Asked
    BY <1>1, <1>4, <2>1 DEF TreeInv, DepthEarned
  <2>2. CASE count < q /\ q <= count' /\ q \in Questions
    <3>1. parent'[q] = p /\ depth'[q] = d
      BY <1>1, <2>2
    <3>2. p \in Asked /\ d = depth[p] + 1
      BY <1>1, <3>1
    <3>3. depth[p] \in Nat
      BY <1>1, <1>4, <3>2 DEF TypeOK
    <3>4. ~(depth[p] < MaxDepth)
      BY <1>1, <3>1, <3>2, <3>3
    <3> QED
      BY <1>1, <1>4, <3>1, <3>2, <3>4
  <2> QED
    BY <1>2, <2>1, <2>2
<1>7. ExpandedOnce'
  <2> SUFFICES ASSUME NEW q \in Asked', NEW r \in Asked', parent'[q] = parent'[r]
               PROVE  q < r + Batch
    BY DEF ExpandedOnce
  <2>1. ASSUME NEW x \in Asked, NEW y \in Questions, count < y, y <= count'
        PROVE  parent'[x] # parent'[y]
    <3>1. parent'[x] = parent[x] /\ parent'[y] = p
      BY <1>1, <1>4, <2>1
    <3>2. count # 0
      BY <1>1, <1>4
    <3> QED
      BY <3>1, <3>2
  <2>2. CASE q \in Asked /\ r \in Asked
    BY <1>1, <1>4, <2>2 DEF TreeInv, ExpandedOnce
  <2>3. CASE /\ count < q /\ q <= count' /\ q \in Questions
             /\ count < r /\ r <= count' /\ r \in Questions
    <3>1. q \in Nat /\ r \in Nat
      BY <1>1, <2>3
    <3> QED
      BY <1>1, <2>3, <3>1
  <2> QED
    BY <1>2, <2>1, <2>2, <2>3
<1> QED
  BY <1>5, <1>6, <1>7 DEF TreeInv

-----------------------------------------------------------------------------
(* The steps *)

LEMMA IInvInit == Init => IInv
<1> SUFFICES ASSUME Init PROVE IInv
  OBVIOUS
<1>1. 0 \notin Questions /\ \A q \in Questions : q \in Nat /\ q > 0
  BY InterviewAssumption DEF Questions
<1>2. Asked = {}
  BY <1>1 DEF Init, Asked
<1>3. TypeOK
  <2>1. 0 \in 0..(MaxDepth + 1) /\ 0 \in 0..MaxQuestions
    BY InterviewAssumption
  <2>2. /\ parent \in [Questions -> {0} \cup Questions]
        /\ depth \in [Questions -> 0..(MaxDepth + 1)]
        /\ kind \in [Questions -> Kinds]
        /\ qstatus \in [Questions -> {"none", "PENDING", "ACTIVE", "ANSWERED"}]
    BY <2>1 DEF Init, Kinds
  <2> QED
    BY <2>1, <2>2 DEF Init, TypeOK
<1>4. Made /\ OneActive /\ TurnShape /\ RequiredFirst /\ CompletionJustified
  BY <1>1 DEF Init, Made, OneActive, TurnShape, RequiredFirst, CompletionJustified
<1>5. TreeInv
  BY <1>2 DEF TreeInv, TreeWellFormed, DepthEarned, ExpandedOnce
<1> QED
  BY <1>3, <1>4, <1>5 DEF IInv

\* A step that leaves the tree and the outcome alone.
LEMMA QuietStep ==
    ASSUME IInv, UNCHANGED <<tree, bonusUsed, reason, early>>,
           status' = status \/ (status = "CREATED" /\ status' # "CREATED"),
           TypeOK', TurnShape'
    PROVE  IInv'
<1>1. Made' /\ OneActive' /\ RequiredFirst'
  BY DEF IInv, tree, Made, OneActive, RequiredFirst, PendingRequired, Questions
<1>2. TreeInv'
  BY TreeStays DEF IInv, tree, AnsweredKept
<1>3. CompletionJustified'
  BY DEF IInv, tree, CompletionJustified, TurnShape, PendingRequired, Asked, Questions
<1> QED
  BY <1>1, <1>2, <1>3 DEF IInv

LEMMA StartInterviewStep == IInv /\ StartInterview => IInv'
<1> SUFFICES ASSUME IInv, StartInterview PROVE IInv'
  OBVIOUS
<1>1. TypeOK'
  BY DEF IInv, StartInterview, tree, answer, outcome, TypeOK
<1>2. TurnShape'
  BY DEF IInv, StartInterview, tree, answer, outcome, TurnShape
<1> QED
  BY <1>1, <1>2, QuietStep DEF StartInterview, tree, answer, outcome

LEMMA RootsStep ==
    ASSUME IInv, NEW n \in 1..Batch, NEW ks \in [1..n -> Kinds], RootsReady(n, ks)
    PROVE  IInv'
<1>1. /\ TypeOK /\ Made /\ TreeInv
      /\ turn = "roots" /\ status = "INTERVIEWING" /\ count = 0 /\ current = 0
      /\ reason = "NONE" /\ ~early
  BY DEF IInv, RootsReady, TurnShape
<1>2. /\ n \in 0..Batch /\ 0 \in 0..(MaxDepth + 1) /\ AddNodes(n, ks, 0, 0)
  BY InterviewAssumption DEF RootsReady
<1>3. /\ count' \in count..MaxQuestions
      /\ parent' \in [Questions -> {0} \cup Questions]
      /\ depth' \in [Questions -> 0..(MaxDepth + 1)]
      /\ kind' \in [Questions -> Kinds]
  BY <1>1, <1>2, AddNodesFacts
<1>4. PICK q \in Questions : Offer(q, FALSE)
  BY DEF RootsReady
<1>5. Selected /\ Picked(q)
  BY <1>1, <1>3, <1>4, OfferFacts
<1>6. TypeOK'
  BY <1>1, <1>3, <1>5, InterviewAssumption DEF Selected, RootsReady, answer, outcome, TypeOK
<1>7. TurnShape'
  BY <1>1 DEF RootsReady, answer, outcome, TurnShape
<1>8. TreeInv'
  BY <1>1, <1>2, <1>5, TreeGrows DEF RootsReady, answer, AnsweredKept, Selected
<1>9. CompletionJustified'
  BY <1>1 DEF RootsReady, CompletionJustified
<1> QED
  BY <1>5, <1>6, <1>7, <1>8, <1>9 DEF IInv, Selected

LEMMA StartAgainStep == IInv /\ StartAgain => IInv'
<1> SUFFICES ASSUME IInv, StartAgain PROVE IInv'
  OBVIOUS
<1>1. /\ TypeOK /\ Made /\ TreeInv /\ status = "INTERVIEWING" /\ turn = "free"
      /\ UNCHANGED <<status, turn, count, parent, depth, kind, answer, timeUp, outcome>>
  BY DEF IInv, StartAgain
<1>2. count' \in count..MaxQuestions
  BY <1>1, InterviewAssumption DEF TypeOK
<1>3. PICK q \in Questions : Offer(q, FALSE)
  BY DEF StartAgain
<1>4. Selected
  BY <1>1, <1>2, <1>3, OfferFacts
<1>5. TypeOK'
  BY <1>1, <1>4 DEF Selected, answer, outcome, TypeOK
<1>6. TurnShape'
  BY <1>1 DEF IInv, answer, outcome, TurnShape
<1>7. TreeInv'
  BY <1>1, <1>4, TreeStays DEF answer, AnsweredKept, Selected
<1>8. CompletionJustified'
  BY <1>1 DEF CompletionJustified
<1> QED
  BY <1>4, <1>5, <1>6, <1>7, <1>8 DEF IInv, Selected

LEMMA SubmitStep ==
    ASSUME IInv, NEW q \in Questions, NEW flag \in BOOLEAN, SubmitAnswer(q, flag)
    PROVE  IInv'
<1>1. /\ TypeOK /\ Made /\ OneActive /\ TreeInv /\ RequiredFirst
      /\ turn = "free" /\ status = "INTERVIEWING" /\ qstatus[q] = "ACTIVE"
      /\ reason = "NONE" /\ ~early
  BY DEF IInv, SubmitAnswer, TurnShape
<1>2. /\ qstatus' = [qstatus EXCEPT ![q] = "ANSWERED"]
      /\ current' = q /\ deeper' = flag /\ turn' = "assess"
      /\ UNCHANGED <<status, count, parent, depth, kind, bonusUsed, timeUp, outcome>>
  BY DEF SubmitAnswer
<1>3. q \in Asked /\ count \in Nat /\ q \in Nat /\ q # 0
  BY <1>1, InterviewAssumption DEF Made, Asked, Questions, TypeOK
<1>4. NoneActive'
  BY <1>1, <1>2 DEF NoneActive, OneActive, TypeOK, Questions
<1>5. \A r \in Asked : parent[r] # q
  BY <1>1, <1>3 DEF TreeInv, TreeWellFormed
<1>6. TypeOK'
  BY <1>1, <1>2 DEF TypeOK, outcome
<1>7. Answering'
  BY <1>1, <1>2, <1>3, <1>5 DEF Answering, Asked, Questions, TypeOK
<1>8. TurnShape'
  BY <1>1, <1>2, <1>4, <1>7 DEF TurnShape, outcome
<1>9. Made'
  BY <1>1, <1>2, <1>3 DEF Made, Asked, Questions, TypeOK
<1>10. TreeInv'
  BY <1>1, <1>2, TreeStays DEF AnsweredKept, TypeOK
<1>11. OneActive' /\ RequiredFirst'
  BY <1>4 DEF OneActive, RequiredFirst, NoneActive
<1>12. CompletionJustified'
  BY <1>1, <1>2 DEF CompletionJustified
<1> QED
  BY <1>6, <1>8, <1>9, <1>10, <1>11, <1>12 DEF IInv

LEMMA UseBonusFacts ==
    ASSUME TypeOK, TurnShape, turn = "assess", UseBonus
    PROVE  /\ bonusUsed' \subseteq Questions /\ bonusUsed \subseteq bonusUsed'
           /\ Bonus => current \in bonusUsed'
BY DEF UseBonus, TypeOK, TurnShape, Answering, Asked

LEMMA AssessAndExpandStep == IInv /\ AssessAndExpand => IInv'
<1> SUFFICES ASSUME IInv, AssessAndExpand PROVE IInv'
  OBVIOUS
<1>1. /\ TypeOK /\ TurnShape /\ TreeInv /\ turn = "assess" /\ turn' = "followups" /\ UseBonus
      /\ status = "INTERVIEWING" /\ NoneActive /\ Answering /\ reason = "NONE" /\ ~early
      /\ UNCHANGED <<status, tree, current, deeper, timeUp, outcome>>
  BY DEF IInv, AssessAndExpand, TurnShape
<1>2. PICK needs, confused \in BOOLEAN : Expands(needs, confused)
  BY DEF AssessAndExpand
<1>3. /\ bonusUsed' \subseteq Questions /\ bonusUsed \subseteq bonusUsed'
      /\ Bonus => current \in bonusUsed'
  BY <1>1, UseBonusFacts
<1>4. depth[current] \in Nat /\ MaxDepth \in Nat
  BY <1>1, InterviewAssumption DEF TypeOK, Answering, Asked
<1>5. depth[current] < MaxDepth \/ (depth[current] = MaxDepth /\ current \in bonusUsed')
  BY <1>2, <1>3, <1>4 DEF Expands
<1>6. TypeOK'
  BY <1>1, <1>3 DEF TypeOK, tree, outcome
<1>7. NoneActive' /\ Answering'
  BY <1>1 DEF NoneActive, Answering, tree, Asked, Questions
<1>8. TurnShape'
  BY <1>1, <1>5, <1>7 DEF TurnShape, tree, outcome
<1>9. TreeInv'
  BY <1>1, <1>3, TreeStays DEF tree, AnsweredKept
<1>10. Made' /\ OneActive' /\ RequiredFirst'
  BY <1>1 DEF IInv, tree, Made, OneActive, RequiredFirst, PendingRequired, Questions
<1>11. CompletionJustified'
  BY <1>1 DEF CompletionJustified
<1> QED
  BY <1>6, <1>8, <1>9, <1>10, <1>11 DEF IInv

\* What is left of the invariant once the tree is taken care of.
LEMMA EndTurnKeeps ==
    ASSUME TypeOK, Made, count' \in count..MaxQuestions, NEW late \in BOOLEAN, EndTurn(late),
           status = "INTERVIEWING", reason = "NONE", ~early
    PROVE  /\ Selected /\ TurnShape' /\ CompletionJustified'
           /\ status' \in {"INTERVIEWING", "INTERVIEW_DONE"}
           /\ turn' \in {"free", "derive"}
           /\ current' = 0 /\ deeper' = FALSE
           /\ reason' \in {"NONE", "THRESHOLD", "WATCHDOG", "TIME_LIMIT"}
           /\ early' \in BOOLEAN
<1>1. /\ Selected
      /\ current' = 0 /\ deeper' = FALSE
      /\ \/ turn' = "free" /\ UNCHANGED <<status, reason, early>>
         \/ /\ status' = "INTERVIEW_DONE"
            /\ turn' \in {"free", "derive"}
            /\ reason' \in {"THRESHOLD", "WATCHDOG", "TIME_LIMIT"}
            /\ early' \in BOOLEAN
            /\ CompletionJustified'
  BY EndTurnFacts
<1>2. CASE turn' = "free" /\ UNCHANGED <<status, reason, early>>
  <2>1. TurnShape'
    BY <1>1, <1>2 DEF TurnShape
  <2>2. CompletionJustified'
    BY <1>2 DEF CompletionJustified
  <2> QED
    BY <1>1, <1>2, <2>1, <2>2 DEF TypeOK
<1>3. CASE /\ status' = "INTERVIEW_DONE"
           /\ turn' \in {"free", "derive"}
           /\ reason' \in {"THRESHOLD", "WATCHDOG", "TIME_LIMIT"}
           /\ early' \in BOOLEAN
           /\ CompletionJustified'
  <2>1. TurnShape'
    BY <1>1, <1>3 DEF TurnShape
  <2> QED
    BY <1>1, <1>3, <2>1
<1> QED
  BY <1>1, <1>2, <1>3

LEMMA AssessAndMoveOnStep == IInv /\ AssessAndMoveOn => IInv'
<1> SUFFICES ASSUME IInv, AssessAndMoveOn PROVE IInv'
  OBVIOUS
<1>1. /\ TypeOK /\ Made /\ TurnShape /\ TreeInv /\ turn = "assess" /\ UseBonus
      /\ status = "INTERVIEWING" /\ reason = "NONE" /\ ~early
      /\ UNCHANGED <<count, parent, depth, kind, timeUp, intents, derived>>
      /\ EndTurn(timeUp) /\ timeUp \in BOOLEAN
  BY DEF IInv, AssessAndMoveOn, TurnShape, TypeOK
<1>2. count' \in count..MaxQuestions
  BY <1>1, InterviewAssumption DEF TypeOK
<1>3. bonusUsed' \subseteq Questions /\ bonusUsed \subseteq bonusUsed'
  BY <1>1, UseBonusFacts
<1>4. /\ Selected /\ TurnShape' /\ CompletionJustified'
      /\ status' \in {"INTERVIEWING", "INTERVIEW_DONE"}
      /\ turn' \in {"free", "derive"}
      /\ current' = 0 /\ deeper' = FALSE
      /\ reason' \in {"NONE", "THRESHOLD", "WATCHDOG", "TIME_LIMIT"}
      /\ early' \in BOOLEAN
  BY <1>1, <1>2, EndTurnKeeps
<1>5. TypeOK'
  BY <1>1, <1>3, <1>4 DEF TypeOK, Selected
<1>6. TreeInv'
  BY <1>1, <1>3, <1>4, TreeStays DEF AnsweredKept, Selected
<1> QED
  BY <1>4, <1>5, <1>6 DEF IInv, Selected

LEMMA FollowupsStep ==
    ASSUME IInv, NEW n \in 0..Batch, NEW ks \in [1..n -> Kinds], FollowupsReady(n, ks)
    PROVE  IInv'
<1>1. /\ TypeOK /\ Made /\ TreeInv /\ turn = "followups" /\ Answering
      /\ status = "INTERVIEWING" /\ reason = "NONE" /\ ~early
      /\ depth[current] < MaxDepth \/ (depth[current] = MaxDepth /\ current \in bonusUsed)
      /\ AddNodes(n, ks, current, depth[current] + 1)
      /\ EndTurn(FALSE)
      /\ UNCHANGED <<bonusUsed, timeUp, intents, derived>>
  BY DEF IInv, FollowupsReady, TurnShape
<1>2. current \in Questions /\ current \in {0} \cup Questions
  BY <1>1 DEF Answering, Asked
<1>3. depth[current] \in Nat /\ MaxDepth \in Nat
  BY <1>1, <1>2, InterviewAssumption DEF TypeOK
<1>4. depth[current] + 1 \in 0..(MaxDepth + 1)
  BY <1>1, <1>3
<1>5. /\ count' \in count..MaxQuestions
      /\ parent' \in [Questions -> {0} \cup Questions]
      /\ depth' \in [Questions -> 0..(MaxDepth + 1)]
      /\ kind' \in [Questions -> Kinds]
  BY <1>1, <1>2, <1>4, AddNodesFacts
<1>6. /\ Selected /\ TurnShape' /\ CompletionJustified'
      /\ status' \in {"INTERVIEWING", "INTERVIEW_DONE"}
      /\ turn' \in {"free", "derive"}
      /\ current' = 0 /\ deeper' = FALSE
      /\ reason' \in {"NONE", "THRESHOLD", "WATCHDOG", "TIME_LIMIT"}
      /\ early' \in BOOLEAN
  BY <1>1, <1>5, EndTurnKeeps
<1>7. TypeOK'
  <2>1. count' \in 0..MaxQuestions
    BY <1>1, <1>5, InterviewAssumption DEF TypeOK
  <2> QED
    BY <1>1, <1>5, <1>6, <2>1 DEF TypeOK, Selected
<1>8. TreeInv'
  <2>1. AnsweredKept
    BY <1>6 DEF AnsweredKept, Selected
  <2>2. depth[current] < MaxDepth \/ current \in bonusUsed
    BY <1>1
  <2> QED
    BY <1>1, <1>2, <1>4, <2>1, <2>2, TreeGrows DEF Answering
<1> QED
  BY <1>6, <1>7, <1>8 DEF IInv, Selected

LEMMA CompleteStep ==
    ASSUME IInv, turn = "free", UNCHANGED <<tree, answer, timeUp, intents, derived>>,
           \/ status = "INTERVIEWING" /\ Complete("USER_EARLY", TRUE)
           \/ status = "CREATED" /\ Complete("NONE", FALSE)
    PROVE  IInv'
<1>1. /\ TypeOK /\ TurnShape /\ TreeInv /\ current = 0
      /\ status' = "INTERVIEW_DONE" /\ turn' \in {"free", "derive"}
      /\ \/ reason' = "USER_EARLY" /\ early' = TRUE
         \/ reason' = "NONE" /\ early' = FALSE /\ count = 0
  BY DEF IInv, TurnShape, Complete
<1>2. TypeOK'
  BY <1>1 DEF TypeOK, tree, answer
<1>3. TurnShape'
  BY <1>1 DEF TurnShape, tree, answer
<1>4. Made' /\ OneActive' /\ RequiredFirst'
  BY DEF IInv, tree, Made, OneActive, RequiredFirst, PendingRequired, Questions
<1>5. TreeInv'
  BY <1>1, TreeStays DEF tree, answer, AnsweredKept
<1>6. CompletionJustified'
  BY <1>1 DEF CompletionJustified, tree
<1> QED
  BY <1>2, <1>3, <1>4, <1>5, <1>6 DEF IInv

LEMMA IInvStep == IInv /\ [Next]_vars => IInv'
<1> SUFFICES ASSUME IInv, [Next]_vars PROVE IInv'
  OBVIOUS
<1> USE DEF tree, answer, outcome
<1>1. CASE UNCHANGED vars
  <2>1. TypeOK' /\ TurnShape'
    BY <1>1 DEF IInv, vars, TypeOK, TurnShape, NoneActive, Answering, Asked, Questions
  <2> QED
    BY <1>1, <2>1, QuietStep DEF vars
<1>2. ASSUME NEW n \in 1..Batch, NEW ks \in [1..n -> Kinds], RootsReady(n, ks) PROVE IInv'
  BY <1>2, RootsStep
<1>3. CASE AssessAndExpand
  BY <1>3, AssessAndExpandStep
<1>4. CASE AssessAndMoveOn
  BY <1>4, AssessAndMoveOnStep
<1>5. ASSUME NEW n \in 0..Batch, NEW ks \in [1..n -> Kinds], FollowupsReady(n, ks) PROVE IInv'
  BY <1>5, FollowupsStep
<1>6. CASE DeriveIntents
  <2>1. TypeOK' /\ TurnShape'
    BY <1>6 DEF IInv, DeriveIntents, TypeOK, TurnShape
  <2> QED
    BY <1>6, <2>1, QuietStep DEF DeriveIntents
<1>7. CASE HandlerFails
  <2>1. TypeOK' /\ TurnShape'
    BY <1>7 DEF IInv, HandlerFails, TypeOK, TurnShape
  <2> QED
    BY <1>7, <2>1, QuietStep DEF HandlerFails
<1>8. ASSUME NEW q \in Questions, NEW flag \in BOOLEAN, SubmitAnswer(q, flag) PROVE IInv'
  BY <1>8, SubmitStep
<1>9. CASE StartInterview
  BY <1>9, StartInterviewStep
<1>10. CASE StartAgain
  BY <1>10, StartAgainStep
<1>11. ASSUME NEW confirm \in BOOLEAN, CompleteEarly(confirm) PROVE IInv'
  BY <1>11, CompleteStep DEF CompleteEarly
<1>12. CASE CompleteUnstarted
  BY <1>12, CompleteStep DEF CompleteUnstarted
<1>13. CASE TimePasses \/ PatchSettings \/ PlanChangesIntents
  <2>1. /\ UNCHANGED <<status, turn, tree, answer, derived, reason, early>>
        /\ timeUp' \in BOOLEAN /\ intents' \in BOOLEAN
    BY <1>13 DEF IInv, TypeOK, TimePasses, PatchSettings, PlanChangesIntents
  <2>2. TypeOK'
    BY <2>1 DEF IInv, TypeOK
  <2>3. TurnShape'
    BY <2>1 DEF IInv, TurnShape, NoneActive, Answering, Asked, Questions
  <2> QED
    BY <2>1, <2>2, <2>3, QuietStep
<1>14. CASE AnalysisStarts
  <2>1. TypeOK' /\ TurnShape'
    BY <1>14 DEF IInv, AnalysisStarts, TypeOK, TurnShape
  <2> QED
    BY <1>14, <2>1, QuietStep DEF AnalysisStarts
<1> QED
  BY <1>1, <1>2, <1>3, <1>4, <1>5, <1>6, <1>7, <1>8, <1>9, <1>10, <1>11, <1>12, <1>13, <1>14
     DEF Next, AgentReplies, UserAnswers

-----------------------------------------------------------------------------
(* The dialogue *)

\* To put a question to a user who has none before them is a step of the dialogue.
LEMMA PickAsks ==
    ASSUME status = "INTERVIEWING", status' = status, NoneActive, Selected,
           NEW q \in Questions, Picked(q)
    PROVE  Dialogue!Ask(q)
BY DEF NoneActive, Selected, Picked, Dialogue!Ask

LEMMA EndTurnAsksOrEnds ==
    ASSUME TypeOK, Made, count' \in count..MaxQuestions, NEW late \in BOOLEAN, EndTurn(late),
           status = "INTERVIEWING", NoneActive
    PROVE  Dialogue!Next
<1>1. CASE status' = status /\ \E q \in Questions : Picked(q)
  <2>1. PICK q \in Questions : Picked(q)
    BY <1>1
  <2>2. Dialogue!Ask(q)
    BY <1>1, <2>1, EndTurnFacts, PickAsks
  <2> QED
    BY <2>2 DEF Dialogue!Next
<1>2. CASE status' = "INTERVIEW_DONE" /\ NoneActive'
  <2>1. Selected
    BY EndTurnFacts
  <2>2. Dialogue!End
    BY <1>2, <2>1 DEF Selected, NoneActive, Questions, Dialogue!End
  <2> QED
    BY <2>2 DEF Dialogue!Next
<1> QED
  BY <1>1, <1>2, EndTurnFacts

LEMMA DialogueInit == Init => Dialogue!Init
BY DEF Init, Dialogue!Init

LEMMA DialogueStep == IInv /\ [Next]_vars => [Dialogue!Next]_(Dialogue!vars)
<1> SUFFICES ASSUME IInv, [Next]_vars
             PROVE  Dialogue!Next \/ UNCHANGED Dialogue!vars
  OBVIOUS
<1> USE DEF tree, answer, outcome
<1>0. count \in Nat /\ count \in count..MaxQuestions /\ \A q \in Questions : q \in Nat /\ q > 0
  BY InterviewAssumption DEF IInv, TypeOK, Questions
<1>1. CASE UNCHANGED <<status, qstatus>>
  BY <1>1 DEF Dialogue!vars
<1>2. ASSUME NEW n \in 1..Batch, NEW ks \in [1..n -> Kinds], RootsReady(n, ks)
      PROVE  Dialogue!Next
  <2>1. /\ TypeOK /\ Made /\ turn = "roots" /\ status = "INTERVIEWING" /\ status' = status
        /\ count = 0
    BY <1>2 DEF IInv, TurnShape, RootsReady
  <2>2. NoneActive
    BY <1>0, <2>1 DEF Made, NoneActive
  <2>3. n \in 0..Batch /\ 0 \in 0..(MaxDepth + 1) /\ AddNodes(n, ks, 0, 0)
    BY <1>2, InterviewAssumption DEF RootsReady
  <2>4. count' \in count..MaxQuestions
    BY <2>1, <2>3, AddNodesFacts
  <2>5. PICK q \in Questions : Offer(q, FALSE)
    BY <1>2 DEF RootsReady
  <2>6. Dialogue!Ask(q)
    BY <2>1, <2>2, <2>4, <2>5, OfferFacts, PickAsks
  <2> QED
    BY <2>6 DEF Dialogue!Next
<1>3. CASE StartAgain
  <2>1. /\ TypeOK /\ Made /\ NoneActive /\ status = "INTERVIEWING" /\ status' = status
        /\ count' \in count..MaxQuestions
    BY <1>0, <1>3 DEF IInv, StartAgain, NoneActive
  <2>2. PICK q \in Questions : Offer(q, FALSE)
    BY <1>3 DEF StartAgain
  <2>3. Dialogue!Ask(q)
    BY <2>1, <2>2, OfferFacts, PickAsks
  <2> QED
    BY <2>3 DEF Dialogue!Next
<1>4. CASE AssessAndMoveOn
  <2>1. /\ TypeOK /\ Made /\ NoneActive /\ status = "INTERVIEWING" /\ count' \in count..MaxQuestions
        /\ timeUp \in BOOLEAN /\ EndTurn(timeUp)
    BY <1>0, <1>4 DEF IInv, TurnShape, TypeOK, AssessAndMoveOn
  <2> QED
    BY <2>1, EndTurnAsksOrEnds
<1>5. ASSUME NEW n \in 0..Batch, NEW ks \in [1..n -> Kinds], FollowupsReady(n, ks)
      PROVE  Dialogue!Next
  <2>1. /\ TypeOK /\ Made /\ NoneActive /\ Answering /\ status = "INTERVIEWING"
        /\ depth[current] < MaxDepth \/ depth[current] = MaxDepth
        /\ AddNodes(n, ks, current, depth[current] + 1)
        /\ EndTurn(FALSE)
    BY <1>5 DEF IInv, TurnShape, FollowupsReady
  <2>2. current \in {0} \cup Questions /\ depth[current] + 1 \in 0..(MaxDepth + 1)
    BY <2>1, InterviewAssumption DEF TypeOK, Answering, Asked
  <2>3. count' \in count..MaxQuestions
    BY <2>1, <2>2, AddNodesFacts
  <2> QED
    BY <2>1, <2>3, EndTurnAsksOrEnds
<1>6. ASSUME NEW q \in Questions, NEW flag \in BOOLEAN, SubmitAnswer(q, flag)
      PROVE  Dialogue!Next
  <2>1. /\ OneActive /\ qstatus \in [Questions -> {"none", "PENDING", "ACTIVE", "ANSWERED"}]
        /\ status = "INTERVIEWING" /\ status' = status
        /\ qstatus[q] = "ACTIVE" /\ qstatus' = [qstatus EXCEPT ![q] = "ANSWERED"]
    BY <1>6 DEF IInv, TypeOK, SubmitAnswer
  <2>2. Dialogue!Reply(q)
    BY <2>1 DEF OneActive, Dialogue!Reply
  <2> QED
    BY <2>2 DEF Dialogue!Next
<1>7. CASE StartInterview
  BY <1>7 DEF StartInterview, Dialogue!Next, Dialogue!Begin
<1>8. ASSUME status # "INTERVIEW_DONE", status' = "INTERVIEW_DONE", qstatus' = qstatus
      PROVE  Dialogue!Next
  BY <1>8 DEF Dialogue!Next, Dialogue!End
<1>9. ASSUME NEW confirm \in BOOLEAN, CompleteEarly(confirm) PROVE Dialogue!Next
  BY <1>8, <1>9 DEF CompleteEarly, Complete
<1>10. CASE CompleteUnstarted \/ AnalysisStarts
  BY <1>8, <1>10 DEF CompleteUnstarted, AnalysisStarts, Complete
<1>11. CASE \/ UNCHANGED vars
            \/ AssessAndExpand \/ DeriveIntents \/ HandlerFails
            \/ TimePasses \/ PatchSettings \/ PlanChangesIntents
  BY <1>1, <1>11 DEF vars, AssessAndExpand, DeriveIntents, HandlerFails, TimePasses,
                     PatchSettings, PlanChangesIntents
<1> QED
  BY <1>2, <1>3, <1>4, <1>5, <1>6, <1>7, <1>9, <1>10, <1>11 DEF Next, AgentReplies, UserAnswers

-----------------------------------------------------------------------------
(* While no reply has a wrong shape *)

\* Some question is being asked after the step, which is what an offer leaves behind.
LEMMA PickedIsAsked ==
    ASSUME NEW q \in Questions, Picked(q)
    PROVE  QuestionOffered'
BY DEF Picked, QuestionOffered, Questions

LEMMA EndTurnOffersOrDerives ==
    ASSUME TypeOK, Made, count' \in count..MaxQuestions, NEW late \in BOOLEAN, EndTurn(late),
           status = "INTERVIEWING", UNCHANGED derived
    PROVE  QuestionOffered' /\ IntentsDerived'
<1>1. QuestionOffered'
  <2>1. (\E q \in Questions : Picked(q)) \/ status' = "INTERVIEW_DONE"
    BY EndTurnFacts
  <2> QED
    BY <2>1, PickedIsAsked DEF QuestionOffered
<1>2. IntentsDerived'
  BY DEF EndTurn, Complete, IntentsDerived
<1> QED
  BY <1>1, <1>2

LEMMA GoesOnStep ==
    ~Malformed /\ IInv /\ QuestionOffered /\ IntentsDerived /\ [Next]_vars
        => QuestionOffered' /\ IntentsDerived'
<1> SUFFICES ASSUME ~Malformed, IInv, QuestionOffered, IntentsDerived, [Next]_vars
             PROVE  QuestionOffered' /\ IntentsDerived'
  OBVIOUS
<1> USE DEF tree, answer, outcome
<1>1. /\ TypeOK /\ Made /\ TurnShape /\ count \in Nat /\ MaxQuestions \in Nat
      /\ count \in count..MaxQuestions
  BY InterviewAssumption DEF IInv, TypeOK
<1>2. CASE UNCHANGED vars
  BY <1>2 DEF vars, QuestionOffered, IntentsDerived
<1>3. ASSUME NEW n \in 1..Batch, NEW ks \in [1..n -> Kinds], RootsReady(n, ks)
      PROVE  QuestionOffered' /\ IntentsDerived'
  <2>1. n \in 0..Batch /\ 0 \in 0..(MaxDepth + 1) /\ 0 \in {0} \cup Questions
    BY InterviewAssumption
  <2>2. count' \in count..MaxQuestions
    BY <1>1, <1>3, <2>1, AddNodesFacts DEF RootsReady
  <2>3. PICK q \in Questions : Offer(q, FALSE)
    BY <1>3 DEF RootsReady
  <2>4. Picked(q)
    BY <1>1, <2>2, <2>3, OfferFacts
  <2>5. status' = "INTERVIEWING"
    BY <1>1, <1>3 DEF RootsReady, TurnShape
  <2> QED
    BY <2>4, <2>5, PickedIsAsked DEF IntentsDerived
<1>4. CASE AssessAndExpand
  BY <1>4 DEF AssessAndExpand, QuestionOffered, IntentsDerived
<1>5. CASE AssessAndMoveOn
  <2>1. /\ status = "INTERVIEWING" /\ EndTurn(timeUp) /\ timeUp \in BOOLEAN
        /\ count' \in count..MaxQuestions /\ UNCHANGED derived
    BY <1>1, <1>5 DEF AssessAndMoveOn, TurnShape, TypeOK
  <2> QED
    BY <1>1, <2>1, EndTurnOffersOrDerives
<1>6. ASSUME NEW n \in 0..Batch, NEW ks \in [1..n -> Kinds], FollowupsReady(n, ks)
      PROVE  QuestionOffered' /\ IntentsDerived'
  <2>1. /\ status = "INTERVIEWING" /\ Answering /\ EndTurn(FALSE) /\ UNCHANGED derived
        /\ AddNodes(n, ks, current, depth[current] + 1)
        /\ depth[current] < MaxDepth \/ depth[current] = MaxDepth
    BY <1>1, <1>6 DEF FollowupsReady, TurnShape
  <2>2. current \in Questions
    BY <2>1 DEF Answering, Asked
  <2>3. depth[current] \in Nat /\ MaxDepth \in Nat
    BY <1>1, <2>2, InterviewAssumption DEF TypeOK
  <2>4. depth[current] + 1 \in 0..(MaxDepth + 1)
    BY <2>1, <2>3
  <2>5. count' \in count..MaxQuestions
    BY <1>1, <2>1, <2>2, <2>4, AddNodesFacts
  <2> QED
    BY <1>1, <2>1, <2>5, EndTurnOffersOrDerives
<1>7. CASE DeriveIntents
  BY <1>1, <1>7 DEF DeriveIntents, TurnShape, QuestionOffered, IntentsDerived
<1>8. CASE HandlerFails
  BY <1>8 DEF HandlerFails
<1>9. ASSUME NEW q \in Questions, NEW flag \in BOOLEAN, SubmitAnswer(q, flag)
      PROVE  QuestionOffered' /\ IntentsDerived'
  BY <1>9 DEF SubmitAnswer, QuestionOffered, IntentsDerived
<1>10. CASE StartInterview
  BY <1>10 DEF StartInterview, QuestionOffered, IntentsDerived
<1>11. CASE StartAgain
  BY <1>11 DEF StartAgain, QuestionOffered
<1>12. ASSUME NEW confirm \in BOOLEAN, CompleteEarly(confirm)
       PROVE  QuestionOffered' /\ IntentsDerived'
  BY <1>12 DEF CompleteEarly, Complete, QuestionOffered, IntentsDerived
<1>13. CASE CompleteUnstarted
  BY <1>13 DEF CompleteUnstarted, Complete, QuestionOffered, IntentsDerived
<1>14. CASE TimePasses \/ PatchSettings \/ PlanChangesIntents
  BY <1>14 DEF TimePasses, PatchSettings, PlanChangesIntents, QuestionOffered, IntentsDerived
<1>15. CASE AnalysisStarts
  BY <1>1, <1>15 DEF AnalysisStarts, TurnShape, QuestionOffered, IntentsDerived
<1> QED
  BY <1>2, <1>3, <1>4, <1>5, <1>6, <1>7, <1>8, <1>9, <1>10, <1>11, <1>12, <1>13, <1>14, <1>15
     DEF Next, AgentReplies, UserAnswers

-----------------------------------------------------------------------------
(***************************************************************************)
(* Every interview is finite: the part of InterviewEnds that needs neither *)
(* fairness nor a user who keeps answering.                                *)
(***************************************************************************)

Answered == {q \in Questions : qstatus[q] = "ANSWERED"}

\* How far a turn has come, and how far the interview: each answer is worth three steps, its
\* assessment, its follow-ups and its next question.
TurnProgress ==
    CASE turn \in {"roots", "assess"} -> 1
      [] turn = "followups" -> 2
      [] turn \in {"free", "derive"} -> 3
InterviewProgress ==
    CASE status = "CREATED" -> 0
      [] status = "INTERVIEWING" -> 3 * Cardinality(Answered) + TurnProgress
      [] status = "INTERVIEW_DONE" -> 3 * MaxQuestions + (IF turn = "free" THEN 5 ELSE 4)

\* An interview takes 3 * MaxQuestions + 5 steps at most.
InterviewBounded == InterviewProgress \in 0..(3 * MaxQuestions + 5)

\* Each answer and each reply of an agent, a malformed one too, brings the interview nearer
\* its end, however the tree grows; nothing else, no time limit that is moved, no repeated
\* start, no plan that takes the intents away, sets it back.
InterviewAdvances ==
    [][IF AgentReplies \/ UserAnswers
       THEN InterviewProgress' > InterviewProgress
       ELSE InterviewProgress' >= InterviewProgress]_vars

LEMMA AnsweredFinite ==
    /\ IsFiniteSet(Answered) /\ IsFiniteSet(Answered')
    /\ Cardinality(Answered) \in 0..MaxQuestions
    /\ Cardinality(Answered') \in 0..MaxQuestions
<1>1. /\ IsFiniteSet(Questions) /\ Cardinality(Questions) = MaxQuestions
      /\ MaxQuestions \in Nat
  BY InterviewAssumption, FS_Interval DEF Questions
<1>2. Answered \subseteq Questions /\ Answered' \subseteq Questions
  BY DEF Answered, Questions
<1>3. /\ IsFiniteSet(Answered) /\ Cardinality(Answered) <= MaxQuestions
      /\ IsFiniteSet(Answered') /\ Cardinality(Answered') <= MaxQuestions
  BY <1>1, <1>2, FS_Subset
<1> QED
  BY <1>1, <1>3, FS_CardinalityType

LEMMA InterviewProgressBounded == IInv => InterviewBounded
<1> SUFFICES ASSUME IInv
             PROVE  InterviewProgress \in 0..(3 * MaxQuestions + 5)
  BY DEF InterviewBounded
<1>1. /\ status \in {"CREATED", "INTERVIEWING", "INTERVIEW_DONE"}
      /\ turn \in {"free", "roots", "assess", "followups", "derive"}
      /\ MaxQuestions \in Nat
  BY InterviewAssumption DEF IInv, TypeOK
<1>2. TurnProgress \in 1..3
  BY <1>1 DEF TurnProgress
<1> HIDE DEF Answered
<1> QED
  BY <1>1, <1>2, AnsweredFinite DEF InterviewProgress

\* A step that keeps the answers and ends the interview, or takes its turn further.
LEMMA KeptAnswersAdvance ==
    ASSUME IInv, status = "INTERVIEWING", turn \in {"roots", "assess", "followups"},
           Answered' = Answered,
           \/ status' = "INTERVIEW_DONE"
           \/ /\ status' = "INTERVIEWING"
              /\ \/ turn' = "free"
                 \/ turn = "assess" /\ turn' = "followups"
    PROVE  InterviewProgress' > InterviewProgress
<1>1. Cardinality(Answered) \in 0..MaxQuestions /\ MaxQuestions \in Nat
  BY AnsweredFinite, InterviewAssumption
<1>2. Cardinality(Answered') = Cardinality(Answered)
  OBVIOUS
<1> HIDE DEF Answered
<1> QED
  BY <1>1, <1>2 DEF InterviewProgress, TurnProgress

\* The end of a turn answers nothing, and either frees the user or ends the interview.
LEMMA EndTurnAdvances ==
    ASSUME IInv, count' \in count..MaxQuestions, NEW late \in BOOLEAN, EndTurn(late),
           status = "INTERVIEWING", turn \in {"assess", "followups"}
    PROVE  InterviewProgress' > InterviewProgress
<1>1. TypeOK /\ Made
  BY DEF IInv
<1>2. /\ Selected
      /\ \/ turn' = "free" /\ status' = status
         \/ status' = "INTERVIEW_DONE"
  BY <1>1, EndTurnFacts
<1>3. Answered' = Answered
  BY <1>2 DEF Selected, Answered, Questions
<1> QED
  BY <1>2, <1>3, KeptAnswersAdvance

\* An answer is one more.
LEMMA SubmitAdvances ==
    ASSUME IInv, NEW q \in Questions, NEW flag \in BOOLEAN, SubmitAnswer(q, flag)
    PROVE  InterviewProgress' > InterviewProgress
<1>1. /\ status = "INTERVIEWING" /\ status' = "INTERVIEWING"
      /\ turn = "free" /\ turn' = "assess"
      /\ qstatus[q] = "ACTIVE" /\ qstatus' = [qstatus EXCEPT ![q] = "ANSWERED"]
      /\ qstatus \in [Questions -> {"none", "PENDING", "ACTIVE", "ANSWERED"}]
  BY DEF IInv, TypeOK, SubmitAnswer
<1>2. Answered' = Answered \cup {q} /\ q \notin Answered
  BY <1>1 DEF Answered, Questions
<1>3. Cardinality(Answered') = Cardinality(Answered) + 1
  <2> HIDE DEF Answered
  <2> QED
    BY <1>2, AnsweredFinite, FS_AddElement
<1>4. Cardinality(Answered) \in Nat
  BY AnsweredFinite
<1> HIDE DEF Answered
<1> QED
  BY <1>1, <1>3, <1>4 DEF InterviewProgress, TurnProgress

LEMMA AgentRepliesAdvance == IInv /\ AgentReplies => InterviewProgress' > InterviewProgress
<1> SUFFICES ASSUME IInv, AgentReplies
             PROVE  InterviewProgress' > InterviewProgress
  OBVIOUS
<1> USE DEF tree, answer, outcome
<1>0. /\ TypeOK /\ Made /\ TurnShape /\ count \in Nat /\ MaxQuestions \in Nat
      /\ count \in count..MaxQuestions
  BY InterviewAssumption DEF IInv, TypeOK
<1>1. ASSUME NEW n \in 1..Batch, NEW ks \in [1..n -> Kinds], RootsReady(n, ks)
      PROVE  InterviewProgress' > InterviewProgress
  <2>1. n \in 0..Batch /\ 0 \in 0..(MaxDepth + 1) /\ 0 \in {0} \cup Questions
    BY InterviewAssumption
  <2>2. count' \in count..MaxQuestions
    BY <1>0, <1>1, <2>1, AddNodesFacts DEF RootsReady
  <2>3. PICK q \in Questions : Offer(q, FALSE)
    BY <1>1 DEF RootsReady
  <2>4. Selected
    BY <1>0, <2>2, <2>3, OfferFacts
  <2>5. Answered' = Answered
    BY <2>4 DEF Selected, Answered, Questions
  <2>6. status = "INTERVIEWING" /\ status' = "INTERVIEWING" /\ turn = "roots" /\ turn' = "free"
    BY <1>0, <1>1 DEF RootsReady, TurnShape
  <2> QED
    BY <2>5, <2>6, KeptAnswersAdvance
<1>2. CASE AssessAndExpand
  <2>1. /\ status = "INTERVIEWING" /\ status' = "INTERVIEWING"
        /\ turn = "assess" /\ turn' = "followups" /\ qstatus' = qstatus
    BY <1>0, <1>2 DEF AssessAndExpand, TurnShape
  <2>2. Answered' = Answered
    BY <2>1 DEF Answered, Questions
  <2> QED
    BY <2>1, <2>2, KeptAnswersAdvance
<1>3. CASE AssessAndMoveOn
  <2>1. /\ status = "INTERVIEWING" /\ turn = "assess" /\ EndTurn(timeUp) /\ timeUp \in BOOLEAN
        /\ count' \in count..MaxQuestions
    BY <1>0, <1>3 DEF AssessAndMoveOn, TurnShape, TypeOK
  <2> QED
    BY <2>1, EndTurnAdvances
<1>4. ASSUME NEW n \in 0..Batch, NEW ks \in [1..n -> Kinds], FollowupsReady(n, ks)
      PROVE  InterviewProgress' > InterviewProgress
  <2>1. /\ status = "INTERVIEWING" /\ turn = "followups" /\ Answering /\ EndTurn(FALSE)
        /\ AddNodes(n, ks, current, depth[current] + 1)
        /\ depth[current] < MaxDepth \/ depth[current] = MaxDepth
    BY <1>0, <1>4 DEF FollowupsReady, TurnShape
  <2>2. current \in Questions
    BY <2>1 DEF Answering, Asked
  <2>3. depth[current] \in Nat /\ MaxDepth \in Nat
    BY <1>0, <2>2, InterviewAssumption DEF TypeOK
  <2>4. depth[current] + 1 \in 0..(MaxDepth + 1)
    BY <2>1, <2>3
  <2>5. count' \in count..MaxQuestions
    BY <1>0, <2>1, <2>2, <2>4, AddNodesFacts
  <2> QED
    BY <2>1, <2>5, EndTurnAdvances
<1>5. CASE DeriveIntents
  <2>1. status = "INTERVIEW_DONE" /\ status' = status /\ turn = "derive" /\ turn' = "free"
    BY <1>0, <1>5 DEF DeriveIntents, TurnShape
  <2> QED
    BY <1>0, <2>1 DEF InterviewProgress
<1>6. CASE HandlerFails
  <2>1. status' = status /\ turn # "free" /\ turn' = "free" /\ qstatus' = qstatus
    BY <1>6 DEF HandlerFails
  <2>2. CASE turn = "derive"
    <3>1. status = "INTERVIEW_DONE"
      BY <1>0, <2>2 DEF TurnShape
    <3> QED
      BY <1>0, <2>1, <3>1 DEF InterviewProgress
  <2>3. CASE turn \in {"roots", "assess", "followups"}
    <3>1. status = "INTERVIEWING"
      BY <1>0, <2>3 DEF TurnShape
    <3>2. Answered' = Answered
      BY <2>1 DEF Answered, Questions
    <3> QED
      BY <2>1, <2>3, <3>1, <3>2, KeptAnswersAdvance
  <2> QED
    BY <1>0, <2>1, <2>2, <2>3 DEF TypeOK
<1> QED
  BY <1>1, <1>2, <1>3, <1>4, <1>5, <1>6 DEF AgentReplies

LEMMA ProgressStaysBounded == IInv /\ [Next]_vars => InterviewBounded'
<1>1. IInv' => InterviewBounded'
  BY InterviewProgressBounded, PTL
<1> QED
  BY <1>1, IInvStep

\* Nothing else sets the interview back.
LEMMA NeverSetBack == IInv /\ [Next]_vars => InterviewProgress' >= InterviewProgress
<1> SUFFICES ASSUME IInv, [Next]_vars
             PROVE  InterviewProgress' >= InterviewProgress
  OBVIOUS
<1> USE DEF tree, answer, outcome
<1>0. /\ TypeOK /\ Made /\ TurnShape /\ count \in Nat /\ MaxQuestions \in Nat
      /\ count \in count..MaxQuestions
      /\ InterviewProgress \in Nat /\ InterviewProgress' \in Nat
  BY InterviewAssumption, InterviewProgressBounded, ProgressStaysBounded
     DEF IInv, TypeOK, InterviewBounded
<1>1. ASSUME InterviewProgress' > InterviewProgress
      PROVE  InterviewProgress' >= InterviewProgress
  BY <1>0, <1>1
<1>2. ASSUME status' = status, turn' = turn, Answered' = Answered
      PROVE  InterviewProgress' >= InterviewProgress
  <2>1. InterviewProgress' = InterviewProgress
    BY <1>2 DEF InterviewProgress, TurnProgress
  <2> QED
    BY <1>0, <2>1
<1>3. ASSUME status' = status, turn' = turn, qstatus' = qstatus
      PROVE  InterviewProgress' >= InterviewProgress
  BY <1>2, <1>3 DEF Answered, Questions
<1>4. CASE AgentReplies
  BY <1>1, <1>4, AgentRepliesAdvance
<1>5. CASE UserAnswers
  BY <1>1, <1>5, SubmitAdvances DEF UserAnswers
<1>6. CASE StartInterview
  <2>1. status = "CREATED" /\ status' = "INTERVIEWING" /\ turn' = "roots"
    BY <1>6 DEF StartInterview
  <2>2. Cardinality(Answered') \in Nat
    BY AnsweredFinite
  <2> HIDE DEF Answered
  <2> QED
    BY <2>1, <2>2 DEF InterviewProgress, TurnProgress
<1>7. CASE StartAgain
  <2>1. NoneActive /\ status' = status /\ turn' = turn /\ count' = count
    BY <1>7 DEF StartAgain, NoneActive
  <2>2. PICK q \in Questions : Offer(q, FALSE)
    BY <1>7 DEF StartAgain
  <2>3. Selected
    BY <1>0, <2>1, <2>2, OfferFacts
  <2>4. Answered' = Answered
    BY <2>3 DEF Selected, Answered, Questions
  <2> QED
    BY <1>2, <2>1, <2>4
<1>8. ASSUME status # "INTERVIEW_DONE", status' = "INTERVIEW_DONE"
      PROVE  InterviewProgress' >= InterviewProgress
  <2>1. /\ status \in {"CREATED", "INTERVIEWING"}
        /\ turn \in {"free", "roots", "assess", "followups", "derive"}
    BY <1>0, <1>8 DEF TypeOK
  <2>2. Cardinality(Answered) \in 0..MaxQuestions
    BY AnsweredFinite
  <2> HIDE DEF Answered
  <2> QED
    BY <1>0, <1>8, <2>1, <2>2 DEF InterviewProgress, TurnProgress
<1>9. CASE (\E confirm \in BOOLEAN : CompleteEarly(confirm)) \/ CompleteUnstarted \/ AnalysisStarts
  BY <1>8, <1>9 DEF CompleteEarly, CompleteUnstarted, AnalysisStarts, Complete
<1>10. CASE UNCHANGED vars \/ TimePasses \/ PatchSettings \/ PlanChangesIntents
  BY <1>3, <1>10 DEF vars, TimePasses, PatchSettings, PlanChangesIntents
<1> QED
  BY <1>4, <1>5, <1>6, <1>7, <1>9, <1>10 DEF Next

-----------------------------------------------------------------------------
(* Theorems *)

\* Every reachable state satisfies the inductive invariant.
THEOREM InterviewInvariance == Spec => []IInv
BY IInvInit, IInvStep, PTL DEF Spec

\* The tree stays within its caps and every field keeps its type, whatever the agents give.
THEOREM InterviewTypeCorrect == Spec => []TypeOK
<1>1. IInv => TypeOK
  BY DEF IInv
<1> QED
  BY <1>1, InterviewInvariance, PTL

\* The questions stay a tree in which only answered questions have follow-ups.
THEOREM TreeStaysWellFormed == Spec => []TreeWellFormed
<1>1. IInv => TreeWellFormed
  BY DEF IInv, TreeInv
<1> QED
  BY <1>1, InterviewInvariance, PTL

\* No question is below the limit of depth unless its user asked for it.
THEOREM NoUnearnedDepth == Spec => []DepthEarned
<1>1. IInv => DepthEarned
  BY DEF IInv, TreeInv
<1> QED
  BY <1>1, InterviewInvariance, PTL

\* No question is expanded twice, in any order of answers, failures and repeated starts.
THEOREM NoSecondExpansion == Spec => []ExpandedOnce
<1>1. IInv => ExpandedOnce
  BY DEF IInv, TreeInv
<1> QED
  BY <1>1, InterviewInvariance, PTL

\* Required questions are asked first, wherever in the tree they appear.
THEOREM RequiredComeFirst == Spec => []RequiredFirst
<1>1. IInv => RequiredFirst
  BY DEF IInv
<1> QED
  BY <1>1, InterviewInvariance, PTL

\* The reason recorded for the end fits what the tree had left.
THEOREM ReasonFits == Spec => []CompletionJustified
<1>1. IInv => CompletionJustified
  BY DEF IInv
<1> QED
  BY <1>1, InterviewInvariance, PTL

\* InterviewEngine implements InterviewDialogue: one question at a time, no answered one
\* again, no answer lost, and a final end.
THEOREM DialogueIsImplemented == Spec => DialogueImplemented
<1>1. IInv /\ [Next]_vars => [Dialogue!Next]_(Dialogue!vars)
  BY DialogueStep
<1> QED
  BY <1>1, DialogueInit, InterviewInvariance, PTL DEF Spec, DialogueImplemented, Dialogue!Spec

\* As long as no agent replies in a wrong shape, an interview that waits has a question for
\* its user, and one that is completed has had its intents derived, in any order of answers,
\* limits and early ends.
THEOREM InterviewGoesOn ==
    ASSUME ~Malformed
    PROVE  Spec => [](QuestionOffered /\ IntentsDerived)
<1>1. Init => QuestionOffered /\ IntentsDerived
  BY DEF Init, QuestionOffered, IntentsDerived
<1>2. IInv /\ QuestionOffered /\ IntentsDerived /\ [Next]_vars => QuestionOffered' /\ IntentsDerived'
  BY GoesOnStep
<1> QED
  BY <1>1, <1>2, InterviewInvariance, PTL DEF Spec

\* Every answer and every agent's reply brings an interview nearer its end, nothing sets it
\* back, and 3 * MaxQuestions + 5 such steps are all there can be: of InterviewEnds only the
\* taking of the next step is left to fairness.
THEOREM EveryInterviewIsFinite == Spec => []InterviewBounded /\ InterviewAdvances
<1>1. IInv => InterviewBounded
  BY InterviewProgressBounded
<1>2. IInv /\ [Next]_vars =>
         IF AgentReplies \/ UserAnswers
         THEN InterviewProgress' > InterviewProgress
         ELSE InterviewProgress' >= InterviewProgress
  BY AgentRepliesAdvance, SubmitAdvances, NeverSetBack DEF UserAnswers
<1> QED
  BY <1>1, <1>2, InterviewInvariance, PTL DEF Spec, InterviewAdvances

=============================================================================
