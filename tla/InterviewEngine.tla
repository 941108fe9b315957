-------------------------- MODULE InterviewEngine --------------------------
(***************************************************************************)
(* The interview of one session: the question tree, the turn that stores   *)
(* an answer, has it assessed, expands the tree and selects the next       *)
(* question, the limits of the watchdog, and the ways an interview ends.   *)
(*                                                                         *)
(* Every handler holds state.lock from start to end, so at most one turn   *)
(* is under way; a step of this module is the code between two awaits on   *)
(* agents.  An agent that is unavailable is replaced by the fallback       *)
(* questions, scores and intents, which are among the agents' answers      *)
(* here.  A reply of a wrong shape raises an error that the engine does    *)
(* not handle: the handler ends where it stands.                           *)
(*                                                                         *)
(* A question is its number in question_order.  Left out: prompts, the     *)
(* score's formula (SessionSettings.confuse_threshold splits scores in     *)
(* two), the phase of intents, and requests that are refused or repeat an  *)
(* answer, which change nothing.                                           *)
(*                                                                         *)
(* A definition commented "Mutant" is a bug the properties must notice: it *)
(* stands for the definition after it, and nothing here uses it.           *)
(***************************************************************************)
EXTENDS Naturals

CONSTANTS
    MaxQuestions,   \* MAX_QUESTIONS: 15 in the code
    MaxDepth,       \* MAX_DEPTH: 2 in the code
    Batch,          \* MAX_CANDIDATES_PER_TURN, the roots' number too: 3 in the code
    Malformed       \* whether an agent may reply in a wrong shape

ASSUME InterviewAssumption ==
    /\ MaxQuestions \in Nat \ {0}
    /\ MaxDepth \in Nat
    /\ Batch \in Nat \ {0}
    /\ Malformed \in BOOLEAN

VARIABLES
    status,     \* SessionState.status; INTERVIEW_DONE stands for the later ones too
    turn,       \* the await a handler is suspended in, or "free"
    count,      \* length of SessionState.question_order
    parent,     \* QuestionNode.parent_id, 0 for a root
    depth,      \* QuestionNode.depth
    kind,       \* QuestionNode.kind
    qstatus,    \* QuestionNode.status, "none" before the question is made
    current,    \* the question being answered (question_id), local to the turn
    deeper,     \* request_flag of the answer, local to the turn
    bonusUsed,  \* SessionState.request_flag_bonus_used
    timeUp,     \* _time_limit_reached
    intents,    \* SessionState.intents is not empty
    derived,    \* SessionState.intents_derived
    reason,     \* SessionState.interview_completed_reason
    early       \* SessionState.early_completed

tree    == <<count, parent, depth, kind, qstatus>>
answer  == <<current, deeper, bonusUsed>>
outcome == <<intents, derived, reason, early>>
vars    == <<status, turn, tree, answer, timeUp, outcome>>

Questions == 1..MaxQuestions
Kinds     == {"REQUIRED", "OPTIONAL"}
Asked     == {q \in Questions : q <= count}

TypeOK ==
    /\ status \in {"CREATED", "INTERVIEWING", "INTERVIEW_DONE"}
    /\ turn \in {"free", "roots", "assess", "followups", "derive"}
    /\ count \in 0..MaxQuestions
    /\ parent \in [Questions -> {0} \cup Questions]
    /\ depth \in [Questions -> 0..(MaxDepth + 1)]
    /\ kind \in [Questions -> Kinds]
    /\ qstatus \in [Questions -> {"none", "PENDING", "ACTIVE", "ANSWERED"}]
    /\ current \in {0} \cup Questions
    /\ deeper \in BOOLEAN
    /\ bonusUsed \subseteq Questions
    /\ timeUp \in BOOLEAN
    /\ intents \in BOOLEAN
    /\ derived \in BOOLEAN
    /\ reason \in {"NONE", "THRESHOLD", "USER_EARLY", "WATCHDOG", "TIME_LIMIT"}
    /\ early \in BOOLEAN

Init ==
    /\ status = "CREATED"
    /\ turn = "free"
    /\ count = 0
    /\ parent = [q \in Questions |-> 0]
    /\ depth = [q \in Questions |-> 0]
    /\ kind = [q \in Questions |-> "OPTIONAL"]
    /\ qstatus = [q \in Questions |-> "none"]
    /\ current = 0
    /\ deeper = FALSE
    /\ bonusUsed = {}
    /\ timeUp = FALSE
    /\ intents = FALSE
    /\ derived = FALSE
    /\ reason = "NONE"
    /\ early = FALSE

-----------------------------------------------------------------------------
(* The tree *)

\* _add_nodes: the candidates of kinds ks[1], ..., ks[n] that fit under the cap become
\* questions below p.
AddNodes(n, ks, p, d) ==
    LET new == {q \in Questions : count < q /\ q <= count + n}
    IN  /\ count' = IF count + n <= MaxQuestions THEN count + n ELSE MaxQuestions
        /\ parent' = [q \in Questions |-> IF q \in new THEN p ELSE parent[q]]
        /\ depth' = [q \in Questions |-> IF q \in new THEN d ELSE depth[q]]
        /\ kind' = [q \in Questions |-> IF q \in new THEN ks[q - count] ELSE kind[q]]

\* The questions that can be offered, those of the step's additions included.
Open     == {q \in Asked' : qstatus[q] \in {"none", "PENDING", "ACTIVE"}}
Required == {q \in Open : kind'[q] = "REQUIRED"}
Children == {q \in Open : current # 0 /\ parent'[q] = current}

\* Mutant: children of the current question come before required ones elsewhere.
ChildrenFirst(requiredOnly) ==
    IF requiredOnly THEN Required
    ELSE IF Children # {} THEN Children
    ELSE IF Required # {} THEN Required
    ELSE Open

\* REQUIRED first, then the current question's children, then any.
Candidates(requiredOnly) ==
    IF requiredOnly \/ Required # {} THEN Required
    ELSE IF Children # {} THEN Children
    ELSE Open

\* select_next_question: q, the first candidate, becomes ACTIVE and no other stays so.
Offer(q, requiredOnly) ==
    /\ q \in Candidates(requiredOnly)
    /\ \A r \in Candidates(requiredOnly) : q <= r
    /\ qstatus' = [r \in Questions |->
                     IF r = q THEN "ACTIVE" ELSE IF r \in Open THEN "PENDING" ELSE qstatus[r]]

\* It finds nothing.
OfferNothing(requiredOnly) ==
    /\ Candidates(requiredOnly) = {}
    /\ qstatus' = [r \in Questions |-> IF r \in Open THEN "PENDING" ELSE qstatus[r]]

-----------------------------------------------------------------------------
(* Completion *)

\* Mutant: the cap on questions is looked at before the time limit.
CapFirst(late, n) ==
    IF n = MaxQuestions THEN "WATCHDOG" ELSE IF late THEN "TIME_LIMIT" ELSE "THRESHOLD"

\* Why an interview of n questions ends by itself.
CompletionReason(late, n) ==
    IF late THEN "TIME_LIMIT" ELSE IF n = MaxQuestions THEN "WATCHDOG" ELSE "THRESHOLD"

\* Mutant: the intents are left to somebody else.
CompleteOnly(r, e) ==
    /\ status' = "INTERVIEW_DONE"
    /\ reason' = r
    /\ early' = e
    /\ turn' = "free"

\* complete_interview, up to the await of derive_intents.
Complete(r, e) ==
    /\ status' = "INTERVIEW_DONE"
    /\ reason' = r
    /\ early' = e
    /\ turn' = IF derived THEN "free" ELSE "derive"

\* The end of submit_answer: the next question, or the end of the interview.  The turn's
\* additions to the tree are in the primed variables.
EndTurn(late) ==
    /\ \/ /\ \E q \in Questions : Offer(q, late)
          /\ turn' = "free"
          /\ UNCHANGED <<status, reason, early>>
       \/ LET why == CompletionReason(late, count')
          IN  OfferNothing(late) /\ Complete(why, why # "THRESHOLD")
    /\ current' = 0
    /\ deeper' = FALSE

-----------------------------------------------------------------------------
(* Handlers *)

\* POST interview/start, up to the await of the root questions.
StartInterview ==
    /\ turn = "free"
    /\ status = "CREATED"
    /\ status' = "INTERVIEWING"
    /\ turn' = "roots"
    /\ UNCHANGED <<tree, answer, timeUp, outcome>>

\* The root questions, n of them: the agent's, or the fallback's when it gives none.
RootsReady(n, ks) ==
    /\ turn = "roots"
    /\ AddNodes(n, ks, 0, 0)
    /\ \E q \in Questions : Offer(q, FALSE)
    /\ turn' = "free"
    /\ UNCHANGED <<status, answer, timeUp, outcome>>

\* Mutant: another question is offered although one is active.
StartAgainAnyway ==
    /\ turn = "free"
    /\ status = "INTERVIEWING"
    /\ UNCHANGED <<status, turn, count, parent, depth, kind, answer, timeUp, outcome>>
    /\ \E q \in Questions : Offer(q, FALSE)

\* POST interview/start once more, when no question is active.
StartAgain ==
    /\ turn = "free"
    /\ status = "INTERVIEWING"
    /\ \A q \in Questions : qstatus[q] # "ACTIVE"
    /\ UNCHANGED <<status, turn, count, parent, depth, kind, answer, timeUp, outcome>>
    /\ \E q \in Questions : Offer(q, FALSE)

\* Mutant: a question that has its answer is assessed and expanded again.
SubmitAnyAnswer(q, flag) ==
    /\ turn = "free"
    /\ status = "INTERVIEWING"
    /\ qstatus[q] \in {"ACTIVE", "ANSWERED"}
    /\ qstatus' = [qstatus EXCEPT ![q] = "ANSWERED"]
    /\ current' = q
    /\ deeper' = flag
    /\ turn' = "assess"
    /\ UNCHANGED <<status, count, parent, depth, kind, bonusUsed, timeUp, outcome>>

\* POST interview/answers, up to the await of the assessment.
SubmitAnswer(q, flag) ==
    /\ turn = "free"
    /\ status = "INTERVIEWING"
    /\ qstatus[q] = "ACTIVE"
    /\ qstatus' = [qstatus EXCEPT ![q] = "ANSWERED"]
    /\ current' = q
    /\ deeper' = flag
    /\ turn' = "assess"
    /\ UNCHANGED <<status, count, parent, depth, kind, bonusUsed, timeUp, outcome>>

\* request_bonus: the answer asks for more, and the question has not had its bonus.
Bonus == deeper /\ current \notin bonusUsed

\* Mutant: a question at the limit of depth is still expanded.
ExpandsAtLimit(needs, confused) ==
    /\ ~timeUp
    /\ count < MaxQuestions
    /\ depth[current] <= MaxDepth
    /\ needs \/ Bonus \/ (kind[current] = "OPTIONAL" /\ confused)

\* Mutant: a bonus is good for the level it has just opened, too.
ExpandsOnBonus(needs, confused) ==
    /\ ~timeUp
    /\ count < MaxQuestions
    /\ depth[current] < MaxDepth \/ Bonus
    /\ needs \/ Bonus \/ (kind[current] = "OPTIONAL" /\ confused)

\* should_expand, for an answer that needs a required follow-up or whose score is above the
\* threshold.
Expands(needs, confused) ==
    /\ ~timeUp
    /\ count < MaxQuestions
    /\ depth[current] < MaxDepth + (IF Bonus THEN 1 ELSE 0)
    /\ needs \/ Bonus \/ (kind[current] = "OPTIONAL" /\ confused)

UseBonus == bonusUsed' = IF Bonus THEN bonusUsed \cup {current} ELSE bonusUsed

\* The assessment arrives, and the turn awaits follow-ups.
AssessAndExpand ==
    /\ turn = "assess"
    /\ \E needs, confused \in BOOLEAN : Expands(needs, confused)
    /\ UseBonus
    /\ turn' = "followups"
    /\ UNCHANGED <<status, tree, current, deeper, timeUp, outcome>>

\* The assessment arrives, and the turn ends without follow-ups.  The time limit is read
\* here, once for the turn.
AssessAndMoveOn ==
    /\ turn = "assess"
    /\ \E needs, confused \in BOOLEAN : ~Expands(needs, confused)
    /\ UseBonus
    /\ UNCHANGED <<count, parent, depth, kind, timeUp, intents, derived>>
    /\ EndTurn(timeUp)

\* Mutant: a batch that was rejected as a whole ends the turn on the spot.
FollowupsOrNothing(n, ks) ==
    /\ turn = "followups"
    /\ n <= MaxQuestions - count
    /\ AddNodes(n, ks, current, depth[current] + 1)
    /\ IF n = 0
       THEN turn' = "free" /\ UNCHANGED <<status, qstatus, current, deeper, reason, early>>
       ELSE EndTurn(FALSE)
    /\ UNCHANGED <<bonusUsed, timeUp, intents, derived>>

\* Mutant: follow-ups stay on the level of their question.
FollowupsBeside(n, ks) ==
    /\ turn = "followups"
    /\ n <= MaxQuestions - count
    /\ AddNodes(n, ks, current, depth[current])
    /\ EndTurn(FALSE)
    /\ UNCHANGED <<bonusUsed, timeUp, intents, derived>>

\* The follow-ups arrive: those that were generated, and passed validation.  That the time
\* was not up is known from before the await.
FollowupsReady(n, ks) ==
    /\ turn = "followups"
    /\ n <= MaxQuestions - count
    /\ AddNodes(n, ks, current, depth[current] + 1)
    /\ EndTurn(FALSE)
    /\ UNCHANGED <<bonusUsed, timeUp, intents, derived>>

\* _pending_required
PendingRequired == {q \in Questions : kind[q] = "REQUIRED" /\ qstatus[q] \in {"PENDING", "ACTIVE"}}

\* POST interview/complete by a user who stops; open required questions need a confirmation.
CompleteEarly(confirm) ==
    /\ turn = "free"
    /\ status = "INTERVIEWING"
    /\ PendingRequired = {} \/ confirm
    /\ Complete("USER_EARLY", TRUE)
    /\ UNCHANGED <<tree, answer, timeUp, intents, derived>>

\* POST interview/complete for a session that has a plan's intents and no interview.
CompleteUnstarted ==
    /\ turn = "free"
    /\ status = "CREATED"
    /\ intents
    /\ Complete("NONE", FALSE)
    /\ UNCHANGED <<tree, answer, timeUp, intents, derived>>

\* The end of complete_interview.  The drafts may be none.
DeriveIntents ==
    /\ turn = "derive"
    /\ intents' \in {intents, TRUE}
    /\ derived' = TRUE
    /\ turn' = "free"
    /\ UNCHANGED <<status, tree, answer, timeUp, reason, early>>

\* A reply of a wrong shape: the parsers of runtime.py raise an AttributeError or a
\* TypeError, the engine handles LlmUnavailableError alone, and the handler gives up the
\* lock with what it has done.
HandlerFails ==
    /\ Malformed
    /\ turn # "free"
    /\ turn' = "free"
    /\ current' = 0
    /\ deeper' = FALSE
    /\ UNCHANGED <<status, tree, bonusUsed, timeUp, outcome>>

-----------------------------------------------------------------------------
(* Time, settings, and the rest of the session *)

TimePasses ==
    /\ status = "INTERVIEWING"
    /\ ~timeUp
    /\ timeUp' = TRUE
    /\ UNCHANGED <<status, turn, tree, answer, outcome>>

\* PATCH settings: a longer limit may not be reached yet, a first or shorter one may.
PatchSettings ==
    /\ turn = "free"
    /\ status = "INTERVIEWING"
    /\ timeUp' = ~timeUp
    /\ UNCHANGED <<status, turn, tree, answer, outcome>>

\* A plan upload removes the intents that name no question, and an extraction, whose task
\* takes no lock, replaces them: the session has intents, or none, from then on.
PlanChangesIntents ==
    /\ intents' = ~intents
    /\ UNCHANGED <<status, turn, tree, answer, timeUp, derived, reason, early>>

\* POST analysis takes a session that has intents past the interview.
AnalysisStarts ==
    /\ turn = "free"
    /\ status = "CREATED"
    /\ intents
    /\ status' = "INTERVIEW_DONE"
    /\ UNCHANGED <<turn, tree, answer, timeUp, outcome>>

-----------------------------------------------------------------------------
AgentReplies ==
    \/ \E n \in 1..Batch : \E ks \in [1..n -> Kinds] : RootsReady(n, ks)
    \/ AssessAndExpand
    \/ AssessAndMoveOn
    \/ \E n \in 0..Batch : \E ks \in [1..n -> Kinds] : FollowupsReady(n, ks)
    \/ DeriveIntents
    \/ HandlerFails

UserAnswers == \E q \in Questions, flag \in BOOLEAN : SubmitAnswer(q, flag)

Next ==
    \/ AgentReplies
    \/ UserAnswers
    \/ StartInterview
    \/ StartAgain
    \/ \E confirm \in BOOLEAN : CompleteEarly(confirm)
    \/ CompleteUnstarted
    \/ TimePasses
    \/ PatchSettings
    \/ PlanChangesIntents
    \/ AnalysisStarts

Spec == Init /\ [][Next]_vars

\* Agents answer or fail: each call has a timeout and its attempts are counted.
FairSpec == Spec /\ WF_vars(AgentReplies)

-----------------------------------------------------------------------------
(* Invariants *)

\* The questions form a tree: a follow-up was made after its question, for its question's
\* answer, and one level below it (_add_nodes is given parent_id and depth separately).
TreeWellFormed ==
    \A q \in Asked :
        IF parent[q] = 0
        THEN depth[q] = 0
        ELSE /\ parent[q] < q
             /\ qstatus[parent[q]] = "ANSWERED"
             /\ depth[q] = depth[parent[q]] + 1

\* A question is below MAX_DEPTH only where the user asked to go deeper (engine.py:333).
DepthEarned == \A q \in Asked : depth[q] > MaxDepth => parent[q] \in bonusUsed

\* A question is expanded once, by one batch: its follow-ups follow each other, and are no
\* more than the candidates of one turn, however answers are repeated (engine.py:296).
ExpandedOnce == \A q, r \in Asked : parent[q] = parent[r] => q < r + Batch

\* An optional question is being asked only when no required one is open, whatever was
\* added in between (engine.py:160).
RequiredFirst ==
    \A q \in Questions : qstatus[q] = "ACTIVE" /\ kind[q] = "OPTIONAL" => PendingRequired = {}

\* The recorded reason fits the tree it ended with: a natural end and one at the cap left
\* no question, one at the time limit left no required question, and the report is marked
\* partial exactly for the reasons of TRD.md:495 (engine.py:353).
CompletionJustified ==
    status = "INTERVIEW_DONE" =>
        /\ early <=> reason \in {"USER_EARLY", "WATCHDOG", "TIME_LIMIT"}
        /\ reason \in {"THRESHOLD", "WATCHDOG"} => \A q \in Asked : qstatus[q] = "ANSWERED"
        /\ reason = "WATCHDOG" => count = MaxQuestions
        /\ reason = "TIME_LIMIT" => PendingRequired = {}
        /\ reason = "NONE" => count = 0

\* An interview that waits for its user has a question for them, while agents reply in the
\* right shape (engine.py:350).
QuestionOffered ==
    status = "INTERVIEWING" /\ turn = "free" => \E q \in Questions : qstatus[q] = "ACTIVE"

\* A completed interview has had its intents derived, by the agent or, when that fails, by
\* the fallback (fallback.py:52).
IntentsDerived == status = "INTERVIEW_DONE" /\ reason # "NONE" /\ turn = "free" => derived

\* An interview all of whose questions are answered is over (TRD.md:494).
OverWhenNothingIsOpen ==
    status = "INTERVIEWING" /\ turn = "free" /\ count > 0 =>
        \E q \in Questions : qstatus[q] \in {"PENDING", "ACTIVE"}

-----------------------------------------------------------------------------
(* Action and liveness properties *)

\* Once the time is up, the turn of an answer puts only a required question to the user
\* (TRD.md:492).  A start of the interview, and its repetition, look at no limit.
OnlyRequiredAfterLimit ==
    [][\A q \in Questions :
          (/\ turn \in {"assess", "followups"}
           /\ timeUp
           /\ qstatus[q] # "ACTIVE"
           /\ qstatus'[q] = "ACTIVE") => kind'[q] = "REQUIRED"]_vars

\* With a user who keeps answering, every interview ends with its intents derived: the tree
\* stops growing, each turn ends, and no answer leaves the user without a question.
InterviewEnds ==
    WF_vars(UserAnswers) =>
        (status = "INTERVIEWING" ~> status = "INTERVIEW_DONE" /\ derived)

\* The dialogue a client may rely on, with the engine's state read as its state.
Dialogue ==
    INSTANCE InterviewDialogue WITH
        phase    <- status,
        answered <- {q \in Questions : qstatus[q] = "ANSWERED"},
        offered  <- {q \in Questions : qstatus[q] = "ACTIVE"}

\* Every step of the engine is one of the dialogue, or none that its client can see.
DialogueImplemented == Dialogue!Spec

=============================================================================
