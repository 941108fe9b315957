------------------------- MODULE InterviewDialogue -------------------------
(***************************************************************************)
(* What a client may rely on in an interview, whatever the tree looks like *)
(* and however its turns fail: one question at a time, none again that has *)
(* been answered, no answer lost, and an end that is final.                *)
(***************************************************************************)
EXTENDS Naturals

CONSTANT Questions

VARIABLES
    phase,      \* SessionState.status
    answered,   \* the questions with an answer
    offered     \* the question put to the user, as a set: empty, or of one element

vars == <<phase, answered, offered>>

Init ==
    /\ phase = "CREATED"
    /\ answered = {}
    /\ offered = {}

\* The interview starts; its first question is still being made.
Begin ==
    /\ phase = "CREATED"
    /\ phase' = "INTERVIEWING"
    /\ UNCHANGED <<answered, offered>>

\* A question that has no answer is put to a user who has none before them.
Ask(q) ==
    /\ phase = "INTERVIEWING"
    /\ offered = {}
    /\ q \notin answered
    /\ offered' = {q}
    /\ UNCHANGED <<phase, answered>>

\* The user answers the question put to them.
Reply(q) ==
    /\ phase = "INTERVIEWING"
    /\ offered = {q}
    /\ offered' = {}
    /\ answered' = answered \cup {q}
    /\ UNCHANGED phase

\* The interview is over, or was skipped.
End ==
    /\ phase # "INTERVIEW_DONE"
    /\ phase' = "INTERVIEW_DONE"
    /\ UNCHANGED <<answered, offered>>

Next ==
    \/ Begin
    \/ \E q \in Questions : Ask(q) \/ Reply(q)
    \/ End

Spec == Init /\ [][Next]_vars

=============================================================================
