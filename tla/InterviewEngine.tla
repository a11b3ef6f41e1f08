-------------------------- MODULE InterviewEngine --------------------------
(***************************************************************************)
(* services/interview_engine.py: what each operation does to the session   *)
(* object it is given.  The engine holds no state; these are operators     *)
(* from a session to the session it leaves.  The text of a question is the *)
(* index of the question in the plan, the text of a follow-up is only that *)
(* it is one.                                                              *)
(***************************************************************************)
EXTENDS Integers, Sequences

CONSTANT MaxFollowUpsPerQuestion

ASSUME FollowUpAssumption == MaxFollowUpsPerQuestion \in Nat

InterviewState == {"created", "ready", "in_progress", "completed", "evaluated"}
Category == {"introduction", "content", "closing"}
Question == [category : Category, followUpAllowed : BOOLEAN]
Pending  == {"none", "main", "follow_up"}   \* pending_question_text

\* One recorded answer: the question it belongs to, whether it is recorded as
\* an answer to a follow-up, and which text the candidate had been asked.
Turn == [question : Nat, isFollowUp : BOOLEAN, asked : {"main", "follow_up"}]

Evaluation == [made : BOOLEAN, turns : Nat, report : BOOLEAN]
NoEvaluation == [made |-> FALSE, turns |-> 0, report |-> FALSE]

InterviewSession == [state          : InterviewState,
                     plan           : Seq(Question),
                     index          : Nat,
                     followUps      : Nat,   \* current_follow_up_count
                     totalFollowUps : Nat,
                     pending        : Pending,
                     turns          : Seq(Turn),
                     evaluation     : Evaluation]

NewSession(plan) == [state |-> "created", plan |-> plan, index |-> 0,
                     followUps |-> 0, totalFollowUps |-> 0,
                     pending |-> "none", turns |-> << >>,
                     evaluation |-> NoEvaluation]

\* HR's own questions framed by an introduction and a closing, each added only
\* when HR's list has none.
PlanFromPositionQuestions(questions) ==
    LET Authored(category) == \E i \in DOMAIN questions : questions[i].category = category
        Frame(category) ==
            IF Authored(category) THEN << >>
            ELSE <<[category |-> category, followUpAllowed |-> FALSE]>>
    IN  Frame("introduction") \o questions \o Frame("closing")

CurrentQuestion(s) == s.plan[s.index + 1]

\* math.ceil(0.5 * total_questions).
FollowUpBudget(s) == (Len(s.plan) + 1) \div 2

CanStart(s)  == s.state = "ready" /\ s.plan # << >>
CanSubmit(s) == s.state = "in_progress"
\* Mutant: an interview that is over may be ended.
CanEnd_Always(s) == s.state \notin {"absent", "created", "ready"}

CanEnd(s)    == s.state = "in_progress"

Started(s) == [s EXCEPT !.state = "in_progress", !.index = 0, !.followUps = 0,
                        !.totalFollowUps = 0, !.pending = "main"]

AnswerRecorded(s) ==
    [s EXCEPT !.turns = Append(@,
        [question |-> s.index, isFollowUp |-> s.followUps > 0,
         asked |-> IF s.pending = "none" THEN "main" ELSE s.pending])]

\* An answer is blank, a refusal, or says something.
Answer == {"blank", "refusal", "substantive"}

\* The gates in front of the Interviewer agent, and the agent's proposal.
FollowUpAsked(s, answer, hinted, proposed) ==
    /\ CurrentQuestion(s).followUpAllowed
    /\ answer = "substantive"
    /\ ~hinted
    /\ s.followUps < MaxFollowUpsPerQuestion
    /\ s.totalFollowUps < FollowUpBudget(s)
    /\ proposed

FollowedUp(s) == [s EXCEPT !.followUps = @ + 1, !.totalFollowUps = @ + 1,
                           !.pending = "follow_up"]

\* Mutant: the count of the question's follow-ups is not reset.
AdvancedToNextQuestion_KeepsCount(s) ==
    IF s.index + 1 >= Len(s.plan)
    THEN [s EXCEPT !.state = "completed", !.pending = "none"]
    ELSE [s EXCEPT !.index = @ + 1, !.pending = "main"]

AdvancedToNextQuestion(s) ==
    IF s.index + 1 >= Len(s.plan)
    THEN [s EXCEPT !.state = "completed", !.pending = "none"]
    ELSE [s EXCEPT !.index = @ + 1, !.followUps = 0, !.pending = "main"]

AnswerSubmitted(s, answer, hinted, proposed) ==
    IF FollowUpAsked(s, answer, hinted, proposed)
    THEN FollowedUp(AnswerRecorded(s))
    ELSE AdvancedToNextQuestion(AnswerRecorded(s))

Ended(s) == [s EXCEPT !.state = "completed", !.pending = "none"]

=============================================================================
