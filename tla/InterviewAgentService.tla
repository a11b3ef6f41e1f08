----------------------- MODULE InterviewAgentService -----------------------
(***************************************************************************)
(* application/interview_agent_service.py: the operations on a session,    *)
(* as what each of them makes of the copy it has read.  An operation with  *)
(* no outcome raises InvalidInterviewStateError.                           *)
(***************************************************************************)
EXTENDS InterviewEngine

CONSTANT QuestionLists   \* the question lists HR or the planner come up with

ASSUME QuestionListsAssumption ==
    /\ QuestionLists \subseteq Seq(Question)
    /\ QuestionLists # {}
    /\ << >> \notin QuestionLists

Writing == {"update_plan", "approve_plan", "start", "submit", "end", "evaluate",
            "report"}
Operation == Writing \union {"status"}

\* No session under this id yet.
NotPrepared == [NewSession(<< >>) EXCEPT !.state = "absent"]

\* prepare_interview: the planner's questions as they are.
PreparedFromDocuments == {NewSession(p) : p \in QuestionLists}

\* prepare_from_position: HR's questions, framed.
PreparedFromPosition ==
    {NewSession(PlanFromPositionQuestions(p)) : p \in QuestionLists}

\* The copies an operation may leave, if the state allows the operation.
When(allowed, copies) == IF allowed THEN copies ELSE {}

PlanUpdated(s) ==
    When(s.state = "created", {[s EXCEPT !.plan = p] : p \in QuestionLists})

PlanApproved(s) ==
    When(s.state = "created" /\ s.plan # << >>, {[s EXCEPT !.state = "ready"]})

InterviewStarted(s) == When(CanStart(s), {Started(s)})

\* The engine asks the Interviewer agent inside this operation.
SubmittedAnswers(s) ==
    When(CanSubmit(s),
         {AnswerSubmitted(s, answer, hinted, proposed) :
             answer \in Answer, hinted \in BOOLEAN, proposed \in BOOLEAN})

InterviewEnded(s) == When(CanEnd(s), {Ended(s)})

\* Mutant: the number of turns is taken from an index that starts at zero.
Evaluated_OffByOne(s) ==
    When(s.state = "completed" /\ s.plan # << >>,
         {[s EXCEPT !.state = "evaluated",
                    !.evaluation = [made |-> TRUE, turns |-> Len(s.turns) - 1,
                                    report |-> FALSE]]})

Evaluated(s) ==
    When(s.state = "completed" /\ s.plan # << >>,
         {[s EXCEPT !.state = "evaluated",
                    !.evaluation = [made |-> TRUE, turns |-> Len(s.turns),
                                    report |-> FALSE]]})

Reported(s) ==
    When(s.state = "evaluated" /\ s.evaluation.made,
         {[s EXCEPT !.evaluation.report = TRUE]})

Outcomes(op, s) ==
    CASE op = "update_plan"  -> PlanUpdated(s)
      [] op = "approve_plan" -> PlanApproved(s)
      [] op = "start"        -> InterviewStarted(s)
      [] op = "submit"       -> SubmittedAnswers(s)
      [] op = "end"          -> InterviewEnded(s)
      [] op = "evaluate"     -> Evaluated(s)
      [] op = "report"       -> Reported(s)
      [] OTHER               -> {}

=============================================================================
