------------------------- MODULE SessionStoreProofs -------------------------
(***************************************************************************)
(* The session store under any number of callers, question lists, edits    *)
(* and follow-ups: the session every save leaves is one the engine made of *)
(* the session it replaces, and what the runs check of it holds always.    *)
(***************************************************************************)
EXTENDS SessionStore, InterviewEngineProofs

USE FollowUpAssumption, QuestionListsAssumption, ClientsAssumption

-----------------------------------------------------------------------------
(* What an operation makes of a session, in the terms of the properties.   *)

Kept(s, o) == o.turns = s.turns /\ o.evaluation = s.evaluation

Edits(s, o) == /\ s.state = "created" /\ o.state \in {"created", "ready"}
               /\ Kept(s, o) /\ o.index = s.index

Starts(s, o) == /\ s.state = "ready" /\ o.state = "in_progress" /\ Kept(s, o)
                /\ o.index = 0 /\ o.followUps = 0 /\ o.pending = "main"

Ends(s, o) == s.state = "in_progress" /\ Kept(s, o) /\ Completes(s, o)

Evaluates(s, o) ==
    /\ s.state = "completed" /\ o.state = "evaluated"
    /\ o.turns = s.turns /\ o.index = s.index
    /\ o.evaluation = [made |-> TRUE, turns |-> Len(s.turns), report |-> FALSE]

Reports(s, o) ==
    /\ s.state = "evaluated" /\ o.state = "evaluated"
    /\ o.turns = s.turns /\ o.index = s.index
    /\ o.evaluation = [s.evaluation EXCEPT !.report = TRUE]

Does(op, s, o) ==
    \/ Edits(s, o) \/ Starts(s, o) \/ Answers(s, o) \/ Ends(s, o) \/ Evaluates(s, o)
    \/ op = "report" /\ Reports(s, o)

\* Every operation leaves a session, one of the kinds above.
LEMMA OutcomeFacts ==
  ASSUME NEW s \in AnySession, NEW op \in Operation, NEW o \in Outcomes(op, s)
  PROVE  /\ op \in Writing
         /\ o \in InterviewSession /\ Does(op, s, o)
<1>. USE DEF When
<1>1. CASE op = "update_plan"
  <2>1. PICK p \in QuestionLists : s.state = "created" /\ o = [s EXCEPT !.plan = p]
    BY <1>1 DEF Outcomes, PlanUpdated
  <2> QED
    BY <1>1, <2>1 DEF AnySession, InterviewSession, InterviewState, Does, Edits, Kept, Writing
<1>2. CASE op = "approve_plan"
  <2>1. s.state = "created" /\ o = [s EXCEPT !.state = "ready"]
    BY <1>2 DEF Outcomes, PlanApproved
  <2> QED
    BY <1>2, <2>1 DEF AnySession, InterviewSession, InterviewState, Does, Edits, Kept, Writing
<1>3. CASE op = "start"
  <2>1. s.state = "ready" /\ o = Started(s)
    BY <1>3 DEF Outcomes, InterviewStarted, CanStart
  <2> QED
    BY <1>3, <2>1 DEF Started, AnySession, InterviewSession, InterviewState, Pending, Does,
       Starts, Kept, Writing
<1>4. CASE op = "submit"
  <2>1. s.state = "in_progress" /\ o \in SubmittedAnswers(s)
    BY <1>4 DEF Outcomes, SubmittedAnswers, CanSubmit
  <2>2. PICK answer \in Answer, hinted \in BOOLEAN, proposed \in BOOLEAN :
             o = AnswerSubmitted(s, answer, hinted, proposed)
    BY <2>1 DEF SubmittedAnswers, CanSubmit
  <2> QED
    BY <1>4, <2>1, <2>2, SubmittedFacts DEF Does, Writing
<1>5. CASE op = "end"
  <2>1. s.state = "in_progress" /\ o = Ended(s)
    BY <1>5 DEF Outcomes, InterviewEnded, CanEnd
  <2> QED
    BY <1>5, <2>1 DEF Ended, AnySession, InterviewSession, InterviewState, Pending, Does,
       Ends, Kept, Completes, Writing
<1>6. CASE op = "evaluate"
  <2>1. /\ s.state = "completed"
        /\ o = [s EXCEPT !.state = "evaluated",
                         !.evaluation = [made |-> TRUE, turns |-> Len(s.turns),
                                         report |-> FALSE]]
    BY <1>6 DEF Outcomes, Evaluated
  <2>2. Len(s.turns) \in Nat
    BY DEF AnySession
  <2> QED
    BY <1>6, <2>1, <2>2 DEF AnySession, InterviewSession, InterviewState, Evaluation, Does,
       Evaluates, Writing
<1>7. CASE op = "report"
  <2>1. s.state = "evaluated" /\ o = [s EXCEPT !.evaluation.report = TRUE]
    BY <1>7 DEF Outcomes, Reported
  <2> QED
    BY <1>7, <2>1 DEF AnySession, InterviewSession, InterviewState, Evaluation, Does,
       Reports, Writing
<1>8. CASE op = "status"
  BY <1>8 DEF Outcomes
<1> QED
  BY <1>1, <1>2, <1>3, <1>4, <1>5, <1>6, <1>7, <1>8 DEF Operation, Writing

\* A session as it is prepared.
LEMMA PreparedFacts ==
  ASSUME NEW s \in PreparedFromDocuments \union PreparedFromPosition
  PROVE  /\ s \in InterviewSession /\ s.state = "created" /\ s.index = 0
         /\ s.turns = << >> /\ s.evaluation = NoEvaluation
<1>1. PICK p : p \in Seq(Question) /\ s = NewSession(p)
  <2>1. CASE s \in PreparedFromDocuments
    BY <2>1 DEF PreparedFromDocuments
  <2>2. CASE s \in PreparedFromPosition
    <3>1. PICK q \in QuestionLists : s = NewSession(PlanFromPositionQuestions(q))
      BY <2>2 DEF PreparedFromPosition
    <3>. DEFINE Authored(category) == \E i \in DOMAIN q : q[i].category = category
                Frame(category) ==
                  IF Authored(category) THEN << >>
                  ELSE <<[category |-> category, followUpAllowed |-> FALSE]>>
    <3>2. Frame("introduction") \in Seq(Question) /\ Frame("closing") \in Seq(Question)
      <4>1. \A category \in Category :
               <<[category |-> category, followUpAllowed |-> FALSE]>> \in Seq(Question)
        BY DEF Question
      <4> QED
        BY <4>1 DEF Category
    <3>3. PlanFromPositionQuestions(q) = Frame("introduction") \o q \o Frame("closing")
      BY DEF PlanFromPositionQuestions
    <3>4. q \in Seq(Question)
      OBVIOUS
    <3>. HIDE DEF Frame
    <3>5. PlanFromPositionQuestions(q) \in Seq(Question)
      BY <3>2, <3>3, <3>4
    <3> QED
      BY <3>1, <3>5
  <2> QED
    BY <2>1, <2>2
<1> QED
  BY <1>1 DEF NewSession, InterviewSession, InterviewState, Pending, Evaluation, NoEvaluation

-----------------------------------------------------------------------------
(* What every session satisfies, and what an operation keeps of it.        *)

\* Every question before the n-th has an answer.
HasAnswers(ts, n) == \A q \in 0..(n - 1) : \E i \in DOMAIN ts : ts[i].question = q

AskedInOrder(ts) ==
    /\ \A i \in DOMAIN ts : ts[i].isFollowUp <=> ts[i].asked = "follow_up"
    /\ \A i \in DOMAIN ts :
          IF i = 1 THEN ts[i].question = 0 /\ ~ts[i].isFollowUp
          ELSE ts[i].question = ts[i-1].question + (IF ts[i].isFollowUp THEN 0 ELSE 1)

\* Where a running interview stands against its last answer.
LastAsked(s) ==
    /\ s.pending \in {"main", "follow_up"}
    /\ s.followUps > 0 <=> s.pending = "follow_up"
    /\ IF Len(s.turns) = 0 THEN s.index = 0 /\ s.pending = "main"
       ELSE s.turns[Len(s.turns)].question = s.index - (IF s.pending = "main" THEN 1 ELSE 0)

Covered(s) ==
    /\ s.state = "evaluated" <=> s.evaluation.made
    /\ s.evaluation.made => s.evaluation.turns = Len(s.turns)
    /\ s.evaluation.report => s.evaluation.made

SessionHolds(s) ==
    /\ s.state \in {"absent", "created", "ready"} => s.turns = << >> /\ s.index = 0
    /\ s.state = "in_progress" => LastAsked(s)
    /\ AskedInOrder(s.turns)
    /\ HasAnswers(s.turns, s.index)
    /\ Covered(s)

\* An answer keeps the order, and nothing before its question is left out.
LEMMA AnswerKeepsOrder ==
  ASSUME NEW s \in AnySession, s.state = "in_progress", SessionHolds(s)
  PROVE  /\ AskedInOrder(Answered(s))
         /\ HasAnswers(Answered(s), s.index + 1)
<1>. DEFINE n == Len(s.turns)
            ts == Answered(s)
<1>1. /\ LastAsked(s) /\ AskedInOrder(s.turns) /\ HasAnswers(s.turns, s.index)
      /\ s.index \in Nat /\ n \in Nat /\ s.followUps \in Nat /\ s.turns \in Seq(Turn)
  BY DEF SessionHolds, AnySession
<1>2. /\ DOMAIN s.turns = 1..n /\ DOMAIN ts = 1..(n + 1)
      /\ \A i \in 1..n : ts[i] = s.turns[i]
      /\ ts[n + 1].question = s.index
      /\ ts[n + 1].isFollowUp = (s.followUps > 0)
      /\ ts[n + 1].asked = s.pending
  BY <1>1, AnsweredFacts DEF LastAsked
<1>. HIDE DEF ts, n
<1>3. ASSUME NEW i \in 1..(n + 1)
      PROVE  ts[i].isFollowUp <=> ts[i].asked = "follow_up"
  <2>1. CASE i = n + 1
    BY <1>1, <1>2, <2>1 DEF LastAsked
  <2>2. CASE i \in 1..n
    BY <1>1, <1>2, <2>2 DEF AskedInOrder
  <2> QED
    BY <1>1, <2>1, <2>2
<1>4. ASSUME NEW i \in 1..(n + 1)
      PROVE  IF i = 1 THEN ts[i].question = 0 /\ ~ts[i].isFollowUp
             ELSE ts[i].question = ts[i-1].question + (IF ts[i].isFollowUp THEN 0 ELSE 1)
  <2>1. CASE i \in 1..n
    <3>1. i # 1 => i - 1 \in 1..n
      BY <1>1, <2>1
    <3>2. ts[i] = s.turns[i] /\ (i # 1 => ts[i - 1] = s.turns[i - 1])
      BY <1>2, <2>1, <3>1
    <3>3. IF i = 1 THEN s.turns[i].question = 0 /\ ~s.turns[i].isFollowUp
          ELSE s.turns[i].question =
                 s.turns[i-1].question + (IF s.turns[i].isFollowUp THEN 0 ELSE 1)
      BY <1>1, <1>2, <2>1 DEF AskedInOrder
    <3> QED
      BY <3>2, <3>3
  <2>2. CASE i = n + 1 /\ n = 0
    <3>1. s.index = 0 /\ s.pending = "main" /\ ~(s.followUps > 0)
      BY <1>1, <2>2 DEF LastAsked, n
    <3>2. ts[i].question = s.index /\ (ts[i].isFollowUp <=> s.followUps > 0)
      BY <1>2, <2>2
    <3> QED
      BY <2>2, <3>1, <3>2
  <2>3. CASE i = n + 1 /\ n > 0
    <3>1. i - 1 = n /\ n \in 1..n /\ i # 1
      BY <1>1, <2>3
    <3>2. s.turns[n].question = s.index - (IF s.pending = "main" THEN 1 ELSE 0)
      BY <1>1, <2>3 DEF LastAsked, n
    <3>3. ts[i - 1].question = s.turns[n].question
      BY <1>2, <3>1
    <3>4. ts[i].question = s.index /\ (ts[i].isFollowUp <=> s.pending = "follow_up")
      BY <1>1, <1>2, <2>3 DEF LastAsked
    <3>5. s.pending = "main" <=> s.pending # "follow_up"
      BY <1>1 DEF LastAsked
    <3>6. CASE s.pending = "main"
      BY <1>1, <3>1, <3>2, <3>3, <3>4, <3>5, <3>6
    <3>7. CASE s.pending = "follow_up"
      BY <1>1, <3>1, <3>2, <3>3, <3>4, <3>5, <3>7
    <3> QED
      BY <3>5, <3>6, <3>7
  <2> QED
    BY <1>1, <2>1, <2>2, <2>3
<1>5. HasAnswers(ts, s.index + 1)
  <2>1. SUFFICES ASSUME NEW q \in 0..s.index
                 PROVE  \E i \in DOMAIN ts : ts[i].question = q
    BY <1>1 DEF HasAnswers
  <2>2. CASE q = s.index
    BY <1>1, <1>2, <2>2
  <2>3. CASE q < s.index
    <3>1. PICK i \in DOMAIN s.turns : s.turns[i].question = q
      BY <1>1, <2>3 DEF HasAnswers
    <3> QED
      BY <1>1, <1>2, <3>1
  <2> QED
    BY <1>1, <2>2, <2>3
<1> QED
  BY <1>2, <1>3, <1>4, <1>5 DEF AskedInOrder, ts

\* What an operation keeps: the properties of a session, the questions it has
\* been asked, an evaluation once it is made.
LEMMA OperationHolds ==
  ASSUME NEW s \in AnySession, NEW op, NEW o \in InterviewSession,
         SessionHolds(s), Does(op, s, o)
  PROVE  /\ SessionHolds(o)
         /\ s.index <= o.index
         /\ s.evaluation.made => o.evaluation.made
         /\ o.evaluation.made \/ o.evaluation = s.evaluation
         /\ o.evaluation.report => s.evaluation.report \/ op = "report"
<1>1. /\ s.index \in Nat /\ s.followUps \in Nat /\ s.turns \in Seq(Turn)
      /\ s.evaluation \in Evaluation
      /\ o.index \in Nat /\ o.followUps \in Nat /\ o.turns \in Seq(Turn)
  BY DEF AnySession, InterviewSession
<1>2. CASE Edits(s, o)
  BY <1>1, <1>2 DEF Edits, Kept, SessionHolds, Covered
<1>3. CASE Starts(s, o)
  <2>1. Len(o.turns) = 0 /\ ~(o.followUps > 0)
    BY <1>1, <1>3 DEF Starts, Kept, SessionHolds
  <2> QED
    BY <1>1, <1>3, <2>1 DEF Starts, Kept, SessionHolds, Covered, LastAsked
<1>4. CASE Answers(s, o)
  <2>1. AskedInOrder(o.turns) /\ HasAnswers(o.turns, s.index + 1)
    BY <1>4, AnswerKeepsOrder DEF Answers
  <2>2. HasAnswers(o.turns, o.index)
    <3>1. o.index = s.index \/ o.index = s.index + 1
      BY <1>4 DEF Answers, FollowsUp, Advances, Completes
    <3>2. 0..(o.index - 1) \subseteq 0..((s.index + 1) - 1)
      BY <1>1, <3>1
    <3> QED
      BY <2>1, <3>2 DEF HasAnswers
  <2>3. o.state = "in_progress" => LastAsked(o)
    <3>1. Len(o.turns) # 0 /\ o.turns[Len(o.turns)].question = s.index
      BY <1>1, <1>4, AnsweredFacts DEF Answers
    <3> QED
      BY <1>1, <1>4, <3>1 DEF Answers, FollowsUp, Advances, Completes, LastAsked
  <2>4. ~s.evaluation.made /\ ~s.evaluation.report /\ o.evaluation = s.evaluation
    BY <1>1, <1>4 DEF Answers, SessionHolds, Covered
  <2>5. Covered(o)
    BY <1>4, <2>4 DEF Answers, FollowsUp, Advances, Completes, Covered
  <2> QED
    BY <1>1, <1>4, <2>1, <2>2, <2>3, <2>4, <2>5
       DEF Answers, FollowsUp, Advances, Completes, SessionHolds
<1>5. CASE Ends(s, o)
  BY <1>1, <1>5 DEF Ends, Completes, Kept, SessionHolds, Covered
<1>6. CASE Evaluates(s, o)
  BY <1>1, <1>6 DEF Evaluates, SessionHolds, Covered
<1>7. CASE op = "report" /\ Reports(s, o)
  <2>1. /\ o.evaluation.made = s.evaluation.made /\ s.evaluation.made
        /\ o.evaluation.turns = s.evaluation.turns
    BY <1>1, <1>7 DEF Reports, SessionHolds, Covered, Evaluation
  <2> QED
    BY <1>1, <1>7, <2>1 DEF Reports, SessionHolds, Covered
<1> QED
  BY <1>2, <1>3, <1>4, <1>5, <1>6, <1>7 DEF Does

-----------------------------------------------------------------------------
(* The inductive invariant: the session on file holds together, and so does *)
(* what each caller has read of it, exactly so while the version is the     *)
(* same.                                                                    *)

Reading(c, stages) == client[c].at \in stages

CopyHolds(c) ==
    /\ Reading(c, {"get_turns", "get_evaluation", "working"}) =>
          /\ row.state # "absent"
          /\ client[c].row.version <= row.version
          /\ VersionMatches(c) => client[c].row = row
          /\ client[c].row.index <= row.index
          /\ client[c].row.state = "evaluated" => evaluation.made
    /\ Reading(c, {"get_evaluation", "working"}) =>
          /\ VersionMatches(c) => client[c].turns = turns
          /\ HasAnswers(client[c].turns, client[c].row.index)
    /\ Reading(c, {"working"}) =>
          /\ VersionMatches(c) => client[c].evaluation = evaluation
          /\ client[c].row.state = "evaluated" => client[c].evaluation.made

IInv ==
    /\ TypeOK
    /\ row.state = "absent" => Stored = NotPrepared
    /\ SessionHolds(Stored)
    /\ evaluation.report => reportFile
    /\ \A c \in Clients : CopyHolds(c)

\* The row that is not there.
LEMMA NoRowFacts ==
  /\ NotPrepared \in AnySession /\ NotPrepared.state = "absent"
  /\ NotPrepared.turns = << >> /\ NotPrepared.evaluation = NoEvaluation
  /\ NotPrepared.index = 0 /\ NotPrepared.plan = << >> /\ NotPrepared.followUps = 0
  /\ NotPrepared.totalFollowUps = 0 /\ NotPrepared.pending = "none"
  /\ SessionHolds(NotPrepared)
<1>1. /\ NotPrepared \in AnySession /\ NotPrepared.state = "absent"
      /\ NotPrepared.turns = << >> /\ NotPrepared.evaluation = NoEvaluation
      /\ NotPrepared.index = 0 /\ NotPrepared.plan = << >> /\ NotPrepared.followUps = 0
      /\ NotPrepared.totalFollowUps = 0 /\ NotPrepared.pending = "none"
  <2>. DEFINE new == NewSession(<< >>)
  <2>1. /\ new \in InterviewSession
        /\ new.turns = << >> /\ new.evaluation = NoEvaluation
        /\ new.index = 0 /\ new.plan = << >> /\ new.followUps = 0
        /\ new.totalFollowUps = 0 /\ new.pending = "none"
    BY DEF NewSession, InterviewSession, InterviewState, Pending, Evaluation, NoEvaluation
  <2>. HIDE DEF new
  <2>2. NotPrepared = [new EXCEPT !.state = "absent"]
    BY DEF NotPrepared, new
  <2> QED
    BY <2>1, <2>2 DEF AnySession, InterviewSession
<1> QED
  BY <1>1 DEF SessionHolds, AskedInOrder, HasAnswers, Covered, NoEvaluation

\* The row of a session, and the session of a row.
LEMMA RowFacts ==
  ASSUME NEW s \in AnySession, NEW v \in Nat
  PROVE  /\ RowOf(s, v) \in SessionRow
         /\ RowOf(s, v).version = v /\ RowOf(s, v).state = s.state
         /\ RowOf(s, v).index = s.index
         /\ SessionFrom(RowOf(s, v), s.turns, s.evaluation) = s
<1>1. RowOf(s, v) \in SessionRow
  BY DEF RowOf, SessionRow, AnySession
<1>2. SessionFrom(RowOf(s, v), s.turns, s.evaluation) = s
  BY DEF SessionFrom, RowOf, AnySession
<1> QED
  BY <1>1, <1>2 DEF RowOf

\* A session read back is a session.
LEMMA SessionFromTyped ==
  ASSUME NEW r \in SessionRow, NEW t \in Seq(Turn), NEW e \in Evaluation
  PROVE  /\ SessionFrom(r, t, e) \in AnySession
         /\ SessionFrom(r, t, e).state = r.state /\ SessionFrom(r, t, e).index = r.index
         /\ SessionFrom(r, t, e).pending = r.pending
         /\ SessionFrom(r, t, e).turns = t /\ SessionFrom(r, t, e).evaluation = e
BY DEF SessionFrom, SessionRow, AnySession

\* A client that is idle holds nothing.
LEMMA IdleFacts ==
  /\ NoRow \in SessionRow /\ NoRow.state = "absent" /\ NoRow.index = 0
  /\ Idle \in Caller /\ Idle.at = "idle"
  /\ \A op \in Operation : [Idle EXCEPT !.op = op, !.at = "get_row"] \in Caller
<1>1. NoRow \in SessionRow /\ NoRow.state = "absent" /\ NoRow.index = 0
  BY NoRowFacts, RowFacts DEF NoRow
<1>2. NoEvaluation \in Evaluation /\ << >> \in Seq(Turn)
  BY DEF NoEvaluation, Evaluation
<1> QED
  BY <1>1, <1>2 DEF Idle, Caller, Stage, Operation

\* The initial states satisfy the invariant.
LEMMA InitHolds == Init => IInv
<1>. SUFFICES ASSUME Init PROVE IInv
  OBVIOUS
<1>1. TypeOK
  <2>1. client \in [Clients -> Caller]
    BY IdleFacts DEF Init
  <2>2. evaluation \in Evaluation /\ turns \in Seq(Turn) /\ reportFile \in BOOLEAN
    <3>1. NoEvaluation \in Evaluation
      BY DEF NoEvaluation, Evaluation
    <3>2. << >> \in Seq(Turn)
      OBVIOUS
    <3>3. turns = << >> /\ evaluation = NoEvaluation /\ reportFile = FALSE
      BY DEF Init
    <3> QED
      BY <3>1, <3>2, <3>3
  <2> QED
    BY <2>1, <2>2, IdleFacts DEF Init, TypeOK
<1>2. Stored = NotPrepared
  BY NoRowFacts, RowFacts DEF Init, Stored, NoRow
<1>3. \A c \in Clients : CopyHolds(c)
  BY IdleFacts DEF Init, CopyHolds, Reading
<1> QED
  BY <1>1, <1>2, <1>3, NoRowFacts DEF IInv, Init, NoEvaluation

-----------------------------------------------------------------------------
(* One lemma per step.                                                     *)

\* Nothing is on file yet, so nobody has read anything.
LEMMA CreateStep ==
  ASSUME IInv, row.state = "absent",
         NEW s \in PreparedFromDocuments \union PreparedFromPosition, Create(s)
  PROVE  IInv' /\ Stored' = s /\ Stored = NotPrepared
<1>1. /\ s \in InterviewSession /\ s.state = "created" /\ s.index = 0
      /\ s.turns = << >> /\ s.evaluation = NoEvaluation /\ s \in AnySession
  BY PreparedFacts DEF InterviewSession, AnySession
<1>2. Stored' = s
  BY <1>1, RowFacts DEF Create, Stored
<1>3. TypeOK'
  BY <1>1, RowFacts DEF IInv, TypeOK, Create, AnySession
<1>4. SessionHolds(s)
  BY <1>1 DEF SessionHolds, AskedInOrder, HasAnswers, Covered, NoEvaluation
<1>5. \A c \in Clients : CopyHolds(c)'
  BY DEF IInv, CopyHolds, Reading, Create
<1>6. row'.state # "absent" /\ ~evaluation'.report
  BY <1>1, RowFacts DEF Create, NoEvaluation
<1> QED
  BY <1>2, <1>3, <1>4, <1>5, <1>6 DEF IInv

\* A caller's own step: the tables stay, so do the copies of the others.
LEMMA CallerStep ==
  ASSUME IInv, NEW c \in Clients, NEW new \in Caller,
         client' = [client EXCEPT ![c] = new], UNCHANGED tables, CopyHolds(c)'
  PROVE  IInv' /\ UNCHANGED Stored
<1>1. TypeOK'
  BY DEF IInv, TypeOK, tables
<1>2. \A d \in Clients : CopyHolds(d)'
  <2>1. SUFFICES ASSUME NEW d \in Clients, d # c PROVE CopyHolds(d)'
    OBVIOUS
  <2>2. client'[d] = client[d]
    BY <2>1 DEF IInv, TypeOK
  <2> QED
    BY <2>2 DEF IInv, CopyHolds, Reading, VersionMatches, tables
<1> QED
  BY <1>1, <1>2 DEF IInv, Stored, tables

\* A caller that is done.
LEMMA ReturnStep ==
  ASSUME IInv, NEW c \in Clients, Returns(c)
  PROVE  /\ CopyHolds(c)'
         /\ client' \in [Clients -> Caller]
         /\ \A d \in Clients : d # c => client'[d] = client[d]
BY IdleFacts DEF IInv, TypeOK, Returns, CopyHolds, Reading

\* A read holds the row as it was committed.
LEMMA ReadStep ==
  ASSUME IInv, NEW c \in Clients,
         (\E op \in Operation : Call(c, op)) \/ GetRow(c) \/ GetTurns(c) \/ GetEvaluation(c)
           \/ ReturnWithoutSaving(c) \/ Fail(c)
  PROVE  IInv' /\ UNCHANGED Stored
<1>. USE DEF IInv, TypeOK
<1>1. /\ client[c] \in Caller /\ row.version \in Nat /\ row.index \in Nat
      /\ CopyHolds(c) /\ turns \in Seq(Turn)
  BY DEF SessionRow
<1>2. ASSUME NEW op \in Operation, Call(c, op)
      PROVE  IInv' /\ UNCHANGED Stored
  <2>. DEFINE new == [Idle EXCEPT !.op = op, !.at = "get_row"]
  <2>1. new \in Caller /\ new.at = "get_row"
    BY IdleFacts DEF Idle
  <2>2. CopyHolds(c)'
    BY <1>2, <2>1 DEF Call, CopyHolds, Reading
  <2> QED
    BY <1>2, <2>1, <2>2, CallerStep DEF Call
<1>3. CASE GetRow(c)
  <2>. DEFINE new == IF row.state = "absent" THEN Idle
                     ELSE [client[c] EXCEPT !.at = "get_turns", !.row = row]
  <2>1. new \in Caller
    BY <1>1, IdleFacts DEF Caller, Stage
  <2>2. client' = [client EXCEPT ![c] = new] /\ client'[c] = new
    BY <1>3 DEF GetRow
  <2>3. CopyHolds(c)'
    <3>1. CASE row.state = "absent"
      BY <2>2, <3>1, IdleFacts DEF CopyHolds, Reading
    <3>2. CASE row.state # "absent"
      <4>1. new.at = "get_turns" /\ new.row = row
        BY <1>1, <3>2 DEF Caller
      <4>2. row.state = "evaluated" => evaluation.made
        BY SessionFromTyped DEF SessionHolds, Covered, Stored
      <4>. HIDE DEF new
      <4> QED
        BY <1>1, <1>3, <2>2, <3>2, <4>1, <4>2 DEF GetRow, tables, CopyHolds, Reading
    <3> QED
      BY <3>1, <3>2
  <2> QED
    BY <1>3, <2>1, <2>2, <2>3, CallerStep DEF GetRow
<1>4. CASE GetTurns(c)
  <2>. DEFINE new == [client[c] EXCEPT !.at = "get_evaluation", !.turns = turns]
  <2>1. new \in Caller /\ new.at = "get_evaluation" /\ new.turns = turns
        /\ new.row = client[c].row
    BY <1>1 DEF Caller, Stage
  <2>2. client' = [client EXCEPT ![c] = new] /\ client'[c] = new
    BY <1>4 DEF GetTurns
  <2>3. HasAnswers(turns, client[c].row.index)
    <3>1. HasAnswers(turns, row.index)
      BY SessionFromTyped DEF SessionHolds, Stored
    <3>2. client[c].row.index <= row.index /\ client[c].row.index \in Nat
      BY <1>1, <1>4 DEF GetTurns, CopyHolds, Reading, Caller, SessionRow
    <3> QED
      BY <1>1, <3>1, <3>2 DEF HasAnswers
  <2>. HIDE DEF new
  <2>4. CopyHolds(c)'
    BY <1>1, <1>4, <2>1, <2>2, <2>3
       DEF GetTurns, tables, CopyHolds, Reading, VersionMatches
  <2> QED
    BY <1>4, <2>1, <2>2, <2>4, CallerStep DEF GetTurns
<1>5. CASE GetEvaluation(c)
  <2>. DEFINE new == [client[c] EXCEPT !.at = "working", !.evaluation = evaluation]
  <2>1. new \in Caller /\ new.at = "working" /\ new.evaluation = evaluation
        /\ new.row = client[c].row /\ new.turns = client[c].turns
    BY <1>1 DEF Caller, Stage
  <2>2. client' = [client EXCEPT ![c] = new] /\ client'[c] = new
    BY <1>5 DEF GetEvaluation
  <2>. HIDE DEF new
  <2>3. CopyHolds(c)'
    BY <1>1, <1>5, <2>1, <2>2
       DEF GetEvaluation, tables, CopyHolds, Reading, VersionMatches
  <2> QED
    BY <1>5, <2>1, <2>2, <2>3, CallerStep DEF GetEvaluation
<1>6. CASE ReturnWithoutSaving(c) \/ Fail(c)
  <2>1. Returns(c) /\ UNCHANGED tables
    BY <1>6 DEF ReturnWithoutSaving, Fail
  <2> QED
    BY <2>1, ReturnStep, IdleFacts, CallerStep DEF Returns
<1> QED
  BY <1>2, <1>3, <1>4, <1>5, <1>6

\* A refused save changes the report's file at most.
LEMMA RefusedStep ==
  ASSUME IInv, NEW c \in Clients, SaveRefused(c)
  PROVE  IInv' /\ UNCHANGED Stored
<1>1. /\ UNCHANGED <<row, turns, evaluation>> /\ Returns(c)
      /\ reportFile' = (reportFile \/ client[c].op = "report")
  BY DEF SaveRefused, ReportWritten
<1>2. TypeOK'
  BY <1>1, ReturnStep DEF IInv, TypeOK
<1>3. \A d \in Clients : CopyHolds(d)'
  <2>1. SUFFICES ASSUME NEW d \in Clients, d # c PROVE CopyHolds(d)'
    BY <1>1, ReturnStep
  <2>2. client'[d] = client[d]
    BY <1>1, <2>1, ReturnStep
  <2> QED
    BY <1>1, <2>2 DEF IInv, CopyHolds, Reading, VersionMatches
<1> QED
  BY <1>1, <1>2, <1>3 DEF IInv, Stored

\* A save that goes through is an operation on the session on file, and every
\* other copy is out of date from then on.
LEMMA SaveStep ==
  ASSUME IInv, NEW c \in Clients, Save(c)
  PROVE  IInv' /\ \E op \in Writing : Stored' \in Outcomes(op, Stored)
<1>. DEFINE op == client[c].op
<1>1. PICK s \in Outcomes(op, CopyOf(c)) :
          /\ row' = RowOf(s, row.version + 1)
          /\ turns' = s.turns
          /\ evaluation' = IF s.evaluation.made THEN s.evaluation ELSE evaluation
  BY DEF Save
<1>2. /\ row \in SessionRow /\ turns \in Seq(Turn) /\ evaluation \in Evaluation
      /\ client[c] \in Caller /\ op \in Operation /\ row.version \in Nat
      /\ row.index \in Nat
  BY DEF IInv, TypeOK, Caller, SessionRow
<1>3. CopyOf(c) = Stored
  BY DEF Save, IInv, CopyHolds, Reading, CopyOf, Stored
<1>4. /\ Stored \in AnySession /\ SessionHolds(Stored)
      /\ Stored.index = row.index /\ Stored.evaluation = evaluation
  BY <1>2, SessionFromTyped DEF IInv, Stored
<1>5. s \in InterviewSession /\ s \in AnySession /\ op \in Writing /\ Does(op, Stored, s)
  BY <1>1, <1>2, <1>3, <1>4, OutcomeFacts DEF InterviewSession, AnySession
<1>6. /\ SessionHolds(s) /\ row.index <= s.index
      /\ evaluation.made => s.evaluation.made
      /\ s.evaluation.made \/ s.evaluation = evaluation
      /\ s.evaluation.report => evaluation.report \/ op = "report"
  BY <1>4, <1>5, OperationHolds
<1>7. evaluation' = s.evaluation
  BY <1>1, <1>6
<1>8. row' = RowOf(s, row.version + 1) /\ turns' = s.turns
  BY <1>1
<1>9. /\ Stored' = s /\ row' \in SessionRow /\ row'.version = row.version + 1
      /\ row'.state = s.state /\ row'.index = s.index /\ row'.state # "absent"
  BY <1>2, <1>5, <1>7, <1>8, RowFacts DEF Stored, InterviewSession, InterviewState
<1>10. /\ Returns(c) /\ reportFile' = (reportFile \/ op = "report")
  BY DEF Save, ReportWritten
<1>11. TypeOK'
  BY <1>5, <1>7, <1>8, <1>9, <1>10, ReturnStep DEF IInv, TypeOK, InterviewSession
<1>12. \A d \in Clients : CopyHolds(d)'
  <2>1. SUFFICES ASSUME NEW d \in Clients, d # c PROVE CopyHolds(d)'
    BY <1>10, ReturnStep
  <2>2. client'[d] = client[d] /\ client[d] \in Caller /\ CopyHolds(d)
    BY <1>10, <2>1, ReturnStep DEF IInv, TypeOK
  <2>3. client[d].row.version \in Nat /\ client[d].row.index \in Nat /\ s.index \in Nat
    BY <1>5, <2>2 DEF Caller, SessionRow, AnySession
  <2>4. CASE Reading(d, {"get_turns", "get_evaluation", "working"})
    <3>1. /\ client[d].row.version < row'.version
          /\ client[d].row.index <= row'.index
          /\ client[d].row.state = "evaluated" => evaluation'.made
      BY <1>2, <1>6, <1>7, <1>9, <2>2, <2>3, <2>4 DEF CopyHolds
    <3>2. ~VersionMatches(d)'
      BY <1>2, <1>9, <2>2, <2>3, <3>1 DEF VersionMatches
    <3>3. client[d].row.version <= row'.version
      BY <1>2, <1>9, <2>3, <3>1
    <3> QED
      BY <1>9, <2>2, <3>1, <3>2, <3>3 DEF CopyHolds, Reading
  <2>5. CASE ~Reading(d, {"get_turns", "get_evaluation", "working"})
    BY <2>2, <2>5 DEF CopyHolds, Reading
  <2> QED
    BY <2>4, <2>5
<1>13. IInv'
  BY <1>6, <1>7, <1>9, <1>10, <1>11, <1>12 DEF IInv
<1> QED
  BY <1>1, <1>3, <1>5, <1>9, <1>13

\* The operations InterviewRecord speaks of are those of the store.
LEMMA SameOperations ==
  /\ Interview!NotPrepared = NotPrepared /\ Interview!Writing = Writing
  /\ Interview!PreparedFromDocuments = PreparedFromDocuments
  /\ Interview!PreparedFromPosition = PreparedFromPosition
  /\ \A op, s : Interview!Outcomes(op, s) = Outcomes(op, s)
<1>1. Interview!Writing = Writing
  BY DEF Interview!Writing, Writing
<1>2. \A p : Interview!NewSession(p) = NewSession(p)
  BY DEF Interview!NewSession, NewSession, Interview!NoEvaluation, NoEvaluation
<1>3. Interview!NotPrepared = NotPrepared
  BY <1>2 DEF Interview!NotPrepared, NotPrepared
<1>4. Interview!PreparedFromDocuments = PreparedFromDocuments
  BY <1>2 DEF Interview!PreparedFromDocuments, PreparedFromDocuments
<1>5. \A p : Interview!PlanFromPositionQuestions(p) = PlanFromPositionQuestions(p)
  BY DEF Interview!PlanFromPositionQuestions, PlanFromPositionQuestions
<1>6. Interview!PreparedFromPosition = PreparedFromPosition
  BY <1>2, <1>5 DEF Interview!PreparedFromPosition, PreparedFromPosition
<1>7. ASSUME NEW op, NEW s
      PROVE  Interview!Outcomes(op, s) = Outcomes(op, s)
  <2>1. /\ Interview!PlanUpdated(s) = PlanUpdated(s)
        /\ Interview!PlanApproved(s) = PlanApproved(s)
        /\ Interview!InterviewStarted(s) = InterviewStarted(s)
        /\ Interview!InterviewEnded(s) = InterviewEnded(s)
        /\ Interview!Evaluated(s) = Evaluated(s)
        /\ Interview!Reported(s) = Reported(s)
    BY DEF Interview!PlanUpdated, PlanUpdated, Interview!PlanApproved, PlanApproved,
       Interview!InterviewStarted, InterviewStarted, Interview!CanStart, CanStart,
       Interview!Started, Started, Interview!InterviewEnded, InterviewEnded,
       Interview!CanEnd, CanEnd, Interview!Ended, Ended, Interview!Evaluated, Evaluated,
       Interview!Reported, Reported, Interview!When, When
  <2>2. Interview!SubmittedAnswers(s) = SubmittedAnswers(s)
    BY DEF Interview!SubmittedAnswers, SubmittedAnswers, Interview!When, When,
       Interview!CanSubmit, CanSubmit, Interview!Answer, Answer,
       Interview!AnswerSubmitted, AnswerSubmitted, Interview!FollowUpAsked, FollowUpAsked,
       Interview!CurrentQuestion, CurrentQuestion, Interview!FollowUpBudget, FollowUpBudget,
       Interview!FollowedUp, FollowedUp, Interview!AnswerRecorded, AnswerRecorded,
       Interview!AdvancedToNextQuestion, AdvancedToNextQuestion
  <2> QED
    BY <2>1, <2>2 DEF Interview!Outcomes, Outcomes
<1> QED
  BY <1>1, <1>3, <1>4, <1>6, <1>7

\* Every step keeps the invariant and is a step of the record, or none.
LEMMA StepHolds ==
  ASSUME IInv, [Next]_vars
  PROVE  IInv' /\ (Interview!Next \/ UNCHANGED Stored)
<1>1. CASE UNCHANGED vars
  BY <1>1 DEF vars, IInv, TypeOK, Stored, CopyHolds, Reading, VersionMatches
<1>2. CASE PrepareInterview \/ PrepareFromPosition
  <2>1. PICK s \in PreparedFromDocuments \union PreparedFromPosition :
             row.state = "absent" /\ Create(s)
    BY <1>2 DEF PrepareInterview, PrepareFromPosition
  <2> QED
    BY <2>1, CreateStep, SameOperations DEF Interview!Next, Interview!Prepares
<1>3. ASSUME NEW c \in Clients, ClientStep(c)
      PROVE  IInv' /\ (Interview!Next \/ UNCHANGED Stored)
  <2>1. CASE Save(c)
    BY <2>1, SaveStep, SameOperations DEF Interview!Next, Interview!Happens
  <2>2. CASE SaveRefused(c)
    BY <2>2, RefusedStep
  <2>3. CASE \/ \E op \in Operation : Call(c, op)
             \/ GetRow(c) \/ GetTurns(c) \/ GetEvaluation(c)
             \/ ReturnWithoutSaving(c) \/ Fail(c)
    BY <2>3, ReadStep
  <2> QED
    BY <1>3, <2>1, <2>2, <2>3 DEF ClientStep
<1> QED
  BY <1>1, <1>2, <1>3 DEF Next

\* The invariant is inductive.
LEMMA InvariantHolds == Spec => []IInv
<1>1. IInv /\ [Next]_vars => IInv'
  BY StepHolds
<1> QED
  BY InitHolds, <1>1, PTL DEF Spec

-----------------------------------------------------------------------------
(* What the runs check, for every store.                                   *)

\* The tables and the callers' copies keep their types: no operation saves a
\* session the next reader could not load.
THEOREM TypeCorrect == Spec => []TypeOK
<1>1. IInv => TypeOK
  BY DEF IInv
<1> QED
  BY InvariantHolds, <1>1, PTL

\* "Two concurrent writers can never both believe they won": the three tables,
\* read in pieces and written much later, are one interview record to which
\* one operation at a time happens (PostgresInterviewSessionStore.save).
THEOREM StoreIsOneRecord == Spec => OneOperationAtATime
<1>1. Init => Interview!Init
  <2>1. Init => Stored = NotPrepared
    BY NoRowFacts, RowFacts DEF Init, Stored, NoRow
  <2> QED
    BY <2>1, SameOperations DEF Interview!Init
<1>2. IInv /\ [Next]_vars => [Interview!Next]_Stored
  BY StepHolds
<1> QED
  BY InvariantHolds, <1>1, <1>2, PTL DEF Spec, OneOperationAtATime, Interview!Spec

\* The transcript follows the plan: its questions in order, each once, each
\* follow-up behind its question (submit_answer, _advance_to_next_question).
THEOREM TranscriptInOrder == Spec => []TranscriptFollowsPlan
<1>1. IInv => TranscriptFollowsPlan
  <2>. SUFFICES ASSUME IInv PROVE TranscriptFollowsPlan
    OBVIOUS
  <2>1. /\ SessionHolds(Stored) /\ Stored.turns = turns /\ Stored.state = row.state
        /\ Stored.index = row.index /\ Stored.pending = row.pending
    BY SessionFromTyped DEF IInv, TypeOK, Stored
  <2> QED
    BY <2>1 DEF SessionHolds, AskedInOrder, LastAsked, TranscriptFollowsPlan
<1> QED
  BY InvariantHolds, <1>1, PTL

\* An evaluation is of the whole transcript, whatever answers were under way
\* when the evaluator read it (evaluate_interview).
THEOREM EvaluationIsOfTheWhole == Spec => []EvaluationCoversTranscript
<1>1. IInv => EvaluationCoversTranscript
  <2>. SUFFICES ASSUME IInv PROVE EvaluationCoversTranscript
    OBVIOUS
  <2>1. /\ SessionHolds(Stored) /\ Stored.turns = turns /\ Stored.state = row.state
        /\ Stored.evaluation = evaluation
    BY SessionFromTyped DEF IInv, TypeOK, Stored
  <2> QED
    BY <2>1 DEF IInv, SessionHolds, Covered, EvaluationCoversTranscript
<1> QED
  BY InvariantHolds, <1>1, PTL

\* A copy read in three statements is never behind itself: an evaluated session
\* has its evaluation, an asked question its answer (get).
THEOREM CopiesHangTogether == Spec => []ReadsHangTogether
<1>1. IInv => ReadsHangTogether
  BY DEF IInv, CopyHolds, Reading, HasAnswers, ReadsHangTogether
<1> QED
  BY InvariantHolds, <1>1, PTL

=============================================================================
