------------------------ MODULE InterviewEngineProofs ------------------------
(***************************************************************************)
(* What an answer makes of a session, in the terms the properties of the   *)
(* session store and of the voice interview need.                          *)
(***************************************************************************)
EXTENDS InterviewEngine, SequenceTheorems, TLAPS

\* A session as the tables hold it, one that is not prepared yet included.
AnySession == [state : InterviewState \union {"absent"}, plan : Seq(Question),
               index : Nat, followUps : Nat, totalFollowUps : Nat,
               pending : Pending, turns : Seq(Turn), evaluation : Evaluation]

Answered(s) == Append(s.turns, [question |-> s.index, isFollowUp |-> s.followUps > 0,
                                asked |-> IF s.pending = "none" THEN "main" ELSE s.pending])

FollowsUp(s, o) == /\ o.state = "in_progress" /\ o.index = s.index
                   /\ o.followUps = s.followUps + 1 /\ o.pending = "follow_up"

Advances(s, o) == /\ o.state = "in_progress" /\ o.index = s.index + 1
                  /\ o.followUps = 0 /\ o.pending = "main"

Completes(s, o) == o.state = "completed" /\ o.index = s.index

Answers(s, o) == /\ s.state = "in_progress"
                 /\ o.turns = Answered(s) /\ o.evaluation = s.evaluation
                 /\ FollowsUp(s, o) \/ Advances(s, o) \/ Completes(s, o)

\* The turn an answer adds is a turn.
LEMMA AnsweredTyped ==
  ASSUME NEW s \in AnySession
  PROVE  Answered(s) \in Seq(Turn)
<1>. DEFINE t == [question |-> s.index, isFollowUp |-> s.followUps > 0,
                  asked |-> IF s.pending = "none" THEN "main" ELSE s.pending]
<1>1. t \in Turn
  BY DEF AnySession, Turn, Pending
<1>2. s.turns \in Seq(Turn)
  BY DEF AnySession
<1>. HIDE DEF t
<1>3. Append(s.turns, t) \in Seq(Turn)
  BY <1>1, <1>2
<1> QED
  BY <1>3 DEF Answered, t

\* A follow-up, and the question after it.
LEMMA EngineTyped ==
  ASSUME NEW r \in AnySession, r.state = "in_progress"
  PROVE  /\ FollowedUp(r) \in InterviewSession
         /\ AdvancedToNextQuestion(r) \in InterviewSession
<1>1. r \in InterviewSession
  BY DEF AnySession, InterviewSession, InterviewState
<1>2. r.followUps + 1 \in Nat /\ r.totalFollowUps + 1 \in Nat /\ r.index + 1 \in Nat
  BY DEF AnySession
<1>3. FollowedUp(r) \in InterviewSession
  BY <1>1, <1>2 DEF FollowedUp, InterviewSession, Pending
<1>4. AdvancedToNextQuestion(r) \in InterviewSession
  BY <1>1, <1>2 DEF AdvancedToNextQuestion, InterviewSession, InterviewState, Pending
<1> QED
  BY <1>3, <1>4

\* The two things an answer may lead to.
LEMMA SubmittedFacts ==
  ASSUME NEW s \in AnySession, s.state = "in_progress",
         NEW answer, NEW hinted, NEW proposed,
         NEW o, o = AnswerSubmitted(s, answer, hinted, proposed)
  PROVE  o \in InterviewSession /\ Answers(s, o)
<1>. DEFINE r == AnswerRecorded(s)
<1>1. /\ r \in AnySession /\ r.state = "in_progress" /\ r.turns = Answered(s)
      /\ r.index = s.index /\ r.followUps = s.followUps /\ r.evaluation = s.evaluation
  BY AnsweredTyped DEF AnswerRecorded, Answered, AnySession
<1>2. o = FollowedUp(r) \/ o = AdvancedToNextQuestion(r)
  BY DEF AnswerSubmitted
<1>. HIDE DEF r
<1>3. CASE o = FollowedUp(r)
  <2>1. o \in InterviewSession
    BY <1>1, <1>3, EngineTyped
  <2>2. /\ o.turns = r.turns /\ o.evaluation = r.evaluation /\ o.index = r.index
        /\ o.state = r.state /\ o.followUps = r.followUps + 1 /\ o.pending = "follow_up"
    BY <1>1, <1>3 DEF FollowedUp, AnySession
  <2> QED
    BY <1>1, <2>1, <2>2 DEF Answers, FollowsUp
<1>4. CASE o = AdvancedToNextQuestion(r)
  <2>1. o \in InterviewSession
    BY <1>1, <1>4, EngineTyped
  <2>2. /\ o.turns = r.turns /\ o.evaluation = r.evaluation
        /\ \/ o.state = "completed" /\ o.index = r.index
           \/ /\ o.state = r.state /\ o.index = r.index + 1
              /\ o.followUps = 0 /\ o.pending = "main"
    BY <1>1, <1>4 DEF AdvancedToNextQuestion, AnySession
  <2> QED
    BY <1>1, <2>1, <2>2 DEF Answers, Advances, Completes
<1> QED
  BY <1>2, <1>3, <1>4

\* The transcript an answer leaves.
LEMMA AnsweredFacts ==
  ASSUME NEW s \in AnySession
  PROVE  /\ Len(Answered(s)) = Len(s.turns) + 1
         /\ \A i \in DOMAIN s.turns : i \in DOMAIN Answered(s) /\ Answered(s)[i] = s.turns[i]
         /\ \A i \in DOMAIN Answered(s) : i \in DOMAIN s.turns \/ i = Len(s.turns) + 1
         /\ Answered(s)[Len(s.turns) + 1].question = s.index
         /\ Answered(s)[Len(s.turns) + 1].isFollowUp = (s.followUps > 0)
         /\ Answered(s)[Len(s.turns) + 1].asked =
               IF s.pending = "none" THEN "main" ELSE s.pending
         /\ Len(s.turns) \in Nat /\ DOMAIN s.turns = 1..Len(s.turns)
         /\ DOMAIN Answered(s) = 1..(Len(s.turns) + 1)
<1>. DEFINE t == [question |-> s.index, isFollowUp |-> s.followUps > 0,
                  asked |-> IF s.pending = "none" THEN "main" ELSE s.pending]
<1>1. t \in Turn
  BY DEF AnySession, Turn, Pending
<1>2. s.turns \in Seq(Turn)
  BY DEF AnySession
<1>3. /\ t.question = s.index /\ t.isFollowUp = (s.followUps > 0)
      /\ t.asked = IF s.pending = "none" THEN "main" ELSE s.pending
  OBVIOUS
<1>4. Answered(s) = Append(s.turns, t)
  BY DEF Answered
<1>. HIDE DEF t
<1> QED
  BY <1>1, <1>2, <1>3, <1>4

=============================================================================
