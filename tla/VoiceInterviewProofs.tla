------------------------ MODULE VoiceInterviewProofs ------------------------
(***************************************************************************)
(* One voice job, for any plan, any number of tool calls under way at once *)
(* and any number of turns: its types, its one closing, its nudges, and    *)
(* what its director believes of the interview.                            *)
(***************************************************************************)
EXTENDS VoiceInterview, InterviewEngineProofs

\* The job's own coroutines are none of the model's tool calls.
LEMMA Coroutines ==
  /\ "enter" \in Coroutine /\ "end" \in Coroutine /\ "teardown" \in Coroutine
  /\ "enter" \notin ToolCalls /\ "end" \notin ToolCalls /\ "teardown" \notin ToolCalls
  /\ ToolCalls \subseteq Coroutine
BY VoiceAssumption DEF Coroutine

\* An interview that has been started, over or not.
Begun(s) == s.state \in {"in_progress", "completed"}

\* A copy about to be saved is the session on file while the version is the
\* same; what a coroutine has saved, the session on file has reached.
CopyHolds(c) ==
    /\ At(c, "save") => /\ call[c].version <= version
                        /\ call[c].version = version => call[c].session = session
    /\ At(c, "saved") =>
          /\ Begun(session)
          /\ c \in ToolCalls =>
                /\ call[c].session.index <= session.index
                /\ call[c].session.state = "completed" => session.state = "completed"
          /\ c \in {"end", "teardown"} => session.state = "completed"

\* end_interview between its claim of the closing and the closing.
EndBusy == call["end"].at \in {"read", "save", "saved", "refused"}

ClosingsHold ==
    /\ agent.closings <= 1 /\ agent.notices <= agent.closings
    /\ agent.claimed => idle.closed
    /\ ~agent.claimed => agent.closings = 0
    /\ EndBusy => agent.claimed /\ agent.closings = 0
    /\ \A c \in Coroutine : At(c, "closing") =>
          /\ agent.closings = 1 /\ agent.notices = 0
          /\ \A d \in Coroutine : At(d, "closing") => d = c

EngineHolds == DirectorFollowsEngine /\ \A c \in Coroutine : CopyHolds(c)

IInv == TypeOK /\ EngineHolds /\ ClosingsHold

-----------------------------------------------------------------------------
(* The watchdog.                                                           *)

\* A handler spends no nudge and never opens a watchdog that is closed.
Quiet(w, new) == /\ new \in Idle /\ (w.closed => new.closed)
                 /\ new.nudges = w.nudges \/ new.nudges = 0

\* Every call into the watchdog but the timer's leaves it quiet.
LEMMA WatchdogFacts ==
  ASSUME NEW w \in Idle, NEW over, NEW state
  PROVE  /\ Quiet(w, w) /\ Quiet(w, TimerCancelled(w))
         /\ Quiet(w, Closed(w)) /\ Closed(w).closed
         /\ Quiet(w, BudgetReset(w)) /\ Quiet(w, Closed(BudgetReset(w)))
         /\ Closed(BudgetReset(w)).closed
         /\ Quiet(w, OnAgentState(w, state, over))
         /\ Quiet(w, OnUserState(w, state))
<1>1. 0 \in 0..MaxNudgesPerQuestion
  BY DEF MaxNudgesPerQuestion
<1>2. Quiet(w, w) /\ Quiet(w, TimerCancelled(w))
  BY DEF Quiet, TimerCancelled, Idle
<1>3. /\ Quiet(w, Closed(w)) /\ Closed(w).closed
  BY DEF Quiet, Closed, Idle
<1>4. Quiet(w, BudgetReset(w)) /\ Quiet(w, Closed(BudgetReset(w))) /\ Closed(BudgetReset(w)).closed
  BY <1>1 DEF Quiet, BudgetReset, Closed, Idle
<1>5. Quiet(w, OnAgentState(w, state, over))
  <2>1. Quiet(w, [w EXCEPT !.timer = TRUE])
    BY DEF Quiet, Idle
  <2> QED
    BY <1>2, <2>1 DEF OnAgentState, Armed
<1>6. Quiet(w, OnUserState(w, state))
  BY <1>2, <1>4 DEF OnUserState
<1> QED
  BY <1>2, <1>3, <1>4, <1>5, <1>6

\* What the events of the session do to its state.
LEMMA EarFacts ==
  ASSUME VoiceTypeOK, NEW over, NEW state \in AgentState,
         AgentBecomes(state, over) \/ UserSpeaks \/ UserPauses
  PROVE  ear' \in Ear /\ Quiet(idle, idle')
<1>1. ear \in Ear /\ idle \in Idle
  BY DEF VoiceTypeOK
<1>2. CASE AgentBecomes(state, over)
  <2>1. ear' \in Ear
    BY <1>1, <1>2 DEF AgentBecomes, Ear
  <2>2. Quiet(idle, idle')
    BY <1>1, <1>2, WatchdogFacts DEF AgentBecomes
  <2> QED
    BY <2>1, <2>2
<1>3. CASE UserSpeaks
  <2>1. ear' \in Ear
    BY <1>1, <1>3 DEF UserSpeaks, Ear
  <2>2. Quiet(idle, idle')
    BY <1>1, <1>3, WatchdogFacts DEF UserSpeaks
  <2> QED
    BY <2>1, <2>2
<1>4. CASE UserPauses
  <2>1. ear' \in Ear
    BY <1>1, <1>4 DEF UserPauses, Ear
  <2>2. Quiet(idle, idle')
    BY <1>1, <1>4, WatchdogFacts DEF UserPauses
  <2> QED
    BY <2>1, <2>2
<1> QED
  BY <1>2, <1>3, <1>4

\* The timer, when it fires, nudges only when it may.
LEMMA TimerFacts ==
  ASSUME VoiceTypeOK, NEW over, TimerFires(over)
  PROVE  /\ VoiceTypeOK' /\ (idle.closed => idle'.closed)
         /\ Nudged => MayNudge(over)
<1>1. ear \in Ear /\ idle \in Idle
  BY DEF VoiceTypeOK
<1>2. CASE MayNudge(over)
  <2>1. idle.nudges + 1 \in 0..MaxNudgesPerQuestion
    BY <1>1, <1>2 DEF MayNudge, BudgetSpent, Idle, MaxNudgesPerQuestion
  <2>2. ear' \in Ear
    BY <1>1, <1>2 DEF TimerFires, Ear, AgentState
  <2> QED
    BY <1>1, <1>2, <2>1, <2>2 DEF TimerFires, VoiceTypeOK, Idle
<1>3. CASE ~MayNudge(over)
  <2>1. idle' = TimerCancelled(idle) /\ ear' = ear
    BY <1>3 DEF TimerFires
  <2>2. idle'.nudges = idle.nudges /\ idle.nudges \in Nat
    BY <1>1, <2>1 DEF TimerCancelled, Idle, MaxNudgesPerQuestion
  <2> QED
    BY <1>1, <2>1, <2>2, WatchdogFacts DEF VoiceTypeOK, Nudged, Quiet
<1> QED
  BY <1>2, <1>3

-----------------------------------------------------------------------------
(* Steps of one kind.                                                      *)

\* A tool call that is not under way.
LEMMA NotCalledFacts ==
  /\ NotCalled \in Call /\ NotCalled.at = "idle"
  /\ \A stage \in Stage : /\ [NotCalled EXCEPT !.at = stage] \in Call
                          /\ [NotCalled EXCEPT !.at = stage].at = stage
<1>1. NewSession(Plan) \in InterviewSession
  BY VoiceAssumption DEF NewSession, InterviewSession, InterviewState, Pending, Evaluation,
     NoEvaluation
<1>2. NotCalled \in Call /\ NotCalled.at = "idle"
  BY <1>1 DEF NotCalled, Call, Stage
<1> QED
  BY <1>2 DEF Call

\* The initial states satisfy the invariant.
LEMMA InitHolds == Init => IInv
<1>. SUFFICES ASSUME Init PROVE IInv
  OBVIOUS
<1>1. session \in InterviewSession
  <2>1. NewSession(Plan) \in InterviewSession
    BY VoiceAssumption DEF NewSession, InterviewSession, InterviewState, Pending, Evaluation,
       NoEvaluation
  <2> QED
    BY <2>1 DEF Init, InterviewSession, InterviewState
<1>2. director \in Director /\ agent \in Agent
  BY VoiceAssumption DEF Init, Director, Agent
<1>3. call \in [Coroutine -> Call] /\ \A c \in Coroutine : call[c].at = "idle"
  BY NotCalledFacts DEF Init
<1>4. VoiceTypeOK
  BY DEF Init, VoiceInit, VoiceTypeOK, Ear, AgentState, Idle, MaxNudgesPerQuestion
<1>5. TypeOK
  BY <1>1, <1>2, <1>3, <1>4 DEF Init, TypeOK
<1>6. EngineHolds
  BY <1>3 DEF Init, EngineHolds, DirectorFollowsEngine, CopyHolds, At
<1>7. ClosingsHold
  BY <1>3, Coroutines DEF Init, ClosingsHold, EndBusy, At
<1> QED
  BY <1>5, <1>6, <1>7 DEF IInv

\* The conversation moves, the job does not.
LEMMA VoiceMoves ==
  ASSUME IInv, UNCHANGED jobVars, VoiceTypeOK', idle.closed => idle'.closed
  PROVE  IInv'
<1>1. TypeOK'
  BY DEF IInv, TypeOK, jobVars
<1>2. EngineHolds'
  BY DEF IInv, EngineHolds, DirectorFollowsEngine, CopyHolds, At, Begun, jobVars
<1>3. ClosingsHold'
  BY DEF IInv, ClosingsHold, EndBusy, At, jobVars
<1> QED
  BY <1>1, <1>2, <1>3 DEF IInv

\* A coroutine moves, to where nothing depends on it yet.
LEMMA CallMoves ==
  ASSUME IInv, NEW c \in Coroutine, NEW new \in Call,
         new.at \notin {"saved", "closing"},
         new.at = "save" => /\ new.version <= version
                            /\ new.version = version => new.session = session,
         c = "end" => new.at \notin {"read", "save", "saved", "refused"} \/ EndBusy,
         call' = [call EXCEPT ![c] = new],
         UNCHANGED <<session, version, director, agent, answers>>,
         VoiceTypeOK', idle.closed => idle'.closed
  PROVE  IInv'
<1>1. call \in [Coroutine -> Call]
  BY DEF IInv, TypeOK
<1>2. call'[c] = new /\ \A d \in Coroutine : d # c => call'[d] = call[d]
  BY <1>1
<1>3. TypeOK'
  BY <1>1 DEF IInv, TypeOK
<1>4. EngineHolds'
  <2>1. DirectorFollowsEngine'
    BY DEF IInv, EngineHolds, DirectorFollowsEngine
  <2>2. CopyHolds(c)'
    BY <1>2 DEF CopyHolds, At
  <2>3. ASSUME NEW d \in Coroutine, d # c PROVE CopyHolds(d)'
    BY <1>2, <2>3 DEF IInv, EngineHolds, CopyHolds, At, Begun
  <2> QED
    BY <2>1, <2>2, <2>3 DEF EngineHolds
<1>5. ClosingsHold'
  <2>1. EndBusy' => EndBusy
    BY <1>2, Coroutines DEF EndBusy
  <2>2. \A d \in Coroutine : At(d, "closing")' => At(d, "closing")
    BY <1>2 DEF At
  <2> QED
    BY <2>1, <2>2 DEF IInv, ClosingsHold
<1> QED
  BY <1>3, <1>4, <1>5 DEF IInv

-----------------------------------------------------------------------------
(* The steps, one after the other.                                         *)

\* Speech, silence and the timer keep the invariant.
LEMMA Conversation ==
  ASSUME IInv, AgentStateChanges \/ CandidateSpeaks \/ CandidatePauses \/ IdleTimerFires
  PROVE  IInv'
<1>1. VoiceTypeOK
  BY DEF IInv, TypeOK
<1>2. UNCHANGED jobVars
  BY DEF AgentStateChanges, CandidateSpeaks, CandidatePauses, IdleTimerFires
<1>3. CASE AgentStateChanges \/ CandidateSpeaks \/ CandidatePauses
  <2>1. ear' \in Ear /\ Quiet(idle, idle')
    <3>1. {"speaking", "listening"} \subseteq AgentState
      BY DEF AgentState
    <3> QED
      BY <1>1, <1>3, <3>1, EarFacts DEF AgentStateChanges, CandidateSpeaks, CandidatePauses
  <2> QED
    BY <1>2, <2>1, VoiceMoves DEF Quiet, VoiceTypeOK
<1>4. CASE IdleTimerFires
  <2>1. VoiceTypeOK' /\ (idle.closed => idle'.closed)
    BY <1>1, <1>4, TimerFacts DEF IdleTimerFires
  <2> QED
    BY <1>2, <2>1, VoiceMoves
<1> QED
  BY <1>3, <1>4

\* What a coroutine does that neither saves, nor tells the director, nor says
\* the closing.
LEMMA Bookkeeping ==
  ASSUME IInv,
         \/ OpeningSpoken \/ EnterRoom \/ StartRaises
         \/ \E c \in Coroutine : ThreadReads(c) \/ ThreadRaises(c) \/ NextQuestionRaises(c)
         \/ \E c \in ToolCalls : CallNextQuestion(c)
  PROVE  IInv'
<1>1. /\ VoiceTypeOK /\ ear \in Ear /\ idle \in Idle /\ version \in Nat
      /\ session \in InterviewSession /\ director \in Director
      /\ call \in [Coroutine -> Call]
  BY DEF IInv, TypeOK, VoiceTypeOK
<1>. USE Coroutines
<1>2. CASE OpeningSpoken \/ EnterRoom
  <2>1. PICK stage \in {"read", "opening"}, state \in {"listening", "speaking"} :
          /\ call' = [call EXCEPT !["enter"].at = stage]
          /\ AgentBecomes(state, IsFinished)
          /\ UNCHANGED <<session, version, director, agent, answers>>
    BY <1>2 DEF OpeningSpoken, EnterRoom
  <2>2. ear' \in Ear /\ Quiet(idle, idle')
    <3>1. state \in AgentState
      BY DEF AgentState
    <3> QED
      BY <1>1, <2>1, <3>1, EarFacts
  <2>. DEFINE new == [call["enter"] EXCEPT !.at = stage]
  <2>3. new \in Call /\ new.at = stage
    BY <1>1 DEF Call, Stage
  <2>4. call' = [call EXCEPT !["enter"] = new]
    BY <2>1
  <2>. HIDE DEF new
  <2> QED
    BY <2>1, <2>2, <2>3, <2>4, CallMoves DEF Quiet, VoiceTypeOK
<1>3. CASE StartRaises \/ \E c \in Coroutine : NextQuestionRaises(c)
  <2>1. PICK c \in Coroutine : /\ c # "end" /\ call' = Finished(c)
                               /\ UNCHANGED <<session, version, director, agent, answers, ear, idle>>
    BY <1>3 DEF StartRaises, NextQuestionRaises
  <2>2. [NotCalled EXCEPT !.at = "done"] \in Call /\ [NotCalled EXCEPT !.at = "done"].at = "done"
    BY NotCalledFacts DEF Stage
  <2> QED
    BY <1>1, <2>1, <2>2, CallMoves DEF Finished, VoiceTypeOK
<1>4. ASSUME NEW c \in Coroutine, ThreadReads(c)
      PROVE  IInv'
  <2>. DEFINE new == [call[c] EXCEPT !.at = "save", !.session = session, !.version = version]
  <2>1. /\ new \in Call /\ new.at = "save" /\ new.version = version /\ new.session = session
    BY <1>1 DEF Call, Stage
  <2>2. call' = [call EXCEPT ![c] = new]
    BY <1>4 DEF ThreadReads
  <2>3. c = "end" => EndBusy
    BY <1>4 DEF ThreadReads, At, EndBusy
  <2>4. UNCHANGED <<session, version, director, agent, answers, ear, idle>>
    BY <1>4 DEF ThreadReads
  <2>5. new.version <= version
    BY <1>1, <2>1
  <2>. HIDE DEF new
  <2> QED
    BY <1>1, <2>1, <2>2, <2>3, <2>4, <2>5, CallMoves DEF VoiceTypeOK
<1>5. ASSUME NEW c \in Coroutine, ThreadRaises(c)
      PROVE  IInv'
  <2>. DEFINE new == [NotCalled EXCEPT !.at = "refused"]
  <2>1. new \in Call /\ new.at = "refused"
    BY NotCalledFacts DEF Stage
  <2>2. c = "end" => EndBusy
    BY <1>5 DEF ThreadRaises, At, EndBusy
  <2>3. call' = [call EXCEPT ![c] = new]
    BY <1>5 DEF ThreadRaises
  <2>4. UNCHANGED <<session, version, director, agent, answers, ear, idle>>
    BY <1>5 DEF ThreadRaises
  <2>. HIDE DEF new
  <2> QED
    BY <1>1, <2>4, <2>1, <2>2, <2>3, CallMoves DEF ThreadRaises, VoiceTypeOK
<1>6. ASSUME NEW c \in ToolCalls, CallNextQuestion(c)
      PROVE  IInv'
  <2>. DEFINE new == [NotCalled EXCEPT !.at = "read", !.answer = director.buffer]
  <2>1. new \in Call /\ new.at = "read"
    BY <1>1, NotCalledFacts DEF Stage, Call, Director
  <2>2. call' = [call EXCEPT ![c] = new]
    BY <1>6 DEF CallNextQuestion
  <2>. HIDE DEF new
  <2> QED
    BY <1>1, <1>6, <2>1, <2>2, CallMoves DEF CallNextQuestion, VoiceTypeOK
<1> QED
  BY <1>2, <1>3, <1>4, <1>5, <1>6

\* A coroutine whose copy is of no more use to it.
LEMMA CopyDropped ==
  ASSUME IInv, NEW c \in Coroutine, NEW new \in Call, new.at \notin {"save", "saved"},
         call' = [call EXCEPT ![c] = new], UNCHANGED <<session, version>>
  PROVE  /\ call' \in [Coroutine -> Call]
         /\ call'[c] = new /\ \A d \in Coroutine : d # c => call'[d] = call[d]
         /\ \A d \in Coroutine : CopyHolds(d)'
<1>1. call \in [Coroutine -> Call]
  BY DEF IInv, TypeOK
<1>2. call'[c] = new /\ \A d \in Coroutine : d # c => call'[d] = call[d]
  BY <1>1
<1>3. ASSUME NEW d \in Coroutine PROVE CopyHolds(d)'
  <2>1. CASE d = c
    BY <1>2, <2>1 DEF CopyHolds, At
  <2>2. CASE d # c
    BY <1>2, <2>2 DEF IInv, EngineHolds, CopyHolds, At, Begun
  <2> QED
    BY <2>1, <2>2
<1> QED
  BY <1>1, <1>2, <1>3

\* A tool call that has ended.
LEMMA DoneFacts ==
  /\ [NotCalled EXCEPT !.at = "done"] \in Call /\ [NotCalled EXCEPT !.at = "done"].at = "done"
  /\ [NotCalled EXCEPT !.at = "closing"] \in Call
  /\ [NotCalled EXCEPT !.at = "closing"].at = "closing"
BY NotCalledFacts DEF Stage

\* The engine's operation of a coroutine, on the session on file.
LEMMA OperatedFacts ==
  ASSUME NEW c \in Coroutine, call[c].session = session, session \in InterviewSession,
         NEW s \in Operated(c)
  PROVE  /\ s \in InterviewSession /\ Begun(s)
         /\ session.state \in {"ready", "in_progress"}
         /\ session.state = "in_progress" => session.index <= s.index
         /\ c \in {"end", "teardown"} => s.state = "completed"
<1>. USE Coroutines
<1>1. CASE c = "enter"
  <2>1. session.state = "ready" /\ s = Started(session)
    BY <1>1 DEF Operated, CanStart
  <2> QED
    BY <1>1, <2>1 DEF Started, InterviewSession, InterviewState, Pending, Begun
<1>2. CASE c \in ToolCalls
  <2>1. PICK asks \in BOOLEAN :
          /\ session.state = "in_progress"
          /\ s = AnswerSubmitted(session, "substantive", FALSE, asks)
    BY <1>2 DEF Operated, CanSubmit
  <2>2. session \in AnySession
    BY DEF AnySession, InterviewSession
  <2>3. s \in InterviewSession /\ Answers(session, s)
    BY <2>1, <2>2, SubmittedFacts
  <2>4. session.index \in Nat
    BY DEF InterviewSession
  <2>5. Begun(s) /\ session.index <= s.index
    BY <2>3, <2>4 DEF Answers, FollowsUp, Advances, Completes, Begun
  <2>6. c \notin {"end", "teardown"}
    BY <1>2
  <2> QED
    BY <2>1, <2>3, <2>5, <2>6
<1>3. CASE c \in {"end", "teardown"}
  <2>1. session.state = "in_progress" /\ s = Ended(session)
    BY <1>3 DEF Operated, CanEnd
  <2>2. /\ s \in InterviewSession /\ s.state = "completed" /\ s.index = session.index
        /\ session.index \in Nat
    BY <2>1 DEF Ended, InterviewSession, InterviewState, Pending
  <2> QED
    BY <2>1, <2>2 DEF Begun
<1> QED
  BY <1>1, <1>2, <1>3 DEF Coroutine

\* The session on file moves forward; every other copy is out of date then.
LEMMA SessionMoves ==
  ASSUME IInv, session' \in InterviewSession, Begun(session'), version' = version + 1,
         session.state \in {"ready", "in_progress"},
         session.state = "in_progress" => session.index <= session'.index,
         UNCHANGED director
  PROVE  /\ DirectorFollowsEngine'
         /\ \A d \in Coroutine : call'[d] = call[d] => CopyHolds(d)'
<1>1. /\ version \in Nat /\ call \in [Coroutine -> Call] /\ session.index \in Nat
      /\ session'.index \in Nat /\ director.index \in Nat
  BY DEF IInv, TypeOK, InterviewSession, Director
<1>2. DirectorFollowsEngine'
  BY <1>1 DEF IInv, EngineHolds, DirectorFollowsEngine, Begun
<1>3. ASSUME NEW d \in Coroutine, call'[d] = call[d] PROVE CopyHolds(d)'
  <2>1. call[d].version \in Nat /\ call[d].session.index \in Nat /\ CopyHolds(d)
    BY <1>1 DEF Call, InterviewSession, IInv, EngineHolds
  <2> QED
    BY <1>1, <1>3, <2>1 DEF CopyHolds, At, Begun
<1> QED
  BY <1>2, <1>3

\* Saving the answer keeps the invariant.
LEMMA Saving ==
  ASSUME IInv, NEW c \in Coroutine, ThreadSaves(c)
  PROVE  IInv'
<1>1. /\ VoiceTypeOK /\ version \in Nat /\ session \in InterviewSession
      /\ director \in Director /\ agent \in Agent
      /\ call \in [Coroutine -> Call] /\ answers \in Seq(Seq(1..MaxUtterances))
  BY DEF IInv, TypeOK
<1>2. call[c].session = session /\ At(c, "save")
  BY DEF ThreadSaves, IInv, EngineHolds, CopyHolds
<1>3. PICK s \in Operated(c) :
        session' = s /\ call' = [call EXCEPT ![c].at = "saved", ![c].session = s]
  BY DEF ThreadSaves
<1>4. /\ version' = version + 1 /\ UNCHANGED <<director, agent, ear, idle>>
      /\ answers' = IF c \in ToolCalls THEN Append(answers, call[c].answer) ELSE answers
  BY DEF ThreadSaves
<1>5. /\ s \in InterviewSession /\ Begun(s)
      /\ session.state \in {"ready", "in_progress"}
      /\ session.state = "in_progress" => session.index <= s.index
      /\ c \in {"end", "teardown"} => s.state = "completed"
  BY <1>1, <1>2, OperatedFacts
<1>6. /\ call'[c].at = "saved" /\ call'[c].session = s /\ call' \in [Coroutine -> Call]
      /\ \A d \in Coroutine : d # c => call'[d] = call[d]
  BY <1>1, <1>3, <1>5 DEF Call, Stage
<1>7. TypeOK'
  <2>1. call[c].answer \in Seq(1..MaxUtterances)
    BY <1>1 DEF Call
  <2>2. answers' \in Seq(Seq(1..MaxUtterances))
    <3>1. Append(answers, call[c].answer) \in Seq(Seq(1..MaxUtterances))
      BY <1>1, <2>1, AppendProperties
    <3> QED
      BY <1>1, <1>4, <3>1
  <2> QED
    BY <1>1, <1>3, <1>4, <1>5, <1>6, <2>2 DEF TypeOK, VoiceTypeOK
<1>8. EngineHolds'
  <2>1. /\ DirectorFollowsEngine'
        /\ \A d \in Coroutine : call'[d] = call[d] => CopyHolds(d)'
    BY <1>3, <1>4, <1>5, SessionMoves
  <2>2. CopyHolds(c)'
    <3>1. s.index <= s.index
      BY <1>5 DEF InterviewSession
    <3> QED
      BY <1>3, <1>5, <1>6, <3>1 DEF CopyHolds, At
  <2> QED
    BY <1>6, <2>1, <2>2 DEF EngineHolds
<1>9. ClosingsHold'
  <2>1. EndBusy' <=> EndBusy
    BY <1>2, <1>6, Coroutines DEF EndBusy, At
  <2>2. \A d \in Coroutine : At(d, "closing")' => At(d, "closing")
    BY <1>6 DEF At
  <2> QED
    BY <1>4, <2>1, <2>2 DEF IInv, ClosingsHold
<1> QED
  BY <1>7, <1>8, <1>9 DEF IInv

\* The transport in its own process.
LEMMA Transport ==
  ASSUME IInv, TransportEnds
  PROVE  IInv'
<1>1. session \in InterviewSession /\ version \in Nat
  BY DEF IInv, TypeOK
<1>2. /\ session.state = "in_progress" /\ session' = Ended(session) /\ version' = version + 1
      /\ UNCHANGED <<director, agent, call, answers, ear, idle>>
  BY DEF TransportEnds, CanEnd
<1>3. /\ session' \in InterviewSession /\ Begun(session') /\ session'.index = session.index
      /\ session.index \in Nat
  BY <1>1, <1>2 DEF Ended, InterviewSession, InterviewState, Pending, Begun
<1>4. EngineHolds'
  <2>1. session.index <= session'.index
    BY <1>3
  <2>2. /\ DirectorFollowsEngine'
        /\ \A d \in Coroutine : call'[d] = call[d] => CopyHolds(d)'
    BY <1>2, <1>3, <2>1, SessionMoves
  <2> QED
    BY <1>2, <2>2 DEF EngineHolds
<1>5. TypeOK' /\ ClosingsHold'
  BY <1>1, <1>2, <1>3 DEF IInv, TypeOK, VoiceTypeOK, ClosingsHold, EndBusy, At
<1> QED
  BY <1>4, <1>5 DEF IInv

\* The interview is started, or the candidate's words are kept.
LEMMA DirectorHears ==
  ASSUME IInv, StartReturns \/ UserTurnCompleted
  PROVE  IInv'
<1>1. /\ VoiceTypeOK /\ ear \in Ear /\ idle \in Idle /\ director \in Director
      /\ call \in [Coroutine -> Call]
  BY DEF IInv, TypeOK, VoiceTypeOK
<1>2. CASE StartReturns
  <2>1. /\ call' \in [Coroutine -> Call] /\ call'["enter"].at = "done"
        /\ \A d \in Coroutine : d # "enter" => call'[d] = call[d]
        /\ \A d \in Coroutine : CopyHolds(d)'
    BY <1>2, Coroutines, DoneFacts, CopyDropped DEF StartReturns, Finished
  <2>2. VoiceTypeOK' /\ (idle.closed => idle'.closed)
    BY <1>1, <1>2, WatchdogFacts DEF StartReturns, VoiceTypeOK, Ear, AgentState, Quiet
  <2>3. director' \in Director
    <3>1. << >> \in Seq(1..MaxUtterances)
      OBVIOUS
    <3>2. director' = [director EXCEPT !.current = "question", !.index = 0, !.buffer = << >>]
      BY <1>2 DEF StartReturns
    <3> QED
      BY <1>1, <3>1, <3>2 DEF Director
  <2>4. DirectorFollowsEngine'
    <3>1. Begun(session) /\ session.index \in Nat
      BY <1>2, Coroutines DEF StartReturns, IInv, TypeOK, InterviewSession, EngineHolds, CopyHolds
    <3>2. director'.completed = director.completed /\ director'.index = 0
      BY <1>1, <1>2 DEF StartReturns, Director
    <3> QED
      BY <1>2, <3>1, <3>2 DEF StartReturns, IInv, EngineHolds, DirectorFollowsEngine, Begun
  <2>5. ClosingsHold'
    <3>1. EndBusy' <=> EndBusy
      BY <2>1, Coroutines DEF EndBusy
    <3>2. \A d \in Coroutine : At(d, "closing")' => At(d, "closing")
      BY <2>1 DEF At
    <3> QED
      BY <1>2, <2>2, <3>1, <3>2 DEF StartReturns, IInv, ClosingsHold
  <2> QED
    BY <1>2, <2>1, <2>2, <2>3, <2>4, <2>5 DEF StartReturns, IInv, TypeOK, EngineHolds
<1>3. CASE UserTurnCompleted
  <2>1. VoiceTypeOK' /\ (idle.closed => idle'.closed)
    BY <1>1, <1>3, WatchdogFacts DEF UserTurnCompleted, VoiceTypeOK, Ear, AgentState, Quiet
  <2>2. /\ director' \in Director /\ director'.completed = director.completed
        /\ director'.current = director.current /\ director'.index = director.index
    <3>1. CASE director.terminating
      BY <1>1, <1>3, <3>1 DEF UserTurnCompleted
    <3>2. CASE ~director.terminating
      <4>1. director.heard + 1 \in 1..MaxUtterances
        BY <1>1, <1>3, VoiceAssumption DEF UserTurnCompleted, Director
      <4>2. Append(director.buffer, director.heard + 1) \in Seq(1..MaxUtterances)
        BY <1>1, <4>1 DEF Director
      <4> QED
        <5>1. director.heard + 1 \in 0..MaxUtterances
          BY <4>1
        <5>2. director' = [director EXCEPT !.heard = director.heard + 1,
                             !.buffer = Append(director.buffer, director.heard + 1)]
          BY <1>3, <3>2 DEF UserTurnCompleted
        <5> QED
          BY <1>1, <4>2, <5>1, <5>2 DEF Director
    <3> QED
      BY <3>1, <3>2
  <2>3. UNCHANGED <<session, version, agent, call, answers>>
    BY <1>3 DEF UserTurnCompleted
  <2>4. TypeOK'
    BY <2>1, <2>2, <2>3 DEF IInv, TypeOK
  <2>5. EngineHolds'
    BY <2>2, <2>3 DEF IInv, EngineHolds, DirectorFollowsEngine, CopyHolds, At, Begun
  <2>6. ClosingsHold'
    BY <2>1, <2>3 DEF IInv, ClosingsHold, EndBusy, At
  <2> QED
    BY <2>4, <2>5, <2>6 DEF IInv
<1> QED
  BY <1>2, <1>3

\* The agent's counts, before and after.
SaysOne(a, new) == /\ new \in Agent /\ (new.claimed <=> a.claimed)
                   /\ new.closings = a.closings + 1 /\ new.notices = a.notices

\* The agent claims the closing and says it.
LEMMA AgentFacts ==
  ASSUME NEW a \in Agent
  PROVE  /\ [a EXCEPT !.claimed = TRUE] \in Agent
         /\ [a EXCEPT !.claimed = TRUE].claimed
         /\ [a EXCEPT !.claimed = TRUE].closings = a.closings
         /\ [a EXCEPT !.claimed = TRUE].notices = a.notices
         /\ SaysOne(a, [a EXCEPT !.closings = a.closings + 1])
<1>1. a.closings + 1 \in Nat
  BY DEF Agent
<1> QED
  BY <1>1 DEF Agent, SaysOne

\* Saying the closing says it once.
LEMMA SayFacts ==
  ASSUME NEW c, agent \in Agent, SayClosing(c, [agent EXCEPT !.claimed = TRUE])
  PROVE  /\ agent' \in Agent /\ agent'.claimed
         /\ agent'.closings = agent.closings + 1 /\ agent'.notices = agent.notices
<1>. DEFINE a == [agent EXCEPT !.claimed = TRUE]
<1>1. a \in Agent /\ a.claimed /\ a.closings = agent.closings /\ a.notices = agent.notices
  BY AgentFacts
<1>2. agent' = [a EXCEPT !.closings = a.closings + 1]
  BY DEF SayClosing
<1>. HIDE DEF a
<1>3. SaysOne(a, agent')
  BY <1>1, <1>2, AgentFacts
<1> QED
  BY <1>1, <1>3 DEF SaysOne

\* A coroutine that ends without the closing.
LEMMA ClosingsKept ==
  ASSUME IInv, NEW c \in Coroutine, NEW stage,
         stage \notin {"closing", "read", "save", "saved", "refused"} \/ c # "end",
         stage # "closing",
         call'[c].at = stage, \A d \in Coroutine : d # c => call'[d] = call[d],
         UNCHANGED agent, idle.closed => idle'.closed
  PROVE  ClosingsHold'
<1>1. EndBusy' => EndBusy
  BY Coroutines DEF EndBusy
<1>2. \A d \in Coroutine : At(d, "closing")' => At(d, "closing")
  BY DEF At
<1> QED
  BY <1>1, <1>2 DEF IInv, ClosingsHold

\* The first closing: nobody has said one, and the claim is made.
LEMMA ClosingSaid ==
  ASSUME IInv, NEW c \in Coroutine, agent.closings = 0,
         ~agent.claimed \/ c = "end",
         agent'.claimed, agent'.closings = 1, agent'.notices = agent.notices, idle'.closed,
         call'[c].at = "closing", \A d \in Coroutine : d # c => call'[d] = call[d]
  PROVE  ClosingsHold'
<1>1. \A d \in Coroutine : ~At(d, "closing")
  BY DEF IInv, ClosingsHold
<1>2. \A d \in Coroutine : At(d, "closing")' <=> d = c
  BY <1>1 DEF At
<1>3. ~EndBusy'
  BY Coroutines DEF EndBusy, IInv, ClosingsHold
<1>4. agent'.notices = 0
  BY DEF IInv, ClosingsHold, TypeOK, Agent
<1> QED
  BY <1>2, <1>3, <1>4 DEF ClosingsHold

\* The closing has been played.
LEMMA ClosingPlayed ==
  ASSUME IInv, NEW c \in Coroutine, ClosingSpoken(c)
  PROVE  IInv'
<1>1. /\ VoiceTypeOK /\ agent \in Agent /\ director \in Director
  BY DEF IInv, TypeOK
<1>2. /\ agent.closings = 1 /\ agent.notices = 0 /\ agent.claimed /\ idle.closed /\ ~EndBusy
      /\ \A d \in Coroutine : At(d, "closing") => d = c
  BY <1>1 DEF ClosingSpoken, IInv, ClosingsHold, Agent
<1>3. /\ call' \in [Coroutine -> Call] /\ call'[c].at = "done"
      /\ \A d \in Coroutine : d # c => call'[d] = call[d]
      /\ \A d \in Coroutine : CopyHolds(d)'
  BY DoneFacts, CopyDropped DEF ClosingSpoken, Finished
<1>4. VoiceTypeOK' /\ (idle.closed => idle'.closed)
  <2>1. "listening" \in AgentState
    BY DEF AgentState
  <2> QED
    BY <1>1, <2>1, EarFacts DEF ClosingSpoken, VoiceTypeOK, Quiet
<1>5. /\ agent' \in Agent /\ agent'.closings = 1 /\ agent'.notices = 1 /\ agent'.claimed
  <2>1. agent' = [agent EXCEPT !.notices = agent.notices + 1, !.finished = TRUE]
    BY DEF ClosingSpoken
  <2>2. agent.notices + 1 \in Nat
    BY <1>1 DEF Agent
  <2>3. agent' \in Agent
    BY <1>1, <2>1, <2>2 DEF Agent
  <2>4. agent'.claimed <=> agent.claimed
    BY <1>1, <2>1 DEF Agent
  <2>5. agent'.closings = agent.closings /\ agent'.notices = agent.notices + 1
    BY <1>1, <2>1 DEF Agent
  <2> QED
    BY <1>2, <2>3, <2>4, <2>5
<1>6. ClosingsHold'
  <2>1. \A d \in Coroutine : ~At(d, "closing")'
    BY <1>2, <1>3 DEF At
  <2>2. ~EndBusy'
    BY <1>2, <1>3, Coroutines DEF EndBusy
  <2> QED
    BY <1>2, <1>4, <1>5, <2>1, <2>2 DEF ClosingsHold
<1> QED
  BY <1>3, <1>4, <1>5, <1>6
     DEF ClosingSpoken, IInv, TypeOK, EngineHolds, DirectorFollowsEngine, Begun

\* Moving on to the next question keeps the invariant.
LEMMA Advancing ==
  ASSUME IInv, NEW c \in Coroutine, NextQuestionReturns(c)
  PROVE  IInv'
<1>. DEFINE s == call[c].session
            over == s.state = "completed"
<1>1. /\ c \in ToolCalls /\ c # "end" /\ At(c, "saved") /\ CopyHolds(c)
      /\ ear \in Ear /\ idle \in Idle /\ agent \in Agent /\ director \in Director
      /\ s \in InterviewSession /\ s.index \in Nat
  BY Coroutines
     DEF NextQuestionReturns, IInv, TypeOK, VoiceTypeOK, EngineHolds, Call, InterviewSession
<1>2. UNCHANGED <<session, version, answers>>
  BY DEF NextQuestionReturns
<1>3. director' = [director EXCEPT !.buffer = << >>, !.completed = director.completed \/ over,
                                   !.current = IF over THEN "finished" ELSE "question",
                                   !.index = s.index]
  BY DEF NextQuestionReturns, BufferAfterAdvance
<1>4. director' \in Director
  <2>1. << >> \in Seq(1..MaxUtterances)
    OBVIOUS
  <2> QED
    BY <1>1, <1>3, <2>1 DEF Director
<1>5. DirectorFollowsEngine'
  <2>1. /\ director'.index = s.index
        /\ director'.completed => director.completed \/ over
    BY <1>1, <1>3 DEF Director
  <2> QED
    BY <1>1, <1>2, <2>1 DEF CopyHolds, DirectorFollowsEngine, IInv, EngineHolds, Begun
<1>6. CASE over /\ ~agent.claimed
  <2>1. /\ SayClosing(c, [agent EXCEPT !.claimed = TRUE]) /\ idle' = Closed(BudgetReset(idle))
    BY <1>6 DEF NextQuestionReturns
  <2>2. /\ agent' \in Agent /\ agent'.claimed /\ agent'.closings = agent.closings + 1
        /\ agent'.notices = agent.notices
    BY <1>1, <2>1, SayFacts
  <2>3. /\ call' \in [Coroutine -> Call] /\ call'[c].at = "closing"
        /\ \A d \in Coroutine : d # c => call'[d] = call[d]
        /\ \A d \in Coroutine : CopyHolds(d)'
    BY <1>2, <2>1, DoneFacts, CopyDropped DEF SayClosing
  <2>4. ear' \in Ear
    BY <1>1, <2>1 DEF SayClosing, Ear, AgentState
  <2>5. idle' \in Idle /\ idle'.closed
    BY <1>1, <2>1, WatchdogFacts DEF Quiet
  <2>6. ClosingsHold'
    <3>1. agent.closings = 0
      BY <1>6 DEF IInv, ClosingsHold
    <3> QED
      BY <1>6, <2>2, <2>3, <2>5, <3>1, ClosingSaid
  <2> QED
    BY <1>2, <1>4, <1>5, <2>2, <2>3, <2>4, <2>5, <2>6 DEF IInv, TypeOK, VoiceTypeOK, EngineHolds
<1>7. CASE ~(over /\ ~agent.claimed)
  <2>1. call' = Finished(c) /\ idle' = BudgetReset(idle) /\ UNCHANGED <<agent, ear>>
    BY <1>7 DEF NextQuestionReturns
  <2>2. /\ call' \in [Coroutine -> Call] /\ call'[c].at = "done"
        /\ \A d \in Coroutine : d # c => call'[d] = call[d]
        /\ \A d \in Coroutine : CopyHolds(d)'
    BY <1>2, <2>1, DoneFacts, CopyDropped DEF Finished
  <2>3. idle' \in Idle /\ (idle.closed => idle'.closed)
    BY <1>1, <2>1, WatchdogFacts DEF Quiet
  <2>4. ClosingsHold'
    BY <2>1, <2>2, <2>3, ClosingsKept
  <2> QED
    BY <1>1, <1>2, <1>4, <1>5, <2>1, <2>2, <2>3, <2>4
       DEF IInv, TypeOK, VoiceTypeOK, EngineHolds
<1> QED
  BY <1>6, <1>7

\* Ending the interview keeps the invariant.
LEMMA Ending ==
  ASSUME IInv, CallEndInterview
  PROVE  IInv'
<1>1. /\ ear \in Ear /\ idle \in Idle /\ agent \in Agent /\ director \in Director
      /\ call \in [Coroutine -> Call] /\ ~agent.claimed /\ agent.closings = 0
  BY DEF CallEndInterview, IInv, TypeOK, VoiceTypeOK, ClosingsHold
<1>2. UNCHANGED <<session, version, answers>> /\ idle' = Closed(idle)
  BY DEF CallEndInterview
<1>3. idle' \in Idle /\ idle'.closed
  BY <1>1, <1>2, WatchdogFacts DEF Quiet
<1>4. CASE director.completed
  <2>1. SayClosing("end", [agent EXCEPT !.claimed = TRUE]) /\ UNCHANGED director
    BY <1>4 DEF CallEndInterview
  <2>2. /\ agent' \in Agent /\ agent'.claimed /\ agent'.closings = agent.closings + 1
        /\ agent'.notices = agent.notices
    BY <1>1, <2>1, SayFacts
  <2>3. /\ call' \in [Coroutine -> Call] /\ call'["end"].at = "closing"
        /\ \A d \in Coroutine : d # "end" => call'[d] = call[d]
        /\ \A d \in Coroutine : CopyHolds(d)'
    BY <1>2, <2>1, DoneFacts, CopyDropped, Coroutines DEF SayClosing
  <2>4. ear' \in Ear
    BY <1>1, <2>1 DEF SayClosing, Ear, AgentState
  <2>5. ClosingsHold'
    BY <1>1, <1>3, <2>2, <2>3, ClosingSaid, Coroutines
  <2> QED
    BY <1>2, <1>3, <2>1, <2>2, <2>3, <2>4, <2>5
       DEF IInv, TypeOK, VoiceTypeOK, EngineHolds, DirectorFollowsEngine
<1>5. CASE ~director.completed
  <2>. DEFINE new == [call["end"] EXCEPT !.at = "read"]
  <2>1. /\ agent' = [agent EXCEPT !.claimed = TRUE] /\ UNCHANGED ear
        /\ director' = [director EXCEPT !.terminating = TRUE]
        /\ call' = [call EXCEPT !["end"] = new]
    BY <1>5 DEF CallEndInterview, ClaimClosing
  <2>2. new \in Call /\ new.at = "read"
    BY <1>1, Coroutines DEF Call, Stage
  <2>. HIDE DEF new
  <2>3. /\ call' \in [Coroutine -> Call] /\ call'["end"].at = "read"
        /\ \A d \in Coroutine : d # "end" => call'[d] = call[d]
        /\ \A d \in Coroutine : CopyHolds(d)'
    BY <1>2, <2>1, <2>2, CopyDropped, Coroutines
  <2>4. /\ agent' \in Agent /\ agent'.claimed /\ agent'.closings = 0
        /\ agent'.notices = agent.notices
    BY <1>1, <2>1 DEF Agent
  <2>5. /\ director' \in Director /\ director'.completed = director.completed
        /\ director'.current = director.current /\ director'.index = director.index
    BY <1>1, <2>1 DEF Director
  <2>6. ClosingsHold'
    <3>1. \A d \in Coroutine : ~At(d, "closing")
      BY <1>1 DEF IInv, ClosingsHold
    <3>2. \A d \in Coroutine : ~At(d, "closing")'
      BY <2>3, <3>1 DEF At
    <3> QED
      BY <1>1, <1>3, <2>4, <3>2 DEF IInv, ClosingsHold
  <2> QED
    BY <1>2, <1>3, <2>1, <2>3, <2>4, <2>5, <2>6
       DEF IInv, TypeOK, VoiceTypeOK, EngineHolds, DirectorFollowsEngine
<1> QED
  BY <1>4, <1>5

\* The attempt to end the interview has succeeded or failed.
LEMMA CompletedFacts ==
  ASSUME IInv, NEW c \in {"end", "teardown"}, UNCHANGED session,
         director' = [director EXCEPT !.completed = CompletedAfterEnd(c)]
  PROVE  director' \in Director /\ DirectorFollowsEngine'
<1>1. director \in Director /\ CopyHolds(c) /\ DirectorFollowsEngine
  BY Coroutines DEF IInv, TypeOK, EngineHolds
<1>2. CompletedAfterEnd(c) => session.state = "completed"
  BY <1>1 DEF CompletedAfterEnd, CopyHolds, DirectorFollowsEngine
<1>3. /\ director' \in Director /\ director'.completed = CompletedAfterEnd(c)
      /\ director'.current = director.current /\ director'.index = director.index
  <2>1. CompletedAfterEnd(c) \in BOOLEAN
    BY <1>1 DEF CompletedAfterEnd, At, Director
  <2> QED
    BY <1>1, <2>1 DEF Director
<1> QED
  BY <1>1, <1>2, <1>3 DEF DirectorFollowsEngine

\* Ending it after the wait keeps the invariant.
LEMMA EndingResumes ==
  ASSUME IInv, EndInterviewResumes
  PROVE  IInv'
<1>1. /\ ear \in Ear /\ idle \in Idle /\ agent \in Agent
      /\ EndBusy /\ agent.claimed /\ agent.closings = 0 /\ idle.closed
  BY DEF EndInterviewResumes, EndBusy, IInv, TypeOK, VoiceTypeOK, ClosingsHold
<1>2. /\ UNCHANGED <<session, version, answers, idle>> /\ SayClosing("end", agent)
      /\ director' = [director EXCEPT !.completed = CompletedAfterEnd("end")]
  BY DEF EndInterviewResumes
<1>3. director' \in Director /\ DirectorFollowsEngine'
  BY <1>2, CompletedFacts
<1>4. /\ agent' \in Agent /\ agent'.claimed /\ agent'.closings = 1
      /\ agent'.notices = agent.notices
  <2>1. agent' = [agent EXCEPT !.closings = agent.closings + 1]
    BY <1>2 DEF SayClosing
  <2>2. SaysOne(agent, agent')
    BY <1>1, <2>1, AgentFacts
  <2> QED
    BY <1>1, <2>2 DEF SaysOne
<1>5. /\ call' \in [Coroutine -> Call] /\ call'["end"].at = "closing"
      /\ \A d \in Coroutine : d # "end" => call'[d] = call[d]
      /\ \A d \in Coroutine : CopyHolds(d)'
  BY <1>2, DoneFacts, CopyDropped, Coroutines DEF SayClosing
<1>6. ear' \in Ear
  BY <1>1, <1>2 DEF SayClosing, Ear, AgentState
<1>7. ClosingsHold'
  BY <1>1, <1>2, <1>4, <1>5, ClosingSaid, Coroutines
<1> QED
  BY <1>1, <1>2, <1>3, <1>4, <1>5, <1>6, <1>7 DEF IInv, TypeOK, VoiceTypeOK, EngineHolds

\* The job's end: the candidate leaves, the teardown follows.
LEMMA TearingDown ==
  ASSUME IInv, CandidateLeaves \/ Teardown \/ TeardownReturns
  PROVE  IInv'
<1>1. /\ VoiceTypeOK /\ idle \in Idle /\ agent \in Agent /\ call \in [Coroutine -> Call]
  BY DEF IInv, TypeOK, VoiceTypeOK
<1>2. CASE CandidateLeaves
  <2>1. /\ agent' \in Agent /\ agent'.claimed = agent.claimed
        /\ agent'.closings = agent.closings /\ agent'.notices = agent.notices
    BY <1>1, <1>2 DEF CandidateLeaves, Agent
  <2> QED
    BY <1>2, <2>1 DEF CandidateLeaves, IInv, TypeOK, VoiceTypeOK, EngineHolds,
       DirectorFollowsEngine, CopyHolds, At, Begun, ClosingsHold, EndBusy
<1>3. CASE Teardown
  <2>1. PICK stage \in {"done", "read"} :
             call' = [call EXCEPT !["teardown"].at = stage]
    BY <1>3 DEF Teardown
  <2>2. /\ UNCHANGED <<session, version, director, agent, answers, ear>>
        /\ idle' = Closed(idle)
    BY <1>3 DEF Teardown
  <2>3. idle' \in Idle /\ (idle.closed => idle'.closed)
    BY <1>1, <2>2, WatchdogFacts DEF Quiet
  <2>. DEFINE new == [call["teardown"] EXCEPT !.at = stage]
  <2>4. new \in Call /\ new.at = stage
    BY <1>1, Coroutines DEF Call, Stage
  <2>5. call' = [call EXCEPT !["teardown"] = new]
    BY <2>1
  <2>. HIDE DEF new
  <2> QED
    BY <1>1, <2>2, <2>3, <2>4, <2>5, CallMoves, Coroutines DEF VoiceTypeOK
<1>4. CASE TeardownReturns
  <2>1. /\ UNCHANGED <<session, version, agent, answers, ear, idle>>
        /\ director' = [director EXCEPT !.completed = CompletedAfterEnd("teardown")]
        /\ call' = Finished("teardown")
    BY <1>4 DEF TeardownReturns
  <2>2. director' \in Director /\ DirectorFollowsEngine'
    BY <2>1, CompletedFacts
  <2>3. /\ call' \in [Coroutine -> Call] /\ call'["teardown"].at = "done"
        /\ \A d \in Coroutine : d # "teardown" => call'[d] = call[d]
        /\ \A d \in Coroutine : CopyHolds(d)'
    BY <2>1, DoneFacts, CopyDropped, Coroutines DEF Finished
  <2>4. ClosingsHold'
    BY <2>1, <2>3, ClosingsKept, Coroutines
  <2> QED
    BY <1>1, <2>1, <2>2, <2>3, <2>4 DEF IInv, TypeOK, VoiceTypeOK, EngineHolds
<1> QED
  BY <1>2, <1>3, <1>4

\* The invariant is inductive.
LEMMA InvariantHolds == Spec => []IInv
<1>1. IInv /\ [Next]_vars => IInv'
  <2>. SUFFICES ASSUME IInv, [Next]_vars PROVE IInv'
    OBVIOUS
  <2>1. CASE UNCHANGED vars
    BY <2>1, VoiceMoves DEF vars, jobVars, IInv, TypeOK, VoiceTypeOK
  <2>2. CASE LoopStep
    BY <2>2, Bookkeeping, DirectorHears, EndingResumes, TearingDown, Saving, ClosingPlayed, Advancing
       DEF LoopStep
  <2>3. CASE Environment
    BY <2>3, Bookkeeping, DirectorHears, Conversation, Ending, TearingDown, Transport
       DEF Environment
  <2> QED
    BY <2>1, <2>2, <2>3 DEF Next, Stopped
<1> QED
  BY InitHolds, <1>1, PTL DEF Spec

-----------------------------------------------------------------------------
(* What the runs check, for every voice job.                               *)

\* The state of a voice job keeps its types; no silence gets more nudges than
\* MaxNudgesPerQuestion (IdleWatchdog).
THEOREM VoiceTypeCorrect == Spec => []TypeOK
<1>1. IInv => TypeOK
  BY DEF IInv
<1> QED
  BY InvariantHolds, <1>1, PTL

\* One closing, told to the page once, however many tool calls, the end of the
\* plan and the candidate's stop are under way together (_claim_closing).
THEOREM ClosingIsSaidOnce == Spec => []OneClosing
<1>1. IInv => OneClosing
  BY DEF IInv, ClosingsHold, OneClosing
<1> QED
  BY InvariantHolds, <1>1, PTL

\* The director takes the interview for over only when it is, and is never
\* ahead of it (InterviewDirector.advance, terminate, end_if_unfinished).
THEOREM DirectorIsNeverAhead == Spec => []DirectorFollowsEngine
<1>1. IInv => DirectorFollowsEngine
  BY DEF IInv, EngineHolds
<1> QED
  BY InvariantHolds, <1>1, PTL

\* Every handler but the timer's leaves the count of nudges or clears it.
LEMMA OnlyTheTimerNudges ==
  ASSUME IInv, [Next]_vars, Nudged
  PROVE  IdleTimerFires
<1>. SUFFICES ASSUME ~IdleTimerFires PROVE idle'.nudges = idle.nudges \/ idle'.nudges = 0
  BY DEF Nudged, IInv, TypeOK, VoiceTypeOK, Idle, MaxNudgesPerQuestion
<1>1. VoiceTypeOK /\ idle \in Idle /\ {"listening", "speaking"} \subseteq AgentState
  BY DEF IInv, TypeOK, VoiceTypeOK, AgentState
<1>2. \A w \in Idle : \A new : Quiet(w, new) => new.nudges = w.nudges \/ new.nudges = 0
  BY DEF Quiet
<1>3. CASE UNCHANGED idle
  BY <1>3
<1>4. CASE OpeningSpoken \/ EnterRoom \/ (\E c \in Coroutine : ClosingSpoken(c))
           \/ AgentStateChanges \/ CandidateSpeaks \/ CandidatePauses
  <2>1. \/ \E state \in AgentState : AgentBecomes(state, IsFinished)
        \/ UserSpeaks \/ UserPauses
    BY <1>1, <1>4
       DEF OpeningSpoken, EnterRoom, ClosingSpoken, AgentStateChanges, CandidateSpeaks,
           CandidatePauses
  <2> QED
    BY <1>1, <1>2, <2>1, EarFacts
<1>5. CASE StartReturns \/ UserTurnCompleted \/ CallEndInterview \/ Teardown
           \/ \E c \in Coroutine : NextQuestionReturns(c)
  <2>1. \/ idle' = idle \/ idle' = OnAgentState(idle, "thinking", IsFinished)
        \/ idle' = Closed(idle) \/ idle' = BudgetReset(idle)
        \/ idle' = Closed(BudgetReset(idle))
    BY <1>5
       DEF StartReturns, UserTurnCompleted, CallEndInterview, Teardown, NextQuestionReturns
  <2> QED
    BY <1>1, <1>2, <2>1, WatchdogFacts
<1>6. CASE \/ StartRaises \/ EndInterviewResumes \/ TeardownReturns
           \/ \E c \in Coroutine : ThreadReads(c) \/ ThreadSaves(c) \/ ThreadRaises(c)
                                 \/ NextQuestionRaises(c)
           \/ (\E c \in ToolCalls : CallNextQuestion(c)) \/ CandidateLeaves \/ TransportEnds
           \/ Stopped
  BY <1>6
     DEF StartRaises, EndInterviewResumes, TeardownReturns, ThreadReads, ThreadSaves,
         ThreadRaises, NextQuestionRaises, CallNextQuestion, CandidateLeaves, TransportEnds,
         Stopped, vars
<1> QED
  BY <1>3, <1>4, <1>5, <1>6 DEF Next, LoopStep, Environment, vars

\* A nudge is spoken only into silence, and never once the interview is ending:
\* a claimed closing has closed the watchdog (_wait_then_nudge, close).
THEOREM NudgesIntoSilence == Spec => NudgesOnlyIntoSilence
<1>1. IInv /\ [Next]_vars =>
        [Nudged => /\ ear.user = "listening" /\ ear.agent = "listening"
                   /\ ~director.terminating /\ ~agent.claimed]_vars
  <2>. SUFFICES ASSUME IInv, [Next]_vars, Nudged
                PROVE  /\ ear.user = "listening" /\ ear.agent = "listening"
                       /\ ~director.terminating /\ ~agent.claimed
    OBVIOUS
  <2>1. MayNudge(IsFinished)
    BY OnlyTheTimerNudges, TimerFacts DEF IdleTimerFires, IInv, TypeOK
  <2> QED
    BY <2>1 DEF MayNudge, IsFinished, IInv, TypeOK, VoiceTypeOK, Ear, ClosingsHold
<1> QED
  BY InvariantHolds, <1>1, PTL DEF Spec, NudgesOnlyIntoSilence

=============================================================================
