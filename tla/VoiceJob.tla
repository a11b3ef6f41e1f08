------------------------------ MODULE VoiceJob ------------------------------
(***************************************************************************)
(* One job of the first voice engine (services/livekit/agent_server.py):   *)
(* the agent that speaks the replies of the conversation service, the      *)
(* watchdog that polls the silence coordinator, and the candidate.  Three  *)
(* coroutines speak: on_enter, the candidate's turns (spoken or typed, one *)
(* at a time), and the watchdog.  Time passes in units of at least the     *)
(* watchdog's poll interval.                                               *)
(***************************************************************************)
EXTENDS VoiceConversation, SilenceLadder

CONSTANT MaxDelay   \* endpointing max_delay: from the last word to the turn

ASSUME DelayAssumption == MaxDelay \in Nat \ {0} /\ MaxDelay < ThinkPause
ASSUME QuestionsAssumption == Questions = DOMAIN Plan

VARIABLES
    silence,  \* the coordinator's state of the session
    ear,      \* speech that is not yet a turn, for how long, and all so far
    speech,   \* per coroutine: where it is in speaking which reply
    job       \* the finished event, the candidate's leaving, the watchdog

jobVars == <<silence, ear, speech, job>>
vars == <<session, talk, answers, silence, ear, speech, job>>

Coroutine == {"enter", "turn", "watchdog"}

\* lead: a segment that may be interrupted.  hook: deliver_reply or on_enter, as
\* opposed to speak_only.
Speech == [at : {"new", "idle", "lead", "question"}, reply : Reply, hook : BOOLEAN]

Ear == [unresolved : BOOLEAN, age : 0..MaxDelay, heard : 0..MaxUtterances]

Job == [finished : BOOLEAN, left : BOOLEAN, watching : BOOLEAN, over : BOOLEAN]

Quiet == [at |-> "idle", reply |-> Silent, hook |-> FALSE]

Init ==
    /\ TalkInit
    /\ silence = SilenceInit
    /\ ear = [unresolved |-> FALSE, age |-> 0, heard |-> 0]
    /\ speech = [[c \in Coroutine |-> Quiet] EXCEPT !["enter"].at = "new"]
    /\ job = [finished |-> FALSE, left |-> FALSE, watching |-> TRUE, over |-> FALSE]

Speaking(c) == speech[c].at \in {"lead", "question"}
Idle(c)     == speech[c].at = "idle"

-----------------------------------------------------------------------------
(* Delivery.                                                               *)

\* after_reply_delivered.
AfterReply(s, reply) ==
    IF reply.finished          THEN Disposed(s)
    ELSE IF reply.question # 0 THEN ArmedAfterQuestion(s, reply.question)
    ELSE ActivityNoted(s)

\* The end of deliver_reply: the hook, then the page is told.
Delivered(s, reply, hook) ==
    /\ silence' = IF hook THEN AfterReply(s, reply) ELSE s
    /\ job' = [job EXCEPT !.finished = @ \/ (hook /\ reply.finished)]

\* deliver_reply up to the first segment; a call that raises ends there.
Deliver(c, s, reply, hook) ==
    CASE reply.says = "error" ->
            /\ speech' = [speech EXCEPT ![c] = Quiet]
            /\ silence' = s
            /\ UNCHANGED job
      [] reply.says = "nothing" ->
            /\ speech' = [speech EXCEPT ![c] = Quiet]
            /\ Delivered(s, reply, hook)
      [] OTHER ->
            /\ speech' = [speech EXCEPT ![c] = [at |-> "lead", reply |-> reply, hook |-> hook]]
            /\ silence' = AgentStateChanged(s, TRUE)
            /\ UNCHANGED job

\* on_enter.
Enter ==
    /\ speech["enter"].at = "new"
    /\ \E reply \in Reply : Begin(reply) /\ Deliver("enter", silence, reply, TRUE)
    /\ UNCHANGED ear

\* The leading segments have been played, or the candidate has interrupted
\* them: a question that must be delivered is spoken in either case.
LeadEnds(c) ==
    /\ speech[c].at = "lead"
    /\ speech[c].reply.says = "question"
    /\ speech' = [speech EXCEPT ![c].at = "question"]
    /\ UNCHANGED <<session, talk, answers, silence, ear, job>>

\* A reply has been played, or was interrupted where it may be.
SpeechEnds(c) ==
    /\ Speaking(c)
    /\ speech[c].at = "lead" => speech[c].reply.says = "line"
    /\ speech' = [speech EXCEPT ![c] = Quiet]
    /\ Delivered(AgentStateChanged(silence, \E d \in Coroutine \ {c} : Speaking(d)),
                 speech[c].reply, speech[c].hook)
    /\ UNCHANGED <<session, talk, answers, ear>>

-----------------------------------------------------------------------------
(* The candidate.                                                          *)

\* Audio under a question that may not be interrupted is discarded.
CandidateSpeaks ==
    /\ ~silence.userSpeaking /\ ~job.left
    /\ ear.heard < MaxUtterances
    /\ silence' = UserStateChanged(silence, TRUE)
    /\ ear' = IF \E c \in Coroutine : speech[c].at = "question" THEN ear
              ELSE [ear EXCEPT !.unresolved = TRUE, !.age = 0]
    /\ UNCHANGED <<session, talk, answers, speech, job>>

CandidatePauses ==
    /\ silence.userSpeaking
    /\ silence' = UserStateChanged(silence, FALSE)
    /\ UNCHANGED <<session, talk, answers, ear, speech, job>>

Resolving == ear.unresolved /\ ~silence.userSpeaking

Resolved == [ear EXCEPT !.unresolved = FALSE, !.age = 0, !.heard = @ + 1]

\* on_user_turn_completed.
TurnCompleted ==
    /\ Resolving /\ Idle("turn")
    /\ ear.heard < MaxUtterances
    /\ ear' = Resolved
    /\ \E meaning \in Meaning, reply \in Reply :
          /\ Respond(meaning, ear.heard + 1, reply)
          /\ Deliver("turn", silence, reply, TRUE)

\* The recogniser makes no turn of it.
TurnLost ==
    /\ Resolving
    /\ ear.heard < MaxUtterances
    /\ ear' = Resolved
    /\ UNCHANGED <<session, talk, answers, silence, speech, job>>

\* _handle_typed_input; what it interrupts ends by SpeechEnds or LeadEnds.
TypedInput ==
    /\ Idle("turn") /\ ~job.left
    /\ ear.heard < MaxUtterances
    /\ ear' = [ear EXCEPT !.heard = @ + 1,
                          !.unresolved = @ /\ ear.heard + 1 < MaxUtterances]
    /\ \E meaning \in Meaning, reply \in Reply :
          /\ Respond(meaning, ear.heard + 1, reply)
          /\ Deliver("turn", silence, reply, TRUE)

\* candidate_disconnected.
CandidateLeaves ==
    /\ ~job.left
    /\ silence' = Disposed(silence)
    /\ job' = [job EXCEPT !.left = TRUE, !.finished = TRUE]
    /\ UNCHANGED <<session, talk, answers, ear, speech>>

-----------------------------------------------------------------------------
(* The watchdog.                                                           *)

WatchdogPolls == job.watching /\ Idle("watchdog") /\ ~job.finished

\* A unit of time: on_enter has run, the watchdog has polled since the last one,
\* and speech becomes a turn within MaxDelay.
Tick ==
    /\ speech["enter"].at # "new"
    /\ WatchdogPolls => silence.elapsed = 0
    /\ Resolving /\ Idle("turn") => ear.age < MaxDelay
    /\ ~job.finished
    /\ silence' = Ticked(silence)
    /\ ear' = IF Resolving THEN [ear EXCEPT !.age = Least(@ + 1, MaxDelay)] ELSE ear
    /\ UNCHANGED <<session, talk, answers, speech, job>>

\* Mutant: the candidate is not listened for between the check and the nudge.
SpokenOver_Ignored == FALSE

\* last_user_state: a suggestion is dropped while the candidate speaks.
SpokenOver == silence.userSpeaking

\* restate_question raises outside an interview in progress, which ends the
\* watchdog.
Act(s, suggestion) ==
    CASE suggestion = "no_response" ->
            \E reply \in Reply : ResolveNoResponse(reply) /\ Deliver("watchdog", s, reply, TRUE)
      [] suggestion = "presence_retry" /\ ~InProgress ->
            /\ silence' = s
            /\ job' = [job EXCEPT !.watching = FALSE]
            /\ UNCHANGED <<session, talk, answers, speech>>
      [] OTHER -> UNCHANGED talkVars /\ Deliver("watchdog", s, Line, FALSE)

\* _silence_watchdog wakes, asks the coordinator and acts on its suggestion.
WatchdogChecks ==
    /\ WatchdogPolls
    /\ silence.elapsed > 0
    /\ LET seen       == Observed(silence)
           suggestion == IF silence.disposed THEN "nothing" ELSE Suggested(seen)
           recorded   == IF silence.disposed THEN silence ELSE Recorded(seen, suggestion)
       IN  IF suggestion = "nothing" \/ SpokenOver
           THEN silence' = recorded /\ UNCHANGED <<session, talk, answers, speech, job>>
           ELSE Act(recorded, suggestion)
    /\ UNCHANGED ear

-----------------------------------------------------------------------------
(* The job.                                                                *)

\* Mutant: the interview is left as it is.
LeftBehind_AsIs == session

\* The interview of a candidate who has gone is ended.
LeftBehind == IF InProgress THEN Ended(session) ELSE session

\* finished: the watchdog is cancelled and everything is closed.
JobEnds ==
    /\ job.finished /\ ~job.over
    /\ job' = [job EXCEPT !.over = TRUE, !.watching = FALSE]
    /\ session' = LeftBehind
    /\ speech' = [c \in Coroutine |-> Quiet]
    /\ silence' = AgentStateChanged(silence, FALSE)
    /\ UNCHANGED <<talk, answers, ear>>

\* LiveKitTransport ends the interview at its timeout, in another process.
TransportEnds ==
    /\ InProgress
    /\ session' = Ended(session)
    /\ UNCHANGED <<talk, answers, silence, ear, speech, job>>

Stopped == job.over /\ UNCHANGED vars

LoopStep ==
    \/ Enter \/ (\E c \in Coroutine : LeadEnds(c) \/ SpeechEnds(c))
    \/ Tick \/ WatchdogChecks \/ JobEnds \/ CandidatePauses

Environment ==
    \/ CandidateSpeaks \/ TurnCompleted \/ TurnLost \/ TypedInput
    \/ CandidateLeaves \/ TransportEnds

Next == (~job.over /\ (LoopStep \/ Environment)) \/ Stopped

Spec == Init /\ [][Next]_vars

\* Callbacks run, what is played ends, time passes, the watchdog polls, and the
\* candidate pauses for breath and does not go on for ever.
FairSpec ==
    /\ Spec
    /\ WF_vars(Enter) /\ WF_vars(Tick) /\ WF_vars(WatchdogChecks)
    /\ WF_vars(JobEnds) /\ WF_vars(CandidatePauses)
    /\ SF_vars(TurnCompleted \/ TurnLost)
    /\ \A c \in Coroutine : WF_vars(~job.over /\ (LeadEnds(c) \/ SpeechEnds(c)))

-----------------------------------------------------------------------------
(* Properties.                                                             *)

\* Types, and never more than MaxNudges nudges for one question.
TypeOK ==
    /\ session \in InterviewSession
    /\ talk \in Talk
    /\ answers \in Seq(Seq(Utterance))
    /\ silence \in Silence
    /\ ear \in Ear
    /\ speech \in [Coroutine -> Speech]
    /\ job \in Job

\* The stored answers and the buffer hold what the candidate said, each thing at
\* most once and in the order it was said, whichever of the candidate's turns
\* and the silence ladder submits it (voice_conversation_service.py:164, R5).
AnswersInOrder ==
    LET said == Append(answers, talk.pending)
    IN  \A k, l \in DOMAIN said : \A i \in DOMAIN said[k], j \in DOMAIN said[l] :
           k < l \/ (k = l /\ i < j) => said[k][i] < said[l][j]

\* The watchdog begins to speak only to a candidate who is there, is not
\* speaking, and whose interview is not known to be over (R3, R8).
WatchdogSpeaks == Idle("watchdog") /\ speech'["watchdog"].at = "lead"
NudgesOnlyThePresent ==
    [][WatchdogSpeaks => ~silence.userSpeaking /\ ~silence.disposed /\ ~job.left]_vars

\* A job that is over leaves no interview in progress (agent_server.py:590).
SessionOverWithJob == job.over => session.state # "in_progress"

\* A candidate who falls silent does not hold the interview at a question: it is
\* answered, resolved by the ladder or ended (agent_server.py:648).
AtQuestion(i)  == InProgress /\ session.index = i /\ session.followUps = 0
QuestionIsResolved == \A i \in 0..(Len(Plan) - 1) : AtQuestion(i) ~> ~AtQuestion(i)

\* The same for a follow-up: agent_server.py:661 says the watchdog never leaves a
\* stuck session.
AtFollowUp(i) == InProgress /\ session.index = i /\ session.followUps > 0
FollowUpIsResolved == \A i \in 0..(Len(Plan) - 1) : AtFollowUp(i) ~> ~AtFollowUp(i)
=============================================================================
