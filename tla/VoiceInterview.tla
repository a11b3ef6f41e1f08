--------------------------- MODULE VoiceInterview ---------------------------
(***************************************************************************)
(* One job of the second voice engine: the agent's hooks and tools         *)
(* (services/livekit/v2/agent_server_v2.py), the director between them and *)
(* the interview (director.py), the idle watchdog, and the candidate.  One *)
(* event loop; what crosses to InterviewAgentService runs in a worker      *)
(* thread as a read and a guarded save, and its caller resumes later.      *)
(***************************************************************************)
EXTENDS InterviewEngine, VoiceSession

CONSTANTS Plan,         \* the approved plan
          ToolCalls,    \* how many next_question calls may be under way at once
          MaxUtterances \* bound: turns the candidate speaks

ASSUME VoiceAssumption ==
    /\ Plan \in Seq(Question) /\ Plan # << >>
    /\ MaxUtterances \in Nat
    /\ {"enter", "end", "teardown"} \intersect ToolCalls = {}

VARIABLES
    session,    \* the stored interview
    version,    \* its version
    director,   \* cursor, completed, terminating, answer buffer
    agent,      \* closing latch, what the job has said and signalled
    call,       \* per coroutine that crosses to the service: where it is
    answers     \* what the stored turns hold: the utterances of each answer

jobVars == <<session, version, director, agent, call, answers>>
vars == <<session, version, director, agent, call, answers, ear, idle>>

Coroutine == ToolCalls \union {"enter", "end", "teardown"}

Stage == {"idle", "opening", "read", "save", "saved", "refused", "closing", "done"}

Call == [at : Stage, session : InterviewSession, version : Nat,
         answer : Seq(1..MaxUtterances)]

NotCalled == [at |-> "idle", session |-> NewSession(Plan), version |-> 0,
              answer |-> << >>]

Director == [current     : {"none", "question", "finished"},
             index       : Nat,              \* of the question it shows
             completed   : BOOLEAN,
             terminating : BOOLEAN,
             buffer      : Seq(1..MaxUtterances),
             heard       : 0..MaxUtterances]  \* turns of the candidate so far

Agent == [claimed : BOOLEAN, closings : Nat, notices : Nat,
          finished : BOOLEAN]      \* the Event the job waits for

IsFinished == director.completed \/ director.terminating

Init ==
    /\ session = [NewSession(Plan) EXCEPT !.state = "ready"]
    /\ version = 0
    /\ director = [current |-> "none", index |-> 0, completed |-> FALSE,
                   terminating |-> FALSE, buffer |-> << >>, heard |-> 0]
    /\ agent = [claimed |-> FALSE, closings |-> 0, notices |-> 0,
                finished |-> FALSE]
    /\ call = [c \in Coroutine |-> NotCalled]
    /\ answers = << >>
    /\ VoiceInit

-----------------------------------------------------------------------------
(* asyncio.to_thread(service operation): get, then the engine and save.    *)

At(c, stage) == call[c].at = stage

\* The coroutine is over, and its copy of the session with it.
Finished(c) == [call EXCEPT ![c] = [NotCalled EXCEPT !.at = "done"]]

ThreadReads(c) ==
    /\ At(c, "read")
    /\ call' = [call EXCEPT ![c].at = "save", ![c].session = session,
                            ![c].version = version]
    /\ UNCHANGED <<session, version, director, agent, answers, ear, idle>>

\* The operation each coroutine asks for, on the copy its thread has read.
Operated(c) ==
    LET s == call[c].session IN
    CASE c = "enter" -> IF CanStart(s) THEN {Started(s)} ELSE {}
      [] c \in ToolCalls ->
            IF CanSubmit(s)
            THEN {AnswerSubmitted(s, "substantive", FALSE, asks) : asks \in BOOLEAN}
            ELSE {}
      [] OTHER -> IF CanEnd(s) THEN {Ended(s)} ELSE {}

ThreadSaves(c) ==
    /\ At(c, "save")
    /\ call[c].version = version
    /\ \E s \in Operated(c) :
          /\ session' = s
          /\ call' = [call EXCEPT ![c].at = "saved", ![c].session = s]
    /\ version' = version + 1
    /\ answers' = IF c \in ToolCalls THEN Append(answers, call[c].answer) ELSE answers
    /\ UNCHANGED <<director, agent, ear, idle>>

\* InvalidInterviewStateError, StaleSessionVersionError, or a database that
\* does not answer.
ThreadRaises(c) ==
    /\ At(c, "save")
    /\ call' = [call EXCEPT ![c] = [NotCalled EXCEPT !.at = "refused"]]
    /\ UNCHANGED <<session, version, director, agent, answers, ear, idle>>

-----------------------------------------------------------------------------
(* on_enter and start.                                                     *)

\* The opening is spoken; then the interview is started.
OpeningSpoken ==
    /\ At("enter", "opening")
    /\ call' = [call EXCEPT !["enter"].at = "read"]
    /\ AgentBecomes("listening", IsFinished)
    /\ UNCHANGED <<session, version, director, agent, answers>>

EnterRoom ==
    /\ At("enter", "idle")
    /\ ~agent.finished
    /\ call' = [call EXCEPT !["enter"].at = "opening"]
    /\ AgentBecomes("speaking", IsFinished)
    /\ UNCHANGED <<session, version, director, agent, answers>>

\* start resumes: the cursor is set and the first question is generated.
StartReturns ==
    /\ At("enter", "saved")
    /\ director' = [director EXCEPT !.current = "question", !.index = 0,
                                    !.buffer = << >>]
    /\ call' = Finished("enter")
    /\ ear' = [ear EXCEPT !.agent = "thinking"]
    /\ idle' = OnAgentState(idle, "thinking", IsFinished)
    /\ UNCHANGED <<session, version, agent, answers>>

StartRaises ==
    /\ At("enter", "refused")
    /\ call' = Finished("enter")
    /\ UNCHANGED <<session, version, director, agent, answers, ear, idle>>

-----------------------------------------------------------------------------
(* The turns of the conversation.                                          *)

\* The opening and the closing are said with allow_interruptions=False.
ScriptBeingSpoken == At("enter", "opening") \/ \E c \in Coroutine : At(c, "closing")

\* on_user_turn_completed: the words are buffered and the model may reply; a
\* turn during termination is consumed without a reply.
UserTurnCompleted ==
    /\ ear.answering /\ ear.user = "listening"
    /\ ~ScriptBeingSpoken
    /\ director.heard < MaxUtterances
    /\ IF director.terminating
       THEN /\ ear' = [ear EXCEPT !.answering = FALSE]
            /\ UNCHANGED <<director, idle>>
       ELSE /\ director' = [director EXCEPT !.heard = @ + 1,
                                            !.buffer = Append(@, director.heard + 1)]
            /\ ear' = [ear EXCEPT !.answering = FALSE, !.agent = "thinking"]
            /\ idle' = OnAgentState(idle, "thinking", IsFinished)
    /\ UNCHANGED <<session, version, agent, call, answers>>

\* What the SDK makes the agent do between the tools: speak a reply, be
\* interrupted or finish speaking, drop a reply it was generating.
AgentStateChanges ==
    /\ At("enter", "done")
    /\ ~ScriptBeingSpoken
    /\ \/ ear.agent = "thinking" /\ AgentBecomes("speaking", IsFinished)
       \/ ear.agent \in {"speaking", "thinking"} /\ AgentBecomes("listening", IsFinished)
    /\ UNCHANGED jobVars

CandidateSpeaks == UserSpeaks /\ director.heard < MaxUtterances /\ UNCHANGED jobVars
CandidatePauses == UserPauses /\ UNCHANGED jobVars
IdleTimerFires  == TimerFires(IsFinished) /\ UNCHANGED jobVars

-----------------------------------------------------------------------------
(* Ending.                                                                 *)

\* Mutant: the latch is only looked at.
ClaimClosing_NoLatch == agent' = agent

\* _claim_closing's effect on the latch.
ClaimClosing == agent' = [agent EXCEPT !.claimed = TRUE]

\* _deliver_closing begins: the closing is said.
SayClosing(c, claimed) ==
    /\ agent' = [claimed EXCEPT !.closings = @ + 1]
    /\ call' = [call EXCEPT ![c] = [NotCalled EXCEPT !.at = "closing"]]
    /\ ear' = [ear EXCEPT !.agent = "speaking"]

\* The closing has been played: the page is told and the job may end.
ClosingSpoken(c) ==
    /\ At(c, "closing")
    /\ agent' = [agent EXCEPT !.notices = @ + 1, !.finished = TRUE]
    /\ call' = Finished(c)
    /\ AgentBecomes("listening", IsFinished)
    /\ UNCHANGED <<session, version, director, answers>>

-----------------------------------------------------------------------------
(* The next_question tool and advance.                                     *)

\* The model calls tools while it thinks, once the first question is out.
ToolsMayBeCalled == ear.agent = "thinking" /\ At("enter", "done") /\ ~agent.finished

\* Up to the await: refused while terminating or completed, otherwise the
\* buffered answer is handed to a thread.
CallNextQuestion(c) ==
    /\ ToolsMayBeCalled
    /\ call[c].at \in {"idle", "done"}
    /\ ~IsFinished
    /\ call' = [call EXCEPT ![c] = [NotCalled EXCEPT !.at = "read",
                                                     !.answer = director.buffer]]
    /\ UNCHANGED <<session, version, director, agent, answers, ear, idle>>

BufferAfterAdvance == << >>

\* advance resumes, the watchdog is told, and the tool returns a question or
\* closes the interview.
NextQuestionReturns(c) ==
    /\ c \in ToolCalls
    /\ At(c, "saved")
    /\ LET s == call[c].session
           over == s.state = "completed"
           moved == [director EXCEPT !.buffer = BufferAfterAdvance,
                                     !.completed = @ \/ over,
                                     !.current = IF over THEN "finished" ELSE "question",
                                     !.index = s.index]
       IN  /\ director' = moved
           /\ IF over /\ ~agent.claimed
              THEN /\ SayClosing(c, [agent EXCEPT !.claimed = TRUE])
                   /\ idle' = Closed(BudgetReset(idle))
              ELSE /\ call' = Finished(c)
                   /\ idle' = BudgetReset(idle)
                   /\ UNCHANGED <<agent, ear>>
    /\ UNCHANGED <<session, version, answers>>

NextQuestionRaises(c) ==
    /\ c \in ToolCalls
    /\ At(c, "refused")
    /\ call' = Finished(c)
    /\ UNCHANGED <<session, version, director, agent, answers, ear, idle>>

-----------------------------------------------------------------------------
(* The end_interview tool and terminate.                                   *)

\* The latch, the watchdog and _terminating, before the first await; terminate
\* has nothing to do in an interview that is completed.
CallEndInterview ==
    /\ ToolsMayBeCalled
    /\ At("end", "idle")
    /\ ~agent.claimed
    /\ idle' = Closed(idle)
    /\ IF director.completed
       THEN /\ SayClosing("end", [agent EXCEPT !.claimed = TRUE])
            /\ UNCHANGED director
       ELSE /\ ClaimClosing
            /\ director' = [director EXCEPT !.terminating = TRUE]
            /\ call' = [call EXCEPT !["end"].at = "read"]
            /\ UNCHANGED ear
    /\ UNCHANGED <<session, version, answers>>

\* Mutant: a failed end counts as an end.
CompletedAfterEnd_Always(c) == TRUE

\* terminate and end_if_unfinished complete only when the engine did.
CompletedAfterEnd(c) == director.completed \/ At(c, "saved")

\* Mutant: a failed end leaves the tool without a closing.
EndInterviewResumes_OnSuccess ==
    /\ At("end", "saved")
    /\ director' = [director EXCEPT !.completed = CompletedAfterEnd("end")]
    /\ SayClosing("end", agent)
    /\ UNCHANGED <<session, version, answers, idle>>

\* terminate resumes; an exception is logged; the closing follows either way.
EndInterviewResumes ==
    /\ call["end"].at \in {"saved", "refused"}
    /\ director' = [director EXCEPT !.completed = CompletedAfterEnd("end")]
    /\ SayClosing("end", agent)
    /\ UNCHANGED <<session, version, answers, idle>>

-----------------------------------------------------------------------------
(* The job around them.                                                    *)

\* participant_disconnected.
CandidateLeaves ==
    /\ ~agent.finished
    /\ agent' = [agent EXCEPT !.finished = TRUE]
    /\ UNCHANGED <<session, version, director, call, answers, ear, idle>>

\* The finally block: the watchdog is closed, then end_if_unfinished.
Teardown ==
    /\ agent.finished
    /\ At("teardown", "idle")
    /\ idle' = Closed(idle)
    /\ call' = [call EXCEPT !["teardown"].at = IF director.completed THEN "done" ELSE "read"]
    /\ UNCHANGED <<session, version, director, agent, answers, ear>>

TeardownReturns ==
    /\ call["teardown"].at \in {"saved", "refused"}
    /\ director' = [director EXCEPT !.completed = CompletedAfterEnd("teardown")]
    /\ call' = Finished("teardown")
    /\ UNCHANGED <<session, version, agent, answers, ear, idle>>

JobOver == At("teardown", "done")

\* LiveKitTransport ends the interview at its timeout, in another process.
TransportEnds ==
    /\ CanEnd(session)
    /\ session' = Ended(session)
    /\ version' = version + 1
    /\ UNCHANGED <<director, agent, call, answers, ear, idle>>

-----------------------------------------------------------------------------

LoopStep ==
    \/ OpeningSpoken \/ StartReturns \/ StartRaises
    \/ EndInterviewResumes \/ Teardown \/ TeardownReturns
    \/ \E c \in Coroutine : \/ ThreadReads(c) \/ ThreadSaves(c) \/ ThreadRaises(c)
                            \/ ClosingSpoken(c)
                            \/ NextQuestionReturns(c) \/ NextQuestionRaises(c)

Environment ==
    \/ EnterRoom \/ UserTurnCompleted \/ AgentStateChanges
    \/ CandidateSpeaks \/ CandidatePauses \/ IdleTimerFires
    \/ (\E c \in ToolCalls : CallNextQuestion(c)) \/ CallEndInterview
    \/ CandidateLeaves \/ TransportEnds

Stopped == JobOver /\ UNCHANGED vars

Next == LoopStep \/ (~JobOver /\ Environment) \/ Stopped

Spec == Init /\ [][Next]_vars

\* Callbacks that are ready run, threads return.
FairSpec == Spec /\ WF_vars(LoopStep)

-----------------------------------------------------------------------------
(* Properties.                                                             *)

\* Types, and never more than MaxNudgesPerQuestion nudges to one silence.
TypeOK ==
    /\ session \in InterviewSession
    /\ version \in Nat
    /\ director \in Director
    /\ agent \in Agent
    /\ call \in [Coroutine -> Call]
    /\ answers \in Seq(Seq(1..MaxUtterances))
    /\ VoiceTypeOK

\* However the two tools, the end of the plan and the candidate's stop interleave,
\* the closing is spoken once and the page is told once (_claim_closing,
\* agent_server_v2.py:283).
OneClosing == agent.closings <= 1 /\ agent.notices <= agent.closings

\* A nudge is spoken only into silence: never over the candidate, over the
\* agent's own turn, or once the interview is ending (idle_watchdog.py:183).
NudgesOnlyIntoSilence ==
    [][Nudged => /\ ear.user = "listening" /\ ear.agent = "listening"
                 /\ ~director.terminating /\ ~agent.claimed]_vars

\* What the director believes follows the stored interview: it takes the
\* interview for over only when it is, and its cursor is never ahead of it,
\* though its own threads and the transport move the interview behind its back.
DirectorFollowsEngine ==
    /\ director.completed => session.state = "completed"
    /\ director.current = "question" =>
          /\ session.state \in {"in_progress", "completed"}
          /\ director.index <= session.index

\* Every closing that is claimed is delivered, whatever the engine answers to
\* the attempt to end the interview, and the job then tears down.
ClosingIsDelivered ==
    /\ agent.claimed ~> (agent.closings = 1 /\ agent.finished)
    /\ agent.finished ~> JobOver

=============================================================================
