---------------------------- MODULE VoiceSession ----------------------------
(***************************************************************************)
(* The parts of LiveKit's AgentSession the voice engine listens to, as the *)
(* code in services/livekit/v2 uses it: who is speaking, and the idle      *)
(* watchdog (services/livekit/v2/idle_watchdog.py) driven by its events.   *)
(* The event loop is one thread: a handler runs to its next await without  *)
(* interruption, and a cancelled timer never speaks, so the generation a   *)
(* timer captures needs no variable of its own: every step that bumps the  *)
(* generation also cancels the timer.                                      *)
(***************************************************************************)
EXTENDS Naturals

VARIABLES
    ear,   \* agent_state, user_state, and whether an answer is under way
    idle   \* the watchdog: closed, nudges_sent, its pending timer

voiceVars == <<ear, idle>>

AgentState == {"initializing", "listening", "thinking", "speaking"}
MaxNudgesPerQuestion == 2

Ear  == [agent : AgentState, user : {"listening", "speaking"},
         answering : BOOLEAN]    \* the candidate has begun a turn not yet complete
Idle == [closed : BOOLEAN, nudges : 0..MaxNudgesPerQuestion, timer : BOOLEAN]

VoiceTypeOK == ear \in Ear /\ idle \in Idle

VoiceInit ==
    /\ ear = [agent |-> "initializing", user |-> "listening", answering |-> FALSE]
    /\ idle = [closed |-> FALSE, nudges |-> 0, timer |-> FALSE]

-----------------------------------------------------------------------------
(* The watchdog's handlers, from the state it was in.                      *)

TimerCancelled(w) == [w EXCEPT !.timer = FALSE]
Closed(w) == [w EXCEPT !.closed = TRUE, !.timer = FALSE]

\* notify_question_changed, and the candidate beginning to speak.
BudgetReset(w) == [w EXCEPT !.nudges = 0, !.timer = FALSE]

\* Mutant: one more nudge than the cap.
BudgetSpent_OffByOne(w) == w.nudges > MaxNudgesPerQuestion

BudgetSpent(w) == w.nudges >= MaxNudgesPerQuestion

\* _arm: a pending timer is left alone when there is nothing to arm.
Armed(w, over) ==
    IF w.closed \/ over \/ BudgetSpent(w) THEN w
    ELSE [w EXCEPT !.timer = TRUE]

\* _on_agent_state.
OnAgentState(w, new, over) ==
    IF new = "listening" THEN Armed(w, over) ELSE TimerCancelled(w)

\* _on_user_state.
OnUserState(w, new) == IF new = "speaking" THEN BudgetReset(w) ELSE w

\* Mutant: the decision to speak is not made again after the sleep.
MayNudge_Trusting(over) == TRUE

\* What _wait_then_nudge looks at after its sleep.
MayNudge(over) ==
    /\ ~idle.closed /\ ~over
    /\ ~BudgetSpent(idle)
    /\ ear.user # "speaking"
    /\ ear.agent = "listening"

-----------------------------------------------------------------------------
(* The session's events; over is what is_finished() answers.               *)

AgentBecomes(new, over) ==
    /\ ear.agent # new
    /\ ear' = [ear EXCEPT !.agent = new]
    /\ idle' = OnAgentState(idle, new, over)

\* VAD hears the candidate.
UserSpeaks ==
    /\ ear.user = "listening"
    /\ ear' = [ear EXCEPT !.user = "speaking", !.answering = TRUE]
    /\ idle' = OnUserState(idle, "speaking")

\* A pause: perhaps the end of the answer, perhaps not.
UserPauses ==
    /\ ear.user = "speaking"
    /\ ear' = [ear EXCEPT !.user = "listening"]
    /\ idle' = OnUserState(idle, "listening")

\* The timer's sleep ends.  say() makes the agent speak.
TimerFires(over) ==
    /\ idle.timer
    /\ IF MayNudge(over)
       THEN /\ idle' = [idle EXCEPT !.nudges = @ + 1, !.timer = FALSE]
            /\ ear' = [ear EXCEPT !.agent = "speaking"]
       ELSE /\ idle' = TimerCancelled(idle)
            /\ UNCHANGED ear

Nudged == idle'.nudges = idle.nudges + 1

=============================================================================
