---------------------------- MODULE SilenceLadder ----------------------------
(***************************************************************************)
(* application/voice_silence_coordinator.py for one session: operators     *)
(* from the coordinator's state to the state a call leaves.  Time is       *)
(* counted in units; the four thresholds are whole numbers of them.        *)
(***************************************************************************)
EXTENDS Naturals

CONSTANTS ThinkPause, PresenceCheck, PresenceRetry, NoResponse,  \* the ladder
          MaxNudges,     \* max_nudges_per_question
          MaxElapsed,    \* bound: units between two checks
          Questions      \* question ids, 0 is none

\* A later rung lies above an earlier one (_silence_ladder_ordering).  The unit
\* of time is one at which the end of an utterance is known at once.
LadderOrdered ==
    /\ {ThinkPause, PresenceCheck, PresenceRetry, NoResponse} \subseteq Nat \ {0}
    /\ ThinkPause < PresenceCheck /\ PresenceCheck < PresenceRetry
    /\ PresenceRetry < NoResponse

ASSUME LadderAssumption ==
    /\ LadderOrdered
    /\ MaxNudges \in Nat \ {0} /\ MaxElapsed \in Nat \ {0}
    /\ Questions \subseteq Nat \ {0}

NoQuestion == 0
Suggestion == {"think_pause", "presence_check", "presence_retry", "no_response"}

Silence == [quiet        : 0..NoResponse,     \* no more is told apart
            elapsed      : 0..MaxElapsed,     \* now - last_check_at
            running      : BOOLEAN,
            disposed     : BOOLEAN,
            nudges       : 0..MaxNudges,
            thinkGiven   : BOOLEAN,
            emitted      : SUBSET Suggestion, \* history
            question     : Questions \union {NoQuestion},
            userSpeaking : BOOLEAN,
            agentBusy    : BOOLEAN]

\* The first check comes while the opening is spoken, so that last_check_at is
\* not the start of the process.
SilenceInit ==
    [quiet |-> 0, elapsed |-> 0, running |-> FALSE, disposed |-> FALSE, nudges |-> 0,
     thinkGiven |-> FALSE, emitted |-> {}, question |-> NoQuestion,
     userSpeaking |-> FALSE, agentBusy |-> FALSE]

Least(a, b) == IF a < b THEN a ELSE b

\* A unit of time passes.
Ticked(s) == [s EXCEPT !.elapsed = Least(@ + 1, MaxElapsed)]

\* note_conversation_activity.
ActivityNoted(s) == [s EXCEPT !.quiet = 0, !.elapsed = 0, !.running = TRUE]

\* arm_after_question.
ArmedAfterQuestion(s, q) ==
    IF q = s.question THEN ActivityNoted(s)
    ELSE [ActivityNoted(s) EXCEPT !.nudges = 0, !.thinkGiven = FALSE, !.emitted = {},
                                  !.question = q]

\* Mutant: the clock is not resumed when the candidate stops speaking.
UserStateChanged_NoResume(s, speaking) ==
    [s EXCEPT !.userSpeaking = speaking, !.running = @ /\ ~speaking]

\* on_user_state_changed.
UserStateChanged(s, speaking) ==
    [s EXCEPT !.userSpeaking = speaking,
              !.running = IF speaking /\ ~s.userSpeaking THEN FALSE
                          ELSE IF s.userSpeaking /\ ~speaking /\ ~s.agentBusy THEN TRUE
                          ELSE @]

\* on_agent_state_changed.
AgentStateChanged(s, busy) ==
    [s EXCEPT !.agentBusy = busy,
              !.running = IF busy = s.agentBusy THEN @
                          ELSE IF busy THEN FALSE
                          ELSE @ \/ ~s.userSpeaking]

\* dispose_session.
Disposed(s) == [s EXCEPT !.disposed = TRUE, !.running = FALSE]

-----------------------------------------------------------------------------
(* check.                                                                  *)

\* The quiet clock is brought up to now.
Observed(s) ==
    [s EXCEPT !.elapsed = 0,
              !.quiet = IF s.running /\ ~s.agentBusy /\ ~s.userSpeaking
                        THEN Least(@ + s.elapsed, NoResponse) ELSE @]

\* A nudge that is due: not given yet for this question and within the cap.
Due(s, suggestion, threshold) ==
    /\ s.quiet >= threshold
    /\ suggestion \notin s.emitted
    /\ s.nudges < MaxNudges

\* The highest escalation due at an observed state, or "nothing".
Suggested(s) ==
    IF s.disposed \/ "no_response" \in s.emitted              THEN "nothing"
    ELSE IF s.quiet >= NoResponse                             THEN "no_response"
    ELSE IF Due(s, "presence_retry", PresenceRetry)           THEN "presence_retry"
    ELSE IF Due(s, "presence_check", PresenceCheck)           THEN "presence_check"
    ELSE IF Due(s, "think_pause", ThinkPause) /\ ~s.thinkGiven THEN "think_pause"
    ELSE "nothing"

\* Mutant: giving up counts as a nudge.
Recorded_CountsAll(s, suggestion) ==
    IF suggestion = "nothing" THEN s
    ELSE [s EXCEPT !.emitted = @ \union {suggestion}, !.nudges = @ + 1,
                   !.running = @ /\ suggestion # "no_response",
                   !.thinkGiven = @ \/ suggestion = "think_pause"]

\* _record.
Recorded(s, suggestion) ==
    CASE suggestion = "nothing"     -> s
      [] suggestion = "no_response" -> [s EXCEPT !.emitted = @ \union {suggestion},
                                                 !.running = FALSE]
      [] OTHER -> [s EXCEPT !.emitted = @ \union {suggestion}, !.nudges = @ + 1,
                            !.thinkGiven = @ \/ suggestion = "think_pause"]

=============================================================================
