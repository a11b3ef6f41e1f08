------------------------- MODULE InterviewSessions -------------------------
(***************************************************************************)
(* Interview sessions as the queue sees them: the lifecycle                *)
(* InterviewAgentService enforces (READY, IN_PROGRESS, COMPLETED,          *)
(* EVALUATED, and EVALUATED with a report on file), whose plan a session   *)
(* carries, and the room in which the voice agent conducts it.  Questions  *)
(* are told apart by version only: 0 is the position's question bank, a    *)
(* positive number a version of the candidate's own plan.                  *)
(***************************************************************************)
EXTENDS Entities

VARIABLE session

SessionState == {"absent", "ready", "in_progress", "completed", "evaluated",
                 "reported"}

SessionRow == [state : SessionState, candidate : Candidates, questions : Nat,
               room : BOOLEAN]

SessionTypeOK == session \in [SessionIds -> SessionRow]

SessionsFree == \E s \in SessionIds : session[s].state = "absent"
FreshSession == CHOOSE s \in SessionIds : session[s].state = "absent"

\* prepare() creates the session and approve_plan() takes it to READY; until
\* both are done no other process knows its id.
CreateReadySession(s, c, questions) ==
    session' = [session EXCEPT ![s] = [state |-> "ready", candidate |-> c,
                                       questions |-> questions, room |-> FALSE]]

OpenRoom(s)  == session' = [session EXCEPT ![s].room = TRUE]
CloseRoom(s) == session' = [session EXCEPT ![s].room = FALSE]

EndInterview(s) ==
    /\ session[s].state = "in_progress"
    /\ session' = [session EXCEPT ![s].state = "completed"]

EvaluateInterview(s) ==
    /\ session[s].state = "completed"
    /\ session' = [session EXCEPT ![s].state = "evaluated"]

\* A second report on an evaluated session replaces the first.
GenerateReport(s) ==
    /\ session[s].state \in {"evaluated", "reported"}
    /\ session' = [session EXCEPT ![s].state = "reported"]

\* A stored evaluation of the candidate (get_latest_for_candidate).
HasEvaluation(c) ==
    \E s \in SessionIds : /\ session[s].candidate = c
                          /\ session[s].state \in {"evaluated", "reported"}

-----------------------------------------------------------------------------
(* The voice agent in the room, started by the candidate's arrival.        *)

AgentStarts(s) ==
    /\ session[s].room
    /\ session[s].state = "ready"
    /\ session' = [session EXCEPT ![s].state = "in_progress"]

AgentFinishes(s) ==
    /\ session[s].room
    /\ session[s].state = "in_progress"
    /\ session' = [session EXCEPT ![s].state = "completed"]

=============================================================================
