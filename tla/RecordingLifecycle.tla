------------------------- MODULE RecordingLifecycle -------------------------
(***************************************************************************)
(* services/livekit/v2/recording.py over the egress gateway                *)
(* (services/livekit/egress_gateway.py) and the recordings table           *)
(* (services/db/recordings.py).  start and stop are tasks of their own;    *)
(* every call of the provider and every upsert runs in a thread, may fail, *)
(* and its task resumes afterwards.                                        *)
(***************************************************************************)
EXTENDS Naturals

CONSTANT MaxPolls    \* _FINALIZE_POLL_ATTEMPTS

ASSUME PollAssumption == MaxPolls \in Nat \ {0}

VARIABLES
    recorder,   \* the recorder object and its two tasks
    recording,  \* the row's status, "none" before there is a row
    egress      \* LiveKit's egress of this room

recordingVars == <<recorder, recording, egress>>

RecordingStatus == {"pending", "active", "completed", "failed", "aborted"}
TerminalRecordingStatuses == {"completed", "failed", "aborted"}

\* _STATUS_MAP and its default.
MappedStatus(e) ==
    CASE e \in {"starting", "none"}          -> "pending"
      [] e \in {"active", "ending"}          -> "active"
      [] e = "complete"                      -> "completed"
      [] e = "failed"                        -> "failed"
      [] e \in {"aborted", "limit_reached"}  -> "aborted"

Egress == {"none", "starting", "active", "ending", "complete", "failed",
           "aborted", "limit_reached"}

Recorder == [start   : {"idle", "announcing", "calling", "reporting", "failing", "done"},
             stop    : {"idle", "waiting", "stopping", "polling", "reporting",
                        "failing", "done"},
             started : BOOLEAN,               \* the Event
             known   : BOOLEAN,               \* _egress_id
             seenByStart : RecordingStatus,   \* what each task is about to report
             seenByStop  : RecordingStatus,
             polls   : 0..MaxPolls]

RecordingTypeOK ==
    /\ recorder \in Recorder
    /\ recording \in RecordingStatus \union {"none"}
    /\ egress \in Egress

RecordingInit ==
    /\ recorder = [start |-> "idle", stop |-> "idle", started |-> FALSE, known |-> FALSE,
                   seenByStart |-> "pending", seenByStop |-> "pending", polls |-> 0]
    /\ recording = "none"
    /\ egress = "none"

-----------------------------------------------------------------------------
(* LiveKit's side.                                                         *)

EgressRuns == egress \in {"starting", "active", "ending"}

\* Its own progress: it also ends when the room is finished, fails, or stops
\* at a limit.
EgressMoves ==
    /\ \/ egress = "starting" /\ egress' \in {"active", "failed", "aborted"}
       \/ egress = "active"   /\ egress' \in {"ending", "failed", "limit_reached"}
       \/ egress = "ending"   /\ egress' \in {"complete", "failed"}
    /\ UNCHANGED <<recorder, recording>>

-----------------------------------------------------------------------------
(* upsert writes the whole row, whatever it held.                          *)

Upserted(status) == recording' = status

\* _persist: the upsert, or its failure is logged.
Persisted(status) == Upserted(status) \/ UNCHANGED recording

(* start.                                                                  *)

StartRecording ==
    /\ recorder.start = "idle"
    /\ recorder' = [recorder EXCEPT !.start = "announcing"]
    /\ UNCHANGED <<recording, egress>>

StartAnnounces ==
    /\ recorder.start = "announcing"
    /\ Persisted("pending")
    /\ recorder' = [recorder EXCEPT !.start = "calling"]
    /\ UNCHANGED egress

\* start_room_audio_recording answers with the egress it has made.
EgressStarted ==
    /\ recorder.start = "calling"
    /\ egress' \in {"starting", "active"}
    /\ recorder' = [recorder EXCEPT !.start = "reporting", !.known = TRUE, !.started = TRUE,
                                    !.seenByStart = MappedStatus(egress')]
    /\ UNCHANGED recording

\* It raises: no credentials, no bucket, no answer.  LiveKit may have made the
\* egress all the same.
EgressNotStarted ==
    /\ recorder.start = "calling"
    /\ egress' \in {"none", "starting"}
    /\ recorder' = [recorder EXCEPT !.start = "failing"]
    /\ UNCHANGED recording

StartReports ==
    /\ recorder.start = "reporting"
    /\ Persisted(recorder.seenByStart)
    /\ recorder' = [recorder EXCEPT !.start = "done"]
    /\ UNCHANGED egress

\* _fail: the row first, then the event.
StartFails ==
    /\ recorder.start = "failing"
    /\ Persisted("failed")
    /\ recorder' = [recorder EXCEPT !.start = "done", !.started = TRUE]
    /\ UNCHANGED egress

-----------------------------------------------------------------------------
(* stop.                                                                   *)

StopRecording ==
    /\ recorder.stop = "idle"
    /\ recorder' = [recorder EXCEPT !.stop = "waiting"]
    /\ UNCHANGED <<recording, egress>>

\* Mutant: the wait for the start has no timeout.
StopGivesUp_Never == FALSE /\ UNCHANGED recordingVars

\* Ten seconds without a start.
StopGivesUp ==
    /\ recorder.stop = "waiting" /\ ~recorder.started
    /\ recorder' = [recorder EXCEPT !.stop = "done"]
    /\ UNCHANGED <<recording, egress>>

StopProceeds ==
    /\ recorder.stop = "waiting" /\ recorder.started
    /\ recorder' = [recorder EXCEPT !.stop = IF recorder.known THEN "stopping" ELSE "done"]
    /\ UNCHANGED <<recording, egress>>

\* stop_egress takes effect, or fails: it is not told which egress ended itself.
EgressStopped ==
    /\ recorder.stop = "stopping"
    /\ egress' \in {egress} \union (IF EgressRuns THEN {"ending"} ELSE {})
    /\ recorder' = [recorder EXCEPT !.stop = "polling"]
    /\ UNCHANGED recording

\* One look at the egress.
Poll ==
    /\ recorder.stop = "polling" /\ recorder.polls < MaxPolls
    /\ recorder' = IF MappedStatus(egress) \in TerminalRecordingStatuses
                   THEN [recorder EXCEPT !.stop = "reporting",
                                         !.seenByStop = MappedStatus(egress)]
                   ELSE [recorder EXCEPT !.polls = @ + 1]
    /\ UNCHANGED <<recording, egress>>

\* The look fails or finds nothing.
PollFails ==
    /\ recorder.stop = "polling" /\ recorder.polls < MaxPolls
    /\ recorder' = [recorder EXCEPT !.stop = "failing"]
    /\ UNCHANGED <<recording, egress>>

PollsExhausted ==
    /\ recorder.stop = "polling" /\ recorder.polls = MaxPolls
    /\ recorder' = [recorder EXCEPT !.stop = "done"]
    /\ UNCHANGED <<recording, egress>>

StopReports ==
    /\ recorder.stop = "reporting"
    /\ Persisted(recorder.seenByStop)
    /\ recorder' = [recorder EXCEPT !.stop = "done"]
    /\ UNCHANGED egress

StopFails ==
    /\ recorder.stop = "failing"
    /\ Persisted("failed")
    /\ recorder' = [recorder EXCEPT !.stop = "done"]
    /\ UNCHANGED egress

\* Teardown waits sixty seconds for stop, then cancels it.
StopCancelled ==
    /\ recorder.stop \in {"stopping", "polling", "reporting", "failing"}
    /\ recorder' = [recorder EXCEPT !.stop = "done"]
    /\ \/ UNCHANGED recording
       \/ recorder.stop = "reporting" /\ Upserted(recorder.seenByStop)
       \/ recorder.stop = "failing" /\ Upserted("failed")
    /\ UNCHANGED egress

=============================================================================
