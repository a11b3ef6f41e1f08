-------------------------- MODULE InterviewRecords --------------------------
(***************************************************************************)
(* What one voice job leaves behind for HR: its recording and its speaker- *)
(* labelled transcript, from the invitation of the candidate to the end    *)
(* of the job's teardown (services/livekit/v2/agent_server_v2.py).         *)
(***************************************************************************)
EXTENDS TranscriptRecorder, RecordingLifecycle, VoiceInvites

recordVars == <<transcriptVars, recordingVars>>
vars == <<transcriptVars, recordingVars, inviteVars>>

Init == TranscriptInit /\ RecordingInit /\ InviteInit

Joining == InviteStep /\ UNCHANGED recordVars

Joined == room # 0

\* The recorder is started for a participant that is in the room.
StartTask ==
    /\ Joined
    /\ \/ StartRecording \/ StartAnnounces \/ EgressStarted \/ EgressNotStarted
       \/ StartReports \/ StartFails
    /\ UNCHANGED <<transcriptVars, inviteVars>>

StopTask ==
    /\ \/ StopGivesUp \/ StopProceeds \/ EgressStopped \/ Poll \/ PollFails
       \/ PollsExhausted \/ StopReports \/ StopFails \/ StopCancelled
    /\ UNCHANGED <<transcriptVars, inviteVars>>

\* finished is set: the recorder is stopped, and only then the transcript.
TeardownStopsRecorder ==
    recorder.start # "idle" /\ StopRecording /\ UNCHANGED <<transcriptVars, inviteVars>>

TeardownClosesTranscript ==
    recorder.stop = "done" /\ CloseTranscript /\ UNCHANGED <<recordingVars, inviteVars>>

\* The steps that follow the transcript's stop, and the thread of each flush.
CloseTask ==
    /\ \/ transcript.stopping /\ DrainFlushes
       \/ DrainCancelled \/ FinalFlush
       \/ BatchCommits("aclose") \/ BatchFails("aclose")
    /\ UNCHANGED <<recordingVars, inviteVars>>

DrainTask ==
    /\ \/ DrainFlushes \/ BatchCommits("drain") \/ BatchFails("drain")
    /\ UNCHANGED <<recordingVars, inviteVars>>

Speech == Joined /\ SegmentSpoken /\ UNCHANGED <<recordingVars, inviteVars>>
Provider == EgressMoves /\ UNCHANGED <<transcriptVars, inviteVars>>

\* The job is over, or its candidate never came.
JobOver ==
    /\ \/ /\ TranscriptClosed /\ recorder.start = "done" /\ ~EgressRuns
          /\ transcript.sequence = MaxSegments /\ flush["drain"].at = "done"
       \/ ~Joined /\ ~item.inFlight /\ item.session = MaxCalls
    /\ UNCHANGED vars

Next == \/ Joining
        \/ StartTask \/ StopTask \/ TeardownStopsRecorder \/ TeardownClosesTranscript
        \/ CloseTask \/ DrainTask \/ Speech \/ Provider \/ JobOver

\* The event loop runs what is ready and its timeouts come; a call of the
\* provider or a write of the drain task may hang.
Spec ==
    /\ Init /\ [][Next]_vars
    /\ WF_vars(StopTask) /\ WF_vars(TeardownClosesTranscript) /\ WF_vars(CloseTask)

-----------------------------------------------------------------------------

\* Types; the queue never outgrows its bound.
TypeOK == TranscriptTypeOK /\ RecordingTypeOK /\ InviteTypeOK

\* A call is recorded only with the consent stored for that very session, for
\* all the invitations, reloads and attempts of the item that came before
\* where consent is required (voice_invite_service.py:208).
RecordedWithConsent == recorder.start # "idle" => room \in consented

InBatch(f) == {flush[f].batch[i] : i \in DOMAIN flush[f].batch}
Queued == {transcript.queue[i] : i \in DOMAIN transcript.queue}
Missing == {s \in 0..(transcript.sequence - 1) :
                s \notin segments \cup Queued \cup InBatch("drain") \cup InBatch("aclose")}

\* While the interview runs, a segment that is neither stored nor on its way is
\* one the queue had no room for, and it was counted, whatever writes fail and
\* however often a batch is tried (transcript_recorder.py:152).
LossesAreCounted == ~transcript.stopping => Cardinality(Missing) <= transcript.dropped

\* Unless the queue was full or a write failed during teardown, what was said
\* before the final flush is all stored once the transcript is closed and the
\* threads are back: earlier failures have been made good (transcript_recorder.py:160).
TranscriptIsComplete ==
    TranscriptClosed /\ flush["drain"].at = "done" /\ ~transcript.failed
        /\ transcript.dropped = 0
    => 0..(transcript.sealed - 1) \subseteq segments

\* Teardown is not held up: a start that never returns, a provider that never
\* answers or a drain that hangs delays the end of the job, and no more
\* (recording.py:153, transcript_recorder.py:168).
TeardownEnds == (recorder.stop = "waiting") ~> (recorder.stop = "done" /\ TranscriptClosed)

=============================================================================
