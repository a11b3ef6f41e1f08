------------------------- MODULE TranscriptRecorder -------------------------
(***************************************************************************)
(* services/livekit/v2/transcript_recorder.py and the segment table it     *)
(* writes (services/db/recordings.py).  A segment is its sequence number.  *)
(* The drain task and aclose hand a batch to a thread; the thread's insert *)
(* may fail before its commit or after it, and goes on when the task that  *)
(* awaits it has been cancelled.                                           *)
(***************************************************************************)
EXTENDS Naturals, Sequences, FiniteSets

CONSTANTS MaxQueued,    \* _MAX_QUEUED_SEGMENTS
          MaxSegments   \* bound: what is said in the interview

ASSUME TranscriptAssumption == MaxQueued \in Nat \ {0} /\ MaxSegments \in Nat

VARIABLES
    transcript,   \* the recorder object
    flush,        \* the batch of the drain task and of aclose's final flush
    segments      \* voice_transcript_segments: the stored sequence numbers

transcriptVars == <<transcript, flush, segments>>

Segment == 0..(MaxSegments - 1)
Flusher == {"drain", "aclose"}

Transcript == [sequence : 0..MaxSegments, queue : Seq(Segment), dropped : Nat,
               stopping : BOOLEAN,
               failed : BOOLEAN,                 \* a write has failed since the stop
               sealed : 0..MaxSegments]          \* said before the final flush

Flush == [at : {"waiting", "writing", "abandoned", "done"}, batch : Seq(Segment)]

TranscriptTypeOK ==
    /\ transcript \in Transcript
    /\ Len(transcript.queue) <= MaxQueued
    /\ flush \in [Flusher -> Flush]
    /\ segments \subseteq Segment

TranscriptInit ==
    /\ transcript = [sequence |-> 0, queue |-> << >>, dropped |-> 0,
                     stopping |-> FALSE, failed |-> FALSE, sealed |-> 0]
    /\ flush = [f \in Flusher |-> [at |-> "waiting", batch |-> << >>]]
    /\ segments = {}

-----------------------------------------------------------------------------

\* Mutant: one segment over the bound is taken.
Enqueued_OffByOne(t, s) ==
    IF Len(t.queue) <= MaxQueued
    THEN [t EXCEPT !.queue = Append(@, s)]
    ELSE [t EXCEPT !.dropped = @ + 1]

\* _enqueue: put_nowait, or the segment is dropped and counted.
Enqueued(t, s) ==
    IF Len(t.queue) < MaxQueued
    THEN [t EXCEPT !.queue = Append(@, s)]
    ELSE [t EXCEPT !.dropped = @ + 1]

\* _on_item, for an utterance of either speaker.
SegmentSpoken ==
    /\ transcript.sequence < MaxSegments
    /\ transcript' = [Enqueued(transcript, transcript.sequence) EXCEPT !.sequence = @ + 1]
    /\ UNCHANGED <<flush, segments>>

\* _flush_once up to its await: the queue is emptied into a batch.
Drained(f) ==
    IF transcript.queue = << >>
    THEN /\ flush' = [flush EXCEPT ![f].at = IF transcript.stopping THEN "done" ELSE "waiting"]
         /\ UNCHANGED transcript
    ELSE /\ flush' = [flush EXCEPT ![f] = [at |-> "writing", batch |-> transcript.queue]]
         /\ transcript' = [transcript EXCEPT !.queue = << >>]

\* The interval has passed, or the stop was asked for.
DrainFlushes ==
    /\ flush["drain"].at = "waiting"
    /\ flush["aclose"].at = "waiting"
    /\ Drained("drain")
    /\ UNCHANGED segments

\* aclose sets the stop; its final flush follows the drain task's end.
CloseTranscript ==
    /\ ~transcript.stopping
    /\ transcript' = [transcript EXCEPT !.stopping = TRUE]
    /\ UNCHANGED <<flush, segments>>

\* Ten seconds have passed and the drain task still awaits its thread.
DrainCancelled ==
    /\ transcript.stopping
    /\ flush["drain"].at = "writing"
    /\ flush' = [flush EXCEPT !["drain"].at = "abandoned"]
    /\ UNCHANGED <<transcript, segments>>

\* Mutant: aclose trusts the drain task to have written everything.
FinalFlush_Omitted ==
    /\ transcript.stopping
    /\ flush["drain"].at \in {"done", "abandoned"}
    /\ flush["aclose"].at = "waiting"
    /\ flush' = [flush EXCEPT !["aclose"].at = "done"]
    /\ transcript' = [transcript EXCEPT !.sealed = transcript.sequence]
    /\ UNCHANGED segments

FinalFlush ==
    /\ transcript.stopping
    /\ flush["drain"].at \in {"done", "abandoned"}
    /\ flush["aclose"].at = "waiting"
    /\ IF transcript.queue = << >>
       THEN /\ flush' = [flush EXCEPT !["aclose"].at = "done"]
            /\ transcript' = [transcript EXCEPT !.sealed = transcript.sequence]
       ELSE /\ flush' = [flush EXCEPT !["aclose"] = [at |-> "writing",
                                                     batch |-> transcript.queue]]
            /\ transcript' = [transcript EXCEPT !.queue = << >>,
                                                !.sealed = transcript.sequence]
    /\ UNCHANGED segments

AfterWrite(f) == IF f = "aclose" \/ transcript.stopping THEN "done" ELSE "waiting"

\* append_many: what is stored already is skipped.
BatchCommits(f) ==
    /\ flush[f].at \in {"writing", "abandoned"} /\ flush[f].batch # << >>
    /\ segments' = segments \cup {flush[f].batch[i] : i \in DOMAIN flush[f].batch}
    /\ flush' = [flush EXCEPT ![f] =
                    [at |-> IF @.at = "abandoned" THEN "done" ELSE AfterWrite(f),
                     batch |-> << >>]]
    /\ UNCHANGED transcript

\* Mutant: the batch of a failed write is not put back.
Requeued_Forgets(t, batch) == t

\* The segments get another attempt: each is enqueued in its turn, so that the
\* first ones find room and the rest are dropped and counted.
Requeued(t, batch) ==
    LET room  == MaxQueued - Len(t.queue)
        taken == IF Len(batch) <= room THEN Len(batch) ELSE room
    IN  [t EXCEPT !.queue = @ \o SubSeq(batch, 1, taken),
                  !.dropped = @ + (Len(batch) - taken)]

\* The write raises: nothing was committed, or the answer to the commit was
\* lost.  A cancelled task is not there to put the batch back.
BatchFails(f) ==
    /\ flush[f].at \in {"writing", "abandoned"} /\ flush[f].batch # << >>
    /\ \/ UNCHANGED segments
       \/ segments' = segments \cup {flush[f].batch[i] : i \in DOMAIN flush[f].batch}
    /\ LET failed == [transcript EXCEPT !.failed = transcript.stopping]
       IN  transcript' = IF flush[f].at = "abandoned" THEN failed
                         ELSE Requeued(failed, flush[f].batch)
    /\ flush' = [flush EXCEPT ![f] =
                    [at |-> IF @.at = "abandoned" THEN "done" ELSE AfterWrite(f),
                     batch |-> << >>]]

TranscriptClosed == flush["aclose"].at = "done"

=============================================================================
