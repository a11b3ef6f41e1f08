----------------------- MODULE InterviewRecordsProofs -----------------------
(***************************************************************************)
(* What is left of an interview, for any number of attempts, segments and  *)
(* polls and any size of the transcript's queue: no call is recorded       *)
(* without the consent given for that very call, and no segment of the     *)
(* transcript is lost without being counted.                               *)
(***************************************************************************)
EXTENDS InterviewRecords, FiniteSetTheorems, SequenceTheorems, TLAPS

-----------------------------------------------------------------------------
(* The recording and its consent.                                          *)

\* A session is numbered from one: 0 is none, and nobody consents to it.
Numbered ==
    /\ item.inFlight => item.session # 0
    /\ page.at = "invited" => page.session # 0
    /\ 0 \notin consented

\* A token, a place in the room and a recording each rest on a consent.
Permitted ==
    /\ page.at \in {"token", "room"} => page.session \in consented
    /\ room # 0 => room \in consented
    /\ recorder.start # "idle" => room # 0

IInv == InviteTypeOK /\ RecordingTypeOK /\ Numbered /\ Permitted

\* The initial states satisfy the invariant.
LEMMA InitHolds == Init => IInv
BY CallsAssumption, PollAssumption
   DEF Init, InviteInit, RecordingInit, IInv, InviteTypeOK, RecordingTypeOK, Item, Page,
       Recorder, RecordingStatus, Egress, Numbered, Permitted

\* The worker's and the candidate's steps up to the room.
LEMMA JoiningHolds ==
  ASSUME IInv, Joining
  PROVE  IInv'
<1>. USE DEF IInv, Numbered, Permitted
<1>1. UNCHANGED recordingVars
  BY DEF Joining, recordVars
<1>2. RecordingTypeOK' /\ recorder' = recorder
  BY <1>1 DEF recordingVars, RecordingTypeOK
<1>3. /\ item \in Item /\ page \in Page /\ item.session \in 0..MaxCalls
      /\ page.session \in 0..MaxCalls /\ item.session \in Nat /\ MaxCalls \in Nat
  BY CallsAssumption DEF InviteTypeOK, Item, Page
<1>4. CASE AttemptBegins
  BY <1>2, <1>3, <1>4 DEF AttemptBegins, NoTokenYet, InviteTypeOK, Item
<1>5. CASE AttemptOver
  BY <1>2, <1>3, <1>5 DEF AttemptOver, InviteTypeOK, Item
<1>6. CASE Invite
  BY <1>2, <1>3, <1>6 DEF Invite, Ready, InviteTypeOK, Page
<1>7. CASE InvitationLapses
  BY <1>2, <1>3, <1>7 DEF InvitationLapses, InviteTypeOK, Page
<1>8. CASE Reload
  BY <1>2, <1>3, <1>8 DEF Reload, InviteTypeOK, Page
<1>9. CASE RecordConsent
  <2>1. page.session \in 1..MaxCalls
    BY <1>3, <1>9 DEF RecordConsent
  <2> QED
    BY <1>2, <1>3, <1>9, <2>1 DEF RecordConsent, WithConsentFor, InviteTypeOK
<1>10. CASE IssueRoomToken
  BY <1>2, <1>3, <1>10 DEF IssueRoomToken, RequireConsent, InviteTypeOK, Page
<1>11. CASE JoinRoom
  BY <1>2, <1>3, <1>11 DEF JoinRoom, InviteTypeOK, Page
<1> QED
  BY <1>4, <1>5, <1>6, <1>7, <1>8, <1>9, <1>10, <1>11 DEF Joining, InviteStep

\* The recorder's own steps keep its types, and none leads back to idle.
LEMMA RecorderTyped ==
  ASSUME IInv, StartTask \/ StopTask \/ TeardownStopsRecorder \/ Provider
  PROVE  RecordingTypeOK'
<1>. USE PollAssumption DEF IInv, RecordingTypeOK, Persisted, Upserted
<1>1. /\ recorder \in Recorder /\ recording \in RecordingStatus \union {"none"}
      /\ egress \in Egress
  OBVIOUS
<1>2. \A e \in Egress : MappedStatus(e) \in RecordingStatus
  BY DEF MappedStatus, Egress, RecordingStatus
<1>3. {"pending", "failed"} \subseteq RecordingStatus
  BY DEF RecordingStatus
<1>4. CASE StartTask
  <2>1. CASE StartRecording
    BY <1>1, <2>1 DEF StartRecording, Recorder
  <2>2. CASE StartAnnounces \/ StartReports \/ StartFails
    BY <1>1, <1>3, <2>2 DEF StartAnnounces, StartReports, StartFails, Recorder
  <2>3. CASE EgressStarted
    <3>1. egress' \in Egress /\ MappedStatus(egress') \in RecordingStatus
      BY <1>2, <2>3 DEF EgressStarted, Egress
    <3> QED
      BY <1>1, <2>3, <3>1 DEF EgressStarted, Recorder
  <2>4. CASE EgressNotStarted
    BY <1>1, <2>4 DEF EgressNotStarted, Recorder, Egress
  <2> QED
    BY <1>4, <2>1, <2>2, <2>3, <2>4 DEF StartTask
<1>5. CASE StopTask
  <2>1. CASE Poll
    <3>1. recorder.polls < MaxPolls => recorder.polls + 1 \in 0..MaxPolls
      BY <1>1 DEF Recorder
    <3>2. MappedStatus(egress) \in RecordingStatus
      BY <1>1, <1>2
    <3> QED
      BY <1>1, <2>1, <3>1, <3>2 DEF Poll, Recorder
  <2>2. CASE StopGivesUp \/ StopProceeds \/ EgressStopped \/ PollFails \/ PollsExhausted
    BY <1>1, <2>2 DEF StopGivesUp, StopProceeds, EgressStopped, PollFails, PollsExhausted,
       Recorder, Egress
  <2>3. CASE StopReports \/ StopFails \/ StopCancelled
    BY <1>1, <1>3, <2>3 DEF StopReports, StopFails, StopCancelled, Recorder
  <2> QED
    BY <1>5, <2>1, <2>2, <2>3 DEF StopTask
<1>6. CASE TeardownStopsRecorder
  BY <1>1, <1>6 DEF TeardownStopsRecorder, StopRecording, Recorder
<1>7. CASE Provider
  BY <1>1, <1>7 DEF Provider, EgressMoves, Egress
<1> QED
  BY <1>4, <1>5, <1>6, <1>7

\* Every step of the recording keeps the invariant.
LEMMA RecorderHolds ==
  ASSUME IInv, StartTask \/ StopTask \/ TeardownStopsRecorder \/ Provider
  PROVE  IInv'
<1>1. UNCHANGED inviteVars
  BY DEF StartTask, StopTask, TeardownStopsRecorder, Provider
<1>2. recorder.start = "idle" => recorder'.start = "idle" \/ Joined
  <2>1. recorder \in Recorder
    BY DEF IInv, RecordingTypeOK
  <2>2. CASE StartTask
    BY <2>2 DEF StartTask
  <2>3. CASE StopTask
    BY <2>1, <2>3 DEF StopTask, StopGivesUp, StopProceeds, EgressStopped, Poll, PollFails,
       PollsExhausted, StopReports, StopFails, StopCancelled, Recorder
  <2>4. CASE TeardownStopsRecorder \/ Provider
    BY <2>1, <2>4 DEF TeardownStopsRecorder, StopRecording, Provider, EgressMoves, Recorder
  <2> QED
    BY <2>2, <2>3, <2>4
<1> QED
  BY <1>1, <1>2, RecorderTyped
     DEF IInv, inviteVars, InviteTypeOK, Numbered, Permitted, Joined

\* Everything else leaves the candidate and the recorder alone.
LEMMA OthersHold ==
  ASSUME IInv, UNCHANGED <<recordingVars, inviteVars>>
  PROVE  IInv'
BY DEF IInv, recordingVars, inviteVars, InviteTypeOK, RecordingTypeOK, Numbered, Permitted

\* The invariant is inductive.
LEMMA InvariantHolds == Spec => []IInv
<1>1. IInv /\ [Next]_vars => IInv'
  <2>. SUFFICES ASSUME IInv, [Next]_vars PROVE IInv'
    OBVIOUS
  <2>1. CASE Joining
    BY <2>1, JoiningHolds
  <2>2. CASE StartTask \/ StopTask \/ TeardownStopsRecorder \/ Provider
    BY <2>2, RecorderHolds
  <2>3. CASE \/ TeardownClosesTranscript \/ CloseTask \/ DrainTask \/ Speech \/ JobOver
             \/ UNCHANGED vars
    <3>1. UNCHANGED <<recordingVars, inviteVars>>
      BY <2>3 DEF TeardownClosesTranscript, CloseTask, DrainTask, Speech, JobOver, vars
    <3> QED
      BY <3>1, OthersHold
  <2> QED
    BY <2>1, <2>2, <2>3 DEF Next
<1> QED
  BY InitHolds, <1>1, PTL DEF Spec

-----------------------------------------------------------------------------

\* Whatever invitations, reloads, expiries and earlier attempts came before, a
\* recording runs only in the room of a session whose consent is on file
\* (VoiceInviteService._require_consent).
THEOREM ConsentBeforeRecording == Spec => []RecordedWithConsent
<1>1. IInv => RecordedWithConsent
  BY DEF IInv, Permitted, RecordedWithConsent
<1> QED
  BY InvariantHolds, <1>1, PTL

-----------------------------------------------------------------------------
(* The transcript.                                                         *)

\* A batch exists exactly while a thread has it; the drain task ends, or is
\* given up, only once the stop was asked for, and the final flush comes last.
FlushesOK ==
    /\ \A f \in Flusher : flush[f].at \in {"waiting", "done"} => flush[f].batch = << >>
    /\ flush["drain"].at \in {"abandoned", "done"} => transcript.stopping
    /\ flush["aclose"].at # "waiting" =>
          transcript.stopping /\ flush["drain"].at \in {"abandoned", "done"}
    /\ flush["aclose"].at # "abandoned"
    /\ transcript.failed => transcript.stopping
    /\ transcript.sealed <= transcript.sequence

\* What is missing was counted as long as the job runs; nothing at all is missing
\* unless something was dropped or a write failed during teardown; and after the
\* final flush the queue holds only what was said later.
Accounted ==
    /\ ~transcript.stopping => Cardinality(Missing) <= transcript.dropped
    /\ ~transcript.failed /\ transcript.dropped = 0 => Missing = {}
    /\ flush["aclose"].at # "waiting" /\ ~transcript.failed =>
          \A i \in DOMAIN transcript.queue : transcript.queue[i] >= transcript.sealed

TranscriptInv == TranscriptTypeOK /\ FlushesOK /\ Accounted

\* What the types say of the numbers.
LEMMA Numbers ==
  ASSUME TranscriptTypeOK
  PROVE  /\ MaxQueued \in Nat \ {0} /\ MaxSegments \in Nat
         /\ transcript.sequence \in Nat /\ transcript.sequence <= MaxSegments
         /\ transcript.sealed \in Nat /\ transcript.dropped \in Nat
         /\ transcript.queue \in Seq(Segment) /\ Len(transcript.queue) \in Nat
         /\ DOMAIN transcript.queue = 1..Len(transcript.queue)
         /\ Len(transcript.queue) <= MaxQueued
         /\ \A i \in DOMAIN transcript.queue : transcript.queue[i] \in Nat
  BY TranscriptAssumption DEF TranscriptTypeOK, Transcript, Segment

\* What is missing can be counted.
LEMMA MissingFinite ==
  ASSUME TranscriptTypeOK
  PROVE  IsFiniteSet(Missing) /\ Cardinality(Missing) \in Nat
<1>1. 0 \in Int /\ transcript.sequence - 1 \in Int
  BY Numbers
<1>2. IsFiniteSet(0..(transcript.sequence - 1))
  BY <1>1, FS_Interval
<1>3. Missing \in SUBSET (0..(transcript.sequence - 1))
  BY DEF Missing
<1> QED
  BY <1>2, <1>3, FS_Subset, FS_CardinalityType

\* At most as many more are missing as there are places they came from.
LEMMA MoreMissing ==
  ASSUME NEW before, IsFiniteSet(before), NEW batch, NEW m \in Nat, NEW n \in Nat, m <= n,
         NEW after \in SUBSET (before \union {batch[i] : i \in (m + 1)..n})
  PROVE  IsFiniteSet(after) /\ Cardinality(after) <= Cardinality(before) + (n - m)
<1>. DEFINE places == (m + 1)..n
            lost   == {batch[i] : i \in places}
            f      == [i \in places |-> batch[i]]
<1>1. IsFiniteSet(places) /\ Cardinality(places) = n - m
  <2>1. m + 1 \in Int /\ n \in Int
    OBVIOUS
  <2>2. IsFiniteSet(places) /\ Cardinality(places) = IF m + 1 > n THEN 0 ELSE n - (m + 1) + 1
    BY <2>1, FS_Interval
  <2> QED
    BY <2>2
<1>2. f \in Surjection(places, lost)
  BY DEF Surjection
<1>3. IsFiniteSet(lost) /\ Cardinality(lost) <= n - m
  BY <1>1, <1>2, FS_Surjection
<1>4. Cardinality(lost) \in Nat /\ Cardinality(before) \in Nat
      /\ Cardinality(before \cap lost) \in Nat
  <2>1. before \cap lost \in SUBSET before
    OBVIOUS
  <2> QED
    BY <1>3, <2>1, FS_CardinalityType, FS_Subset
<1>. HIDE DEF lost, f, places
<1>5. /\ IsFiniteSet(before \union lost)
      /\ Cardinality(before \union lost) =
            Cardinality(before) + Cardinality(lost) - Cardinality(before \cap lost)
  BY <1>3, FS_Union
<1>6. after \in SUBSET (before \union lost)
  BY DEF lost, places
<1>7. IsFiniteSet(after) /\ Cardinality(after) <= Cardinality(before \union lost)
  BY <1>5, <1>6, FS_Subset
<1>8. Cardinality(after) \in Nat
  BY <1>7, FS_CardinalityType
<1> QED
  BY <1>3, <1>4, <1>5, <1>7, <1>8

\* The counts of a step: what becomes missing is dropped, and nothing does
\* while nothing is.
LEMMA StillCounted ==
  ASSUME TranscriptInv, transcript'.dropped \in Nat, NEW batch,
         NEW m \in Nat, NEW n \in Nat, m <= n,
         transcript'.dropped = transcript.dropped + (n - m),
         Missing' \subseteq Missing \union {batch[i] : i \in (m + 1)..n},
         ~transcript'.stopping => ~transcript.stopping,
         ~transcript'.failed => ~transcript.failed
  PROVE  /\ ~transcript'.stopping => Cardinality(Missing') <= transcript'.dropped
         /\ ~transcript'.failed /\ transcript'.dropped = 0 => Missing' = {}
<1>1. IsFiniteSet(Missing) /\ Cardinality(Missing) \in Nat /\ transcript.dropped \in Nat
  BY MissingFinite, Numbers DEF TranscriptInv
<1>2. IsFiniteSet(Missing') /\ Cardinality(Missing') <= Cardinality(Missing) + (n - m)
  BY <1>1, MoreMissing
<1>3. Cardinality(Missing') \in Nat
  BY <1>2, FS_CardinalityType
<1>4. ~transcript'.failed /\ transcript'.dropped = 0 => Missing' = {}
  <2>. SUFFICES ASSUME ~transcript'.failed, transcript'.dropped = 0 PROVE Missing' = {}
    OBVIOUS
  <2>1. transcript.dropped = 0 /\ m = n
    <3>1. \A d \in Nat : d + (n - m) = 0 => d = 0 /\ m = n
      OBVIOUS
    <3>2. transcript.dropped + (n - m) = 0
      OBVIOUS
    <3> QED
      BY <1>1, <3>1, <3>2
  <2>2. Missing = {}
    BY <2>1 DEF TranscriptInv, Accounted
  <2>3. (m + 1)..n = {}
    BY <2>1
  <2> QED
    BY <2>2, <2>3
<1> QED
  BY <1>1, <1>2, <1>3, <1>4 DEF TranscriptInv, Accounted

\* The same for a step that makes nothing missing.
LEMMA NothingLost ==
  ASSUME TranscriptInv, transcript'.dropped = transcript.dropped, Missing' \subseteq Missing,
         ~transcript'.stopping => ~transcript.stopping,
         ~transcript'.failed => ~transcript.failed
  PROVE  /\ ~transcript'.stopping => Cardinality(Missing') <= transcript'.dropped
         /\ ~transcript'.failed /\ transcript'.dropped = 0 => Missing' = {}
<1>1. IsFiniteSet(Missing) /\ Cardinality(Missing) \in Nat /\ transcript.dropped \in Nat
  BY MissingFinite, Numbers DEF TranscriptInv
<1>2. IsFiniteSet(Missing') /\ Cardinality(Missing') <= Cardinality(Missing)
  BY <1>1, FS_Subset
<1>3. Cardinality(Missing') \in Nat
  BY <1>2, FS_CardinalityType
<1> QED
  BY <1>1, <1>2, <1>3 DEF TranscriptInv, Accounted

\* A segment is spoken: queued, or dropped and counted.
LEMMA SpokenHolds ==
  ASSUME TranscriptInv, SegmentSpoken
  PROVE  TranscriptInv'
<1>. DEFINE n == transcript.sequence
            q == transcript.queue
<1>1. TranscriptTypeOK /\ FlushesOK /\ Accounted /\ transcript \in Transcript
  BY DEF TranscriptInv, TranscriptTypeOK
<1>2. /\ n \in Nat /\ n < MaxSegments /\ n \in Segment /\ n + 1 \in 0..MaxSegments
      /\ MaxSegments \in Nat /\ transcript.sealed \in Nat /\ transcript.sealed <= n
      /\ q \in Seq(Segment) /\ transcript.dropped \in Nat /\ MaxQueued \in Nat
      /\ Len(q) \in Nat /\ Len(q) <= MaxQueued /\ DOMAIN q = 1..Len(q)
  BY <1>1, Numbers DEF SegmentSpoken, Segment, FlushesOK
<1>3. UNCHANGED <<flush, segments>>
  BY DEF SegmentSpoken
<1>. HIDE DEF n, q
<1>4. CASE Len(q) < MaxQueued
  <2>1. transcript' = [transcript EXCEPT !.queue = Append(q, n), !.sequence = n + 1]
    BY <1>4, <1>1 DEF SegmentSpoken, Enqueued, Transcript, n, q
  <2>2. /\ Append(q, n) \in Seq(Segment) /\ Len(Append(q, n)) = Len(q) + 1
        /\ DOMAIN Append(q, n) = 1..(Len(q) + 1) /\ Append(q, n)[Len(q) + 1] = n
        /\ \A i \in DOMAIN q : i \in DOMAIN Append(q, n) /\ Append(q, n)[i] = q[i]
        /\ \A i \in DOMAIN Append(q, n) : Append(q, n)[i] = n \/ i \in DOMAIN q
    BY <1>2
  <2>3. TranscriptTypeOK'
    <3>1. transcript' \in Transcript
      BY <1>1, <1>2, <2>1, <2>2 DEF Transcript
    <3>2. Len(transcript'.queue) <= MaxQueued
      <4>1. transcript'.queue = Append(q, n)
        BY <1>1, <2>1 DEF Transcript
      <4> QED
        BY <1>2, <1>4, <2>2, <4>1
    <3> QED
      BY <1>1, <1>3, <3>1, <3>2 DEF TranscriptTypeOK
  <2>4. /\ transcript'.queue = Append(q, n) /\ transcript'.sequence = n + 1
        /\ transcript'.dropped = transcript.dropped /\ transcript'.sealed = transcript.sealed
        /\ transcript'.stopping = transcript.stopping /\ transcript'.failed = transcript.failed
    BY <1>1, <2>1 DEF Transcript
  <2>5. Missing' \subseteq Missing
    <3>1. Queued \subseteq Queued' /\ n \in Queued'
      BY <1>2, <2>2, <2>4 DEF Queued, q
    <3>2. InBatch("drain")' = InBatch("drain") /\ InBatch("aclose")' = InBatch("aclose")
      BY <1>3 DEF InBatch
    <3>3. \A x \in 0..(transcript'.sequence - 1) : x = n \/ x \in 0..(transcript.sequence - 1)
      BY <1>2, <2>4 DEF n
    <3> QED
      BY <1>3, <3>1, <3>2, <3>3 DEF Missing
  <2>6. /\ ~transcript'.stopping => Cardinality(Missing') <= transcript'.dropped
        /\ ~transcript'.failed /\ transcript'.dropped = 0 => Missing' = {}
    BY <2>4, <2>5, NothingLost
  <2>7. Accounted'
    <3>1. flush["aclose"].at # "waiting" /\ ~transcript.failed =>
            \A i \in DOMAIN Append(q, n) : Append(q, n)[i] >= transcript.sealed
      BY <1>1, <1>2, <2>2 DEF Accounted, q
    <3> QED
      BY <1>3, <2>4, <2>6, <3>1 DEF Accounted
  <2>8. FlushesOK'
    BY <1>1, <1>2, <1>3, <2>4 DEF FlushesOK, n
  <2> QED
    BY <2>3, <2>7, <2>8 DEF TranscriptInv
<1>5. CASE ~(Len(q) < MaxQueued)
  <2>1. transcript' = [transcript EXCEPT !.dropped = @ + 1, !.sequence = n + 1]
    BY <1>5, <1>1 DEF SegmentSpoken, Enqueued, Transcript, n, q
  <2>2. transcript.dropped + 1 \in Nat
    BY <1>2
  <2>3. TranscriptTypeOK'
    BY <1>1, <1>2, <1>3, <2>1, <2>2 DEF TranscriptTypeOK, Transcript
  <2>4. /\ transcript'.queue = q /\ transcript'.sequence = n + 1
        /\ transcript'.dropped = transcript.dropped + 1 /\ transcript'.sealed = transcript.sealed
        /\ transcript'.stopping = transcript.stopping /\ transcript'.failed = transcript.failed
    BY <1>1, <2>1 DEF Transcript, q
  <2>. DEFINE one == [i \in {1} |-> n]
  <2>5. Missing' \subseteq Missing \union {one[i] : i \in (0 + 1)..1}
    <3>1. Queued' = Queued
      BY <2>4 DEF Queued, q
    <3>2. InBatch("drain")' = InBatch("drain") /\ InBatch("aclose")' = InBatch("aclose")
      BY <1>3 DEF InBatch
    <3>3. \A x \in 0..(transcript'.sequence - 1) : x = n \/ x \in 0..(transcript.sequence - 1)
      BY <1>2, <2>4 DEF n
    <3>4. n \in {one[i] : i \in (0 + 1)..1}
      OBVIOUS
    <3> QED
      BY <1>3, <3>1, <3>2, <3>3, <3>4 DEF Missing
  <2>. HIDE DEF one
  <2>6. /\ ~transcript'.stopping => Cardinality(Missing') <= transcript'.dropped
        /\ ~transcript'.failed /\ transcript'.dropped = 0 => Missing' = {}
    <3>1. transcript'.dropped = transcript.dropped + (1 - 0) /\ transcript'.dropped \in Nat
      BY <1>2, <2>2, <2>4
    <3>2. 0 \in Nat /\ 1 \in Nat /\ 0 <= 1
      OBVIOUS
    <3> QED
      BY <2>4, <2>5, <3>1, <3>2, StillCounted
  <2>7. Accounted'
    BY <1>1, <1>3, <2>4, <2>6 DEF Accounted, q
  <2>8. FlushesOK'
    BY <1>1, <1>2, <1>3, <2>4 DEF FlushesOK, n
  <2> QED
    BY <2>3, <2>7, <2>8 DEF TranscriptInv
<1> QED
  BY <1>4, <1>5

\* The queue becomes a batch, and the stop is asked for.
LEMMA FlushHolds ==
  ASSUME TranscriptInv,
         DrainFlushes \/ FinalFlush \/ DrainCancelled \/ CloseTranscript
  PROVE  TranscriptInv'
<1>1. /\ TranscriptTypeOK /\ FlushesOK /\ Accounted /\ transcript \in Transcript
      /\ flush \in [Flusher -> Flush] /\ "drain" \in Flusher /\ "aclose" \in Flusher
  BY DEF TranscriptInv, TranscriptTypeOK, Flusher
<1>2. /\ transcript.queue \in Seq(Segment) /\ << >> \in Seq(Segment) /\ Len(<< >>) = 0
      /\ DOMAIN << >> = {} /\ MaxQueued \in Nat
      /\ transcript.sequence \in 0..MaxSegments /\ transcript.sequence \in Nat
      /\ transcript.sealed <= transcript.sequence
  BY <1>1, Numbers DEF Transcript, FlushesOK
<1>3. segments' = segments
  BY DEF DrainFlushes, FinalFlush, DrainCancelled, CloseTranscript
<1>4. ASSUME NEW f \in Flusher, flush[f].at = "waiting",
             flush' = [flush EXCEPT ![f] = [at |-> "writing", batch |-> transcript.queue]],
             transcript'.queue = << >>, transcript'.sequence = transcript.sequence
      PROVE  Missing' \subseteq Missing /\ flush' \in [Flusher -> Flush]
  <2>1. flush[f].batch = << >>
    BY <1>1, <1>4 DEF FlushesOK
  <2>2. InBatch(f)' = Queued
    BY <1>1, <1>4 DEF InBatch, Queued
  <2>3. InBatch(f) = {}
    BY <1>2, <2>1 DEF InBatch
  <2>4. \A g \in Flusher \ {f} : InBatch(g)' = InBatch(g)
    BY <1>1, <1>4 DEF InBatch
  <2>5. flush' \in [Flusher -> Flush]
    BY <1>1, <1>2, <1>4 DEF Flush
  <2> QED
    BY <1>1, <1>3, <1>4, <2>2, <2>3, <2>4, <2>5 DEF Missing, Flusher
<1>5. ASSUME NEW f \in Flusher, NEW at,
             flush' = [flush EXCEPT ![f].at = at], transcript'.queue = transcript.queue,
             transcript'.sequence = transcript.sequence
      PROVE  Missing' = Missing
  <2>1. \A g \in Flusher : InBatch(g)' = InBatch(g)
    BY <1>1, <1>5 DEF InBatch, Flush
  <2>2. Queued' = Queued
    BY <1>5 DEF Queued
  <2> QED
    BY <1>1, <1>3, <1>5, <2>1, <2>2 DEF Missing
<1>6. CASE DrainFlushes /\ transcript.queue # << >>
  <2>1. /\ flush' = [flush EXCEPT !["drain"] = [at |-> "writing", batch |-> transcript.queue]]
        /\ transcript' = [transcript EXCEPT !.queue = << >>]
        /\ flush["drain"].at = "waiting" /\ flush["aclose"].at = "waiting"
    BY <1>6 DEF DrainFlushes, Drained
  <2>2. /\ transcript' \in Transcript /\ transcript'.queue = << >>
        /\ transcript'.sequence = transcript.sequence /\ transcript'.dropped = transcript.dropped
        /\ transcript'.stopping = transcript.stopping /\ transcript'.failed = transcript.failed
        /\ transcript'.sealed = transcript.sealed
    BY <1>1, <1>2, <2>1 DEF Transcript
  <2>3. Missing' \subseteq Missing /\ flush' \in [Flusher -> Flush]
    BY <1>1, <1>4, <2>1, <2>2
  <2>4. TranscriptTypeOK'
    BY <1>1, <1>2, <1>3, <2>2, <2>3 DEF TranscriptTypeOK
  <2>5. FlushesOK'
    BY <1>1, <2>1, <2>2 DEF FlushesOK, Flusher
  <2>6. Accounted'
    BY <1>1, <2>1, <2>2, <2>3, NothingLost DEF Accounted
  <2> QED
    BY <2>4, <2>5, <2>6 DEF TranscriptInv
<1>7. CASE DrainFlushes /\ transcript.queue = << >>
  <2>. DEFINE at == IF transcript.stopping THEN "done" ELSE "waiting"
  <2>1. /\ flush' = [flush EXCEPT !["drain"].at = at] /\ transcript' = transcript
        /\ flush["drain"].at = "waiting" /\ flush["aclose"].at = "waiting"
    BY <1>7 DEF DrainFlushes, Drained
  <2>2. at \in {"done", "waiting"} /\ (at = "done" => transcript.stopping)
    OBVIOUS
  <2>. HIDE DEF at
  <2>3. Missing' = Missing
    BY <1>1, <1>5, <2>1
  <2>4. TranscriptTypeOK'
    BY <1>1, <1>3, <2>1, <2>2 DEF TranscriptTypeOK, Flush
  <2>5. FlushesOK'
    BY <1>1, <2>1, <2>2 DEF FlushesOK, Flusher, Flush
  <2>6. Accounted'
    BY <1>1, <2>1, <2>3 DEF Accounted
  <2> QED
    BY <2>4, <2>5, <2>6 DEF TranscriptInv
<1>8. CASE FinalFlush /\ transcript.queue # << >>
  <2>1. /\ flush' = [flush EXCEPT !["aclose"] = [at |-> "writing", batch |-> transcript.queue]]
        /\ transcript' = [transcript EXCEPT !.queue = << >>, !.sealed = transcript.sequence]
        /\ flush["aclose"].at = "waiting" /\ flush["drain"].at \in {"done", "abandoned"}
        /\ transcript.stopping
    BY <1>8 DEF FinalFlush
  <2>2. /\ transcript' \in Transcript /\ transcript'.queue = << >>
        /\ transcript'.sequence = transcript.sequence /\ transcript'.dropped = transcript.dropped
        /\ transcript'.stopping = transcript.stopping /\ transcript'.failed = transcript.failed
        /\ transcript'.sealed = transcript.sequence
    BY <1>1, <1>2, <2>1 DEF Transcript
  <2>3. Missing' \subseteq Missing /\ flush' \in [Flusher -> Flush]
    BY <1>1, <1>4, <2>1, <2>2
  <2>4. TranscriptTypeOK'
    BY <1>1, <1>2, <1>3, <2>2, <2>3 DEF TranscriptTypeOK
  <2>5. FlushesOK'
    BY <1>1, <1>2, <2>1, <2>2 DEF FlushesOK, Flusher
  <2>6. Accounted'
    BY <1>1, <1>2, <2>1, <2>2, <2>3, NothingLost DEF Accounted
  <2> QED
    BY <2>4, <2>5, <2>6 DEF TranscriptInv
<1>9. CASE FinalFlush /\ transcript.queue = << >>
  <2>1. /\ flush' = [flush EXCEPT !["aclose"].at = "done"]
        /\ transcript' = [transcript EXCEPT !.sealed = transcript.sequence]
        /\ flush["aclose"].at = "waiting" /\ flush["drain"].at \in {"done", "abandoned"}
        /\ transcript.stopping
    BY <1>9 DEF FinalFlush
  <2>2. /\ transcript' \in Transcript /\ transcript'.queue = << >>
        /\ transcript'.sequence = transcript.sequence /\ transcript'.dropped = transcript.dropped
        /\ transcript'.stopping = transcript.stopping /\ transcript'.failed = transcript.failed
        /\ transcript'.sealed = transcript.sequence
    BY <1>1, <1>2, <1>9, <2>1 DEF Transcript
  <2>3. Missing' = Missing
    BY <1>1, <1>5, <1>9, <2>1, <2>2
  <2>4. TranscriptTypeOK'
    <3>1. flush' \in [Flusher -> Flush]
      BY <1>1, <2>1 DEF Flush
    <3> QED
      BY <1>1, <1>2, <1>3, <2>2, <3>1 DEF TranscriptTypeOK
  <2>5. FlushesOK'
    BY <1>1, <1>2, <2>1, <2>2 DEF FlushesOK, Flusher, Flush
  <2>6. Accounted'
    BY <1>1, <1>2, <2>2, <2>3 DEF Accounted
  <2> QED
    BY <2>4, <2>5, <2>6 DEF TranscriptInv
<1>10. CASE DrainCancelled
  <2>1. /\ flush' = [flush EXCEPT !["drain"].at = "abandoned"] /\ transcript' = transcript
        /\ flush["drain"].at = "writing" /\ transcript.stopping
    BY <1>10 DEF DrainCancelled
  <2>2. Missing' = Missing
    BY <1>1, <1>5, <2>1
  <2>3. TranscriptTypeOK'
    BY <1>1, <1>3, <2>1 DEF TranscriptTypeOK, Flush
  <2>4. FlushesOK'
    BY <1>1, <2>1 DEF FlushesOK, Flusher, Flush
  <2>5. Accounted'
    <3>1. flush'["aclose"] = flush["aclose"]
      BY <1>1, <2>1
    <3> QED
      BY <1>1, <2>1, <2>2, <3>1 DEF Accounted
  <2> QED
    BY <2>3, <2>4, <2>5 DEF TranscriptInv
<1>11. CASE CloseTranscript
  <2>1. transcript' = [transcript EXCEPT !.stopping = TRUE] /\ flush' = flush
    BY <1>11 DEF CloseTranscript
  <2>2. /\ transcript' \in Transcript /\ transcript'.queue = transcript.queue
        /\ transcript'.sequence = transcript.sequence /\ transcript'.dropped = transcript.dropped
        /\ transcript'.stopping /\ transcript'.failed = transcript.failed
        /\ transcript'.sealed = transcript.sealed
    BY <1>1, <2>1 DEF Transcript
  <2>3. Missing' = Missing
    BY <1>3, <2>1, <2>2 DEF Missing, Queued, InBatch
  <2>4. TranscriptTypeOK'
    BY <1>1, <1>3, <2>1, <2>2 DEF TranscriptTypeOK
  <2>5. FlushesOK' /\ Accounted'
    BY <1>1, <2>1, <2>2, <2>3 DEF FlushesOK, Accounted
  <2> QED
    BY <2>4, <2>5 DEF TranscriptInv
<1> QED
  BY <1>6, <1>7, <1>8, <1>9, <1>10, <1>11

\* What the end of a write leaves of its batch.
LEMMA WriteOver ==
  ASSUME TranscriptInv, NEW f \in Flusher, BatchCommits(f) \/ BatchFails(f)
  PROVE  /\ flush' \in [Flusher -> Flush] /\ InBatch(f)' = {}
         /\ \A g \in Flusher \ {f} : flush'[g] = flush[g]
         /\ flush'[f].at \in {"done", "waiting"} /\ flush'[f].batch = << >>
         /\ flush'[f].at = "waiting" => ~transcript.stopping /\ f = "drain"
         /\ flush[f].at = "abandoned" => flush'[f].at = "done"
         /\ f = "aclose" => flush[f].at = "writing" /\ transcript.stopping
         /\ flush'[f].at = "done" => transcript.stopping
<1>. DEFINE at == IF flush[f].at = "abandoned" THEN "done" ELSE AfterWrite(f)
<1>1. /\ TranscriptTypeOK /\ FlushesOK /\ flush \in [Flusher -> Flush]
  BY DEF TranscriptInv, TranscriptTypeOK
<1>2. /\ flush' = [flush EXCEPT ![f] = [at |-> at, batch |-> << >>]]
      /\ flush[f].at \in {"writing", "abandoned"}
  BY DEF BatchCommits, BatchFails
<1>3. /\ at \in {"done", "waiting"} /\ (flush[f].at = "abandoned" => at = "done")
      /\ (f = "aclose" => at = "done")
      /\ (flush[f].at = "writing" /\ f # "aclose" => (at = "done" <=> transcript.stopping))
  BY <1>2 DEF AfterWrite
<1>. HIDE DEF at
<1>4. flush'[f] = [at |-> at, batch |-> << >>] /\ \A g \in Flusher \ {f} : flush'[g] = flush[g]
  BY <1>1, <1>2
<1>5. InBatch(f)' = {}
  BY <1>4 DEF InBatch
<1>6. flush' \in [Flusher -> Flush]
  BY <1>1, <1>2, <1>3 DEF Flush
<1>7. f = "aclose" => flush[f].at = "writing" /\ transcript.stopping
  BY <1>1, <1>2 DEF FlushesOK
<1>8. flush[f].at = "abandoned" => transcript.stopping
  BY <1>1, <1>7 DEF FlushesOK, Flusher
<1>9. at = "waiting" => ~transcript.stopping /\ f = "drain"
  BY <1>2, <1>3, <1>7 DEF Flusher
<1>10. at = "done" => transcript.stopping
  BY <1>2, <1>3, <1>7, <1>8
<1> QED
  BY <1>3, <1>4, <1>5, <1>6, <1>7, <1>9, <1>10

\* The flushes are as they should be after the end of a write.
LEMMA WriteOverFlushes ==
  ASSUME TranscriptInv, NEW f \in Flusher, BatchCommits(f) \/ BatchFails(f),
         transcript'.stopping = transcript.stopping,
         transcript'.failed => transcript'.stopping,
         transcript'.sealed = transcript.sealed, transcript'.sequence = transcript.sequence
  PROVE  FlushesOK'
<1>1. FlushesOK
  BY DEF TranscriptInv
<1>2. flush[f].at \in {"writing", "abandoned"}
  BY DEF BatchCommits, BatchFails
<1> QED
  BY <1>1, <1>2, WriteOver DEF FlushesOK, Flusher

\* A batch is stored, but for what was stored already.
LEMMA CommitHolds ==
  ASSUME TranscriptInv, NEW f \in Flusher, BatchCommits(f)
  PROVE  TranscriptInv'
<1>1. TranscriptTypeOK /\ Accounted /\ flush \in [Flusher -> Flush]
  BY DEF TranscriptInv, TranscriptTypeOK
<1>2. transcript' = transcript /\ segments' = segments \union InBatch(f)
  BY DEF BatchCommits, InBatch
<1>3. InBatch(f) \subseteq Segment
  BY <1>1 DEF InBatch, Flush
<1>4. \A g \in Flusher \ {f} : InBatch(g)' = InBatch(g)
  BY WriteOver DEF InBatch
<1>5. Missing' \subseteq Missing
  BY <1>2, <1>4, WriteOver DEF Missing, Queued, Flusher
<1>6. TranscriptTypeOK'
  BY <1>1, <1>2, <1>3, WriteOver DEF TranscriptTypeOK
<1>7. FlushesOK'
  <2>1. transcript.failed => transcript.stopping
    BY DEF TranscriptInv, FlushesOK
  <2> QED
    BY <1>2, <2>1, WriteOverFlushes
<1>8. Accounted'
  <2>1. flush'["aclose"].at # "waiting" => flush["aclose"].at # "waiting"
    BY WriteOver DEF Flusher
  <2> QED
    BY <1>1, <1>2, <1>5, <2>1, NothingLost DEF Accounted
<1> QED
  BY <1>6, <1>7, <1>8 DEF TranscriptInv

\* o is t with the first taken segments of a batch put back and the rest counted.
PutBack(t, batch, o, taken) ==
    /\ taken <= Len(batch) /\ o \in Transcript
    /\ o = [t EXCEPT !.queue = o.queue, !.dropped = t.dropped + (Len(batch) - taken)]
    /\ Len(o.queue) <= MaxQueued
    /\ \A i \in DOMAIN t.queue : \E j \in DOMAIN o.queue : o.queue[j] = t.queue[i]
    /\ \A i \in 1..taken : \E j \in DOMAIN o.queue : o.queue[j] = batch[i]

\* A failed batch is put back as far as there is space.
LEMMA RequeuedFacts ==
  ASSUME NEW t \in Transcript, Len(t.queue) <= MaxQueued, NEW batch \in Seq(Segment)
  PROVE  \E taken \in Nat : PutBack(t, batch, Requeued(t, batch), taken)
<1>. DEFINE q     == t.queue
            space == MaxQueued - Len(q)
            taken == IF Len(batch) <= space THEN Len(batch) ELSE space
            put   == SubSeq(batch, 1, taken)
            o     == [t EXCEPT !.queue = q \o put, !.dropped = @ + (Len(batch) - taken)]
<1>1. o = Requeued(t, batch)
  BY DEF Requeued
<1>2. /\ q \in Seq(Segment) /\ Len(q) \in Nat /\ DOMAIN q = 1..Len(q) /\ Len(q) <= MaxQueued
      /\ MaxQueued \in Nat /\ Len(batch) \in Nat /\ t.dropped \in Nat
  BY TranscriptAssumption DEF Transcript
<1>. HIDE DEF q
<1>3. taken \in Nat /\ taken <= Len(batch) /\ Len(q) + taken <= MaxQueued
  BY <1>2
<1>. HIDE DEF taken
<1>4. put \in Seq(Segment) /\ Len(put) = taken /\ \A i \in 1..taken : put[i] = batch[i]
  <2>1. \A i \in 1..taken : batch[i] \in Segment
    BY <1>3
  <2>2. /\ put \in Seq(Segment) /\ Len(put) = IF 1 <= taken THEN taken - 1 + 1 ELSE 0
        /\ \A i \in 1..(taken - 1 + 1) : put[i] = batch[1 + i - 1]
    BY <1>3, <2>1, SubSeqProperties
  <2> QED
    BY <1>3, <2>2
<1>. HIDE DEF put
<1>5. /\ q \o put \in Seq(Segment) /\ Len(q \o put) = Len(q) + taken
      /\ DOMAIN (q \o put) = 1..(Len(q) + taken)
      /\ \A i \in 1..(Len(q) + taken) :
            (q \o put)[i] = IF i <= Len(q) THEN q[i] ELSE put[i - Len(q)]
  BY <1>2, <1>3, <1>4, ConcatProperties
<1>6. Len(batch) - taken \in Nat /\ t.dropped + (Len(batch) - taken) \in Nat
  BY <1>2, <1>3
<1>7. /\ o \in Transcript /\ o.queue = q \o put
      /\ o = [t EXCEPT !.queue = o.queue, !.dropped = t.dropped + (Len(batch) - taken)]
  BY <1>5, <1>6 DEF Transcript
<1>8. \A i \in DOMAIN q : i \in DOMAIN (q \o put) /\ (q \o put)[i] = q[i]
  BY <1>2, <1>3, <1>5
<1>9. \A i \in 1..taken : Len(q) + i \in DOMAIN (q \o put) /\ (q \o put)[Len(q) + i] = batch[i]
  BY <1>2, <1>3, <1>4, <1>5
<1>10. Len(o.queue) <= MaxQueued
  BY <1>3, <1>5, <1>7
<1>. HIDE DEF o
<1>11. PutBack(t, batch, o, taken)
  BY <1>3, <1>7, <1>8, <1>9, <1>10 DEF PutBack, q
<1> QED
  BY <1>1, <1>3, <1>11

\* A write fails: its batch is put back as far as there is room, unless the task
\* that had to do it was given up.
LEMMA FailHolds ==
  ASSUME TranscriptInv, NEW f \in Flusher, BatchFails(f)
  PROVE  TranscriptInv'
<1>. DEFINE failed == [transcript EXCEPT !.failed = transcript.stopping]
            batch  == flush[f].batch
<1>1. /\ TranscriptTypeOK /\ FlushesOK /\ Accounted /\ transcript \in Transcript
      /\ flush \in [Flusher -> Flush] /\ batch \in Seq(Segment)
  BY DEF TranscriptInv, TranscriptTypeOK, Flush
<1>2. /\ failed \in Transcript /\ failed.queue = transcript.queue
      /\ failed.stopping = transcript.stopping /\ failed.failed = transcript.stopping
      /\ failed.dropped = transcript.dropped /\ failed.sealed = transcript.sealed
      /\ failed.sequence = transcript.sequence
  BY <1>1 DEF Transcript
<1>3. Len(transcript.queue) <= MaxQueued
  BY <1>1 DEF TranscriptTypeOK
<1>4. transcript' = IF flush[f].at = "abandoned" THEN failed ELSE Requeued(failed, batch)
  BY DEF BatchFails
<1>5. segments' = segments \/ segments' = segments \union InBatch(f)
  BY DEF BatchFails, InBatch
<1>6. segments' \subseteq Segment /\ segments \subseteq segments'
  <2>1. InBatch(f) \subseteq Segment
    BY <1>1 DEF InBatch
  <2> QED
    BY <1>1, <1>5, <2>1 DEF TranscriptTypeOK
<1>7. \A g \in Flusher \ {f} : InBatch(g)' = InBatch(g)
  BY WriteOver DEF InBatch
<1>8. transcript.failed => transcript.stopping
  BY <1>1 DEF FlushesOK
<1>. HIDE DEF failed, batch
<1>9. CASE flush[f].at = "abandoned"
  <2>1. transcript' = failed /\ transcript.stopping
    <3>1. f = "drain"
      BY <1>9, WriteOver DEF Flusher
    <3> QED
      BY <1>1, <1>4, <1>9, <3>1 DEF FlushesOK
  <2>2. TranscriptTypeOK'
    BY <1>1, <1>2, <1>3, <1>6, <2>1, WriteOver DEF TranscriptTypeOK
  <2>3. FlushesOK'
    BY <1>2, <2>1, WriteOverFlushes
  <2>4. Accounted'
    BY <1>2, <2>1 DEF Accounted
  <2> QED
    BY <2>2, <2>3, <2>4 DEF TranscriptInv
<1>10. CASE flush[f].at # "abandoned"
  <2>1. PICK taken \in Nat : PutBack(failed, batch, transcript', taken)
    BY <1>1, <1>2, <1>3, <1>4, <1>10, RequeuedFacts
  <2>2. /\ transcript'.stopping = transcript.stopping /\ transcript'.failed = transcript.stopping
        /\ transcript'.dropped = transcript.dropped + (Len(batch) - taken)
        /\ transcript'.sealed = transcript.sealed
        /\ transcript'.sequence = transcript.sequence /\ transcript'.dropped \in Nat
    BY <1>2, <2>1 DEF PutBack, Transcript
  <2>3. TranscriptTypeOK'
    BY <1>1, <1>6, <2>1, WriteOver DEF TranscriptTypeOK, PutBack
  <2>4. FlushesOK'
    BY <2>2, WriteOverFlushes
  <2>5. Missing' \subseteq Missing \union {batch[i] : i \in (taken + 1)..Len(batch)}
    <3>1. Queued \subseteq Queued'
      BY <1>2, <2>1 DEF Queued, PutBack
    <3>2. ASSUME NEW x \in InBatch(f), x \notin Queued'
          PROVE  x \in {batch[i] : i \in (taken + 1)..Len(batch)}
      <4>1. PICK i \in 1..Len(batch) : x = batch[i]
        BY <1>1 DEF InBatch, batch
      <4>2. i \notin 1..taken
        BY <2>1, <3>2, <4>1 DEF Queued, PutBack
      <4>3. i \in (taken + 1)..Len(batch)
        BY <1>1, <4>2
      <4> QED
        BY <4>1, <4>3
    <3> QED
      BY <1>6, <1>7, <2>2, <3>1, <3>2, WriteOver DEF Missing, Flusher
  <2>6. /\ ~transcript'.stopping => Cardinality(Missing') <= transcript'.dropped
        /\ ~transcript'.failed /\ transcript'.dropped = 0 => Missing' = {}
    <3>1. Len(batch) \in Nat
      BY <1>1
    <3> QED
      BY <1>8, <2>1, <2>2, <2>5, <3>1, StillCounted DEF PutBack
  <2>7. flush'["aclose"].at # "waiting" => transcript'.stopping
    BY <2>4 DEF FlushesOK
  <2>8. Accounted'
    BY <2>2, <2>6, <2>7 DEF Accounted
  <2> QED
    BY <2>3, <2>4, <2>8 DEF TranscriptInv
<1> QED
  BY <1>9, <1>10

\* Nothing is heard and nothing is written at first.
LEMMA TranscriptInitHolds == Init => TranscriptInv
<1>. SUFFICES ASSUME Init PROVE TranscriptInv
  OBVIOUS
<1>1. /\ transcript = [sequence |-> 0, queue |-> << >>, dropped |-> 0, stopping |-> FALSE,
                       failed |-> FALSE, sealed |-> 0]
      /\ flush = [f \in Flusher |-> [at |-> "waiting", batch |-> << >>]] /\ segments = {}
  BY DEF Init, TranscriptInit
<1>2. TranscriptTypeOK
  <2>1. transcript \in Transcript
    BY <1>1, TranscriptAssumption DEF Transcript
  <2>2. flush \in [Flusher -> Flush]
    BY <1>1 DEF Flush
  <2>3. Len(transcript.queue) <= MaxQueued
    BY <1>1, TranscriptAssumption
  <2> QED
    BY <1>1, <2>1, <2>2, <2>3 DEF TranscriptTypeOK
<1>3. FlushesOK
  BY <1>1 DEF FlushesOK, Flusher
<1>4. Accounted
  <2>1. 0..(transcript.sequence - 1) = {}
    BY <1>1
  <2>2. Missing = {}
    BY <2>1 DEF Missing
  <2>3. Cardinality(Missing) <= transcript.dropped
    BY <1>1, <2>2, FS_EmptySet
  <2> QED
    BY <1>1, <2>2, <2>3 DEF Accounted, Flusher
<1> QED
  BY <1>2, <1>3, <1>4 DEF TranscriptInv

\* Every step of the job, its tasks and its threads accounts for its segments.
LEMMA TranscriptNextHolds == TranscriptInv /\ [Next]_vars => TranscriptInv'
<1>. SUFFICES ASSUME TranscriptInv, [Next]_vars PROVE TranscriptInv'
  OBVIOUS
<1>1. CASE UNCHANGED transcriptVars
  BY <1>1 DEF transcriptVars, TranscriptInv, TranscriptTypeOK, FlushesOK, Accounted,
     Missing, Queued, InBatch
<1>2. CASE Joining \/ StartTask \/ StopTask \/ TeardownStopsRecorder \/ Provider
             \/ JobOver \/ UNCHANGED vars
  <2>1. UNCHANGED transcriptVars
    BY <1>2 DEF Joining, recordVars, StartTask, StopTask, TeardownStopsRecorder, Provider,
       JobOver, vars
  <2> QED
    BY <1>1, <2>1
<1>3. CASE Speech
  BY <1>3, SpokenHolds DEF Speech
<1>4. CASE TeardownClosesTranscript
  BY <1>4, FlushHolds DEF TeardownClosesTranscript
<1>5. "drain" \in Flusher /\ "aclose" \in Flusher
  BY DEF Flusher
<1>6. CASE CloseTask
  BY <1>5, <1>6, FlushHolds, CommitHolds, FailHolds DEF CloseTask
<1>7. CASE DrainTask
  BY <1>5, <1>7, FlushHolds, CommitHolds, FailHolds DEF DrainTask
<1> QED
  BY <1>2, <1>3, <1>4, <1>6, <1>7 DEF Next

\* The transcript's invariant is inductive.
LEMMA TranscriptHolds == Spec => []TranscriptInv
  BY TranscriptInitHolds, TranscriptNextHolds, PTL DEF Spec

\* Types, whatever the sizes: the queue never outgrows its bound
\* (VoiceTranscriptRecorder._enqueue).
THEOREM RecordsTyped == Spec => []TypeOK
<1>1. IInv /\ TranscriptInv => TypeOK
  BY DEF IInv, TranscriptInv, TypeOK
<1> QED
  BY InvariantHolds, TranscriptHolds, <1>1, PTL

\* While the interview runs, whatever writes fail and however often a batch is
\* tried, no more is missing than the queue refused and counted
\* (VoiceTranscriptRecorder._flush_once).
THEOREM LossesCounted == Spec => []LossesAreCounted
<1>1. TranscriptInv => LossesAreCounted
  BY DEF TranscriptInv, Accounted, LossesAreCounted
<1> QED
  BY TranscriptHolds, <1>1, PTL

\* Once aclose is through and the threads are back, everything said before the
\* final flush is stored, unless the queue was full or a write failed during
\* teardown (VoiceTranscriptRecorder.aclose): what is not missing is neither in
\* a batch, for there is none, nor in the queue, which holds only later words.
THEOREM TranscriptComplete == Spec => []TranscriptIsComplete
<1>1. TranscriptInv => TranscriptIsComplete
  <2>. SUFFICES ASSUME TranscriptInv, TranscriptClosed, flush["drain"].at = "done",
                       ~transcript.failed, transcript.dropped = 0,
                       NEW x \in 0..(transcript.sealed - 1)
                PROVE  x \in segments
    BY DEF TranscriptIsComplete
  <2>1. TranscriptTypeOK /\ FlushesOK /\ Accounted
    BY DEF TranscriptInv
  <2>2. /\ transcript.sequence \in Nat /\ transcript.sealed \in Nat
        /\ transcript.sealed <= transcript.sequence
        /\ \A i \in DOMAIN transcript.queue : transcript.queue[i] \in Nat
    BY <2>1, Numbers DEF FlushesOK
  <2>3. x \in 0..(transcript.sequence - 1) /\ x < transcript.sealed
    BY <2>2
  <2>4. x \notin Queued
    BY <2>1, <2>2, <2>3 DEF Accounted, Queued, TranscriptClosed
  <2>5. InBatch("drain") = {} /\ InBatch("aclose") = {}
    BY <2>1 DEF FlushesOK, Flusher, InBatch, TranscriptClosed
  <2>6. Missing = {}
    BY <2>1 DEF Accounted
  <2> QED
    BY <2>3, <2>4, <2>5, <2>6 DEF Missing
<1> QED
  BY TranscriptHolds, <1>1, PTL

=============================================================================
