--------------------------- MODULE VoiceJobProofs ---------------------------
(***************************************************************************)
(* Safety of one job of the first voice engine: the types, the order of    *)
(* what the candidate said, the end of the interview with the job, and     *)
(* whom the silence ladder addresses.                                      *)
(*                                                                         *)
(* The order needs two facts more: what is buffered or stored was heard,   *)
(* so that what is heard next comes after all of it, and the buffer comes  *)
(* after every stored answer.  Whom the ladder addresses needs that a      *)
(* candidate who has left has finished the job.                            *)
(***************************************************************************)
EXTENDS VoiceJob, InterviewEngineProofs

-----------------------------------------------------------------------------
(* Utterances in order.                                                    *)

Rising(words) == \A i, j \in DOMAIN words : i < j => words[i] < words[j]

Precede(words, later) == \A i \in DOMAIN words, j \in DOMAIN later : words[i] < later[j]

HeardBy(words, n) == \A i \in DOMAIN words : words[i] <= n

\* Stored answers and the buffer, when the first n utterances have been heard.
InOrder(stored, buffer, n) ==
    /\ stored \in Seq(Seq(Utterance)) /\ buffer \in Seq(Utterance)
    /\ \A k \in DOMAIN stored : /\ Rising(stored[k]) /\ HeardBy(stored[k], n)
                                /\ Precede(stored[k], buffer)
    /\ \A k, l \in DOMAIN stored : k < l => Precede(stored[k], stored[l])
    /\ Rising(buffer) /\ HeardBy(buffer, n)

\* The buffer empties, or takes what is heard next.
Rebuffered(buffer, n, words) ==
    words = << >> \/ words = buffer \/ (n \in Utterance /\ words = Append(buffer, n))

JobInv ==
    /\ TypeOK
    /\ InOrder(answers, talk.pending, ear.heard)
    /\ job.left => job.finished
    /\ SessionOverWithJob

-----------------------------------------------------------------------------

\* The parts of a buffer that has taken an utterance.
LEMMA Appended ==
  ASSUME NEW S, NEW buffer \in Seq(S), NEW e \in S
  PROVE  /\ Append(buffer, e) \in Seq(S)
         /\ DOMAIN Append(buffer, e) = 1..(Len(buffer) + 1)
         /\ DOMAIN buffer = 1..Len(buffer) /\ Len(buffer) \in Nat
         /\ Append(buffer, e)[Len(buffer) + 1] = e
         /\ \A i \in DOMAIN buffer : Append(buffer, e)[i] = buffer[i]
  OBVIOUS

\* The stored answers and the buffer after them.
LEMMA BufferLast ==
  ASSUME NEW stored \in Seq(Seq(Utterance)), NEW words \in Seq(Utterance)
  PROVE  /\ Append(stored, words) \in Seq(Seq(Utterance))
         /\ DOMAIN stored = 1..Len(stored) /\ Len(stored) \in Nat
         /\ \A k \in DOMAIN Append(stored, words) :
               \/ k \in DOMAIN stored /\ Append(stored, words)[k] = stored[k]
               \/ k = Len(stored) + 1 /\ Append(stored, words)[k] = words
  BY Appended

\* What the buffer becomes is still in order.
LEMMA BufferInOrder ==
  ASSUME NEW stored, NEW buffer, NEW n \in Nat, NEW m \in Nat, n <= m, NEW words, NEW u,
         InOrder(stored, buffer, n), Rebuffered(buffer, u, words),
         u \in Utterance => n < u /\ u <= m
  PROVE  InOrder(stored, words, m)
<1>1. \A w \in Seq(Utterance) : HeardBy(w, n) => HeardBy(w, m)
  <2>1. \A w \in Seq(Utterance) : \A i \in DOMAIN w : w[i] \in Utterance
    OBVIOUS
  <2> QED
    BY <2>1 DEF HeardBy, Utterance
<1>2. CASE words = << >> \/ words = buffer
  <2>1. /\ words \in Seq(Utterance) /\ Rising(words) /\ HeardBy(words, n)
        /\ \A k \in DOMAIN stored : Precede(stored[k], words)
    <3>1. << >> \in Seq(Utterance) /\ DOMAIN << >> = {}
      OBVIOUS
    <3> QED
      BY <1>2, <3>1 DEF InOrder, Rising, Precede, HeardBy
  <2>2. \A k \in DOMAIN stored : stored[k] \in Seq(Utterance)
    BY DEF InOrder
  <2> QED
    BY <1>1, <2>1, <2>2 DEF InOrder
<1>3. CASE u \in Utterance /\ words = Append(buffer, u)
  <2>1. /\ words \in Seq(Utterance)
        /\ \A i \in DOMAIN words : \/ i \in DOMAIN buffer /\ words[i] = buffer[i]
                                   \/ words[i] = u /\ i = Len(buffer) + 1
        /\ \A i \in DOMAIN buffer : buffer[i] \in Utterance
        /\ DOMAIN buffer = 1..Len(buffer) /\ Len(buffer) \in Nat
    <3>1. buffer \in Seq(Utterance)
      BY DEF InOrder
    <3>2. \A i \in DOMAIN buffer : buffer[i] \in Utterance
      BY <3>1
    <3>3. /\ words \in Seq(Utterance) /\ DOMAIN words = 1..(Len(buffer) + 1)
          /\ DOMAIN buffer = 1..Len(buffer) /\ Len(buffer) \in Nat
          /\ words[Len(buffer) + 1] = u
          /\ \A i \in DOMAIN buffer : words[i] = buffer[i]
      BY <1>3, <3>1, Appended
    <3> QED
      BY <3>2, <3>3
  <2>2. Rising(words) /\ HeardBy(words, m)
    <3>1. Rising(buffer) /\ HeardBy(buffer, n)
      BY DEF InOrder
    <3> QED
      BY <1>3, <2>1, <3>1 DEF Rising, HeardBy, Utterance
  <2>3. ASSUME NEW k \in DOMAIN stored
        PROVE  Precede(stored[k], words) /\ HeardBy(stored[k], m)
    <3>1. \A i \in DOMAIN stored[k] : stored[k][i] \in Utterance
      <4>1. stored[k] \in Seq(Utterance)
        BY DEF InOrder
      <4> QED
        BY <4>1
    <3>2. Precede(stored[k], buffer) /\ HeardBy(stored[k], n)
      BY DEF InOrder
    <3> QED
      BY <1>3, <2>1, <3>1, <3>2 DEF Precede, HeardBy, Utterance
  <2> QED
    BY <2>1, <2>2, <2>3 DEF InOrder
<1> QED
  BY <1>2, <1>3 DEF Rebuffered

\* The buffer becomes the last answer.
LEMMA StoredInOrder ==
  ASSUME NEW stored, NEW words, NEW n \in Nat, InOrder(stored, words, n)
  PROVE  InOrder(Append(stored, words), << >>, n)
<1>. DEFINE all == Append(stored, words)
<1>1. stored \in Seq(Seq(Utterance)) /\ words \in Seq(Utterance)
  BY DEF InOrder
<1>2. /\ all \in Seq(Seq(Utterance))
      /\ \A k \in DOMAIN all : \/ k \in DOMAIN stored /\ all[k] = stored[k]
                               \/ k = Len(stored) + 1 /\ all[k] = words
      /\ DOMAIN stored = 1..Len(stored) /\ Len(stored) \in Nat
  BY <1>1, BufferLast
<1>. HIDE DEF all
<1>3. \A k \in DOMAIN all : Rising(all[k]) /\ HeardBy(all[k], n) /\ Precede(all[k], << >>)
  <2>1. \A w : Precede(w, << >>)
    BY DEF Precede
  <2> QED
    BY <1>2, <2>1 DEF InOrder
<1>4. ASSUME NEW k \in DOMAIN all, NEW l \in DOMAIN all, k < l
      PROVE  Precede(all[k], all[l])
  <2>1. k \in DOMAIN stored /\ all[k] = stored[k]
    <3>1. \A i \in DOMAIN all : i \in 1..(Len(stored) + 1)
      BY <1>2
    <3>2. k # Len(stored) + 1
      BY <1>2, <1>4, <3>1
    <3> QED
      BY <1>2, <3>2
  <2>2. CASE all[l] = words
    BY <2>1, <2>2 DEF InOrder
  <2>3. CASE l \in DOMAIN stored /\ all[l] = stored[l]
    BY <1>4, <2>1, <2>3 DEF InOrder
  <2> QED
    BY <1>2, <2>2, <2>3
<1>5. << >> \in Seq(Utterance) /\ Rising(<< >>) /\ HeardBy(<< >>, n)
  BY DEF Rising, HeardBy
<1> QED
  BY <1>2, <1>3, <1>4, <1>5 DEF InOrder, all

-----------------------------------------------------------------------------
(* The conversation.                                                       *)

\* What a call of the conversation service makes of the buffer and the stored
\* answers, when it is given the utterance u; 0 is none.
Heeds(u) ==
    /\ talk' \in Talk
    /\ \/ answers' = answers /\ Rebuffered(talk.pending, u, talk'.pending)
       \/ \E words : /\ Rebuffered(talk.pending, u, words)
                     /\ answers' = Append(answers, words) /\ talk'.pending = << >>

\* Such a call keeps the words in order, if u is later than all of them.
LEMMA HeedsInOrder ==
  ASSUME NEW n \in Nat, NEW m \in Nat, n <= m, NEW u, u \in Utterance => n < u /\ u <= m,
         InOrder(answers, talk.pending, n), Heeds(u)
  PROVE  InOrder(answers', talk'.pending, m)
<1>1. CASE answers' = answers /\ Rebuffered(talk.pending, u, talk'.pending)
  BY <1>1, BufferInOrder
<1>2. ASSUME NEW words, Rebuffered(talk.pending, u, words),
             answers' = Append(answers, words), talk'.pending = << >>
      PROVE  InOrder(answers', talk'.pending, m)
  BY <1>2, BufferInOrder, StoredInOrder
<1> QED
  BY <1>1, <1>2 DEF Heeds

\* A stored answer leaves a session.
LEMMA SubmittedTyped ==
  ASSUME session \in InterviewSession, InProgress, NEW words, NEW answer, NEW hinted,
         NEW proposed, NEW reply, Submitted(words, answer, hinted, proposed, reply)
  PROVE  session' \in InterviewSession /\ answers' = Append(answers, words)
<1>1. session \in AnySession
  BY DEF AnySession, InterviewSession
<1>2. session' = AnswerSubmitted(session, answer, hinted, proposed)
  BY DEF Submitted
<1> QED
  BY <1>1, <1>2, SubmittedFacts DEF Submitted, InProgress

\* An interview that starts or is ended is a session.
LEMMA StartedEndedTyped ==
  ASSUME session \in InterviewSession
  PROVE  Started(session) \in InterviewSession /\ Ended(session) \in InterviewSession
  BY DEF InterviewSession, Started, Ended, InterviewState, Pending

\* The conversation begins without a buffer.
LEMMA BeginHeeds ==
  ASSUME session \in InterviewSession, talk \in Talk, NEW reply, Begin(reply)
  PROVE  session' \in InterviewSession /\ Heeds(0)
<1>1. session' \in InterviewSession
  BY StartedEndedTyped DEF Begin
<1>2. talk' \in Talk /\ talk'.pending = << >>
  BY DEF Begin, Talk
<1> QED
  BY <1>1, <1>2 DEF Begin, Heeds, Rebuffered

\* NO_RESPONSE stores the buffer, or drops it with the interview over.
LEMMA ResolveHeeds ==
  ASSUME session \in InterviewSession, talk \in Talk, NEW reply, ResolveNoResponse(reply)
  PROVE  session' \in InterviewSession /\ Heeds(0)
<1>1. talk' \in Talk /\ talk'.pending = << >>
  BY DEF ResolveNoResponse, Unbuffered, Talk
<1>2. CASE ~InProgress
  BY <1>1, <1>2 DEF ResolveNoResponse, Heeds, Rebuffered
<1>3. CASE InProgress
  <2>1. session' \in InterviewSession /\ answers' = Append(answers, talk.pending)
    BY <1>3, SubmittedTyped DEF ResolveNoResponse
  <2> QED
    BY <1>1, <2>1 DEF Heeds, Rebuffered
<1> QED
  BY <1>2, <1>3

\* A turn of the candidate joins the buffer, empties it or becomes an answer.
LEMMA RespondHeeds ==
  ASSUME session \in InterviewSession, talk \in Talk, NEW u \in Utterance,
         NEW meaning, NEW reply, Respond(meaning, u, reply)
  PROVE  session' \in InterviewSession /\ Heeds(u)
<1>. DEFINE joined == JoinedWith(u)
<1>1. /\ joined \in Seq(Utterance) /\ << >> \in Seq(Utterance)
      /\ talk.pending \in Seq(Utterance) /\ talk.paused \in BOOLEAN
      /\ Rebuffered(talk.pending, u, joined) /\ Rebuffered(talk.pending, u, << >>)
      /\ Rebuffered(talk.pending, u, talk.pending)
  BY DEF JoinedWith, Talk, Rebuffered
<1>. HIDE DEF joined
<1>2. \A words \in Seq(Utterance), paused \in BOOLEAN :
         /\ [pending |-> words, paused |-> paused] \in Talk
         /\ [talk EXCEPT !.pending = words] \in Talk
         /\ [talk EXCEPT !.pending = words].pending = words
  BY DEF Talk
<1>3. CASE RespondFast(meaning, u, reply)
  <2>1. CASE Unheard(reply)
    BY <1>1, <2>1 DEF Unheard, talkVars, Heeds
  <2>2. CASE KeptForLater(u, reply)
    BY <1>1, <1>2, <2>2 DEF KeptForLater, Heeds, joined
  <2>3. CASE StopRequested(reply)
    <3>1. session' \in InterviewSession
      BY <2>3, StartedEndedTyped DEF StopRequested
    <3> QED
      BY <1>1, <1>2, <2>3, <3>1 DEF StopRequested, Heeds
  <2> QED
    BY <1>3, <2>1, <2>2, <2>3 DEF RespondFast
<1>4. CASE RespondOutside(meaning, reply)
  BY <1>1, <1>2, <1>4 DEF RespondOutside, Heeds
<1>5. CASE RespondMeta(meaning, u, reply)
  <2>1. CASE GivenTime(reply)
    BY <1>1, <1>2, <1>5, <2>1 DEF RespondMeta, GivenTime, Heeds
  <2>2. CASE PutBack(u, reply)
    BY <1>1, <1>2, <1>5, <2>2 DEF RespondMeta, PutBack, Heeds, joined
  <2>3. CASE AnsweredAside(reply) \/ Restated(reply)
    BY <1>1, <1>2, <1>5, <2>3 DEF RespondMeta, AnsweredAside, Restated, Heeds
  <2> QED
    BY <1>5, <2>1, <2>2, <2>3 DEF RespondMeta
<1>6. CASE RespondSubmit(meaning, u, reply)
  <2>1. InProgress /\ talk' = [pending |-> << >>, paused |-> FALSE]
    BY <1>6 DEF RespondSubmit
  <2>2. session' \in InterviewSession /\ answers' = Append(answers, joined)
    BY <1>6, <2>1, SubmittedTyped DEF RespondSubmit, joined
  <2> QED
    BY <1>1, <1>2, <2>1, <2>2 DEF Heeds
<1> QED
  BY <1>3, <1>4, <1>5, <1>6 DEF Respond

-----------------------------------------------------------------------------
(* The silence coordinator.                                                *)

\* Every call leaves a state of the coordinator; a nudge is counted only while
\* there is room for it.
LEMMA SilenceTyped ==
  ASSUME NEW s \in Silence
  PROVE  /\ Ticked(s) \in Silence /\ ActivityNoted(s) \in Silence
         /\ Disposed(s) \in Silence /\ Observed(s) \in Silence
         /\ \A q \in Questions : ArmedAfterQuestion(s, q) \in Silence
         /\ \A b \in BOOLEAN : /\ UserStateChanged(s, b) \in Silence
                              /\ AgentStateChanged(s, b) \in Silence
         /\ Recorded(s, Suggested(s)) \in Silence
<1>1. /\ NoResponse \in Nat /\ MaxElapsed \in Nat /\ MaxNudges \in Nat
      /\ s.quiet \in 0..NoResponse /\ s.elapsed \in 0..MaxElapsed /\ s.nudges \in 0..MaxNudges
  BY LadderAssumption DEF LadderOrdered, Silence
<1>2. \A m \in Nat : \A a \in Nat : Least(a, m) \in 0..m
  BY DEF Least
<1>3. Ticked(s) \in Silence
  <2>1. s.elapsed + 1 \in Nat
    BY <1>1
  <2>2. Least(s.elapsed + 1, MaxElapsed) \in 0..MaxElapsed
    BY <1>1, <1>2, <2>1
  <2> QED
    BY <2>2 DEF Ticked, Silence
<1>4. ActivityNoted(s) \in Silence
  <2>1. 0 \in 0..NoResponse /\ 0 \in 0..MaxElapsed
    BY <1>1
  <2> QED
    BY <2>1 DEF ActivityNoted, Silence
<1>5. Disposed(s) \in Silence
  BY DEF Disposed, Silence
<1>6. Observed(s) \in Silence
  <2>1. s.quiet + s.elapsed \in Nat /\ 0 \in 0..MaxElapsed
    BY <1>1
  <2>2. Least(s.quiet + s.elapsed, NoResponse) \in 0..NoResponse
    BY <1>1, <1>2, <2>1
  <2>. DEFINE q == IF s.running /\ ~s.agentBusy /\ ~s.userSpeaking
                   THEN Least(s.quiet + s.elapsed, NoResponse) ELSE s.quiet
  <2>3. q \in 0..NoResponse
    BY <1>1, <2>2
  <2>4. Observed(s) = [s EXCEPT !.elapsed = 0, !.quiet = q]
    BY DEF Observed, Silence
  <2>. HIDE DEF q
  <2> QED
    BY <2>1, <2>3, <2>4 DEF Silence
<1>7. ASSUME NEW q \in Questions PROVE ArmedAfterQuestion(s, q) \in Silence
  <2>1. 0 \in 0..MaxNudges /\ {} \in SUBSET Suggestion
    BY <1>1
  <2> QED
    BY <1>4, <2>1 DEF ArmedAfterQuestion, Silence
<1>8. ASSUME NEW b \in BOOLEAN PROVE UserStateChanged(s, b) \in Silence
  BY DEF UserStateChanged, Silence
<1>9. ASSUME NEW b \in BOOLEAN PROVE AgentStateChanged(s, b) \in Silence
  BY DEF AgentStateChanged, Silence
<1>10. Recorded(s, Suggested(s)) \in Silence
  <2>1. \/ Suggested(s) = "nothing"
        \/ Suggested(s) = "no_response"
        \/ /\ Suggested(s) \in {"presence_retry", "presence_check", "think_pause"}
           /\ s.nudges < MaxNudges
    BY DEF Suggested, Due
  <2>2. CASE Suggested(s) = "nothing"
    BY <2>2 DEF Recorded
  <2>3. CASE Suggested(s) = "no_response"
    BY <2>3 DEF Recorded, Silence, Suggestion
  <2>4. ASSUME NEW t \in {"presence_retry", "presence_check", "think_pause"},
               s.nudges < MaxNudges
        PROVE  Recorded(s, t) \in Silence
    <3>1. s.nudges + 1 \in 0..MaxNudges
      BY <1>1, <2>4
    <3>2. Recorded(s, t) = [s EXCEPT !.emitted = @ \union {t}, !.nudges = @ + 1,
                                     !.thinkGiven = @ \/ t = "think_pause"]
      BY DEF Recorded
    <3>3. (s.thinkGiven \/ t = "think_pause") \in BOOLEAN /\ s.emitted \union {t} \in SUBSET Suggestion
      BY DEF Silence, Suggestion
    <3> QED
      BY <3>1, <3>2, <3>3 DEF Silence
  <2> QED
    BY <2>1, <2>2, <2>3, <2>4
<1> QED
  BY <1>3, <1>4, <1>5, <1>6, <1>7, <1>8, <1>9, <1>10

-----------------------------------------------------------------------------
(* Delivery.                                                               *)

\* What delivering a reply leaves of the job.
JobGoesOn ==
    /\ job' \in Job
    /\ job'.left = job.left /\ job'.over = job.over
    /\ job.finished => job'.finished

\* What was said restarts the ladder, and may finish the interview.
LEMMA DeliveredTyped ==
  ASSUME job \in Job, NEW s \in Silence, NEW reply \in Reply, NEW hook \in BOOLEAN,
         Delivered(s, reply, hook)
  PROVE  silence' \in Silence /\ JobGoesOn
<1>1. reply.finished \in BOOLEAN /\ reply.question \in 0..Len(Plan)
  BY DEF Reply
<1>2. reply.question # 0 => reply.question \in Questions
  <2>1. DOMAIN Plan = 1..Len(Plan) /\ Len(Plan) \in Nat
    BY ConversationAssumption
  <2> QED
    BY <1>1, <2>1, QuestionsAssumption
<1>3. silence' \in Silence
  BY <1>2, SilenceTyped DEF Delivered, AfterReply
<1>4. JobGoesOn
  BY <1>1 DEF Delivered, JobGoesOn, Job
<1> QED
  BY <1>3, <1>4

\* A reply is spoken by the coroutine that has it, if there is anything to say.
LEMMA DeliverTyped ==
  ASSUME job \in Job, speech \in [Coroutine -> Speech], NEW c \in Coroutine,
         NEW s \in Silence, NEW reply \in Reply, NEW hook \in BOOLEAN,
         Deliver(c, s, reply, hook)
  PROVE  /\ silence' \in Silence /\ JobGoesOn
         /\ speech' \in [Coroutine -> Speech]
         /\ \A d \in Coroutine \ {c} : speech'[d] = speech[d]
<1>1. Quiet \in Speech /\ [at |-> "lead", reply |-> reply, hook |-> hook] \in Speech
  BY ConversationAssumption DEF Quiet, Speech, Silent, Says, Reply
<1>2. UNCHANGED job => JobGoesOn
  BY DEF JobGoesOn
<1>3. CASE reply.says = "error"
  BY <1>1, <1>2, <1>3 DEF Deliver
<1>4. CASE reply.says = "nothing"
  <2>1. Delivered(s, reply, hook) /\ speech' = [speech EXCEPT ![c] = Quiet]
    BY <1>4 DEF Deliver
  <2> QED
    BY <1>1, <2>1, DeliveredTyped
<1>5. CASE reply.says \notin {"error", "nothing"}
  BY <1>1, <1>2, <1>5, SilenceTyped DEF Deliver
<1> QED
  BY <1>3, <1>4, <1>5

-----------------------------------------------------------------------------
(* The invariant, action by action.                                        *)

\* The job enters an interview that nobody has spoken in.
LEMMA InitInv == Init => JobInv
<1>. SUFFICES ASSUME Init PROVE JobInv
  OBVIOUS
<1>1. session \in InterviewSession
  <2>1. NewSession(Plan) \in InterviewSession
    BY ConversationAssumption DEF NewSession, InterviewSession, InterviewState, Pending,
       Evaluation, NoEvaluation
  <2>2. session = [NewSession(Plan) EXCEPT !.state = "ready"]
    BY DEF Init, TalkInit
  <2> QED
    BY <2>1, <2>2 DEF InterviewSession, InterviewState
<1>2. talk \in Talk /\ answers \in Seq(Seq(Utterance)) /\ answers = << >>
      /\ talk.pending = << >>
  BY DEF Init, TalkInit, Talk
<1>3. silence \in Silence
  BY LadderAssumption DEF Init, SilenceInit, Silence, LadderOrdered, NoQuestion
<1>4. ear \in Ear /\ ear.heard = 0
  BY ConversationAssumption, DelayAssumption DEF Init, Ear
<1>5. speech \in [Coroutine -> Speech]
  <2>1. Silent \in Reply
    BY ConversationAssumption DEF Silent, Says, Reply
  <2>2. Quiet \in Speech /\ [Quiet EXCEPT !.at = "new"] \in Speech
    BY <2>1 DEF Quiet, Speech
  <2>3. speech = [[c \in Coroutine |-> Quiet] EXCEPT !["enter"] = [Quiet EXCEPT !.at = "new"]]
    BY DEF Init, Coroutine
  <2> QED
    BY <2>2, <2>3
<1>6. job \in Job /\ ~job.left /\ ~job.over
  BY DEF Init, Job
<1>7. InOrder(answers, talk.pending, ear.heard)
  BY <1>2, <1>4 DEF InOrder, Rising, HeardBy
<1> QED
  BY <1>1, <1>2, <1>3, <1>4, <1>5, <1>6, <1>7 DEF JobInv, TypeOK, SessionOverWithJob

\* A step that lets the job go on keeps the invariant when it keeps the types
\* and the order.
LEMMA GoesOn ==
  ASSUME JobInv, ~job.over, JobGoesOn,
         session' \in InterviewSession, talk' \in Talk, silence' \in Silence,
         ear' \in Ear, speech' \in [Coroutine -> Speech],
         InOrder(answers', talk'.pending, ear'.heard)
  PROVE  JobInv'
  BY DEF JobInv, TypeOK, JobGoesOn, SessionOverWithJob, InOrder

\* A call of the conversation service, and the delivery of its reply.
LEMMA CallGoesOn ==
  ASSUME JobInv, ~job.over, NEW c \in Coroutine, NEW s \in Silence, NEW reply \in Reply,
         Deliver(c, s, reply, TRUE), session' \in InterviewSession, talk' \in Talk,
         ear' \in Ear, InOrder(answers', talk'.pending, ear'.heard)
  PROVE  JobInv'
<1>1. job \in Job /\ speech \in [Coroutine -> Speech]
  BY DEF JobInv, TypeOK
<1>2. silence' \in Silence /\ JobGoesOn /\ speech' \in [Coroutine -> Speech]
  BY <1>1, DeliverTyped
<1> QED
  BY <1>2, GoesOn

\* on_enter, and the candidate's turns.
LEMMA TurnsKeep ==
  ASSUME JobInv, ~job.over, Enter \/ TurnCompleted \/ TypedInput
  PROVE  JobInv'
<1>1. session \in InterviewSession /\ talk \in Talk /\ silence \in Silence /\ ear \in Ear
      /\ InOrder(answers, talk.pending, ear.heard)
  BY DEF JobInv, TypeOK
<1>2. ear.heard \in 0..MaxUtterances /\ MaxUtterances \in Nat /\ MaxDelay \in Nat
      /\ ear.age \in 0..MaxDelay /\ ear.unresolved \in BOOLEAN
  BY <1>1, ConversationAssumption, DelayAssumption DEF Ear
<1>3. "enter" \in Coroutine /\ "turn" \in Coroutine
  BY DEF Coroutine
<1>4. CASE Enter
  <2>1. PICK reply \in Reply : Begin(reply) /\ Deliver("enter", silence, reply, TRUE)
    BY <1>4 DEF Enter
  <2>2. session' \in InterviewSession /\ Heeds(0)
    BY <1>1, <2>1, BeginHeeds
  <2>3. ear' = ear /\ 0 \notin Utterance
    BY <1>4 DEF Enter, Utterance
  <2>4. InOrder(answers', talk'.pending, ear.heard)
    BY <1>1, <1>2, <2>2, <2>3, HeedsInOrder
  <2> QED
    BY <1>1, <1>3, <2>1, <2>2, <2>3, <2>4, CallGoesOn DEF Heeds
<1>5. CASE TurnCompleted \/ TypedInput
  <2>. DEFINE u == ear.heard + 1
  <2>1. PICK meaning \in Meaning, reply \in Reply :
          Respond(meaning, u, reply) /\ Deliver("turn", silence, reply, TRUE)
    BY <1>5 DEF TurnCompleted, TypedInput
  <2>2. ear.heard < MaxUtterances
    BY <1>5 DEF TurnCompleted, TypedInput
  <2>3. u \in Utterance /\ u \in 0..MaxUtterances /\ ear.heard < u
    BY <1>2, <2>2 DEF Utterance
  <2>4. ear' \in Ear /\ ear'.heard = u
    <3>1. \A b \in BOOLEAN, n \in 0..MaxDelay :
            [ear EXCEPT !.unresolved = b, !.age = n, !.heard = u] \in Ear
      BY <1>1, <2>3 DEF Ear
    <3>2. ear' = [ear EXCEPT !.unresolved = FALSE, !.age = 0, !.heard = u]
          \/ ear' = [ear EXCEPT !.unresolved = ear.unresolved /\ u < MaxUtterances,
                                !.age = ear.age, !.heard = u]
      BY <1>1, <1>5 DEF TurnCompleted, TypedInput, Resolved, Ear
    <3>3. (ear.unresolved /\ u < MaxUtterances) \in BOOLEAN /\ 0 \in 0..MaxDelay
      BY <1>2
    <3>4. \A b \in BOOLEAN, n \in 0..MaxDelay :
            [ear EXCEPT !.unresolved = b, !.age = n, !.heard = u].heard = u
      BY <1>1 DEF Ear
    <3> QED
      BY <1>2, <3>1, <3>2, <3>3, <3>4
  <2>5. session' \in InterviewSession /\ Heeds(u)
    BY <1>1, <2>1, <2>3, RespondHeeds
  <2>6. InOrder(answers', talk'.pending, u)
    <3>1. ear.heard \in Nat /\ u \in Nat /\ ear.heard < u
      BY <1>2
    <3>. HIDE DEF u
    <3> QED
      BY <1>1, <2>5, <3>1, HeedsInOrder
  <2>. HIDE DEF u
  <2>7. talk' \in Talk
    BY <2>5 DEF Heeds
  <2> QED
    BY <1>1, <1>3, <2>1, <2>4, <2>5, <2>6, <2>7, CallGoesOn
<1> QED
  BY <1>4, <1>5

\* The watchdog.
LEMMA WatchdogKeeps ==
  ASSUME JobInv, ~job.over, WatchdogChecks
  PROVE  JobInv'
<1>. DEFINE seen       == Observed(silence)
            suggestion == IF silence.disposed THEN "nothing" ELSE Suggested(seen)
            recorded   == IF silence.disposed THEN silence ELSE Recorded(seen, suggestion)
<1>1. session \in InterviewSession /\ talk \in Talk /\ silence \in Silence /\ ear \in Ear
      /\ job \in Job /\ speech \in [Coroutine -> Speech] /\ ear' = ear
      /\ InOrder(answers, talk.pending, ear.heard)
  BY DEF JobInv, TypeOK, WatchdogChecks
<1>2. recorded \in Silence
  <2>1. seen \in Silence
    BY <1>1, SilenceTyped
  <2>. HIDE DEF seen
  <2> QED
    BY <1>1, <2>1, SilenceTyped
<1>3. \/ silence' = recorded /\ UNCHANGED <<session, talk, answers, speech, job>>
      \/ Act(recorded, suggestion)
  BY DEF WatchdogChecks
<1>4. "watchdog" \in Coroutine /\ ear.heard \in Nat /\ 0 \notin Utterance
  BY <1>1, ConversationAssumption DEF Coroutine, Ear, Utterance
<1>. HIDE DEF seen, suggestion, recorded
<1>5. CASE silence' = recorded /\ UNCHANGED <<session, talk, answers, speech, job>>
  BY <1>1, <1>2, <1>5, GoesOn DEF JobGoesOn
<1>6. CASE Act(recorded, suggestion)
  <2>1. \/ \E reply \in Reply :
             ResolveNoResponse(reply) /\ Deliver("watchdog", recorded, reply, TRUE)
        \/ /\ silence' = recorded /\ job' = [job EXCEPT !.watching = FALSE]
           /\ UNCHANGED <<session, talk, answers, speech>>
        \/ UNCHANGED talkVars /\ Deliver("watchdog", recorded, Line, FALSE)
    BY <1>6 DEF Act
  <2>2. ASSUME NEW reply \in Reply, ResolveNoResponse(reply),
               Deliver("watchdog", recorded, reply, TRUE)
        PROVE  JobInv'
    <3>1. session' \in InterviewSession /\ Heeds(0)
      BY <1>1, <2>2, ResolveHeeds
    <3>2. InOrder(answers', talk'.pending, ear.heard)
      BY <1>1, <1>4, <3>1, HeedsInOrder
    <3> QED
      BY <1>1, <1>2, <1>4, <2>2, <3>1, <3>2, CallGoesOn DEF Heeds
  <2>3. CASE /\ silence' = recorded /\ job' = [job EXCEPT !.watching = FALSE]
             /\ UNCHANGED <<session, talk, answers, speech>>
    <3>1. JobGoesOn
      BY <1>1, <2>3 DEF JobGoesOn, Job
    <3> QED
      BY <1>1, <1>2, <2>3, <3>1, GoesOn
  <2>4. CASE UNCHANGED talkVars /\ Deliver("watchdog", recorded, Line, FALSE)
    <3>1. Line \in Reply
      BY ConversationAssumption DEF Line, Says, Reply
    <3>2. silence' \in Silence /\ JobGoesOn /\ speech' \in [Coroutine -> Speech]
      BY <1>1, <1>2, <1>4, <2>4, <3>1, DeliverTyped
    <3> QED
      BY <1>1, <2>4, <3>2, GoesOn DEF talkVars
  <2> QED
    BY <2>1, <2>2, <2>3, <2>4
<1> QED
  BY <1>3, <1>5, <1>6

\* Speech that goes on or ends, and time.
LEMMA PlaybackKeeps ==
  ASSUME JobInv, ~job.over,
         (\E c \in Coroutine : LeadEnds(c) \/ SpeechEnds(c)) \/ Tick
  PROVE  JobInv'
<1>1. silence \in Silence /\ ear \in Ear /\ job \in Job /\ speech \in [Coroutine -> Speech]
      /\ session \in InterviewSession /\ talk \in Talk
      /\ InOrder(answers, talk.pending, ear.heard)
  BY DEF JobInv, TypeOK
<1>2. ASSUME NEW c \in Coroutine, LeadEnds(c) PROVE JobInv'
  <2>1. speech' \in [Coroutine -> Speech]
    BY <1>1, <1>2 DEF LeadEnds, Speech
  <2> QED
    BY <1>1, <1>2, <2>1, GoesOn DEF LeadEnds, JobGoesOn
<1>3. ASSUME NEW c \in Coroutine, SpeechEnds(c) PROVE JobInv'
  <2>. DEFINE quiet == AgentStateChanged(silence, \E d \in Coroutine \ {c} : Speaking(d))
  <2>1. quiet \in Silence
    BY <1>1, SilenceTyped
  <2>2. speech[c].reply \in Reply /\ speech[c].hook \in BOOLEAN
    BY <1>1 DEF Speech
  <2>3. Delivered(quiet, speech[c].reply, speech[c].hook)
    BY <1>3 DEF SpeechEnds
  <2>. HIDE DEF quiet
  <2>4. silence' \in Silence /\ JobGoesOn
    BY <1>1, <2>1, <2>2, <2>3, DeliveredTyped
  <2>5. Quiet \in Speech
    BY ConversationAssumption DEF Quiet, Speech, Silent, Says, Reply
  <2>6. speech' \in [Coroutine -> Speech]
    BY <1>1, <1>3, <2>5 DEF SpeechEnds
  <2> QED
    BY <1>1, <1>3, <2>4, <2>6, GoesOn DEF SpeechEnds
<1>4. CASE Tick
  <2>1. silence' \in Silence
    BY <1>1, <1>4, SilenceTyped DEF Tick
  <2>2. ear' \in Ear /\ ear'.heard = ear.heard
    <3>1. Least(ear.age + 1, MaxDelay) \in 0..MaxDelay
      BY <1>1, DelayAssumption DEF Ear, Least
    <3> QED
      BY <1>1, <1>4, <3>1 DEF Tick, Ear
  <2> QED
    BY <1>1, <1>4, <2>1, <2>2, GoesOn DEF Tick, JobGoesOn
<1> QED
  BY <1>2, <1>3, <1>4

\* The candidate's voice, and speech of which no turn is made.
LEMMA VoiceKeeps ==
  ASSUME JobInv, ~job.over, CandidateSpeaks \/ CandidatePauses \/ TurnLost
  PROVE  JobInv'
<1>1. silence \in Silence /\ ear \in Ear /\ job \in Job /\ speech \in [Coroutine -> Speech]
      /\ session \in InterviewSession /\ talk \in Talk
      /\ InOrder(answers, talk.pending, ear.heard)
  BY DEF JobInv, TypeOK
<1>2. 0 \in 0..MaxDelay /\ ear.heard \in Nat
  BY <1>1, ConversationAssumption, DelayAssumption DEF Ear
<1>3. CASE CandidateSpeaks
  <2>1. silence' \in Silence
    BY <1>1, <1>3, SilenceTyped DEF CandidateSpeaks
  <2>2. ear' \in Ear /\ ear'.heard = ear.heard
    BY <1>1, <1>2, <1>3 DEF CandidateSpeaks, Ear
  <2> QED
    BY <1>1, <1>3, <2>1, <2>2, GoesOn DEF CandidateSpeaks, JobGoesOn
<1>4. CASE CandidatePauses
  <2>1. silence' \in Silence
    BY <1>1, <1>4, SilenceTyped DEF CandidatePauses
  <2> QED
    BY <1>1, <1>4, <2>1, GoesOn DEF CandidatePauses, JobGoesOn
<1>5. CASE TurnLost
  <2>1. ear.heard + 1 \in 0..MaxUtterances
    BY <1>1, <1>5, ConversationAssumption DEF TurnLost, Ear
  <2>2. ear' \in Ear /\ ear'.heard = ear.heard + 1
    BY <1>1, <1>2, <1>5, <2>1 DEF TurnLost, Resolved, Ear
  <2>3. InOrder(answers, talk.pending, ear.heard + 1)
    <3>1. ear.heard + 1 \in Nat /\ ear.heard <= ear.heard + 1 /\ 0 \notin Utterance
      BY <1>2 DEF Utterance
    <3> QED
      BY <1>1, <1>2, <3>1, BufferInOrder DEF Rebuffered
  <2> QED
    BY <1>1, <1>5, <2>2, <2>3, GoesOn DEF TurnLost, JobGoesOn
<1> QED
  BY <1>3, <1>4, <1>5

\* The ways an interview or a job ends.
LEMMA EndsKeep ==
  ASSUME JobInv, ~job.over, CandidateLeaves \/ JobEnds \/ TransportEnds
  PROVE  JobInv'
<1>1. silence \in Silence /\ ear \in Ear /\ job \in Job /\ speech \in [Coroutine -> Speech]
      /\ session \in InterviewSession /\ talk \in Talk
      /\ InOrder(answers, talk.pending, ear.heard)
  BY DEF JobInv, TypeOK
<1>2. Ended(session) \in InterviewSession /\ Ended(session).state = "completed"
  BY <1>1, StartedEndedTyped DEF Ended, InterviewSession
<1>3. CASE CandidateLeaves
  <2>1. silence' \in Silence /\ job' \in Job /\ job'.finished /\ ~job'.over
    BY <1>1, <1>3, SilenceTyped DEF CandidateLeaves, Job
  <2> QED
    BY <1>1, <1>3, <2>1 DEF JobInv, TypeOK, CandidateLeaves, SessionOverWithJob
<1>4. CASE JobEnds
  <2>1. session' \in InterviewSession /\ session'.state # "in_progress"
    BY <1>1, <1>2, <1>4 DEF JobEnds, LeftBehind, InProgress
  <2>2. job' \in Job /\ job'.finished
    BY <1>1, <1>4 DEF JobEnds, Job
  <2>3. Quiet \in Speech
    BY ConversationAssumption DEF Quiet, Speech, Silent, Says, Reply
  <2>4. silence' \in Silence /\ speech' \in [Coroutine -> Speech]
    BY <1>1, <1>4, <2>3, SilenceTyped DEF JobEnds
  <2> QED
    BY <1>1, <1>4, <2>1, <2>2, <2>4 DEF JobInv, TypeOK, JobEnds, SessionOverWithJob
<1>5. CASE TransportEnds
  BY <1>1, <1>2, <1>5, GoesOn DEF TransportEnds, JobGoesOn
<1> QED
  BY <1>3, <1>4, <1>5

\* Every step of the job, of the candidate and of the transport keeps the invariant.
LEMMA NextInv == JobInv /\ [Next]_vars => JobInv'
<1>. SUFFICES ASSUME JobInv, [Next]_vars PROVE JobInv'
  OBVIOUS
<1>1. CASE UNCHANGED vars
  BY <1>1 DEF vars, JobInv, TypeOK, SessionOverWithJob
<1>2. CASE ~job.over /\ (LoopStep \/ Environment)
  BY <1>2, TurnsKeep, WatchdogKeeps, PlaybackKeeps, VoiceKeeps, EndsKeep
     DEF LoopStep, Environment
<1> QED
  BY <1>1, <1>2 DEF Next, Stopped

\* The order of the words, the types and the end of the session, in every state.
THEOREM JobSafe == Spec => []JobInv
  BY InitInv, NextInv, PTL DEF Spec

-----------------------------------------------------------------------------
(* The properties.                                                         *)

\* Types, whatever the plan, the ladder and the bounds: no more than MaxNudges
\* nudges for one question (voice_silence_coordinator.py, _record).
THEOREM JobTyped == Spec => []TypeOK
  BY JobSafe, PTL DEF JobInv

\* The stored answers and the buffer hold what was said in the order in which it
\* was said, each thing once (voice_conversation_service.py:164).
THEOREM AnswersKeepOrder == Spec => []AnswersInOrder
<1>1. ASSUME JobInv PROVE AnswersInOrder
  <2>. SUFFICES ASSUME NEW said, said = Append(answers, talk.pending)
                PROVE  \A k, l \in DOMAIN said : \A i \in DOMAIN said[k], j \in DOMAIN said[l] :
                          k < l \/ (k = l /\ i < j) => said[k][i] < said[l][j]
    BY Zenon DEF AnswersInOrder
  <2>1. InOrder(answers, talk.pending, ear.heard)
    BY <1>1 DEF JobInv
  <2>2. answers \in Seq(Seq(Utterance)) /\ talk.pending \in Seq(Utterance)
    BY <2>1 DEF InOrder
  <2>3. /\ DOMAIN answers = 1..Len(answers) /\ Len(answers) \in Nat
        /\ \A k \in DOMAIN said :
              \/ k \in DOMAIN answers /\ said[k] = answers[k]
              \/ k = Len(answers) + 1 /\ said[k] = talk.pending
    BY <2>2, BufferLast
  <2>4. ASSUME NEW k \in DOMAIN said PROVE Rising(said[k])
    BY <2>1, <2>3 DEF InOrder
  <2>5. ASSUME NEW k \in DOMAIN said, NEW l \in DOMAIN said, k < l
        PROVE  Precede(said[k], said[l])
    <3>1. k \in DOMAIN answers /\ said[k] = answers[k]
      <4>1. k # Len(answers) + 1
        BY <2>3, <2>5
      <4> QED
        BY <2>3, <4>1
    <3>2. CASE said[l] = talk.pending
      BY <2>1, <3>1, <3>2 DEF InOrder
    <3>3. CASE l \in DOMAIN answers /\ said[l] = answers[l]
      BY <2>1, <2>5, <3>1, <3>3 DEF InOrder
    <3> QED
      BY <2>3, <3>2, <3>3
  <2> QED
    BY <2>4, <2>5 DEF Rising, Precede
<1> QED
  BY <1>1, JobSafe, PTL

\* A job that is over has left no interview in progress (agent_server.py:590).
THEOREM JobLeavesNoInterview == Spec => []SessionOverWithJob
  BY JobSafe, PTL DEF JobInv

\* The watchdog begins to speak only to a candidate who is there and silent, in
\* an interview not known to be over (agent_server.py, _silence_watchdog): only
\* the watchdog's own check makes it speak, and the check sees all three.
THEOREM LadderAddressesThePresent == Spec => NudgesOnlyThePresent
<1>1. ASSUME JobInv, [Next]_vars, WatchdogSpeaks
      PROVE  ~silence.userSpeaking /\ ~silence.disposed /\ ~job.left
  <2>1. job \in Job /\ silence \in Silence /\ speech \in [Coroutine -> Speech]
        /\ (job.left => job.finished)
    BY <1>1 DEF JobInv, TypeOK
  <2>2. speech["watchdog"].at = "idle" /\ speech'["watchdog"].at = "lead"
        /\ "watchdog" \in Coroutine /\ speech' # speech
    BY <1>1 DEF WatchdogSpeaks, Idle, Coroutine
  <2>3. ASSUME NEW c \in Coroutine, NEW reply \in Reply, c # "watchdog",
               Deliver(c, silence, reply, TRUE)
        PROVE  FALSE
    BY <2>1, <2>2, <2>3, DeliverTyped
  <2>4. ~Enter /\ ~TurnCompleted /\ ~TypedInput
    <3>1. "enter" \in Coroutine /\ "turn" \in Coroutine
      BY DEF Coroutine
    <3> QED
      BY <2>3, <3>1 DEF Enter, TurnCompleted, TypedInput
  <2>5. \A c \in Coroutine : ~LeadEnds(c) /\ ~SpeechEnds(c)
    BY <2>1, <2>2 DEF LeadEnds, SpeechEnds, Quiet, Speaking
  <2>6. ~JobEnds
    <3>1. Quiet.at = "idle"
      BY DEF Quiet
    <3> QED
      BY <2>2, <3>1 DEF JobEnds
  <2>7. WatchdogChecks
    BY <1>1, <2>2, <2>4, <2>5, <2>6 DEF Next, LoopStep, Environment, Stopped, vars,
       Tick, CandidatePauses, CandidateSpeaks, TurnLost, CandidateLeaves, TransportEnds
  <2>8. ~job.left
    BY <2>1, <2>7 DEF WatchdogChecks, WatchdogPolls
  <2> QED
    BY <2>2, <2>7, <2>8 DEF WatchdogChecks, SpokenOver
<1>2. JobInv /\ [Next]_vars =>
        [WatchdogSpeaks => ~silence.userSpeaking /\ ~silence.disposed /\ ~job.left]_vars
  BY <1>1
<1> QED
  BY <1>2, JobSafe, PTL DEF Spec, NudgesOnlyThePresent

=============================================================================
