-------------------------- MODULE VoiceConversation --------------------------
(***************************************************************************)
(* application/voice_conversation_service.py for one session of the first  *)
(* voice engine: what is submitted to the interview and which reply is to  *)
(* be spoken.  Every call is synchronous on the event loop of the job, so  *)
(* it is one step.  What the words mean, by the fixed patterns or by the   *)
(* classifier, is an input; a reply is told by what it must do.            *)
(***************************************************************************)
EXTENDS InterviewEngine

CONSTANTS Plan,          \* the approved plan
          MaxUtterances  \* bound: what the candidate says

ASSUME ConversationAssumption ==
    Plan \in Seq(Question) /\ Plan # << >> /\ MaxUtterances \in Nat

VARIABLES
    session,   \* the stored interview
    talk,      \* _pending_utterances and _pause_acknowledged
    answers    \* per stored turn: the utterances it holds

talkVars == <<session, talk, answers>>

Utterance == 1..MaxUtterances

Talk == [pending : Seq(Utterance), paused : BOOLEAN]

\* noise: empty or filler.  fragment, partial: unfinished, by pattern or by the
\* classifier.  line: answered without the question (connection check, a wish
\* to ask).  restate: answered with the question (repeat, rephrase, redirect,
\* a question about the job).
Meaning == {"noise", "stop", "fragment", "hesitation", "partial", "line",
            "restate", "refusal", "answer"}

\* error: the call raises and there is no reply.  question: a reply whose last
\* segment must be delivered.  A question's id is its place in the plan, and a
\* follow-up has the id of its question.
Reply == [says     : {"error", "nothing", "line", "question"},
          question : 0..Len(Plan),
          finished : BOOLEAN]

Says(kind, question) == [says |-> kind, question |-> question, finished |-> FALSE]
Raised    == Says("error", 0)
Silent    == Says("nothing", 0)
Line      == Says("line", 0)
Closing   == [Line EXCEPT !.finished = TRUE]

QuestionId(s) == s.index + 1
InProgress == session.state = "in_progress"

TalkInit ==
    /\ session = [NewSession(Plan) EXCEPT !.state = "ready"]
    /\ talk = [pending |-> << >>, paused |-> FALSE]
    /\ answers = << >>

-----------------------------------------------------------------------------

\* begin, with _reset_delivery_state.
Begin(reply) ==
    /\ talk' = [pending |-> << >>, paused |-> FALSE]
    /\ IF CanStart(session)
       THEN session' = Started(session) /\ reply = Says("question", 1)
       ELSE reply = Raised /\ UNCHANGED session
    /\ UNCHANGED answers

\* submit_answer and the reply to it.
Submitted(words, answer, hinted, proposed, reply) ==
    /\ session' = AnswerSubmitted(session, answer, hinted, proposed)
    /\ answers' = Append(answers, words)
    /\ reply = IF session'.state = "completed" THEN Closing
               ELSE Says("question", QuestionId(session'))

\* Mutant: what was buffered stays in the buffer.
Unbuffered_Kept == talk.pending

Unbuffered == << >>

\* resolve_no_response: buffered words are submitted, and otherwise a blank.
ResolveNoResponse(reply) ==
    /\ talk' = [pending |-> Unbuffered, paused |-> FALSE]
    /\ IF ~InProgress
       THEN reply = Silent /\ UNCHANGED <<session, answers>>
       ELSE \E proposed \in BOOLEAN :
               Submitted(talk.pending, IF talk.pending = << >> THEN "blank" ELSE "substantive",
                         FALSE, proposed, reply)

\* _join_utterances: the buffer and what is said now are one utterance.
JoinedWith(utterance) == Append(talk.pending, utterance)

\* Empty or filler.
Unheard(reply) == reply = Silent /\ UNCHANGED talkVars

\* _is_incomplete_utterance: it waits for the rest.
KeptForLater(utterance, reply) ==
    /\ talk' = [talk EXCEPT !.pending = JoinedWith(utterance)]
    /\ reply = Silent
    /\ UNCHANGED <<session, answers>>

\* A request to stop, by a fixed phrase or by the classifier.
StopRequested(reply) ==
    /\ talk' = [talk EXCEPT !.pending = << >>]
    /\ IF CanEnd(session) THEN session' = Ended(session) /\ reply = Closing
                          ELSE reply = Raised /\ UNCHANGED session
    /\ UNCHANGED answers

\* respond, before the classifier is asked.
RespondFast(meaning, utterance, reply) ==
    \/ meaning = "noise" /\ Unheard(reply)
    \/ meaning = "fragment" /\ KeptForLater(utterance, reply)
    \/ meaning = "stop" /\ StopRequested(reply)

\* The buffer is taken before the current prompt is read, which raises outside
\* an interview in progress.
RespondOutside(meaning, reply) ==
    /\ meaning \notin {"noise", "fragment", "stop"}
    /\ ~InProgress
    /\ talk' = [talk EXCEPT !.pending = << >>]
    /\ reply = Raised
    /\ UNCHANGED <<session, answers>>

\* HESITATION and the pause requests: one "Take your time." for a question.
GivenTime(reply) ==
    /\ talk' = [pending |-> << >>, paused |-> TRUE]
    /\ reply = IF talk.paused THEN Silent ELSE Line

\* INCOMPLETE_UTTERANCE: put back into the buffer.
PutBack(utterance, reply) ==
    /\ talk' = [talk EXCEPT !.pending = JoinedWith(utterance)]
    /\ reply = Silent

\* A connection check, or a request to ask: a line of its own.
AnsweredAside(reply) ==
    /\ talk' = [talk EXCEPT !.pending = << >>]
    /\ reply = Line

\* A request to repeat, a question about the job, a digression: the current
\* question is spoken again.
Restated(reply) ==
    /\ talk' = [talk EXCEPT !.pending = << >>]
    /\ reply = Says("line", QuestionId(session))

\* _dispatch_semantic and the fixed patterns behind it: nothing is submitted.
RespondMeta(meaning, utterance, reply) ==
    /\ InProgress
    /\ \/ meaning = "hesitation" /\ GivenTime(reply)
       \/ meaning = "partial" /\ PutBack(utterance, reply)
       \/ meaning = "line" /\ AnsweredAside(reply)
       \/ meaning = "restate" /\ Restated(reply)
    /\ UNCHANGED <<session, answers>>

\* _submit_and_reply: the buffer and the utterance are one answer.
RespondSubmit(meaning, utterance, reply) ==
    /\ meaning \in {"answer", "refusal"}
    /\ InProgress
    /\ talk' = [pending |-> << >>, paused |-> FALSE]
    /\ \E proposed \in BOOLEAN :
          Submitted(JoinedWith(utterance),
                    IF meaning = "answer" THEN "substantive" ELSE "refusal",
                    meaning = "refusal", proposed, reply)

Respond(meaning, utterance, reply) ==
    \/ RespondFast(meaning, utterance, reply)
    \/ RespondOutside(meaning, reply)
    \/ RespondMeta(meaning, utterance, reply)
    \/ RespondSubmit(meaning, utterance, reply)

=============================================================================
