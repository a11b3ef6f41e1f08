---------------------------- MODULE SessionStore ----------------------------
(***************************************************************************)
(* services/db/postgres_session_store.py under its callers: the voice      *)
(* agent, the transport, the queue worker and the API each call            *)
(* InterviewAgentService on the same session.  A call reads a copy, works  *)
(* on it (an LLM may be asked) and saves it.  Reading is three statements  *)
(* of a READ COMMITTED transaction, so other saves may fall between them;  *)
(* saving is one transaction, guarded by the version.                      *)
(***************************************************************************)
EXTENDS InterviewAgentService, FiniteSets

CONSTANTS Clients, MaxEdits   \* bound: saves of an edited plan

ASSUME ClientsAssumption == MaxEdits \in Nat

VARIABLES
    row,         \* interview_sessions: the session's columns and its version
    turns,       \* transcript_turns, in the order of turn_index
    evaluation,  \* evaluations
    reportFile,  \* the report written to reports_dir
    client       \* per caller: its operation and the copy it works on

vars == <<row, turns, evaluation, reportFile, client>>

SessionRow == [state : InterviewState \union {"absent"}, plan : Seq(Question),
               index : Nat, followUps : Nat, totalFollowUps : Nat,
               pending : Pending, version : Nat]

RowOf(s, version) ==
    [state |-> s.state, plan |-> s.plan, index |-> s.index,
     followUps |-> s.followUps, totalFollowUps |-> s.totalFollowUps,
     pending |-> s.pending, version |-> version]

\* The session a copy of the row, of the turns and of the evaluation make.
SessionFrom(r, t, e) ==
    [state |-> r.state, plan |-> r.plan, index |-> r.index,
     followUps |-> r.followUps, totalFollowUps |-> r.totalFollowUps,
     pending |-> r.pending, turns |-> t, evaluation |-> e]

Stored == SessionFrom(row, turns, evaluation)

\* Where a call is: before each statement of get, or with its copy complete.
Stage == {"idle", "get_row", "get_turns", "get_evaluation", "working"}

Caller == [op : Operation, at : Stage, row : SessionRow, turns : Seq(Turn),
           evaluation : Evaluation]

NoRow == RowOf(NotPrepared, 0)
Idle  == [op |-> "status", at |-> "idle", row |-> NoRow, turns |-> << >>,
          evaluation |-> NoEvaluation]

CopyOf(c) == SessionFrom(client[c].row, client[c].turns, client[c].evaluation)

Init ==
    /\ row = NoRow
    /\ turns = << >>
    /\ evaluation = NoEvaluation
    /\ reportFile = FALSE
    /\ client = [c \in Clients |-> Idle]

-----------------------------------------------------------------------------
(* create: all three tables in one transaction.                            *)

Create(s) ==
    /\ row' = RowOf(s, 0)
    /\ turns' = s.turns
    /\ evaluation' = s.evaluation
    /\ UNCHANGED <<reportFile, client>>

PrepareInterview ==
    /\ row.state = "absent"
    /\ \E s \in PreparedFromDocuments : Create(s)

PrepareFromPosition ==
    /\ row.state = "absent"
    /\ \E s \in PreparedFromPosition : Create(s)

-----------------------------------------------------------------------------
(* get.                                                                    *)

tables == <<row, turns, evaluation, reportFile>>

\* The two operations a session's state allows any number of times are called
\* a bounded number of times: edits up to a version, reports until one is on
\* file (calls that overlap may still write it twice).
WithinBounds(op) ==
    /\ op = "update_plan" => row.version < MaxEdits
    /\ op = "report" => ~evaluation.report

Call(c, op) ==
    /\ client[c].at = "idle"
    /\ WithinBounds(op)
    /\ client' = [client EXCEPT ![c] = [Idle EXCEPT !.op = op, !.at = "get_row"]]
    /\ UNCHANGED tables

\* SessionNotFoundError when there is no row.
GetRow(c) ==
    /\ client[c].at = "get_row"
    /\ client' = [client EXCEPT ![c] =
          IF row.state = "absent" THEN Idle
          ELSE [@ EXCEPT !.at = "get_turns", !.row = row]]
    /\ UNCHANGED tables

GetTurns(c) ==
    /\ client[c].at = "get_turns"
    /\ client' = [client EXCEPT ![c].at = "get_evaluation", ![c].turns = turns]
    /\ UNCHANGED tables

\* Mutant: the row is refreshed after the turns were read.
GetEvaluation_RefreshesRow(c) ==
    /\ client[c].at = "get_evaluation"
    /\ client' = [client EXCEPT ![c].at = "working", ![c].evaluation = evaluation,
                                ![c].row = row]
    /\ UNCHANGED tables

GetEvaluation(c) ==
    /\ client[c].at = "get_evaluation"
    /\ client' = [client EXCEPT ![c].at = "working", ![c].evaluation = evaluation]
    /\ UNCHANGED tables

-----------------------------------------------------------------------------
(* The operation and its save.                                             *)

Returns(c) == client' = [client EXCEPT ![c] = Idle]

\* generate_report writes the file before it saves.
ReportWritten(c) == reportFile' = (reportFile \/ client[c].op = "report")

\* Mutant: the UPDATE finds the row by its id alone.
VersionMatches_ByIdOnly(c) == row.state # "absent"

\* The WHERE clause of the UPDATE.
VersionMatches(c) == client[c].row.version = row.version

\* save: the row, the turns replaced wholesale, the evaluation upserted.
Save(c) ==
    /\ client[c].at = "working"
    /\ VersionMatches(c)
    /\ \E s \in Outcomes(client[c].op, CopyOf(c)) :
          /\ row' = RowOf(s, row.version + 1)
          /\ turns' = s.turns
          /\ evaluation' = IF s.evaluation.made THEN s.evaluation ELSE evaluation
    /\ ReportWritten(c)
    /\ Returns(c)

\* StaleSessionVersionError: the transaction is rolled back.
SaveRefused(c) ==
    /\ client[c].at = "working"
    /\ Outcomes(client[c].op, CopyOf(c)) # {}
    /\ ~VersionMatches(c)
    /\ ReportWritten(c)
    /\ Returns(c)
    /\ UNCHANGED <<row, turns, evaluation>>

\* get_status, or InvalidInterviewStateError: nothing is saved.
ReturnWithoutSaving(c) ==
    /\ client[c].at = "working"
    /\ Outcomes(client[c].op, CopyOf(c)) = {}
    /\ Returns(c)
    /\ UNCHANGED tables

\* An LLM, the database or the caller's process fails before the save.
Fail(c) ==
    /\ client[c].at # "idle"
    /\ Returns(c)
    /\ UNCHANGED tables

-----------------------------------------------------------------------------

ClientStep(c) ==
    \/ \E op \in Operation : Call(c, op)
    \/ GetRow(c) \/ GetTurns(c) \/ GetEvaluation(c)
    \/ Save(c) \/ SaveRefused(c) \/ ReturnWithoutSaving(c)
    \/ Fail(c)

Next == PrepareInterview \/ PrepareFromPosition \/ \E c \in Clients : ClientStep(c)

Spec == Init /\ [][Next]_vars

-----------------------------------------------------------------------------
(* Properties.                                                             *)

TypeOK ==
    /\ row \in SessionRow
    /\ turns \in Seq(Turn)
    /\ evaluation \in Evaluation
    /\ reportFile \in BOOLEAN
    /\ client \in [Clients -> Caller]

\* "Two concurrent writers can never both believe they won" (module docstring
\* of the store): the tables are one interview whose operations happen one at
\* a time, in an order their states allow, none lost and none done twice,
\* although every copy is read in pieces and written much later.
Interview == INSTANCE InterviewRecord WITH record <- Stored
OneOperationAtATime == Interview!Spec

\* The questions of the plan are asked in order and each once, follow-ups
\* right behind their question, and every answer is recorded under the kind of
\* text it answered (submit_answer, _advance_to_next_question).
TranscriptFollowsPlan ==
    /\ \A i \in DOMAIN turns : turns[i].isFollowUp <=> turns[i].asked = "follow_up"
    /\ \A i \in DOMAIN turns :
          IF i = 1 THEN turns[i].question = 0 /\ ~turns[i].isFollowUp
          ELSE turns[i].question =
                  turns[i-1].question + (IF turns[i].isFollowUp THEN 0 ELSE 1)
    /\ row.state = "in_progress" =>
          Len(turns) = 0 \/ turns[Len(turns)].question =
             row.index - (IF row.pending = "main" THEN 1 ELSE 0)

\* An evaluation is of the whole interview: no answer was accepted after the
\* transcript the evaluator was given (evaluate_interview).
EvaluationCoversTranscript ==
    /\ row.state = "evaluated" <=> evaluation.made
    /\ evaluation.made => evaluation.turns = Len(turns)
    /\ evaluation.report => reportFile

\* What a caller has read hangs together although it was read in pieces: an
\* evaluated session comes with its evaluation, and every question behind the
\* index with its answer (get reads the row first).
ReadsHangTogether ==
    \A c \in Clients : client[c].at = "working" =>
        /\ client[c].row.state = "evaluated" => client[c].evaluation.made
        /\ \A q \in 0..(client[c].row.index - 1) :
              \E i \in DOMAIN client[c].turns : client[c].turns[i].question = q

=============================================================================
