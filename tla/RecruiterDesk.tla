--------------------------- MODULE RecruiterDesk ---------------------------
(***************************************************************************)
(* What recruiters do to the queue and to candidates' plans through the    *)
(* API: application/queue_service.py and application/                      *)
(* interview_plan_service.py.  Each of these operations reads, decides on  *)
(* what it read, and writes what it decided in a later transaction; between*)
(* the two, desk[r] holds what the request r has read.                     *)
(***************************************************************************)
EXTENDS QueueWorker

CONSTANTS
    Requests,       \* API requests that may be open at once
    MaxRequests,    \* bound: recruiter operations in a behaviour
    MaxPlanVersion  \* bound: versions of a candidate's plan

ASSUME DeskAssumption == MaxRequests \in Nat /\ MaxPlanVersion \in Nat

VARIABLES
    desk,   \* per request: the operation under way and what it has read
    served  \* operations begun so far

deskVars == <<desk, served>>

DeskOp == {"none", "cancel", "retry", "remove", "add", "add_status", "edit",
           "approve"}

DeskRow == [op        : DeskOp,
            item      : Items \union {NoItem},
            row       : ItemRow,               \* the item as read
            candidate : Candidates,
            status    : CandidateStatus,       \* the candidate as read
            version   : Nat]                   \* the plan as read

DeskTypeOK ==
    /\ desk \in [Requests -> DeskRow]
    /\ served \in 0..MaxRequests

NoRequest == [op |-> "none", item |-> NoItem, row |-> NewRow("absent"),
              candidate |-> CHOOSE c \in Candidates : TRUE,
              status |-> "new", version |-> 0]

DoneWith(r) == desk' = [desk EXCEPT ![r] = NoRequest]

Opens(r) ==
    /\ desk[r].op = "none"
    /\ served < MaxRequests
    /\ served' = served + 1

-----------------------------------------------------------------------------
(* QueueService on one item: get_item, _reject_if_in_flight, then the      *)
(* whole row as read is written back with the changed columns.             *)

ReadItem(r, i, op) ==
    /\ Opens(r)
    /\ Exists(item[i])
    /\ ~InFlight(item[i])
    /\ op = "retry" => item[i].status # "completed"
    /\ desk' = [desk EXCEPT ![r].op = op, ![r].item = i, ![r].row = item[i]]
    /\ UNCHANGED <<repoVars, session, workerVars>>

CancelledRow_Refunds(row) ==
    [row EXCEPT !.status = "cancelled", !.backoff = FALSE, !.attempts = @ - 1]

CancelledRow(row) == [row EXCEPT !.status = "cancelled", !.backoff = FALSE]

RetriedRow_SpentAttempts(row) ==
    [row EXCEPT !.status = "pending", !.claimedBy = NoWorker, !.lease = "none",
                !.backoff = FALSE]

RetriedRow(row) ==
    [row EXCEPT !.status = "pending", !.attempts = 0, !.claimedBy = NoWorker,
                !.lease = "none", !.backoff = FALSE]

\* update_item and delete_item wait for a claim transaction on the row; a row
\* that is gone is an error to the caller and nothing else.
WriteItem(r, op, row) ==
    /\ desk[r].op = op
    /\ rowLock[desk[r].item] = NoWorker
    /\ item' = [item EXCEPT ![desk[r].item] = IF Exists(@) THEN row ELSE @]
    /\ DoneWith(r)
    /\ UNCHANGED <<queueStatus, rowLock, session, workerVars, served>>

CancelItem(r)      == WriteItem(r, "cancel", CancelledRow(desk[r].row))
RetryItem(r)       == WriteItem(r, "retry", RetriedRow(desk[r].row))
RemoveCandidate(r) == WriteItem(r, "remove", NewRow("deleted"))

-----------------------------------------------------------------------------
(* add_candidate: the plan gate, the insert (unique per queue and          *)
(* candidate), and then the candidate's status as read.                    *)

ReadForAdd(r, i) ==
    LET c == CandidateOf[i] IN
    /\ Opens(r)
    /\ item[i].status = "absent"
    /\ \A j \in Items : j < i => item[j].status # "absent"
    /\ plan[c].approved
    /\ desk' = [desk EXCEPT ![r].op = "add", ![r].item = i,
                            ![r].candidate = c, ![r].status = candidate[c]]
    /\ UNCHANGED <<repoVars, session, workerVars>>

AlreadyQueued(i) ==
    \E j \in Items \ {i} : /\ QueueOf[j] = QueueOf[i]
                           /\ CandidateOf[j] = CandidateOf[i]
                           /\ Exists(item[j])

\* A manual caller adds PENDING, the application pipeline AWAITING_CANDIDATE.
AddItem(r) ==
    LET i == desk[r].item IN
    /\ desk[r].op = "add"
    /\ IF item[i].status # "absent" \/ AlreadyQueued(i)
       THEN DoneWith(r) /\ UNCHANGED item
       ELSE /\ item' = [item EXCEPT ![i] =
                   NewRow(IF IsAuto(i) THEN "awaiting_candidate" ELSE "pending")]
            /\ IF desk[r].status \in {"new", "applied"}
               THEN desk' = [desk EXCEPT ![r].op = "add_status"]
               ELSE DoneWith(r)
    /\ UNCHANGED <<queueStatus, rowLock, session, workerVars, served>>

AddStatus(r) ==
    /\ desk[r].op = "add_status"
    /\ candidate' = [candidate EXCEPT ![desk[r].candidate] = "queued"]
    /\ DoneWith(r)
    /\ UNCHANGED <<repoVars, session, worker, plan, crashes, served>>

-----------------------------------------------------------------------------
(* start, pause, resume.                                                   *)

SetQueueStatus(r, q, status) ==
    /\ Opens(r)
    /\ queueStatus[q] # status
    /\ queueStatus' = [queueStatus EXCEPT ![q] = status]
    /\ UNCHANGED <<item, rowLock, session, workerVars, desk>>

-----------------------------------------------------------------------------
(* InterviewPlanService: _require_editable, then the upsert.               *)

Editable(c) ==
    /\ candidate[c] \notin {"screening_in_progress", "screened"}
    /\ ~HasEvaluation(c)

ReadPlan(r, c, op) ==
    /\ Opens(r)
    /\ Editable(c)
    /\ op = "edit" => plan[c].version < MaxPlanVersion
    /\ desk' = [desk EXCEPT ![r].op = op, ![r].candidate = c,
                            ![r].version = plan[c].version]
    /\ UNCHANGED <<repoVars, session, workerVars>>

WritePlan(r, c, version, approved) ==
    /\ plan' = [plan EXCEPT ![c] = [version |-> version, approved |-> approved]]
    /\ DoneWith(r)
    /\ UNCHANGED <<repoVars, session, worker, candidate, crashes, served>>

\* generate: the bank's questions and the model's, none of them the earlier plan's.
GeneratedVersion(c) == plan[c].version + 1

\* generate, regenerate_question and save_questions: other questions, DRAFT.
EditPlan(r) ==
    LET c == desk[r].candidate IN
    /\ desk[r].op = "edit"
    /\ WritePlan(r, c, GeneratedVersion(c), FALSE)

\* approve writes back the questions it read, APPROVED.
ApprovePlan(r) ==
    /\ desk[r].op = "approve"
    /\ WritePlan(r, desk[r].candidate, desk[r].version, TRUE)

DeskAction(r) ==
    \/ \E i \in Items : \/ \E op \in {"cancel", "retry", "remove"} : ReadItem(r, i, op)
                        \/ ReadForAdd(r, i)
    \/ CancelItem(r) \/ RetryItem(r) \/ RemoveCandidate(r)
    \/ AddItem(r) \/ AddStatus(r)
    \/ \E q \in Queues, status \in {"running", "paused"} : SetQueueStatus(r, q, status)
    \/ \E c \in Candidates, op \in {"edit", "approve"} : ReadPlan(r, c, op)
    \/ EditPlan(r) \/ ApprovePlan(r)

=============================================================================
