-------------------------- MODULE QueueRepository --------------------------
(***************************************************************************)
(* The rows of call_queues and queue_items and the statements that         *)
(* services/db/queues.py runs on them.  A row update is an operator from   *)
(* the old row to the new one; the modules that extend this one say who    *)
(* runs it and when.                                                       *)
(*                                                                         *)
(* Clocks are abstracted to what the statements compare: a lease is live   *)
(* or expired, a backoff deadline is ahead (backoff = TRUE) or passed.     *)
(***************************************************************************)
EXTENDS Entities

CONSTANTS
    Workers,      \* worker ids (worker.py: host name and pid)
    NoWorker,     \* claimed_by IS NULL, or a row nobody has locked
    Queues,       \* call_queues ids
    AutoQueues,   \* the queues whose kind is AUTO
    Items,        \* queue_items ids, handed out in increasing order
    QueueOf,      \* queue_items.queue_id
    CandidateOf,  \* queue_items.candidate_id
    MaxAttempts   \* queue_items.max_attempts

ASSUME RepositoryAssumption ==
    /\ NoWorker \notin Workers
    /\ Items \subseteq Nat
    /\ QueueOf \in [Items -> Queues]
    /\ CandidateOf \in [Items -> Candidates]
    /\ AutoQueues \subseteq Queues
    /\ MaxAttempts \in Nat \ {0}

VARIABLES
    item,         \* the queue_items table, one row per id
    queueStatus,  \* call_queues.status
    rowLock       \* the worker whose open transaction locks a queue_items row

repoVars == <<item, queueStatus, rowLock>>

InFlightStatus == {"claimed", "in_progress"}
TerminalStatus == {"completed", "failed", "no_answer", "cancelled"}

\* "absent" is an id not handed out yet, "deleted" a row that was removed.
ItemStatus == {"absent", "deleted", "awaiting_candidate", "pending"}
                \union InFlightStatus \union TerminalStatus

ItemRow == [status    : ItemStatus,
            attempts  : Nat,
            claimedBy : Workers \union {NoWorker},
            lease     : {"none", "live", "expired"},
            backoff   : BOOLEAN,
            session   : SessionIds \union {NoSession},
            prewarm   : BOOLEAN]

NewRow(status) == [status |-> status, attempts |-> 0, claimedBy |-> NoWorker,
                   lease |-> "none", backoff |-> FALSE, session |-> NoSession,
                   prewarm |-> FALSE]

RepoTypeOK ==
    /\ item \in [Items -> ItemRow]
    /\ queueStatus \in [Queues -> {"idle", "running", "paused"}]
    /\ rowLock \in [Items -> Workers \union {NoWorker}]

InFlight(row) == row.status \in InFlightStatus
Exists(row)   == row.status \notin {"absent", "deleted"}
IsAuto(i)     == QueueOf[i] \in AutoQueues

-----------------------------------------------------------------------------
(* Which item a worker may take next: _claimable_query, _prewarmable_query. *)

CandidateBusyElsewhere(i) ==
    \E j \in Items \ {i} : /\ CandidateOf[j] = CandidateOf[i]
                           /\ InFlight(item[j])

Claimable(i) ==
    /\ item[i].status = "pending"
    /\ ~item[i].backoff
    /\ queueStatus[QueueOf[i]] = "running"
    /\ ~CandidateBusyElsewhere(i)
    /\ rowLock[i] = NoWorker

NextClaimable(i) ==
    /\ Claimable(i)
    /\ \A j \in Items : Claimable(j) => i <= j

Prewarmable(i) ==
    /\ item[i].status = "awaiting_candidate"
    /\ item[i].session = NoSession
    /\ ~item[i].prewarm
    /\ queueStatus[QueueOf[i]] = "running"
    /\ IsAuto(i)
    /\ rowLock[i] = NoWorker

NextPrewarmable(i) ==
    /\ Prewarmable(i)
    /\ \A j \in Items : Prewarmable(j) => i <= j

-----------------------------------------------------------------------------
(* The row updates.                                                        *)

ClaimedRow(row, w) ==
    [row EXCEPT !.status = "claimed", !.attempts = @ + 1, !.claimedBy = w,
                !.lease = "live", !.backoff = FALSE]

ReleasedForRetry(row) ==
    [row EXCEPT !.status = "pending", !.claimedBy = NoWorker, !.lease = "none",
                !.backoff = TRUE, !.session = NoSession]

ReleasedToAwaitingCandidate(row) ==
    [row EXCEPT !.status = "awaiting_candidate", !.claimedBy = NoWorker,
                !.lease = "none", !.backoff = FALSE, !.session = NoSession,
                !.prewarm = FALSE]

TerminalRow_KeepsLease(row, status, s) ==
    [row EXCEPT !.status = status, !.backoff = FALSE, !.session = s]

TerminalRow(row, status, s) ==
    [row EXCEPT !.status = status, !.claimedBy = NoWorker, !.lease = "none",
                !.backoff = FALSE, !.session = s]

ArmedRow(row) ==
    IF row.status = "awaiting_candidate"
    THEN [row EXCEPT !.status = "pending", !.backoff = FALSE]
    ELSE row

\* attach_prepared_session matches only an unclaimed row without a session.
PreparedRow(row, s) ==
    IF /\ row.status \in {"awaiting_candidate", "pending"}
       /\ row.session = NoSession
    THEN [row EXCEPT !.session = s]
    ELSE row

LeaseExpired_AnyLease(row)    == InFlight(row)
LeaseExpired_OnlyClaimed(row) == row.status = "claimed" /\ row.lease = "expired"

LeaseExpired(row) == InFlight(row) /\ row.lease = "expired"

RecoveredRow_AlwaysRetry(row) ==
    [row EXCEPT !.status = "pending", !.claimedBy = NoWorker, !.lease = "none",
                !.backoff = FALSE, !.session = NoSession]

RecoveredRow_KeepsSession(row) ==
    [row EXCEPT !.status = IF row.attempts >= MaxAttempts THEN "failed" ELSE "pending",
                !.claimedBy = NoWorker, !.lease = "none", !.backoff = FALSE]

RecoveredRow(row) ==
    [row EXCEPT !.status = IF row.attempts >= MaxAttempts THEN "failed" ELSE "pending",
                !.claimedBy = NoWorker, !.lease = "none", !.backoff = FALSE,
                !.session = NoSession]

RecoverExpiredLeases ==
    item' = [i \in Items |-> IF LeaseExpired(item[i])
                             THEN RecoveredRow(item[i]) ELSE item[i]]

\* The WHERE clause of every worker write: claimed_by is still this worker
\* and the row is still in flight; otherwise the write raises.
HoldsLease(w, i) == InFlight(item[i]) /\ item[i].claimedBy = w

-----------------------------------------------------------------------------
(* The passing of time, seen by the rows.                                  *)

BackoffElapses(i) ==
    /\ item[i].backoff
    /\ item' = [item EXCEPT ![i].backoff = FALSE]
    /\ UNCHANGED <<queueStatus, rowLock>>

LeaseRunsOut(i) ==
    /\ item[i].lease = "live"
    /\ item' = [item EXCEPT ![i].lease = "expired"]
    /\ UNCHANGED <<queueStatus, rowLock>>

=============================================================================
