-------------------------- MODULE CallQueueProofs --------------------------
(***************************************************************************)
(* Proofs about CallQueue, for any number of workers, recruiters, items,   *)
(* candidates and attempts, in five parts:                                 *)
(*   rows       what a row and its worker's memory keep, whoever writes;   *)
(*   ledger     the refinement of AttemptLedger, and who writes a row;     *)
(*   reports    whose interview a session is, and what is on file;         *)
(*   calls      with punctual heartbeats, one call per candidate;          *)
(*   dispatch   the session that is dispatched has not begun.              *)
(* Ledger, calls and dispatch are about a queue whose rows no recruiter    *)
(* rewrites meanwhile.                                                     *)
(***************************************************************************)
EXTENDS CallQueue, TLAPS

-----------------------------------------------------------------------------
(* The inductive invariant.                                                *)

\* The steps at which a worker has an item in hand, and a session.
Busy == WorkerStep \ {"idle", "dead", "claim", "prewarm"}

WithSession == {"attach", "dispatch", "heartbeat", "poll", "end_interview",
                "hang_up", "evaluate", "report", "mark_screened", "complete",
                "prewarm_attach"}

\* A row of queue_items: an owner and a lease exactly in flight, attempts that
\* pay for what the status allows, and no backoff while an attempt runs.
RowOK(row) ==
    /\ row \in ItemRow
    /\ InFlight(row) <=> row.claimedBy # NoWorker
    /\ InFlight(row) <=> row.lease # "none"
    /\ row.attempts <= MaxAttempts
    /\ row.status \in {"awaiting_candidate", "pending"} => row.attempts < MaxAttempts
    /\ InFlight(row) => row.attempts > 0 /\ ~row.backoff

\* What worker w remembers, k, agrees with the tables: its claim locks the row
\* it read, and while it holds a lease it knows the attempts of the row.
MemoryOK(w, k) ==
    /\ k \in WorkerRow
    /\ k.pc \in Busy => k.item \in Items
    /\ k.pc \in WithSession => k.session \in SessionIds
    /\ k.pc = "claiming" => /\ rowLock[k.item] = w
                            /\ item[k.item].status = "pending"
    /\ k.pc \in RunStep \union SettleStep /\ HoldsLease(w, k.item)
         => k.attempts = item[k.item].attempts
    /\ k.pc = "settle" => k.attempts < MaxAttempts

\* A row that a request has read, and may write back, was not in flight.
RequestOK(r) ==
    /\ desk[r].op \in {"cancel", "retry", "remove", "add", "add_status"}
         => desk[r].item \in Items
    /\ desk[r].op \in {"cancel", "retry"} => RowOK(desk[r].row) /\ ~InFlight(desk[r].row)

IInv ==
    /\ TypeOK
    /\ \A i \in Items : RowOK(item[i])
    /\ \A w \in Workers : MemoryOK(w, worker[w])
    /\ \A r \in Requests : RequestOK(r)

USE EntityAssumption, RepositoryAssumption, WorkerAssumption, DeskAssumption,
    QueueAssumption
    DEF EntityAssumption, RepositoryAssumption, WorkerAssumption, DeskAssumption,
        QueueAssumption

-----------------------------------------------------------------------------
(* Facts about the sets of names.                                          *)

\* The statuses, and the steps of a worker, listed.
LEMMA Names ==
    /\ ItemStatus = {"absent", "deleted", "awaiting_candidate", "pending", "claimed",
                     "in_progress", "completed", "failed", "no_answer", "cancelled"}
    /\ WorkerStep = {"idle", "dead", "claim", "claiming", "check_plan", "begin",
                     "mark_candidate", "prepare", "attach", "dispatch", "heartbeat",
                     "poll", "end_interview", "hang_up", "evaluate", "report",
                     "mark_screened", "complete", "release", "settle",
                     "release_again", "settle_terminal", "prewarm",
                     "prewarm_prepare", "prewarm_attach"}
    /\ Busy = {"claiming", "prewarm_prepare", "prewarm_attach"}
                \union RunStep \union SettleStep
    /\ RunStep \union SettleStep =
         {"check_plan", "begin", "mark_candidate", "prepare", "attach", "dispatch",
          "heartbeat", "poll", "end_interview", "hang_up", "evaluate", "report",
          "mark_screened", "complete", "release", "settle", "release_again",
          "settle_terminal"}
<1>1. ItemStatus = {"absent", "deleted", "awaiting_candidate", "pending", "claimed",
                    "in_progress", "completed", "failed", "no_answer", "cancelled"}
  BY DEF ItemStatus, InFlightStatus, TerminalStatus
<1>2. WorkerStep = {"idle", "dead", "claim", "claiming", "check_plan", "begin",
                    "mark_candidate", "prepare", "attach", "dispatch", "heartbeat",
                    "poll", "end_interview", "hang_up", "evaluate", "report",
                    "mark_screened", "complete", "release", "settle",
                    "release_again", "settle_terminal", "prewarm",
                    "prewarm_prepare", "prewarm_attach"}
  BY DEF WorkerStep, ClaimStep, RunStep, SettleStep, PrewarmStep
<1>3. Busy = {"claiming", "prewarm_prepare", "prewarm_attach"}
                \union RunStep \union SettleStep
  BY DEF Busy, WorkerStep, ClaimStep, RunStep, SettleStep, PrewarmStep
<1>4. RunStep \union SettleStep =
         {"check_plan", "begin", "mark_candidate", "prepare", "attach", "dispatch",
          "heartbeat", "poll", "end_interview", "hang_up", "evaluate", "report",
          "mark_screened", "complete", "release", "settle", "release_again",
          "settle_terminal"}
  BY DEF RunStep, SettleStep
<1> QED
  BY <1>1, <1>2, <1>3, <1>4

-----------------------------------------------------------------------------
(* The row updates keep rows in order.                                     *)

\* A new row, or the trace of a removed one, is in order.
LEMMA NewRowOK ==
  ASSUME NEW status \in {"absent", "deleted", "awaiting_candidate", "pending"}
  PROVE  RowOK(NewRow(status)) /\ ~InFlight(NewRow(status))
<1>1. NewRow(status) \in ItemRow
  BY Names DEF NewRow, ItemRow
<1>2. ~InFlight(NewRow(status))
  BY DEF NewRow, InFlight, InFlightStatus
<1> QED
  BY <1>1, <1>2 DEF RowOK, NewRow

\* Claiming a pending row leaves it in order: it had an attempt left.
LEMMA ClaimedRowOK ==
  ASSUME NEW row, RowOK(row), row.status = "pending", NEW w \in Workers
  PROVE  RowOK(ClaimedRow(row, w))
<1>1. ClaimedRow(row, w) \in ItemRow
  <2>1. row \in ItemRow /\ row.attempts + 1 \in Nat
    BY DEF RowOK, ItemRow
  <2> QED
    BY <2>1, Names DEF ClaimedRow, ItemRow
<1>2. InFlight(ClaimedRow(row, w))
  BY DEF RowOK, ItemRow, ClaimedRow, InFlight, InFlightStatus
<1> QED
  BY <1>1, <1>2 DEF RowOK, ItemRow, ClaimedRow

\* What a worker, a candidate or a deadline does to a row that is given back.
LEMMA ReleasedRowOK ==
  ASSUME NEW row, RowOK(row), row.attempts < MaxAttempts
  PROVE  /\ RowOK(ReleasedForRetry(row)) /\ ~InFlight(ReleasedForRetry(row))
         /\ RowOK(ReleasedToAwaitingCandidate(row))
         /\ ~InFlight(ReleasedToAwaitingCandidate(row))
<1>1. /\ ReleasedForRetry(row) \in ItemRow
      /\ ReleasedToAwaitingCandidate(row) \in ItemRow
  BY Names DEF RowOK, ReleasedForRetry, ReleasedToAwaitingCandidate, ItemRow
<1>2. /\ ~InFlight(ReleasedForRetry(row))
      /\ ~InFlight(ReleasedToAwaitingCandidate(row))
  BY DEF RowOK, ItemRow, ReleasedForRetry, ReleasedToAwaitingCandidate, InFlight,
     InFlightStatus
<1> QED
  BY <1>1, <1>2 DEF RowOK, ItemRow, ReleasedForRetry, ReleasedToAwaitingCandidate

\* So does settling a row for good.
LEMMA TerminalRowOK ==
  ASSUME NEW row, RowOK(row), NEW status \in TerminalStatus,
         NEW s \in SessionIds \union {NoSession}
  PROVE  RowOK(TerminalRow(row, status, s)) /\ ~InFlight(TerminalRow(row, status, s))
<1>1. TerminalRow(row, status, s) \in ItemRow
  BY Names DEF RowOK, TerminalRow, ItemRow, TerminalStatus
<1>2. ~InFlight(TerminalRow(row, status, s))
  BY DEF RowOK, ItemRow, TerminalRow, InFlight, InFlightStatus, TerminalStatus
<1> QED
  BY <1>1, <1>2 DEF RowOK, ItemRow, TerminalRow, TerminalStatus

\* So does the recovery of an expired lease, whatever the attempts.
LEMMA RecoveredRowOK ==
  ASSUME NEW row, RowOK(row)
  PROVE  RowOK(RecoveredRow(row)) /\ ~InFlight(RecoveredRow(row))
<1>1. RecoveredRow(row) \in ItemRow
  BY Names DEF RowOK, RecoveredRow, ItemRow
<1>2. ~InFlight(RecoveredRow(row))
  BY DEF RowOK, ItemRow, RecoveredRow, InFlight, InFlightStatus
<1> QED
  BY <1>1, <1>2 DEF RowOK, ItemRow, RecoveredRow

\* So do the rows that cancel and retry derive from a copy not in flight.
LEMMA DeskRowOK ==
  ASSUME NEW row, RowOK(row), ~InFlight(row)
  PROVE  /\ RowOK(CancelledRow(row)) /\ ~InFlight(CancelledRow(row))
         /\ RowOK(RetriedRow(row)) /\ ~InFlight(RetriedRow(row))
<1>1. CancelledRow(row) \in ItemRow /\ RetriedRow(row) \in ItemRow
  BY Names DEF RowOK, CancelledRow, RetriedRow, ItemRow
<1>2. ~InFlight(CancelledRow(row)) /\ ~InFlight(RetriedRow(row))
  BY DEF RowOK, ItemRow, CancelledRow, RetriedRow, InFlight, InFlightStatus
<1> QED
  BY <1>1, <1>2 DEF RowOK, ItemRow, CancelledRow, RetriedRow

-----------------------------------------------------------------------------
(* The initial states.                                                     *)

\* The invariant holds at the start.
LEMMA InitOK == Init => IInv
<1> SUFFICES ASSUME Init PROVE IInv
  OBVIOUS
<1>1. (CHOOSE c \in Candidates : TRUE) \in Candidates
  BY EntityAssumption
<1>2. \A i \in Items : RowOK(item[i])
  BY NewRowOK DEF Init
<1>3. TypeOK
  <2>1. RepoTypeOK
    BY <1>2 DEF Init, RepoTypeOK, RowOK
  <2>2. SessionTypeOK
    BY <1>1 DEF Init, SessionTypeOK, SessionRow, SessionState
  <2>3. WorkerTypeOK
    BY Names DEF Init, WorkerTypeOK, WorkerAt, WorkerRow, PlanRow, CandidateStatus
  <2>4. DeskTypeOK
    <3>1. NoRequest \in DeskRow
      BY <1>1, NewRowOK DEF NoRequest, DeskRow, DeskOp, CandidateStatus, RowOK
    <3> QED
      BY <3>1 DEF Init, DeskTypeOK
  <2> QED
    BY <2>1, <2>2, <2>3, <2>4 DEF TypeOK
<1>4. \A w \in Workers : MemoryOK(w, worker[w])
  <2>1. "idle" \notin Busy /\ "idle" \notin WithSession
           /\ "idle" \notin RunStep \union SettleStep
    BY Names DEF WithSession
  <2> QED
    BY <1>3, <2>1 DEF Init, TypeOK, WorkerTypeOK, MemoryOK, WorkerAt
<1>5. \A r \in Requests : RequestOK(r)
  BY DEF Init, RequestOK, NoRequest
<1> QED
  BY <1>2, <1>3, <1>4, <1>5 DEF IInv

-----------------------------------------------------------------------------
(* Steps that leave a worker's memory in agreement with the tables.        *)

\* Row i still says of worker v what v may remember of it.
Spares(v, i) ==
    /\ rowLock[i] = v /\ item[i].status = "pending"
         => rowLock'[i] = v /\ item'[i].status = "pending"
    /\ InFlight(item'[i]) /\ item'[i].claimedBy = v
         => HoldsLease(v, i) /\ item'[i].attempts = item[i].attempts

\* A worker that does not move keeps its agreement with spared rows.
LEMMA Bystander ==
  ASSUME IInv, NEW v \in Workers, worker'[v] = worker[v],
         \A i \in Items : Spares(v, i)
  PROVE  MemoryOK(v, worker[v])'
<1>1. MemoryOK(v, worker[v])
  BY DEF IInv
<1>2. worker[v].pc \in RunStep \union SettleStep \union {"claiming"}
        => worker[v].item \in Items
  BY <1>1, Names DEF MemoryOK
<1>3. (worker[v].pc = "claiming" => /\ rowLock[worker[v].item] = v
                                    /\ item[worker[v].item].status = "pending")'
  BY <1>1, <1>2 DEF MemoryOK, Spares
<1>4. (worker[v].pc \in RunStep \union SettleStep /\ HoldsLease(v, worker[v].item)
         => worker[v].attempts = item[worker[v].item].attempts)'
  BY <1>1, <1>2 DEF MemoryOK, Spares, HoldsLease, InFlight
<1> QED
  BY <1>1, <1>3, <1>4 DEF MemoryOK

\* A step of worker w that leaves the queue alone.
LEMMA LocalStep ==
  ASSUME IInv, NEW w \in Workers, UNCHANGED <<repoVars, deskVars>>,
         worker' = [worker EXCEPT ![w] = worker'[w]],
         MemoryOK(w, worker'[w]),
         SessionTypeOK', candidate' \in [Candidates -> CandidateStatus],
         UNCHANGED <<plan, crashes>>
  PROVE  IInv'
<1>1. TypeOK'
  BY DEF IInv, TypeOK, RepoTypeOK, WorkerTypeOK, DeskTypeOK, repoVars, deskVars, MemoryOK
<1>2. \A i \in Items : RowOK(item[i])'
  BY DEF IInv, repoVars, RowOK, InFlight
<1>3. ASSUME NEW v \in Workers PROVE MemoryOK(v, worker[v])'
  <2>1. CASE v = w
    BY <2>1 DEF MemoryOK, HoldsLease, InFlight, repoVars, IInv, TypeOK, WorkerTypeOK
  <2>2. CASE v # w
    BY <2>2, Bystander DEF Spares, HoldsLease, repoVars, IInv, TypeOK, WorkerTypeOK
  <2> QED
    BY <2>1, <2>2
<1>4. \A r \in Requests : RequestOK(r)'
  BY DEF IInv, RequestOK, deskVars, RowOK, InFlight
<1> QED
  BY <1>1, <1>2, <1>3, <1>4 DEF IInv

\* A step of worker w that writes the row whose lease it holds.
LEMMA HolderStep ==
  ASSUME IInv, NEW w \in Workers, NEW i \in Items, HoldsLease(w, i),
         item' = [item EXCEPT ![i] = item'[i]], RowOK(item'[i]),
         InFlight(item'[i]) => item'[i].claimedBy = w,
         item'[i].attempts = item[i].attempts,
         worker' = [worker EXCEPT ![w] = worker'[w]],
         MemoryOK(w, worker'[w]), worker'[w].pc # "claiming",
         UNCHANGED <<queueStatus, rowLock, session, candidate, plan, crashes, deskVars>>
  PROVE  IInv'
<1>1. \A j \in Items : RowOK(item'[j])
  BY DEF IInv, TypeOK, RepoTypeOK
<1>2. TypeOK'
  BY <1>1 DEF IInv, TypeOK, RepoTypeOK, SessionTypeOK, WorkerTypeOK, DeskTypeOK,
     deskVars, MemoryOK, RowOK
<1>3. ASSUME NEW v \in Workers PROVE MemoryOK(v, worker[v])'
  <2>1. CASE v = w
    <3>1. worker'[v] = worker'[w] /\ worker'[w] \in WorkerRow
      BY <2>1 DEF MemoryOK
    <3>2. \A j \in Items : HoldsLease(w, j)' =>
             HoldsLease(w, j) /\ item'[j].attempts = item[j].attempts
      BY DEF HoldsLease, IInv, TypeOK, RepoTypeOK
    <3> QED
      BY <2>1, <3>1, <3>2, Names DEF MemoryOK
  <2>2. CASE v # w
    <3>1. \A j \in Items : Spares(v, j)
      BY <2>2 DEF Spares, HoldsLease, InFlight, InFlightStatus, IInv, TypeOK, RepoTypeOK
    <3> QED
      BY <2>2, <3>1, Bystander DEF IInv, TypeOK, WorkerTypeOK
  <2> QED
    BY <2>1, <2>2
<1>4. \A r \in Requests : RequestOK(r)'
  BY DEF IInv, RequestOK, deskVars, RowOK, InFlight
<1> QED
  BY <1>1, <1>2, <1>3, <1>4 DEF IInv, RowOK, InFlight

-----------------------------------------------------------------------------
(* Where the steps of a worker lead.                                       *)

\* A worker back in its loop, or dead, remembers nothing.
LEMMA RestOK ==
  ASSUME IInv, NEW w \in Workers, NEW pc \in {"idle", "dead"}
  PROVE  MemoryOK(w, WorkerAt(pc))
<1>1. /\ pc \notin Busy /\ pc \notin WithSession
      /\ pc \notin RunStep \union SettleStep /\ pc \notin {"claiming", "settle"}
  BY Names DEF WithSession
<1>2. WorkerAt(pc) \in WorkerRow /\ WorkerAt(pc).pc = pc
  BY Names DEF WorkerAt, WorkerRow
<1> QED
  BY <1>1, <1>2 DEF MemoryOK

\* From one step of an attempt to another.
LEMMA MoveOK ==
  ASSUME IInv, NEW w \in Workers, worker[w].pc \in RunStep \union SettleStep,
         NEW k \in WorkerRow, k.pc \in RunStep \union SettleStep,
         k.item = worker[w].item, k.attempts = worker[w].attempts,
         k.pc \in WithSession => k.session \in SessionIds,
         k.pc = "settle" => k.attempts < MaxAttempts
  PROVE  MemoryOK(w, k)
<1>1. k.pc \in Busy /\ worker[w].pc \in Busy /\ k.pc # "claiming"
  BY Names
<1>2. MemoryOK(w, worker[w])
  BY DEF IInv
<1> QED
  BY <1>1, <1>2 DEF MemoryOK

\* An exception leads to the settlement of the attempt, or kills the process.
LEMMA RaiseOK ==
  ASSUME IInv, NEW w \in Workers, worker[w].pc \in RunStep \union SettleStep, Raise(w)
  PROVE  /\ worker' = [worker EXCEPT ![w] = worker'[w]]
         /\ MemoryOK(w, worker'[w])
<1>1. worker \in [Workers -> WorkerRow]
  BY DEF IInv, TypeOK, WorkerTypeOK
<1>2. CASE worker[w].inHandler
  BY <1>1, <1>2, RestOK DEF Raise
<1>3. CASE ~worker[w].inHandler
  <2>. DEFINE k == [worker[w] EXCEPT !.pc = "release", !.outcome = "failed",
                                     !.inHandler = TRUE]
  <2>1. worker' = [worker EXCEPT ![w] = k]
    BY <1>1, <1>3 DEF Raise
  <2>2. k \in WorkerRow /\ k.pc = "release" /\ k.item = worker[w].item
           /\ k.attempts = worker[w].attempts
    <3>1. worker[w] \in WorkerRow /\ "release" \in WorkerStep
      BY <1>1, Names
    <3> QED
      BY <3>1 DEF WorkerRow
  <2>3. "release" \in RunStep \union SettleStep /\ "release" \notin WithSession
    BY DEF SettleStep, WithSession
  <2>4. MemoryOK(w, k)
    BY <2>2, <2>3, MoveOK
  <2> QED
    BY <1>1, <2>1, <2>4
<1> QED
  BY <1>2, <1>3

\* A lost lease ends the pass, or kills the process.
LEMMA AbandonOK ==
  ASSUME IInv, NEW w \in Workers, Abandon(w)
  PROVE  /\ worker' = [worker EXCEPT ![w] = worker'[w]]
         /\ MemoryOK(w, worker'[w])
BY RestOK DEF Abandon, IInv, TypeOK, WorkerTypeOK

\* The end of a pass.
LEMMA EndPassOK ==
  ASSUME IInv, NEW w \in Workers, EndPass(w)
  PROVE  /\ worker' = [worker EXCEPT ![w] = worker'[w]]
         /\ MemoryOK(w, worker'[w])
         /\ worker'[w].pc = "idle"
BY RestOK DEF EndPass, WorkerAt, IInv, TypeOK, WorkerTypeOK

\* GoTo within an attempt.
LEMMA GoToOK ==
  ASSUME IInv, NEW w \in Workers, worker[w].pc \in RunStep \union SettleStep,
         NEW pc \in RunStep \union SettleStep, GoTo(w, pc),
         pc \in WithSession => worker[w].session \in SessionIds,
         pc = "settle" => worker[w].attempts < MaxAttempts
  PROVE  /\ worker' = [worker EXCEPT ![w] = worker'[w]]
         /\ MemoryOK(w, worker'[w])
         /\ worker'[w].pc = pc
<1>. DEFINE k == [worker[w] EXCEPT !.pc = pc]
<1>1. worker \in [Workers -> WorkerRow]
  BY DEF IInv, TypeOK, WorkerTypeOK
<1>2. worker' = [worker EXCEPT ![w] = k]
  BY <1>1 DEF GoTo
<1>3. /\ k \in WorkerRow /\ k.pc = pc /\ k.item = worker[w].item
      /\ k.attempts = worker[w].attempts /\ k.session = worker[w].session
  BY <1>1, Names DEF WorkerRow
<1>4. MemoryOK(w, k)
  BY <1>3, MoveOK
<1> QED
  BY <1>1, <1>2, <1>3, <1>4

\* At a step with a session in hand, the session is known.
LEMMA SessionInHand ==
  ASSUME IInv, NEW w \in Workers, worker[w].pc \in WithSession
  PROVE  worker[w].session \in SessionIds
BY DEF IInv, MemoryOK

-----------------------------------------------------------------------------
(* The steps of a worker within an attempt.                                *)

\* A lease-guarded update fails.
LEMMA GuardFailsOK ==
  ASSUME IInv, NEW w \in Workers, worker[w].pc \in RunStep \union SettleStep,
         GuardFails(w),
         UNCHANGED <<queueStatus, rowLock, session, candidate, plan, crashes, deskVars>>
  PROVE  IInv'
<1>1. /\ worker' = [worker EXCEPT ![w] = worker'[w]]
      /\ MemoryOK(w, worker'[w])
  BY RaiseOK, AbandonOK DEF GuardFails
<1>2. SessionTypeOK' /\ candidate' \in [Candidates -> CandidateStatus]
  BY DEF IInv, TypeOK, SessionTypeOK, WorkerTypeOK
<1> QED
  BY <1>1, <1>2, LocalStep DEF GuardFails, repoVars

\* A lease-guarded update succeeds, and the pass goes on or ends.
LEMMA GuardedUpdateOK ==
  ASSUME IInv, NEW w \in Workers, worker[w].pc \in RunStep \union SettleStep,
         NEW row, RowOK(row), InFlight(row) => row.claimedBy = w,
         row.attempts = item[worker[w].item].attempts,
         NEW pc \in (RunStep \union SettleStep \union {"idle"}) \ {"settle"},
         pc \in WithSession => worker[w].session \in SessionIds,
         GuardedUpdate(w, row, pc),
         UNCHANGED <<queueStatus, rowLock, session, candidate, plan, crashes, deskVars>>
  PROVE  IInv'
<1>. DEFINE i == worker[w].item
<1>1. i \in Items
  BY Names DEF IInv, MemoryOK
<1>2. HoldsLease(w, i) /\ item' = [item EXCEPT ![i] = row] /\ item'[i] = row
  BY <1>1 DEF GuardedUpdate, IInv, TypeOK, RepoTypeOK
<1>3. /\ worker' = [worker EXCEPT ![w] = worker'[w]]
      /\ MemoryOK(w, worker'[w])
      /\ worker'[w].pc = pc
  BY GoToOK, EndPassOK DEF GuardedUpdate
<1>4. pc # "claiming"
  BY Names
<1> QED
  BY <1>1, <1>2, <1>3, <1>4, HolderStep

\* The guarded update of the row to IN_PROGRESS.
LEMMA MarkInProgressOK ==
  ASSUME IInv, NEW w \in Workers, MarkInProgress(w), UNCHANGED deskVars
  PROVE  IInv'
<1>. DEFINE i   == worker[w].item
            row == [item[i] EXCEPT !.status = "in_progress"]
<1>1. worker[w].pc \in RunStep \union SettleStep /\ i \in Items
  BY Names DEF MarkInProgress, At, IInv, MemoryOK
<1>2. CASE GuardedUpdate(w, row, "mark_candidate")
  <2>1. RowOK(item[i]) /\ item[i] \in ItemRow /\ InFlight(item[i]) /\ item[i].claimedBy = w
    BY <1>1, <1>2 DEF GuardedUpdate, HoldsLease, IInv, RowOK
  <2>2. row \in ItemRow /\ InFlight(row)
    BY <2>1, Names DEF ItemRow, InFlight, InFlightStatus
  <2>3. RowOK(row) /\ row.claimedBy = w /\ row.attempts = item[i].attempts
    BY <2>1, <2>2 DEF RowOK, ItemRow
  <2>4. "mark_candidate" \in RunStep /\ "mark_candidate" \notin WithSession
    BY DEF RunStep, WithSession
  <2> QED
    BY <1>1, <1>2, <2>3, <2>4, GuardedUpdateOK DEF MarkInProgress
<1>3. CASE GuardFails(w)
  BY <1>1, <1>3, GuardFailsOK DEF MarkInProgress
<1> QED
  BY <1>2, <1>3 DEF MarkInProgress

\* The guarded update that attaches the session.
LEMMA AttachSessionOK ==
  ASSUME IInv, NEW w \in Workers, AttachSession(w), UNCHANGED deskVars
  PROVE  IInv'
<1>. DEFINE i   == worker[w].item
            row == [item[i] EXCEPT !.session = worker[w].session]
<1>1. /\ worker[w].pc \in RunStep \union SettleStep /\ i \in Items
      /\ worker[w].session \in SessionIds
  BY Names DEF AttachSession, At, IInv, MemoryOK, WithSession
<1>2. CASE GuardedUpdate(w, row, "dispatch")
  <2>1. RowOK(item[i]) /\ item[i] \in ItemRow /\ InFlight(item[i]) /\ item[i].claimedBy = w
    BY <1>1, <1>2 DEF GuardedUpdate, HoldsLease, IInv, RowOK
  <2>2. row \in ItemRow /\ InFlight(row)
    BY <1>1, <2>1 DEF ItemRow, InFlight
  <2>3. RowOK(row) /\ row.claimedBy = w /\ row.attempts = item[i].attempts
    BY <2>1, <2>2 DEF RowOK, ItemRow
  <2>4. "dispatch" \in (RunStep \union SettleStep \union {"idle"}) \ {"settle"}
    BY DEF RunStep
  <2>. HIDE DEF row
  <2> QED
    BY <1>1, <1>2, <2>3, <2>4, GuardedUpdateOK DEF AttachSession
<1>3. CASE GuardFails(w)
  BY <1>1, <1>3, GuardFailsOK DEF AttachSession
<1> QED
  BY <1>2, <1>3 DEF AttachSession

\* The guarded update that renews the lease.
LEMMA HeartbeatOK ==
  ASSUME IInv, NEW w \in Workers, Heartbeat(w), UNCHANGED deskVars
  PROVE  IInv'
<1>. DEFINE i   == worker[w].item
            row == [item[i] EXCEPT !.lease = "live"]
<1>1. /\ worker[w].pc \in RunStep \union SettleStep /\ i \in Items
      /\ worker[w].session \in SessionIds
  BY Names DEF Heartbeat, At, IInv, MemoryOK, WithSession
<1>2. CASE GuardedUpdate(w, row, "poll")
  <2>1. RowOK(item[i]) /\ item[i] \in ItemRow /\ InFlight(item[i]) /\ item[i].claimedBy = w
    BY <1>1, <1>2 DEF GuardedUpdate, HoldsLease, IInv, RowOK
  <2>2. row \in ItemRow /\ InFlight(row)
    BY <1>1, <2>1 DEF ItemRow, InFlight
  <2>3. RowOK(row) /\ row.claimedBy = w /\ row.attempts = item[i].attempts
    BY <2>1, <2>2 DEF RowOK, ItemRow
  <2>4. "poll" \in (RunStep \union SettleStep \union {"idle"}) \ {"settle"}
    BY DEF RunStep
  <2>. HIDE DEF row
  <2> QED
    BY <1>1, <1>2, <2>3, <2>4, GuardedUpdateOK DEF Heartbeat
<1>3. CASE GuardFails(w)
  BY <1>1, <1>3, GuardFailsOK DEF Heartbeat
<1> QED
  BY <1>2, <1>3 DEF Heartbeat

\* The guarded update to COMPLETED.
LEMMA CompleteOK ==
  ASSUME IInv, NEW w \in Workers, Complete(w), UNCHANGED deskVars
  PROVE  IInv'
<1>. DEFINE i   == worker[w].item
            row == TerminalRow(item[i], "completed", worker[w].session)
<1>1. /\ worker[w].pc \in RunStep \union SettleStep /\ i \in Items
      /\ worker[w].session \in SessionIds
  BY Names DEF Complete, At, IInv, MemoryOK, WithSession
<1>2. CASE GuardedUpdate(w, row, "idle")
  <2>1. RowOK(item[i]) /\ item[i] \in ItemRow
    BY <1>1 DEF IInv, RowOK
  <2>2. RowOK(row) /\ ~InFlight(row)
    BY <1>1, <2>1, TerminalRowOK DEF TerminalStatus
  <2>3. row.attempts = item[i].attempts
    BY <2>1 DEF TerminalRow, ItemRow
  <2>4. "idle" \notin WithSession
    BY DEF WithSession
  <2> QED
    BY <1>1, <1>2, <2>2, <2>3, <2>4, GuardedUpdateOK DEF Complete
<1>3. CASE GuardFails(w)
  BY <1>1, <1>3, GuardFailsOK DEF Complete
<1> QED
  BY <1>2, <1>3 DEF Complete

\* The guarded update to FAILED or NO_ANSWER.
LEMMA SettleTerminalOK ==
  ASSUME IInv, NEW w \in Workers, SettleTerminal(w), UNCHANGED deskVars
  PROVE  IInv'
<1>. DEFINE i   == worker[w].item
            row == TerminalRow(item[i], worker[w].outcome, NoSession)
<1>1. /\ worker[w].pc \in RunStep \union SettleStep /\ i \in Items
      /\ worker[w].outcome \in TerminalStatus
  BY Names DEF SettleTerminal, At, IInv, MemoryOK, WorkerRow, TerminalStatus
<1>2. CASE GuardedUpdate(w, row, "idle")
  <2>1. RowOK(item[i]) /\ item[i] \in ItemRow
    BY <1>1 DEF IInv, RowOK
  <2>2. RowOK(row) /\ ~InFlight(row)
    BY <1>1, <2>1, TerminalRowOK
  <2>3. row.attempts = item[i].attempts
    BY <2>1 DEF TerminalRow, ItemRow
  <2>4. "idle" \notin WithSession
    BY DEF WithSession
  <2> QED
    BY <1>1, <1>2, <2>2, <2>3, <2>4, GuardedUpdateOK DEF SettleTerminal
<1>3. CASE GuardFails(w)
  BY <1>1, <1>3, GuardFailsOK DEF SettleTerminal
<1> QED
  BY <1>2, <1>3 DEF SettleTerminal

\* The attempts known to the worker are those of the row it still holds, so a
\* retry is granted only to a row with an attempt left.
LEMMA SettleRetryOK ==
  ASSUME IInv, NEW w \in Workers, SettleRetry(w), UNCHANGED deskVars
  PROVE  IInv'
<1>. DEFINE i == worker[w].item
<1>1. /\ worker[w].pc \in RunStep \union SettleStep /\ i \in Items
      /\ RowOK(item[i]) /\ item[i] \in ItemRow
  BY Names DEF SettleRetry, At, IInv, MemoryOK, RowOK
<1>2. HoldsLease(w, i) => item[i].attempts < MaxAttempts
  BY <1>1 DEF SettleRetry, At, IInv, MemoryOK
<1>3. "idle" \notin WithSession
  BY DEF WithSession
<1>4. CASE GuardedUpdate(w, ReleasedToAwaitingCandidate(item[i]), "idle")
  <2>. DEFINE row == ReleasedToAwaitingCandidate(item[i])
  <2>1. RowOK(row) /\ ~InFlight(row) /\ row.attempts = item[i].attempts
    BY <1>1, <1>2, <1>4, ReleasedRowOK
       DEF GuardedUpdate, ReleasedToAwaitingCandidate, ItemRow
  <2> QED
    BY <1>1, <1>3, <1>4, <2>1, GuardedUpdateOK DEF SettleRetry
<1>5. CASE GuardedUpdate(w, ReleasedForRetry(item[i]), "idle")
  <2>. DEFINE row == ReleasedForRetry(item[i])
  <2>1. RowOK(row) /\ ~InFlight(row) /\ row.attempts = item[i].attempts
    BY <1>1, <1>2, <1>5, ReleasedRowOK DEF GuardedUpdate, ReleasedForRetry, ItemRow
  <2> QED
    BY <1>1, <1>3, <1>5, <2>1, GuardedUpdateOK DEF SettleRetry
<1>6. CASE GuardFails(w)
  BY <1>1, <1>6, GuardFailsOK DEF SettleRetry
<1> QED
  BY <1>4, <1>5, <1>6 DEF SettleRetry

-----------------------------------------------------------------------------
(* The steps of a worker that write no row of the queue.                   *)

\* Everything a local step leaves as it was has its type.
LEMMA Typed ==
  ASSUME IInv
  PROVE  /\ item \in [Items -> ItemRow] /\ rowLock \in [Items -> Workers \union {NoWorker}]
         /\ session \in [SessionIds -> SessionRow]
         /\ worker \in [Workers -> WorkerRow]
         /\ candidate \in [Candidates -> CandidateStatus]
         /\ plan \in [Candidates -> PlanRow]
         /\ desk \in [Requests -> DeskRow]
BY DEF IInv, TypeOK, RepoTypeOK, SessionTypeOK, WorkerTypeOK, DeskTypeOK

\* The steps of an attempt that only read.
LEMMA ReadingStepOK ==
  ASSUME IInv, NEW w \in Workers, UNCHANGED deskVars,
         CheckPlan(w) \/ StepRaises(w) \/ DispatchFails(w) \/ PollOver(w)
           \/ PollAgain(w) \/ PollTimesOut(w)
  PROVE  IInv'
<1>. USE Typed
<1>1. /\ UNCHANGED <<repoVars, session, candidate, plan, crashes>>
      /\ worker[w].pc \in RunStep \union SettleStep
  BY Names DEF CheckPlan, StepRaises, DispatchFails, PollOver, PollAgain, PollTimesOut, At
<1>2. SUFFICES /\ worker' = [worker EXCEPT ![w] = worker'[w]]
               /\ MemoryOK(w, worker'[w])
  BY <1>1, LocalStep DEF SessionTypeOK
<1>3. CASE CheckPlan(w)
  <2>1. /\ {"begin", "release_again"} \subseteq RunStep \union SettleStep
        /\ {"begin", "release_again", "settle"} \intersect WithSession = {}
    BY DEF RunStep, SettleStep, WithSession
  <2> QED
    BY <1>1, <1>3, <2>1, GoToOK DEF CheckPlan
<1>4. CASE StepRaises(w)
  BY <1>1, <1>4, RaiseOK DEF StepRaises
<1>5. CASE DispatchFails(w)
  <2>. DEFINE k == [worker[w] EXCEPT !.pc = "release", !.outcome = "failed"]
  <2>1. worker' = [worker EXCEPT ![w] = k]
    BY <1>5 DEF DispatchFails
  <2>2. "release" \in RunStep \union SettleStep /\ "release" \notin WithSession
    BY DEF SettleStep, WithSession
  <2>3. worker[w] \in WorkerRow /\ "release" \in WorkerStep
    BY Names
  <2>4. /\ k \in WorkerRow /\ k.pc = "release" /\ k.item = worker[w].item
        /\ k.attempts = worker[w].attempts
    BY <2>3 DEF WorkerRow
  <2>5. MemoryOK(w, k)
    BY <1>1, <2>2, <2>4, MoveOK
  <2> QED
    BY <2>1, <2>5
<1>6. CASE PollOver(w)
  <2>1. "evaluate" \in RunStep /\ "poll" \in WithSession
    BY DEF RunStep, WithSession
  <2> QED
    BY <1>1, <1>6, <2>1, GoToOK, SessionInHand DEF PollOver, At
<1>7. CASE PollAgain(w)
  <2>. DEFINE k == [worker[w] EXCEPT !.pc = "heartbeat", !.joined = JoinedBy(w)]
  <2>1. worker' = [worker EXCEPT ![w] = k]
    BY <1>7 DEF PollAgain
  <2>2. /\ "heartbeat" \in RunStep \union SettleStep
        /\ worker[w].session \in SessionIds
    BY <1>7, SessionInHand DEF RunStep, WithSession, PollAgain, At
  <2>3. worker[w] \in WorkerRow /\ "heartbeat" \in WorkerStep /\ JoinedBy(w) \in BOOLEAN
    BY Names DEF JoinedBy, WorkerRow
  <2>4. /\ k \in WorkerRow /\ k.pc = "heartbeat" /\ k.item = worker[w].item
        /\ k.attempts = worker[w].attempts /\ k.session = worker[w].session
    BY <2>3 DEF WorkerRow
  <2>. HIDE DEF k
  <2>5. MemoryOK(w, k)
    BY <1>1, <2>2, <2>4, MoveOK
  <2> QED
    BY <2>1, <2>5
<1>8. CASE PollTimesOut(w)
  <2>. DEFINE pc == IF SeenState(w) = "in_progress" THEN "end_interview" ELSE "hang_up"
              outcome == IF JoinedBy(w) THEN "failed" ELSE "no_answer"
              k == [worker[w] EXCEPT !.pc = pc, !.joined = JoinedBy(w), !.outcome = outcome]
  <2>1. worker' = [worker EXCEPT ![w] = k]
    BY <1>8 DEF PollTimesOut
  <2>2. /\ pc \in RunStep \union SettleStep /\ pc # "settle"
        /\ worker[w].session \in SessionIds
    BY <1>8, SessionInHand DEF RunStep, WithSession, PollTimesOut, At
  <2>3. /\ worker[w] \in WorkerRow /\ pc \in WorkerStep /\ JoinedBy(w) \in BOOLEAN
        /\ outcome \in {"failed", "no_answer"}
    BY Names DEF JoinedBy, WorkerRow
  <2>. HIDE DEF pc, outcome
  <2>4. /\ k \in WorkerRow /\ k.pc = pc /\ k.item = worker[w].item
        /\ k.attempts = worker[w].attempts /\ k.session = worker[w].session
    BY <2>3 DEF WorkerRow
  <2>. HIDE DEF k
  <2>5. MemoryOK(w, k)
    BY <1>1, <2>2, <2>4, MoveOK
  <2> QED
    BY <2>1, <2>5
<1> QED
  BY <1>3, <1>4, <1>5, <1>6, <1>7, <1>8

\* The steps of an attempt that write the session or the candidate.
LEMMA SessionsStayTyped ==
  ASSUME SessionTypeOK, NEW s \in SessionIds,
         OpenRoom(s) \/ CloseRoom(s) \/ EndInterview(s) \/ EvaluateInterview(s)
           \/ GenerateReport(s) \/ AgentStarts(s) \/ AgentFinishes(s)
  PROVE  SessionTypeOK'
<1>1. session[s] \in SessionRow
  BY DEF SessionTypeOK
<1>2. CASE OpenRoom(s) \/ CloseRoom(s)
  <2>1. PICK room \in BOOLEAN : session' = [session EXCEPT ![s].room = room]
    BY <1>2 DEF OpenRoom, CloseRoom
  <2>2. [session[s] EXCEPT !.room = room] \in SessionRow
    BY <1>1 DEF SessionRow
  <2> QED
    BY <2>1, <2>2 DEF SessionTypeOK
<1>3. CASE EndInterview(s) \/ EvaluateInterview(s) \/ GenerateReport(s) \/ AgentStarts(s)
             \/ AgentFinishes(s)
  <2>1. PICK state \in SessionState : session' = [session EXCEPT ![s].state = state]
    BY <1>3 DEF SessionState, EndInterview, EvaluateInterview, GenerateReport, AgentStarts,
       AgentFinishes
  <2> QED
    BY <1>1, <2>1 DEF SessionTypeOK, SessionRow
<1> QED
  BY <1>2, <1>3

\* A session just prepared is typed.
LEMMA CreateSessionTyped ==
  ASSUME SessionTypeOK, NEW s, NEW c \in Candidates, NEW q \in Nat,
         CreateReadySession(s, c, q)
  PROVE  SessionTypeOK'
<1>1. [state |-> "ready", candidate |-> c, questions |-> q, room |-> FALSE] \in SessionRow
  BY DEF SessionRow, SessionState
<1> QED
  BY <1>1 DEF SessionTypeOK, CreateReadySession

\* The id drawn for a new session is one not yet in use.
LEMMA FreshSessionExists ==
  SessionsFree => FreshSession \in SessionIds /\ session[FreshSession].state = "absent"
BY DEF SessionsFree, FreshSession

\* The steps of a worker that write sessions or candidates, not the queue.
LEMMA WritingStepOK ==
  ASSUME IInv, NEW w \in Workers, UNCHANGED deskVars,
         MarkCandidate(w) \/ Prepare(w) \/ Dispatch(w) \/ TransportEndsInterview(w)
           \/ HangUp(w) \/ Evaluate(w) \/ Report(w) \/ MarkScreened(w)
           \/ ReleaseCandidate(w) \/ ReleaseAgain(w)
  PROVE  IInv'
<1>. USE Typed
<1>1. /\ UNCHANGED <<repoVars, plan, crashes>>
      /\ worker[w].pc \in RunStep \union SettleStep
  BY Names DEF MarkCandidate, Prepare, Dispatch, TransportEndsInterview, HangUp, Evaluate,
     Report, MarkScreened, ReleaseCandidate, ReleaseAgain, At
<1>2. SUFFICES /\ worker' = [worker EXCEPT ![w] = worker'[w]]
               /\ MemoryOK(w, worker'[w])
               /\ SessionTypeOK' /\ candidate' \in [Candidates -> CandidateStatus]
  BY <1>1, LocalStep
<1>3. SessionTypeOK /\ worker[w].item \in Items /\ CandOf(w) \in Candidates
  BY <1>1, Names DEF SessionTypeOK, IInv, MemoryOK, CandOf
<1>4. {"screening_in_progress", "screened", "queued"} \subseteq CandidateStatus
  BY DEF CandidateStatus
<1>5. CASE MarkCandidate(w)
  <2>1. worker[w].session # NoSession => worker[w].session \in SessionIds
    BY DEF WorkerRow
  <2>2. {"dispatch", "prepare"} \subseteq RunStep /\ "prepare" \notin WithSession
    BY DEF RunStep, WithSession
  <2> QED
    BY <1>1, <1>3, <1>4, <1>5, <2>1, <2>2, GoToOK DEF MarkCandidate, SessionTypeOK
<1>6. CASE Prepare(w)
  <2>. DEFINE s == FreshSession
              k == [worker[w] EXCEPT !.pc = "attach", !.session = s]
  <2>1. worker' = [worker EXCEPT ![w] = k] /\ s \in SessionIds
    BY <1>6, FreshSessionExists DEF Prepare
  <2>2. worker[w] \in WorkerRow /\ "attach" \in WorkerStep /\ "attach" \in RunStep \union SettleStep
    BY Names
  <2>. HIDE DEF s
  <2>3. /\ k \in WorkerRow /\ k.pc = "attach" /\ k.item = worker[w].item
        /\ k.attempts = worker[w].attempts /\ k.session = s
    BY <2>1, <2>2 DEF WorkerRow
  <2>. HIDE DEF k
  <2>4. MemoryOK(w, k)
    BY <1>1, <2>1, <2>2, <2>3, MoveOK
  <2>5. QuestionsFor(CandOf(w)) \in Nat
    BY <1>3 DEF QuestionsFor, PlanRow
  <2>6. SessionTypeOK'
    BY <1>3, <1>6, <2>5, CreateSessionTyped DEF Prepare
  <2> QED
    BY <1>6, <2>1, <2>4, <2>6 DEF Prepare
<1>7. CASE Dispatch(w) \/ TransportEndsInterview(w) \/ HangUp(w) \/ Evaluate(w) \/ Report(w)
  <2>1. worker[w].session \in SessionIds
    BY <1>7, SessionInHand DEF Dispatch, TransportEndsInterview, HangUp, Evaluate, Report,
       At, WithSession
  <2>2. SessionTypeOK' /\ candidate' \in [Candidates -> CandidateStatus]
    BY <1>3, <1>7, <2>1, SessionsStayTyped
       DEF Dispatch, TransportEndsInterview, HangUp, Evaluate, Report
  <2>3. {"heartbeat", "hang_up", "release", "report", "mark_screened"}
           \subseteq (RunStep \union SettleStep) \ {"settle"}
    BY DEF RunStep, SettleStep
  <2> QED
    BY <1>1, <1>7, <2>1, <2>2, <2>3, GoToOK
       DEF Dispatch, TransportEndsInterview, HangUp, Evaluate, Report
<1>8. CASE MarkScreened(w)
  <2>1. worker[w].session \in SessionIds /\ "complete" \in RunStep
    BY <1>8, SessionInHand DEF MarkScreened, At, WithSession, RunStep
  <2> QED
    BY <1>1, <1>3, <1>4, <1>8, <2>1, GoToOK DEF MarkScreened, SessionTypeOK
<1>9. CASE ReleaseCandidate(w) \/ ReleaseAgain(w)
  <2>1. candidate' \in [Candidates -> CandidateStatus] /\ SessionTypeOK'
    BY <1>3, <1>4, <1>9
       DEF ReleaseCandidate, ReleaseAgain, ReleasedCandidate, SessionTypeOK
  <2>2. {"settle", "release_again", "settle_terminal"} \subseteq SettleStep \ WithSession
    BY DEF SettleStep, WithSession
  <2> QED
    BY <1>1, <1>9, <2>1, <2>2, GoToOK DEF ReleaseCandidate, ReleaseAgain
<1> QED
  BY <1>5, <1>6, <1>7, <1>8, <1>9

-----------------------------------------------------------------------------
(* Claims, recovery and prewarming.                                        *)

\* A step that writes at most the queue_items table, its locks and what the
\* workers remember.
LEMMA TableStep ==
  ASSUME IInv, item' \in [Items -> ItemRow], \A i \in Items : RowOK(item'[i]),
         rowLock' \in [Items -> Workers \union {NoWorker}],
         \A v \in Workers : \/ MemoryOK(v, worker[v])'
                            \/ worker'[v] = worker[v] /\ \A i \in Items : Spares(v, i),
         worker' \in [Workers -> WorkerRow], crashes' \in 0..MaxCrashes,
         UNCHANGED <<queueStatus, session, candidate, plan>>,
         DeskTypeOK', \A r \in Requests : RequestOK(r)'
  PROVE  IInv'
<1>1. TypeOK'
  BY DEF IInv, TypeOK, RepoTypeOK, SessionTypeOK, WorkerTypeOK
<1>2. \A v \in Workers : MemoryOK(v, worker[v])'
  BY Bystander
<1> QED
  BY <1>1, <1>2 DEF IInv, RowOK, InFlight

\* Requests that do not move stay in order.
LEMMA DeskUnmoved ==
  ASSUME IInv, UNCHANGED deskVars
  PROVE  DeskTypeOK' /\ \A r \in Requests : RequestOK(r)'
BY DEF IInv, TypeOK, DeskTypeOK, deskVars, RequestOK, RowOK, InFlight

\* The sweep over expired leases takes rows away from their owners only.
LEMMA RecoverOK ==
  ASSUME IInv, NEW w \in Workers, Recover(w), UNCHANGED deskVars
  PROVE  IInv'
<1>. USE Typed
<1>1. \A i \in Items : item'[i] = IF LeaseExpired(item[i]) THEN RecoveredRow(item[i])
                                                           ELSE item[i]
  BY DEF Recover, RecoverExpiredLeases
<1>2. \A i \in Items : RowOK(item'[i])
  BY <1>1, RecoveredRowOK DEF IInv
<1>3. item' \in [Items -> ItemRow]
  BY <1>2 DEF RowOK, Recover, RecoverExpiredLeases
<1>4. worker' \in [Workers -> WorkerRow] /\ MemoryOK(w, worker[w])'
  <2>. DEFINE k == [worker[w] EXCEPT !.pc = "claim"]
  <2>1. worker' = [worker EXCEPT ![w] = k]
    BY DEF Recover, GoTo
  <2>2. k \in WorkerRow /\ k.pc = "claim"
    BY Names DEF WorkerRow
  <2>3. /\ "claim" \notin Busy /\ "claim" \notin WithSession
        /\ "claim" \notin RunStep \union SettleStep
    BY Names DEF WithSession
  <2> QED
    BY <2>1, <2>2, <2>3 DEF MemoryOK
<1>5. ASSUME NEW v \in Workers, NEW i \in Items PROVE Spares(v, i)
  <2>1. CASE LeaseExpired(item[i])
    BY <1>1, <2>1, RecoveredRowOK
       DEF Spares, LeaseExpired, InFlight, InFlightStatus, IInv, Recover
  <2>2. CASE ~LeaseExpired(item[i])
    BY <1>1, <2>2 DEF Spares, HoldsLease, Recover
  <2> QED
    BY <2>1, <2>2
<1>6. \A v \in Workers \ {w} : worker'[v] = worker[v]
  BY DEF Recover, GoTo
<1> QED
  BY <1>2, <1>3, <1>4, <1>5, <1>6, TableStep, DeskUnmoved DEF Recover, IInv, TypeOK,
     WorkerTypeOK

\* The row a claim has selected and locked is pending.
LEMMA LockNextItemOK ==
  ASSUME IInv, NEW w \in Workers, LockNextItem(w), UNCHANGED deskVars
  PROVE  IInv'
<1>. USE Typed
<1>1. PICK i \in Items :
         /\ Claimable(i)
         /\ rowLock' = [rowLock EXCEPT ![i] = w]
         /\ worker' = [worker EXCEPT ![w].pc = "claiming", ![w].item = i]
  BY DEF LockNextItem, NextClaimable
<1>2. item' = item /\ item[i].status = "pending" /\ rowLock[i] = NoWorker
  BY <1>1 DEF LockNextItem, Claimable
<1>. DEFINE k == [worker[w] EXCEPT !.pc = "claiming", !.item = i]
<1>3. worker' = [worker EXCEPT ![w] = k]
  BY <1>1
<1>4. k \in WorkerRow /\ k.pc = "claiming" /\ k.item = i
  <2>1. worker[w] \in WorkerRow /\ "claiming" \in WorkerStep
    BY Names
  <2> QED
    BY <2>1 DEF WorkerRow
<1>5. "claiming" \notin WithSession /\ "claiming" \notin RunStep \union SettleStep
  BY Names DEF WithSession
<1>6. MemoryOK(w, worker[w])'
  BY <1>1, <1>2, <1>3, <1>4, <1>5 DEF MemoryOK
<1>7. \A v \in Workers \ {w} : worker'[v] = worker[v] /\ \A j \in Items : Spares(v, j)
  BY <1>1, <1>2, <1>3 DEF Spares, HoldsLease
<1>8. worker' \in [Workers -> WorkerRow]
  BY <1>3, <1>4
<1> QED
  BY <1>1, <1>2, <1>6, <1>7, <1>8, TableStep, DeskUnmoved
     DEF LockNextItem, IInv, TypeOK, WorkerTypeOK

\* The claim: the worker knows the attempts it has just written.
LEMMA CommitClaimOK ==
  ASSUME IInv, NEW w \in Workers, CommitClaim(w), UNCHANGED deskVars
  PROVE  IInv'
<1>. USE Typed
<1>. DEFINE i == worker[w].item
            row == ClaimedRow(item[i], w)
            k == [worker[w] EXCEPT !.pc = "check_plan", !.attempts = row.attempts,
                                   !.session = item[i].session]
<1>1. i \in Items /\ item[i].status = "pending" /\ rowLock[i] = w
  BY Names DEF IInv, MemoryOK, CommitClaim, At
<1>2. RowOK(row) /\ row \in ItemRow
  BY <1>1, ClaimedRowOK DEF IInv, RowOK
<1>3. /\ item' = [item EXCEPT ![i] = row]
      /\ rowLock' = [rowLock EXCEPT ![i] = NoWorker]
      /\ worker' = [worker EXCEPT ![w] = k]
  BY DEF CommitClaim
<1>4. /\ k \in WorkerRow /\ k.pc = "check_plan" /\ k.item = i
      /\ k.attempts = row.attempts
  <2>1. /\ worker[w] \in WorkerRow /\ "check_plan" \in WorkerStep /\ row.attempts \in Nat
        /\ item[i].session \in SessionIds \union {NoSession}
    BY <1>1, <1>2, Names DEF ItemRow
  <2>. HIDE DEF row
  <2> QED
    BY <2>1 DEF WorkerRow
<1>5. "check_plan" \notin WithSession \union {"claiming", "settle"}
  BY DEF WithSession
<1>6. row.claimedBy = w
  BY <1>1 DEF ClaimedRow, ItemRow
<1>. HIDE DEF k, row
<1>7. MemoryOK(w, worker[w])'
  BY <1>1, <1>3, <1>4, <1>5 DEF MemoryOK
<1>8. \A v \in Workers \ {w} : worker'[v] = worker[v] /\ \A j \in Items : Spares(v, j)
  BY <1>1, <1>3, <1>6 DEF Spares, HoldsLease
<1>9. /\ worker' \in [Workers -> WorkerRow] /\ item' \in [Items -> ItemRow]
      /\ rowLock' \in [Items -> Workers \union {NoWorker}]
      /\ \A j \in Items : RowOK(item'[j])
  BY <1>1, <1>2, <1>3, <1>4 DEF IInv
<1> QED
  BY <1>7, <1>8, <1>9, TableStep, DeskUnmoved DEF CommitClaim, IInv, TypeOK, WorkerTypeOK

\* The claim of a waiting item for preparation ahead of time.
LEMMA ClaimForPrewarmOK ==
  ASSUME IInv, NEW w \in Workers, ClaimForPrewarm(w), UNCHANGED deskVars
  PROVE  IInv'
<1>. USE Typed
<1>1. PICK i \in Items :
         /\ item' = [item EXCEPT ![i].prewarm = TRUE]
         /\ worker' = [worker EXCEPT ![w].pc = "prewarm_prepare", ![w].item = i]
  BY DEF ClaimForPrewarm
<1>. DEFINE row == [item[i] EXCEPT !.prewarm = TRUE]
            k == [worker[w] EXCEPT !.pc = "prewarm_prepare", !.item = i]
<1>2. RowOK(item[i]) /\ item[i] \in ItemRow
  BY DEF IInv
<1>3. /\ row \in ItemRow /\ row.status = item[i].status /\ row.attempts = item[i].attempts
      /\ row.claimedBy = item[i].claimedBy /\ row.lease = item[i].lease
      /\ row.backoff = item[i].backoff
  BY <1>2 DEF ItemRow
<1>4. RowOK(row)
  BY <1>2, <1>3 DEF RowOK, InFlight
<1>5. k \in WorkerRow /\ k.pc = "prewarm_prepare" /\ k.item = i
  <2>1. worker[w] \in WorkerRow /\ "prewarm_prepare" \in WorkerStep
    BY Names
  <2> QED
    BY <2>1 DEF WorkerRow
<1>6. item' = [item EXCEPT ![i] = row] /\ worker' = [worker EXCEPT ![w] = k]
  BY <1>1
<1>7. "prewarm_prepare" \notin WithSession /\ "prewarm_prepare" \notin RunStep \union SettleStep
  BY Names DEF WithSession
<1>. HIDE DEF k, row
<1>8. MemoryOK(w, worker[w])'
  BY <1>5, <1>6, <1>7 DEF MemoryOK
<1>9. \A v \in Workers \ {w} : worker'[v] = worker[v] /\ \A j \in Items : Spares(v, j)
  BY <1>3, <1>6 DEF Spares, HoldsLease, InFlight, ClaimForPrewarm
<1>10. /\ worker' \in [Workers -> WorkerRow] /\ item' \in [Items -> ItemRow]
       /\ \A j \in Items : RowOK(item'[j])
  BY <1>3, <1>4, <1>5, <1>6 DEF IInv
<1> QED
  BY <1>8, <1>9, <1>10, TableStep, DeskUnmoved
     DEF ClaimForPrewarm, IInv, TypeOK, WorkerTypeOK

\* The session prepared ahead of time is attached to an unclaimed row.
LEMMA PrewarmAttachOK ==
  ASSUME IInv, NEW w \in Workers, PrewarmAttach(w), UNCHANGED deskVars
  PROVE  IInv'
<1>. USE Typed
<1>. DEFINE i == worker[w].item
            row == PreparedRow(item[i], worker[w].session)
<1>1. i \in Items /\ worker[w].session \in SessionIds
  BY Names DEF IInv, MemoryOK, PrewarmAttach, At, WithSession
<1>2. RowOK(item[i]) /\ item[i] \in ItemRow
  BY <1>1 DEF IInv
<1>3. /\ row \in ItemRow /\ row.status = item[i].status /\ row.attempts = item[i].attempts
      /\ row.claimedBy = item[i].claimedBy /\ row.lease = item[i].lease
      /\ row.backoff = item[i].backoff
  BY <1>1, <1>2 DEF PreparedRow, ItemRow
<1>4. RowOK(row)
  BY <1>2, <1>3 DEF RowOK, InFlight
<1>5. item' = [item EXCEPT ![i] = row]
  BY DEF PrewarmAttach
<1>. HIDE DEF row
<1>6. /\ worker' = [worker EXCEPT ![w] = worker'[w]]
      /\ worker'[w] = WorkerAt("idle") /\ WorkerAt("idle").pc = "idle"
  BY DEF PrewarmAttach, EndPass, WorkerAt
<1>7. MemoryOK(w, worker[w])'
  <2>1. /\ "idle" \notin Busy /\ "idle" \notin WithSession
        /\ "idle" \notin RunStep \union SettleStep
    BY Names DEF WithSession
  <2>2. WorkerAt("idle") \in WorkerRow
    BY RestOK DEF MemoryOK
  <2> QED
    BY <1>6, <2>1, <2>2 DEF MemoryOK
<1>8. \A v \in Workers \ {w} : worker'[v] = worker[v] /\ \A j \in Items : Spares(v, j)
  BY <1>1, <1>3, <1>5, <1>6 DEF Spares, HoldsLease, InFlight, PrewarmAttach
<1>9. /\ worker' \in [Workers -> WorkerRow] /\ item' \in [Items -> ItemRow]
      /\ \A j \in Items : RowOK(item'[j])
  <2>1. WorkerAt("idle") \in WorkerRow
    BY RestOK DEF MemoryOK
  <2> QED
    <3>1. worker' \in [Workers -> WorkerRow]
      BY <1>6, <2>1
    <3>2. item' \in [Items -> ItemRow] /\ \A j \in Items : RowOK(item'[j])
      BY <1>3, <1>4, <1>5 DEF IInv
    <3> QED
      BY <3>1, <3>2
<1> QED
  BY <1>7, <1>8, <1>9, TableStep, DeskUnmoved DEF PrewarmAttach, IInv, TypeOK, WorkerTypeOK

\* The steps outside an attempt that write no row of the queue.
LEMMA LoopStepOK ==
  ASSUME IInv, NEW w \in Workers, UNCHANGED deskVars,
         NothingToClaim(w) \/ NothingToPrewarm(w) \/ PrewarmPrepare(w)
           \/ PrewarmGivesUp(w) \/ Restart(w)
  PROVE  IInv'
<1>. USE Typed
<1>1. UNCHANGED <<repoVars, candidate, plan, crashes>>
  BY DEF NothingToClaim, NothingToPrewarm, PrewarmPrepare, PrewarmGivesUp, Restart
<1>2. SessionTypeOK
  BY DEF SessionTypeOK
<1>3. SUFFICES /\ worker' = [worker EXCEPT ![w] = worker'[w]]
               /\ MemoryOK(w, worker'[w]) /\ SessionTypeOK'
  BY <1>1, LocalStep
<1>4. CASE NothingToClaim(w)
  <2>. DEFINE k == [worker[w] EXCEPT !.pc = "prewarm"]
  <2>1. worker' = [worker EXCEPT ![w] = k] /\ k.pc = "prewarm"
    BY <1>4 DEF NothingToClaim, GoTo, WorkerRow
  <2>2. k \in WorkerRow
    BY Names DEF WorkerRow
  <2>3. /\ "prewarm" \notin Busy /\ "prewarm" \notin WithSession
        /\ "prewarm" \notin RunStep \union SettleStep
    BY Names DEF WithSession
  <2>. HIDE DEF k
  <2>4. MemoryOK(w, k)
    BY <2>1, <2>2, <2>3 DEF MemoryOK
  <2> QED
    BY <1>2, <1>4, <2>1, <2>4 DEF NothingToClaim, SessionTypeOK
<1>5. CASE NothingToPrewarm(w) \/ PrewarmGivesUp(w) \/ Restart(w)
  BY <1>2, <1>5, EndPassOK DEF NothingToPrewarm, PrewarmGivesUp, Restart, SessionTypeOK
<1>6. CASE PrewarmPrepare(w)
  <2>. DEFINE s == FreshSession
              k == [worker[w] EXCEPT !.pc = "prewarm_attach", !.session = s]
  <2>1. worker' = [worker EXCEPT ![w] = k] /\ s \in SessionIds
    BY <1>6, FreshSessionExists DEF PrewarmPrepare
  <2>2. worker[w] \in WorkerRow /\ "prewarm_attach" \in WorkerStep
    BY Names
  <2>3. worker[w].item \in Items /\ CandOf(w) \in Candidates
    BY <1>6, Names DEF PrewarmPrepare, At, IInv, MemoryOK, CandOf
  <2>. HIDE DEF s
  <2>4. k \in WorkerRow /\ k.pc = "prewarm_attach" /\ k.item \in Items /\ k.session = s
    BY <2>1, <2>2, <2>3 DEF WorkerRow
  <2>5. "prewarm_attach" \notin RunStep \union SettleStep
    BY Names
  <2>. HIDE DEF k
  <2>6. MemoryOK(w, k)
    BY <2>1, <2>4, <2>5 DEF MemoryOK
  <2>7. QuestionsFor(CandOf(w)) \in Nat
    BY <2>3 DEF QuestionsFor, PlanRow
  <2>8. SessionTypeOK'
    BY <1>2, <1>6, <2>3, <2>7, CreateSessionTyped DEF PrewarmPrepare
  <2> QED
    BY <2>1, <2>6, <2>8
<1> QED
  BY <1>4, <1>5, <1>6

\* The death of a process rolls back its claim and nobody else's.
LEMMA CrashOK ==
  ASSUME IInv, NEW w \in Workers, Crash(w), UNCHANGED deskVars
  PROVE  IInv'
<1>. USE Typed
<1>1. worker'[w] = WorkerAt("dead") /\ \A v \in Workers \ {w} : worker'[v] = worker[v]
  BY DEF Crash
<1>2. MemoryOK(w, worker[w])'
  <2>1. /\ "dead" \notin Busy /\ "dead" \notin WithSession
        /\ "dead" \notin RunStep \union SettleStep
    BY Names DEF WithSession
  <2>2. WorkerAt("dead") \in WorkerRow /\ WorkerAt("dead").pc = "dead"
    BY RestOK DEF MemoryOK, WorkerAt
  <2> QED
    BY <1>1, <2>1, <2>2 DEF MemoryOK
<1>3. \A v \in Workers \ {w}, i \in Items : Spares(v, i)
  BY DEF Spares, HoldsLease, Crash
<1>4. worker' \in [Workers -> WorkerRow] /\ rowLock' \in [Items -> Workers \union {NoWorker}]
  BY RestOK DEF Crash, MemoryOK
<1>5. crashes' \in 0..MaxCrashes
  BY DEF Crash, IInv, TypeOK, WorkerTypeOK
<1> QED
  BY <1>1, <1>2, <1>3, <1>4, <1>5, TableStep, DeskUnmoved DEF Crash, IInv

\* Every step of a worker.
LEMMA WorkerActionOK ==
  ASSUME IInv, NEW w \in Workers, WorkerAction(w), UNCHANGED deskVars
  PROVE  IInv'
BY RecoverOK, LockNextItemOK, CommitClaimOK, ReadingStepOK, WritingStepOK, LoopStepOK,
   MarkInProgressOK, AttachSessionOK, HeartbeatOK, CompleteOK, SettleRetryOK,
   SettleTerminalOK, ClaimForPrewarmOK, PrewarmAttachOK
   DEF WorkerAction

-----------------------------------------------------------------------------
(* The candidates, the voice agents and time.                              *)

\* A step outside the workers that writes one row and nothing they hold.
LEMMA RowStep ==
  ASSUME IInv, NEW i \in Items, item' = [item EXCEPT ![i] = item'[i]], RowOK(item'[i]),
         \A v \in Workers : Spares(v, i),
         UNCHANGED <<queueStatus, rowLock, session, workerVars>>,
         DeskTypeOK', \A r \in Requests : RequestOK(r)'
  PROVE  IInv'
<1>. USE Typed
<1>1. item' \in [Items -> ItemRow] /\ \A j \in Items : RowOK(item'[j])
  BY DEF IInv, RowOK
<1>2. \A v \in Workers : worker'[v] = worker[v] /\ \A j \in Items : Spares(v, j)
  BY DEF Spares, HoldsLease, workerVars
<1> QED
  BY <1>1, <1>2, TableStep DEF workerVars, IInv, TypeOK, WorkerTypeOK

\* A candidate presses Start.
LEMMA PressStartOK ==
  ASSUME IInv, NEW i \in Items, PressStart(i)
  PROVE  IInv'
<1>1. RowOK(item[i]) /\ item[i] \in ItemRow
  BY Typed DEF IInv
<1>2. /\ ArmedRow(item[i]) \in ItemRow /\ ArmedRow(item[i]).status = "pending"
      /\ ArmedRow(item[i]) = [item[i] EXCEPT !.status = "pending", !.backoff = FALSE]
  BY <1>1, Names DEF PressStart, ArmedRow, ItemRow
<1>3. RowOK(ArmedRow(item[i])) /\ ~InFlight(ArmedRow(item[i]))
  BY <1>1, <1>2 DEF RowOK, ItemRow, InFlight, InFlightStatus, PressStart
<1>4. item' = [item EXCEPT ![i] = ArmedRow(item[i])] /\ item'[i] = ArmedRow(item[i])
  BY Typed DEF PressStart
<1>5. \A v \in Workers : Spares(v, i)
  BY <1>3, <1>4 DEF Spares, PressStart
<1> QED
  BY <1>3, <1>4, <1>5, RowStep, DeskUnmoved DEF PressStart

\* A lease lapses, or a backoff deadline passes.
LEMMA DeadlineOK ==
  ASSUME IInv, NEW i \in Items, LeaseLapses(i) \/ BackoffPasses(i)
  PROVE  IInv'
<1>1. RowOK(item[i]) /\ item[i] \in ItemRow
  BY Typed DEF IInv
<1>2. PICK row \in ItemRow :
        /\ item' = [item EXCEPT ![i] = row]
        /\ row.status = item[i].status /\ row.attempts = item[i].attempts
        /\ row.claimedBy = item[i].claimedBy
        /\ row.lease # "none" <=> item[i].lease # "none"
        /\ row.backoff => item[i].backoff
  <2>1. CASE LeaseLapses(i)
    <3>. DEFINE row == [item[i] EXCEPT !.lease = "expired"]
    <3>1. row \in ItemRow /\ row.lease = "expired" /\ item[i].lease = "live"
             /\ row.status = item[i].status /\ row.attempts = item[i].attempts
             /\ row.claimedBy = item[i].claimedBy /\ row.backoff = item[i].backoff
      BY <1>1, <2>1 DEF LeaseLapses, LeaseRunsOut, ItemRow
    <3>2. item' = [item EXCEPT ![i] = row]
      BY <2>1 DEF LeaseLapses, LeaseRunsOut
    <3>. HIDE DEF row
    <3> QED
      BY <3>1, <3>2
  <2>2. CASE BackoffPasses(i)
    <3>. DEFINE row == [item[i] EXCEPT !.backoff = FALSE]
    <3>1. row \in ItemRow /\ row.lease = item[i].lease
             /\ row.status = item[i].status /\ row.attempts = item[i].attempts
             /\ row.claimedBy = item[i].claimedBy /\ ~row.backoff
      BY <1>1 DEF ItemRow
    <3>2. item' = [item EXCEPT ![i] = row]
      BY <2>2 DEF BackoffPasses, BackoffElapses
    <3>. HIDE DEF row
    <3> QED
      BY <3>1, <3>2
  <2> QED
    BY <2>1, <2>2
<1>3. item'[i] = row /\ RowOK(row)
  BY <1>1, <1>2, Typed DEF RowOK, InFlight
<1>4. UNCHANGED <<queueStatus, rowLock, session, workerVars, deskVars>>
  BY DEF LeaseLapses, BackoffPasses, LeaseRunsOut, BackoffElapses
<1>5. \A v \in Workers : Spares(v, i)
  BY <1>2, <1>3, <1>4 DEF Spares, HoldsLease, InFlight
<1> QED
  BY <1>2, <1>3, <1>4, <1>5, RowStep, DeskUnmoved

\* What concerns sessions, candidates and plans only.
LEMMA AsideOK ==
  ASSUME IInv, UNCHANGED <<item, rowLock, worker, crashes>>,
         queueStatus' \in [Queues -> {"idle", "running", "paused"}],
         SessionTypeOK', candidate' \in [Candidates -> CandidateStatus],
         plan' \in [Candidates -> PlanRow],
         DeskTypeOK', \A r \in Requests : RequestOK(r)'
  PROVE  IInv'
<1>1. TypeOK'
  BY DEF IInv, TypeOK, RepoTypeOK, WorkerTypeOK
<1> QED
  BY <1>1 DEF IInv, RowOK, InFlight, MemoryOK, HoldsLease

\* A voice agent starts or finishes an interview.
LEMMA VoiceAgentOK ==
  ASSUME IInv, NEW s \in SessionIds, VoiceAgent(s)
  PROVE  IInv'
BY AsideOK, SessionsStayTyped, DeskUnmoved
   DEF VoiceAgent, repoVars, workerVars, IInv, TypeOK, RepoTypeOK, WorkerTypeOK

-----------------------------------------------------------------------------
(* The recruiters.                                                         *)

\* A request that ends, or is replaced by a typed one that is in order.
LEMMA RequestEnds ==
  ASSUME IInv, NEW r \in Requests, NEW d \in DeskRow, desk' = [desk EXCEPT ![r] = d],
         served' \in 0..MaxRequests,
         d.op \in {"cancel", "retry", "remove", "add", "add_status"} => d.item \in Items,
         d.op \in {"cancel", "retry"} => RowOK(d.row) /\ ~InFlight(d.row)
  PROVE  DeskTypeOK' /\ \A x \in Requests : RequestOK(x)'
<1>1. DeskTypeOK'
  BY Typed DEF DeskTypeOK
<1>2. \A x \in Requests : RequestOK(x)'
  BY Typed DEF IInv, RequestOK, RowOK, InFlight
<1> QED
  BY <1>1, <1>2

\* A request that is not open is typed.
LEMMA NoRequestOK == NoRequest \in DeskRow /\ NoRequest.op = "none"
<1>1. (CHOOSE c \in Candidates : TRUE) \in Candidates
  BY EntityAssumption
<1>2. NewRow("absent") \in ItemRow
  BY NewRowOK DEF RowOK
<1> QED
  BY <1>1, <1>2 DEF NoRequest, DeskRow, DeskOp, CandidateStatus

\* A request that is answered.
LEMMA DoneOK ==
  ASSUME IInv, NEW r \in Requests, DoneWith(r), UNCHANGED served
  PROVE  DeskTypeOK' /\ \A x \in Requests : RequestOK(x)'
BY NoRequestOK, RequestEnds DEF DoneWith, IInv, TypeOK, DeskTypeOK

\* The count of operations stays within its bound.
LEMMA OpensOK ==
  ASSUME IInv, NEW r \in Requests, Opens(r)
  PROVE  served' \in 0..MaxRequests
BY DEF Opens, IInv, TypeOK, DeskTypeOK

\* A request reads an item: one in flight is refused.
LEMMA ReadItemOK ==
  ASSUME IInv, NEW r \in Requests, NEW i \in Items,
         NEW op \in {"cancel", "retry", "remove"}, ReadItem(r, i, op)
  PROVE  IInv'
<1>. DEFINE d == [desk[r] EXCEPT !.op = op, !.item = i, !.row = item[i]]
<1>1. desk' = [desk EXCEPT ![r] = d] /\ RowOK(item[i]) /\ ~InFlight(item[i])
  BY Typed DEF ReadItem, IInv
<1>2. d \in DeskRow /\ d.op = op /\ d.item = i /\ d.row = item[i]
  <2>1. desk[r] \in DeskRow /\ op \in DeskOp /\ item[i] \in ItemRow
    BY Typed DEF DeskOp
  <2> QED
    BY <2>1 DEF DeskRow
<1>. HIDE DEF d
<1>3. served' \in 0..MaxRequests
  BY OpensOK DEF ReadItem
<1>4. DeskTypeOK' /\ \A x \in Requests : RequestOK(x)'
  BY <1>1, <1>2, <1>3, RequestEnds
<1> QED
  BY <1>4, AsideOK DEF ReadItem, repoVars, workerVars, IInv, TypeOK, RepoTypeOK,
     SessionTypeOK, WorkerTypeOK

\* The write of a copy read earlier: it waits for the lock of a claim, and the
\* copy was not in flight, so no worker that holds a lease is told otherwise.
LEMMA WriteItemOK ==
  ASSUME IInv, NEW r \in Requests, CancelItem(r) \/ RetryItem(r) \/ RemoveCandidate(r)
  PROVE  IInv'
<1>. DEFINE i == desk[r].item
<1>1. PICK op \in {"cancel", "retry", "remove"}, row \in ItemRow :
        WriteItem(r, op, row) /\ RowOK(row) /\ ~InFlight(row)
  <2>1. CASE CancelItem(r)
    BY <2>1, DeskRowOK DEF CancelItem, WriteItem, IInv, RequestOK, RowOK
  <2>2. CASE RetryItem(r)
    BY <2>2, DeskRowOK DEF RetryItem, WriteItem, IInv, RequestOK, RowOK
  <2>3. CASE RemoveCandidate(r)
    BY <2>3, NewRowOK DEF RemoveCandidate, RowOK
  <2> QED
    BY <2>1, <2>2, <2>3
<1>2. i \in Items
  BY <1>1 DEF WriteItem, IInv, RequestOK
<1>3. /\ rowLock[i] = NoWorker /\ UNCHANGED <<queueStatus, rowLock, session, workerVars, served>>
      /\ item' = [item EXCEPT ![i] = IF Exists(item[i]) THEN row ELSE item[i]]
  BY <1>1, <1>2, Typed DEF WriteItem
<1>4. item' = [item EXCEPT ![i] = item'[i]] /\ RowOK(item'[i])
        /\ (item'[i] = item[i] \/ ~InFlight(item'[i]))
  BY <1>1, <1>2, <1>3, Typed DEF IInv
<1>5. \A v \in Workers : Spares(v, i)
  BY <1>3, <1>4 DEF Spares, HoldsLease
<1>6. DeskTypeOK' /\ \A x \in Requests : RequestOK(x)'
  BY <1>1, DoneOK DEF WriteItem
<1> QED
  BY <1>2, <1>3, <1>4, <1>5, <1>6, RowStep

\* The three steps of add_candidate.
LEMMA AddOK ==
  ASSUME IInv, NEW r \in Requests,
         (\E i \in Items : ReadForAdd(r, i)) \/ AddItem(r) \/ AddStatus(r)
  PROVE  IInv'
<1>1. ASSUME NEW i \in Items, ReadForAdd(r, i) PROVE IInv'
  <2>. DEFINE d == [desk[r] EXCEPT !.op = "add", !.item = i, !.candidate = CandidateOf[i],
                                   !.status = candidate[CandidateOf[i]]]
  <2>1. desk' = [desk EXCEPT ![r] = d]
    BY <1>1 DEF ReadForAdd
  <2>2. /\ desk[r] \in DeskRow /\ "add" \in DeskOp /\ CandidateOf[i] \in Candidates
        /\ candidate[CandidateOf[i]] \in CandidateStatus
    BY Typed DEF DeskOp
  <2>3. d \in DeskRow /\ d.op = "add" /\ d.item = i
    BY <2>2 DEF DeskRow
  <2>. HIDE DEF d
  <2>4. served' \in 0..MaxRequests
    BY <1>1, OpensOK DEF ReadForAdd
  <2>5. DeskTypeOK' /\ \A x \in Requests : RequestOK(x)'
    BY <2>1, <2>3, <2>4, RequestEnds
  <2> QED
    BY <1>1, <2>5, AsideOK DEF ReadForAdd, repoVars, workerVars, IInv, TypeOK, RepoTypeOK,
       SessionTypeOK, WorkerTypeOK
<1>2. CASE AddItem(r)
  <2>. DEFINE i == desk[r].item
              d == [desk[r] EXCEPT !.op = "add_status"]
              row == NewRow(IF IsAuto(i) THEN "awaiting_candidate" ELSE "pending")
  <2>1. i \in Items /\ desk[r] \in DeskRow
    BY <1>2, Typed DEF AddItem, IInv, RequestOK
  <2>2. d \in DeskRow /\ d.op = "add_status" /\ d.item = i
    BY <2>1 DEF DeskRow, DeskOp
  <2>3. RowOK(row) /\ ~InFlight(row)
    BY NewRowOK
  <2>. HIDE DEF d, row
  <2>4. DeskTypeOK' /\ \A x \in Requests : RequestOK(x)'
    <3>1. CASE DoneWith(r)
      BY <1>2, <3>1, DoneOK DEF AddItem
    <3>2. CASE desk' = [desk EXCEPT ![r] = d]
      BY <1>2, <2>1, <2>2, <3>2, RequestEnds DEF AddItem, IInv, TypeOK, DeskTypeOK
    <3> QED
      BY <1>2, <3>1, <3>2 DEF AddItem, d
  <2>5. UNCHANGED <<queueStatus, rowLock, session, workerVars>>
    BY <1>2 DEF AddItem
  <2>6. \/ item' = item
        \/ item[i].status = "absent" /\ item' = [item EXCEPT ![i] = row]
    BY <1>2 DEF AddItem, row
  <2>7. item' = [item EXCEPT ![i] = item'[i]] /\ RowOK(item'[i])
    BY <2>1, <2>3, <2>6, Typed DEF IInv
  <2>8. \A v \in Workers : Spares(v, i)
    BY <2>1, <2>3, <2>5, <2>6, Typed DEF Spares, HoldsLease
  <2> QED
    BY <2>1, <2>4, <2>5, <2>7, <2>8, RowStep
<1>3. CASE AddStatus(r)
  <2>1. candidate' \in [Candidates -> CandidateStatus]
    BY <1>3, Typed DEF AddStatus, CandidateStatus
  <2>2. DeskTypeOK' /\ \A x \in Requests : RequestOK(x)'
    BY <1>3, DoneOK DEF AddStatus
  <2> QED
    BY <1>3, <2>1, <2>2, AsideOK DEF AddStatus, repoVars, IInv, TypeOK, RepoTypeOK,
       SessionTypeOK, WorkerTypeOK
<1> QED
  BY <1>1, <1>2, <1>3

\* A queue is started, paused or resumed.
LEMMA SetQueueStatusOK ==
  ASSUME IInv, NEW r \in Requests, NEW q \in Queues, NEW status \in {"running", "paused"},
         SetQueueStatus(r, q, status)
  PROVE  IInv'
<1>1. /\ queueStatus' \in [Queues -> {"idle", "running", "paused"}]
      /\ served' \in 0..MaxRequests
  BY OpensOK DEF SetQueueStatus, IInv, TypeOK, RepoTypeOK
<1>2. DeskTypeOK' /\ \A x \in Requests : RequestOK(x)'
  BY <1>1 DEF SetQueueStatus, IInv, TypeOK, DeskTypeOK, RequestOK, RowOK, InFlight
<1> QED
  BY <1>1, <1>2, AsideOK DEF SetQueueStatus, workerVars, IInv, TypeOK, SessionTypeOK,
     WorkerTypeOK

\* A recruiter edits or approves a plan.
LEMMA PlanOK ==
  ASSUME IInv, NEW r \in Requests,
         \/ \E c \in Candidates, op \in {"edit", "approve"} : ReadPlan(r, c, op)
         \/ EditPlan(r) \/ ApprovePlan(r)
  PROVE  IInv'
<1>1. ASSUME NEW c \in Candidates, NEW op \in {"edit", "approve"}, ReadPlan(r, c, op)
      PROVE  IInv'
  <2>. DEFINE d == [desk[r] EXCEPT !.op = op, !.candidate = c, !.version = plan[c].version]
  <2>1. desk' = [desk EXCEPT ![r] = d] /\ served' \in 0..MaxRequests
    BY <1>1, OpensOK DEF ReadPlan
  <2>2. desk[r] \in DeskRow /\ op \in DeskOp /\ plan[c].version \in Nat
    BY Typed DEF DeskOp, PlanRow
  <2>3. d \in DeskRow /\ d.op = op
    BY <2>2 DEF DeskRow
  <2>. HIDE DEF d
  <2>4. DeskTypeOK' /\ \A x \in Requests : RequestOK(x)'
    BY <2>1, <2>3, RequestEnds
  <2> QED
    BY <1>1, <2>4, AsideOK DEF ReadPlan, repoVars, workerVars, IInv, TypeOK, RepoTypeOK,
       SessionTypeOK, WorkerTypeOK
<1>2. CASE EditPlan(r) \/ ApprovePlan(r)
  <2>1. PICK c \in Candidates, version \in Nat, approved \in BOOLEAN :
          WritePlan(r, c, version, approved)
    <3>1. desk[r].candidate \in Candidates /\ desk[r].version \in Nat
      BY Typed DEF DeskRow
    <3>2. plan[desk[r].candidate].version + 1 \in Nat
      BY <3>1, Typed DEF PlanRow
    <3> QED
      BY <1>2, <3>1, <3>2 DEF EditPlan, ApprovePlan, GeneratedVersion
  <2>2. plan' \in [Candidates -> PlanRow]
    BY <2>1, Typed DEF WritePlan, PlanRow
  <2>3. DeskTypeOK' /\ \A x \in Requests : RequestOK(x)'
    BY <2>1, DoneOK DEF WritePlan
  <2> QED
    BY <2>1, <2>2, <2>3, AsideOK DEF WritePlan, repoVars, IInv, TypeOK, RepoTypeOK,
       SessionTypeOK, WorkerTypeOK
<1> QED
  BY <1>1, <1>2

\* Every step of a request.
LEMMA DeskActionOK ==
  ASSUME IInv, NEW r \in Requests, DeskAction(r)
  PROVE  IInv'
BY ReadItemOK, WriteItemOK, AddOK, SetQueueStatusOK, PlanOK DEF DeskAction

-----------------------------------------------------------------------------
(* The theorems.                                                           *)

\* Every step of the system keeps the invariant.
LEMMA NextOK == IInv /\ [Next]_vars => IInv'
<1> SUFFICES ASSUME IInv, [Next]_vars PROVE IInv'
  OBVIOUS
<1>1. CASE UNCHANGED vars
  <2>1. DeskTypeOK' /\ \A r \in Requests : RequestOK(r)'
    BY <1>1, DeskUnmoved DEF vars
  <2> QED
    BY <1>1, <2>1, AsideOK DEF vars, repoVars, workerVars, IInv, TypeOK, RepoTypeOK,
       SessionTypeOK, WorkerTypeOK
<1>2. ASSUME NEW w \in Workers, WorkerMoves(w) \/ WorkerDies(w) \/ WorkerReturns(w)
      PROVE  IInv'
  BY <1>2, WorkerActionOK, CrashOK, LoopStepOK DEF WorkerMoves, WorkerDies, WorkerReturns
<1>3. ASSUME NEW r \in Requests, DeskAction(r) PROVE IInv'
  BY <1>3, DeskActionOK
<1>4. ASSUME NEW i \in Items, PressStart(i) \/ LeaseLapses(i) \/ BackoffPasses(i) PROVE IInv'
  BY <1>4, PressStartOK, DeadlineOK
<1>5. ASSUME NEW s \in SessionIds, VoiceAgent(s) PROVE IInv'
  BY <1>5, VoiceAgentOK
<1> QED
  BY <1>1, <1>2, <1>3, <1>4, <1>5 DEF Next

\* The rows, the memories of the workers and the open requests agree in
\* every reachable state, for any number of each.
THEOREM Invariance == Spec => []IInv
<1>1. Init => IInv
  BY InitOK
<1>2. IInv /\ [Next]_vars => IInv'
  BY NextOK
<1> QED
  BY <1>1, <1>2, PTL DEF Spec

\* Every variable keeps its type.
THEOREM TypeCorrect == Spec => []TypeOK
<1>1. IInv => TypeOK
  BY DEF IInv
<1> QED
  BY <1>1, Invariance, PTL

\* Whatever recruiters write back from copies read earlier, an item has an
\* owner and a lease exactly while it is in flight.
THEOREM LeaseMatches == Spec => []LeaseMatchesStatus
<1>1. IInv => LeaseMatchesStatus
  BY DEF IInv, LeaseMatchesStatus, RowOK
<1> QED
  BY <1>1, Invariance, PTL

\* No item is offered, or run, beyond its attempts, whatever crashes, lapses
\* and late requests do.
THEOREM AttemptsHold == Spec => []AttemptsBounded
<1>1. IInv => AttemptsBounded
  BY DEF IInv, AttemptsBounded, RowOK
<1> QED
  BY <1>1, Invariance, PTL

(* From here on an assumption is cited where it is needed.                 *)

HIDE EntityAssumption
HIDE RepositoryAssumption
HIDE WorkerAssumption
HIDE DeskAssumption
HIDE QueueAssumption

-----------------------------------------------------------------------------
(* Ledger: how rows move when no recruiter intervenes.                     *)

\* How a row may move under the workers, the candidates and time.
Untouched(row, new) == Phase(new) = Phase(row) /\ new.attempts = row.attempts

Moves(row, new) ==
    \/ Untouched(row, new)
    \/ /\ row.status = "pending"
       /\ \E w \in Workers : new = ClaimedRow(row, w)
    \/ /\ InFlight(row)
       /\ ~InFlight(new) /\ new.attempts = row.attempts
       /\ new.status \in TerminalStatus \/ row.attempts < MaxAttempts

\* The phase of a row, case by case.
LEMMA PhaseFacts ==
  ASSUME NEW row
  PROVE  /\ InFlight(row) => Phase(row) = "running"
         /\ ~InFlight(row) /\ row.status \in TerminalStatus => Phase(row) = "settled"
         /\ ~InFlight(row) /\ row.status \notin TerminalStatus => Phase(row) = "waiting"
         /\ row.status \in TerminalStatus => ~InFlight(row)
<1>1. row.status \in TerminalStatus => ~InFlight(row)
  BY DEF TerminalStatus, InFlight, InFlightStatus
<1>2. CASE InFlight(row)
  BY <1>1, <1>2 DEF Phase
<1>3. CASE ~InFlight(row) /\ row.status \in TerminalStatus
  BY <1>1, <1>3 DEF Phase
<1>4. CASE ~InFlight(row) /\ row.status \notin TerminalStatus
  BY <1>4 DEF Phase
<1> QED
  BY <1>1, <1>2, <1>3, <1>4

-----------------------------------------------------------------------------
(* The steps of the workers, of the candidates and of time move rows so.   *)

\* A guarded update, whether its guard holds or not.
LEMMA GuardedMove ==
  ASSUME IInv, NEW w \in Workers, worker[w].pc \in RunStep \union SettleStep,
         NEW row, NEW pc, GuardedUpdate(w, row, pc), NEW i \in Items,
         i = worker[w].item => Moves(item[i], row)
  PROVE  Moves(item[i], item'[i])
BY Typed DEF GuardedUpdate, Moves, Untouched

\* A row that is not written.
LEMMA StillMoves ==
  ASSUME NEW i \in Items, item'[i] = item[i]
  PROVE  Moves(item[i], item'[i])
BY DEF Moves, Untouched

\* The guarded updates of a worker.
LEMMA HolderMoves ==
  ASSUME IInv, NEW w \in Workers, NEW i \in Items,
         MarkInProgress(w) \/ AttachSession(w) \/ Heartbeat(w) \/ Complete(w)
           \/ SettleRetry(w) \/ SettleTerminal(w)
  PROVE  Moves(item[i], item'[i])
<1>. USE Typed
<1>1. worker[w].pc \in RunStep \union SettleStep
  BY Names DEF MarkInProgress, AttachSession, Heartbeat, Complete, SettleRetry,
     SettleTerminal, At
<1>2. CASE GuardFails(w)
  BY <1>2, StillMoves DEF GuardFails
<1>. DEFINE j == worker[w].item
<1>3. /\ j \in Items /\ RowOK(item[j]) /\ item[j] \in ItemRow
      /\ HoldsLease(w, j) => worker[w].attempts = item[j].attempts
  BY <1>1, Names DEF IInv, MemoryOK, RowOK
<1>4. CASE /\ MarkInProgress(w)
           /\ GuardedUpdate(w, [item[j] EXCEPT !.status = "in_progress"], "mark_candidate")
  <2>. DEFINE row == [item[j] EXCEPT !.status = "in_progress"]
  <2>1. Moves(item[j], row)
    <3>1. InFlight(item[j])
      BY <1>4 DEF GuardedUpdate, HoldsLease
    <3>2. InFlight(row) /\ row.attempts = item[j].attempts
      BY <1>3 DEF InFlight, InFlightStatus, ItemRow
    <3>. HIDE DEF row
    <3> QED
      BY <3>1, <3>2, PhaseFacts DEF Moves, Untouched
  <2> QED
    BY <1>1, <1>4, <2>1, GuardedMove
<1>5. CASE /\ AttachSession(w)
           /\ GuardedUpdate(w, [item[j] EXCEPT !.session = worker[w].session], "dispatch")
  <2>1. Moves(item[j], [item[j] EXCEPT !.session = worker[w].session])
    BY <1>3 DEF Moves, Untouched, Phase, InFlight, ItemRow
  <2> QED
    BY <1>1, <1>5, <2>1, GuardedMove
<1>6. CASE /\ Heartbeat(w)
           /\ GuardedUpdate(w, [item[j] EXCEPT !.lease = "live"], "poll")
  <2>1. Moves(item[j], [item[j] EXCEPT !.lease = "live"])
    BY <1>3 DEF Moves, Untouched, Phase, InFlight, ItemRow
  <2> QED
    BY <1>1, <1>6, <2>1, GuardedMove
<1>7. CASE /\ Complete(w)
           /\ GuardedUpdate(w, TerminalRow(item[j], "completed", worker[w].session), "idle")
  <2>1. InFlight(item[j]) => Moves(item[j], TerminalRow(item[j], "completed", worker[w].session))
    BY <1>3 DEF Moves, TerminalRow, InFlight, InFlightStatus, TerminalStatus, ItemRow
  <2> QED
    BY <1>1, <1>7, <2>1, GuardedMove DEF GuardedUpdate, HoldsLease
<1>8. CASE /\ SettleTerminal(w)
           /\ GuardedUpdate(w, TerminalRow(item[j], worker[w].outcome, NoSession), "idle")
  <2>1. worker[w].outcome \in {"failed", "no_answer"}
    BY DEF WorkerRow
  <2>2. InFlight(item[j]) => Moves(item[j], TerminalRow(item[j], worker[w].outcome, NoSession))
    BY <1>3, <2>1 DEF Moves, TerminalRow, InFlight, InFlightStatus, TerminalStatus, ItemRow
  <2> QED
    BY <1>1, <1>8, <2>2, GuardedMove DEF GuardedUpdate, HoldsLease
<1>9. CASE /\ SettleRetry(w)
           /\ \/ GuardedUpdate(w, ReleasedToAwaitingCandidate(item[j]), "idle")
              \/ GuardedUpdate(w, ReleasedForRetry(item[j]), "idle")
  <2>1. HoldsLease(w, j) /\ InFlight(item[j]) /\ item[j].attempts < MaxAttempts
    BY <1>3, <1>9 DEF SettleRetry, At, GuardedUpdate, HoldsLease, IInv, MemoryOK
  <2>2. /\ Moves(item[j], ReleasedToAwaitingCandidate(item[j]))
        /\ Moves(item[j], ReleasedForRetry(item[j]))
    BY <1>3, <2>1, ReleasedRowOK
       DEF Moves, ReleasedToAwaitingCandidate, ReleasedForRetry, ItemRow
  <2> QED
    BY <1>1, <1>9, <2>2, GuardedMove
<1> QED
  BY <1>2, <1>4, <1>5, <1>6, <1>7, <1>8, <1>9
     DEF MarkInProgress, AttachSession, Heartbeat, Complete, SettleRetry, SettleTerminal

\* The other statements a worker runs on queue_items.
LEMMA TableMoves ==
  ASSUME IInv, NEW w \in Workers, NEW i \in Items,
         Recover(w) \/ CommitClaim(w) \/ ClaimForPrewarm(w) \/ PrewarmAttach(w)
  PROVE  Moves(item[i], item'[i])
<1>. USE Typed
<1>1. CASE Recover(w)
  <2>1. RowOK(item[i]) /\ item[i] \in ItemRow
    BY DEF IInv
  <2>2. \/ item'[i] = item[i]
        \/ InFlight(item[i]) /\ item'[i] = RecoveredRow(item[i])
    BY <1>1 DEF Recover, RecoverExpiredLeases, LeaseExpired
  <2>3. InFlight(item[i]) => Moves(item[i], RecoveredRow(item[i]))
    <3>1. ~InFlight(RecoveredRow(item[i]))
      BY <2>1, RecoveredRowOK
    <3>2. /\ RecoveredRow(item[i]).attempts = item[i].attempts
          /\ \/ RecoveredRow(item[i]).status = "failed"
             \/ item[i].attempts < MaxAttempts
      <4>1. CASE item[i].attempts >= MaxAttempts
        BY <2>1, <4>1 DEF RecoveredRow, ItemRow
      <4>2. CASE item[i].attempts < MaxAttempts
        BY <2>1, <4>2 DEF RecoveredRow, ItemRow
      <4>3. item[i].attempts \in Nat
        BY <2>1 DEF ItemRow
      <4> QED
        BY <4>1, <4>2, <4>3, RepositoryAssumption
    <3> QED
      BY <3>1, <3>2 DEF Moves, TerminalStatus
  <2> QED
    BY <2>2, <2>3, StillMoves
<1>2. CASE CommitClaim(w)
  <2>1. item[worker[w].item].status = "pending"
    BY <1>2 DEF CommitClaim, At, IInv, MemoryOK
  <2>2. CASE i = worker[w].item
    BY <1>2, <2>1, <2>2 DEF CommitClaim, Moves
  <2>3. CASE i # worker[w].item
    BY <1>2, <2>3, StillMoves DEF CommitClaim
  <2> QED
    BY <2>2, <2>3
<1>3. CASE ClaimForPrewarm(w)
  <2>1. \/ item'[i] = item[i]
        \/ item'[i] = [item[i] EXCEPT !.prewarm = TRUE]
    BY <1>3 DEF ClaimForPrewarm
  <2>2. Moves(item[i], [item[i] EXCEPT !.prewarm = TRUE])
    BY DEF Moves, Untouched, Phase, InFlight, ItemRow
  <2> QED
    BY <2>1, <2>2, StillMoves
<1>4. CASE PrewarmAttach(w)
  <2>1. \/ item'[i] = item[i]
        \/ item'[i] = PreparedRow(item[i], worker[w].session)
    BY <1>4 DEF PrewarmAttach
  <2>2. Moves(item[i], PreparedRow(item[i], worker[w].session))
    BY DEF Moves, Untouched, Phase, InFlight, ItemRow, PreparedRow
  <2> QED
    BY <2>1, <2>2, StillMoves
<1> QED
  BY <1>1, <1>2, <1>3, <1>4

\* What candidates and time do to rows.
LEMMA OtherMoves ==
  ASSUME IInv, NEW i \in Items, NEW j \in Items,
         PressStart(j) \/ LeaseLapses(j) \/ BackoffPasses(j)
  PROVE  Moves(item[i], item'[i])
<1>. USE Typed
<1>1. CASE PressStart(j)
  <2>1. \/ item'[i] = item[i]
        \/ /\ item[i].status = "awaiting_candidate"
           /\ item'[i] = [item[i] EXCEPT !.status = "pending", !.backoff = FALSE]
    BY <1>1 DEF PressStart, ArmedRow
  <2> QED
    BY <2>1, StillMoves
       DEF Moves, Untouched, Phase, InFlight, InFlightStatus, TerminalStatus, ItemRow
<1>2. CASE LeaseLapses(j)
  <2>1. item'[i] = item[i] \/ item'[i] = [item[i] EXCEPT !.lease = "expired"]
    BY <1>2 DEF LeaseLapses, LeaseRunsOut
  <2> QED
    BY <2>1, StillMoves DEF Moves, Untouched, Phase, InFlight, ItemRow
<1>3. CASE BackoffPasses(j)
  <2>1. item'[i] = item[i] \/ item'[i] = [item[i] EXCEPT !.backoff = FALSE]
    BY <1>3 DEF BackoffPasses, BackoffElapses
  <2> QED
    BY <2>1, StillMoves DEF Moves, Untouched, Phase, InFlight, ItemRow
<1> QED
  BY <1>1, <1>2, <1>3

\* Every step of a system without recruiters.
LEMMA NextMoves ==
  ASSUME IInv, Next, Requests = {}, NEW i \in Items
  PROVE  Moves(item[i], item'[i])
<1>1. ASSUME NEW w \in Workers, WorkerAction(w) PROVE Moves(item[i], item'[i])
  BY <1>1, HolderMoves, TableMoves, StillMoves
     DEF WorkerAction, LockNextItem, NothingToClaim, CheckPlan, MarkCandidate, Prepare,
         StepRaises, Dispatch, DispatchFails, PollOver, PollAgain, PollTimesOut,
         TransportEndsInterview, HangUp, Evaluate, Report, MarkScreened, ReleaseCandidate,
         ReleaseAgain, NothingToPrewarm, PrewarmPrepare, PrewarmGivesUp, repoVars
<1>2. ASSUME NEW w \in Workers, WorkerDies(w) \/ WorkerReturns(w)
      PROVE  Moves(item[i], item'[i])
  BY <1>2, StillMoves DEF WorkerDies, WorkerReturns, Crash, Restart, repoVars
<1>3. ASSUME NEW s \in SessionIds, VoiceAgent(s) PROVE Moves(item[i], item'[i])
  BY <1>3, StillMoves DEF VoiceAgent, repoVars
<1> QED
  BY <1>1, <1>2, <1>3, OtherMoves DEF Next, WorkerMoves

-----------------------------------------------------------------------------
(* The refinement.                                                         *)

USE RepositoryAssumption, QueueAssumption

\* A move of a row is a step of its task in the ledger.
LEMMA MoveIsLedgerStep ==
  ASSUME IInv, NEW i \in InitialItems, Moves(item[i], item'[i]), RowOK(item'[i])
  PROVE  Ledger!Begins(i) \/ Ledger!GivenBack(i) \/ Ledger!Settles(i) \/ Ledger!Rests(i)
<1>. DEFINE row == item[i]
            new == item'[i]
<1>1. RowOK(row) /\ row \in ItemRow /\ new \in ItemRow
  BY DEF IInv, RowOK
<1>2. CASE Untouched(row, new)
  BY <1>2 DEF Untouched, Ledger!Rests
<1>3. CASE row.status = "pending" /\ \E w \in Workers : new = ClaimedRow(row, w)
  <2>1. /\ Phase(row) = "waiting" /\ Phase(new) = "running"
        /\ new.attempts = row.attempts + 1 /\ row.attempts < MaxAttempts
    <3>1. ~InFlight(row) /\ row.status \notin TerminalStatus
      BY <1>3 DEF InFlight, InFlightStatus, TerminalStatus
    <3>2. InFlight(new) /\ new.attempts = row.attempts + 1
      BY <1>1, <1>3 DEF InFlight, InFlightStatus, ClaimedRow, ItemRow
    <3>3. row.attempts < MaxAttempts
      BY <1>1, <1>3 DEF RowOK
    <3> QED
      BY <3>1, <3>2, <3>3, PhaseFacts
  <2> QED
    BY <2>1 DEF Ledger!Begins
<1>4. CASE /\ InFlight(row)
           /\ ~InFlight(new) /\ new.attempts = row.attempts
           /\ new.status \in TerminalStatus \/ row.attempts < MaxAttempts
  <2>1. Phase(row) = "running"
    BY <1>4, PhaseFacts
  <2>2. CASE new.status \in TerminalStatus
    BY <1>4, <2>1, <2>2, PhaseFacts DEF Ledger!Settles
  <2>3. CASE new.status \notin TerminalStatus /\ row.attempts < MaxAttempts
    BY <1>4, <2>1, <2>3, PhaseFacts DEF Ledger!GivenBack
  <2> QED
    BY <1>4, <2>2, <2>3
<1> QED
  BY <1>2, <1>3, <1>4 DEF Moves

\* With no recruiter at the desk, every behaviour of the queue is a behaviour
\* of the ledger: a run costs one attempt, a spent item is never handed out
\* again, and a settled item stays settled, across crashes and lapsed leases.
THEOREM LedgerKept ==
  ASSUME Requests = {}
  PROVE  Spec => KeepsLedger
<1>1. Init => Ledger!Init
  <2>1. \A status \in {"awaiting_candidate", "pending"} :
          Phase(NewRow(status)) = "waiting" /\ NewRow(status).attempts = 0
    <3>1. ASSUME NEW status \in {"awaiting_candidate", "pending"}
          PROVE  NewRow(status).status = status /\ NewRow(status).attempts = 0
      BY DEF NewRow
    <3> QED
      BY <3>1, NewRowOK, PhaseFacts DEF TerminalStatus
  <2>2. Init => \A i \in InitialItems :
          Phase(item[i]) = "waiting" /\ item[i].attempts = 0
    BY <2>1 DEF Init
  <2> QED
    BY <2>2 DEF Ledger!Init
<1>2. IInv /\ IInv' /\ [Next]_vars => [Ledger!Next]_(Ledger!ledger)
  <2>1. CASE UNCHANGED vars
    BY <2>1 DEF vars, repoVars, Ledger!ledger, Phase, InFlight
  <2>2. ASSUME IInv, IInv', Next PROVE Ledger!Next
    <3>1. ASSUME NEW i \in InitialItems
          PROVE  Moves(item[i], item'[i]) /\ RowOK(item'[i])
      <4>1. i \in Items
        OBVIOUS
      <4>2. Moves(item[i], item'[i])
        BY <2>2, <4>1, NextMoves
      <4>3. RowOK(item[i])'
        BY <2>2, <4>1 DEF IInv
      <4>4. RowOK(item'[i])
        BY <4>3 DEF RowOK, InFlight
      <4> QED
        BY <4>2, <4>4
    <3> QED
      BY <2>2, <3>1, MoveIsLedgerStep DEF Ledger!Next
  <2> QED
    BY <2>1, <2>2
<1> QED
  BY <1>1, <1>2, Invariance, PTL DEF Spec, KeepsLedger, Ledger!Spec

HIDE RepositoryAssumption
HIDE QueueAssumption

-----------------------------------------------------------------------------
(* Who writes the row of an item in flight.                                *)

\* A row in flight is left alone by the step, or written in one of four ways:
\* by the recovery of its expired lease, by the clock, by its owner, or by a
\* recruiter from a copy read before the claim.
Warranted(i) ==
    InFlight(item[i]) /\ item'[i] # item[i] =>
        \/ item[i].lease = "expired" /\ item'[i] = RecoveredRow(item[i])
        \/ LeaseLapses(i)
        \/ worker'[item[i].claimedBy] # worker[item[i].claimedBy]
        \/ \E r \in Requests : desk'[r] # desk[r]

\* A guarded update writes the row of the worker that moves.
LEMMA GuardedWarranted ==
  ASSUME IInv, NEW w \in Workers, NEW row, NEW pc, worker[w].pc # pc,
         GuardedUpdate(w, row, pc), NEW i \in Items
  PROVE  Warranted(i)
<1>. USE Typed
<1>1. worker'[w] # worker[w]
  <2>1. worker'[w].pc = pc
    BY DEF GuardedUpdate, EndPass, GoTo, WorkerAt, WorkerRow
  <2> QED
    BY <2>1
<1>2. item'[i] # item[i] => i = worker[w].item
  BY DEF GuardedUpdate
<1>3. i = worker[w].item => item[i].claimedBy = w
  BY DEF GuardedUpdate, HoldsLease
<1> QED
  BY <1>1, <1>2, <1>3 DEF Warranted

\* The guarded updates of a worker.
LEMMA HolderWarranted ==
  ASSUME IInv, NEW w \in Workers, NEW i \in Items,
         MarkInProgress(w) \/ AttachSession(w) \/ Heartbeat(w) \/ Complete(w)
           \/ SettleRetry(w) \/ SettleTerminal(w)
  PROVE  Warranted(i)
<1>1. CASE GuardFails(w)
  BY <1>1 DEF GuardFails, Warranted
<1>2. CASE ~GuardFails(w)
  <2>1. \E row : \E pc \in {"mark_candidate", "dispatch", "poll", "idle"} :
          GuardedUpdate(w, row, pc)
    BY <1>2, Zenon DEF MarkInProgress, AttachSession, Heartbeat, Complete, SettleRetry,
       SettleTerminal
  <2>2. worker[w].pc \in {"begin", "attach", "heartbeat", "complete", "settle",
                          "settle_terminal"}
    BY DEF MarkInProgress, AttachSession, Heartbeat, Complete, SettleRetry,
       SettleTerminal, At
  <2> QED
    BY <2>1, <2>2, GuardedWarranted
<1> QED
  BY <1>1, <1>2

\* The other statements of workers, candidates and time leave rows in flight
\* alone, but for the sweep and the clock of the lease.
LEMMA TableWarranted ==
  ASSUME IInv, NEW i \in Items,
         \/ \E w \in Workers : Recover(w) \/ CommitClaim(w) \/ ClaimForPrewarm(w)
                                 \/ PrewarmAttach(w)
         \/ \E j \in Items : PressStart(j) \/ LeaseLapses(j) \/ BackoffPasses(j)
  PROVE  Warranted(i)
<1>. USE Typed
<1>1. RowOK(item[i])
  BY DEF IInv
<1>2. SUFFICES ASSUME InFlight(item[i]), item'[i] # item[i]
               PROVE  \/ item[i].lease = "expired" /\ item'[i] = RecoveredRow(item[i])
                      \/ LeaseLapses(i)
  BY DEF Warranted
<1>3. item[i].status \notin {"awaiting_candidate", "pending"} /\ ~item[i].backoff
  BY <1>1, <1>2 DEF RowOK, InFlight, InFlightStatus
<1>4. ASSUME NEW w \in Workers, Recover(w)
      PROVE  item[i].lease = "expired" /\ item'[i] = RecoveredRow(item[i])
  BY <1>2, <1>4 DEF Recover, RecoverExpiredLeases, LeaseExpired
<1>5. ASSUME NEW w \in Workers, CommitClaim(w) PROVE FALSE
  <2>1. item[worker[w].item].status = "pending"
    BY <1>5 DEF CommitClaim, At, IInv, MemoryOK
  <2> QED
    BY <1>2, <1>3, <1>5, <2>1 DEF CommitClaim
<1>6. ASSUME NEW w \in Workers, ClaimForPrewarm(w) PROVE FALSE
  BY <1>2, <1>3, <1>6 DEF ClaimForPrewarm, NextPrewarmable, Prewarmable
<1>7. ASSUME NEW w \in Workers, PrewarmAttach(w) PROVE FALSE
  BY <1>2, <1>3, <1>7 DEF PrewarmAttach, PreparedRow
<1>8. ASSUME NEW j \in Items, PressStart(j) \/ BackoffPasses(j) PROVE FALSE
  BY <1>2, <1>3, <1>8 DEF PressStart, BackoffPasses, BackoffElapses
<1>9. ASSUME NEW j \in Items, LeaseLapses(j) PROVE LeaseLapses(i)
  <2>1. i = j
    BY <1>2, <1>9 DEF LeaseLapses, LeaseRunsOut
  <2> QED
    BY <1>9, <2>1
<1> QED
  BY <1>4, <1>5, <1>6, <1>7, <1>8, <1>9

\* A recruiter's write answers the request.
LEMMA DeskWarranted ==
  ASSUME IInv, NEW r \in Requests, DeskAction(r), NEW i \in Items
  PROVE  Warranted(i)
<1>. USE Typed
<1>1. CASE item' = item
  BY <1>1 DEF Warranted
<1>2. CASE AddItem(r)
  <2>1. item'[i] # item[i] => item[i].status = "absent"
    BY <1>2 DEF AddItem
  <2> QED
    BY <2>1 DEF Warranted, InFlight, InFlightStatus
<1>3. CASE CancelItem(r) \/ RetryItem(r) \/ RemoveCandidate(r)
  <2>1. desk[r].op \in {"cancel", "retry", "remove"} /\ DoneWith(r)
    BY <1>3 DEF CancelItem, RetryItem, RemoveCandidate, WriteItem
  <2>2. desk'[r] # desk[r]
    BY <2>1, NoRequestOK DEF DoneWith
  <2> QED
    BY <2>2 DEF Warranted
<1> QED
  BY <1>1, <1>2, <1>3 DEF DeskAction, ReadItem, ReadForAdd, AddStatus, SetQueueStatus,
     ReadPlan, EditPlan, ApprovePlan, WritePlan, repoVars

\* Every step of the system.
LEMMA NextWarranted ==
  ASSUME IInv, Next, NEW i \in Items
  PROVE  Warranted(i)
<1>1. CASE item' = item
  BY <1>1 DEF Warranted
<1>2. ASSUME NEW w \in Workers, WorkerAction(w) PROVE Warranted(i)
  BY <1>1, <1>2, HolderWarranted, TableWarranted
     DEF WorkerAction, LockNextItem, NothingToClaim, CheckPlan, MarkCandidate, Prepare,
         StepRaises, Dispatch, DispatchFails, PollOver, PollAgain, PollTimesOut,
         TransportEndsInterview, HangUp, Evaluate, Report, MarkScreened, ReleaseCandidate,
         ReleaseAgain, NothingToPrewarm, PrewarmPrepare, PrewarmGivesUp, repoVars
<1>3. ASSUME \/ \E w \in Workers : Crash(w) \/ Restart(w)
             \/ \E s \in SessionIds : VoiceAgent(s)
      PROVE  item' = item
  BY <1>3 DEF Crash, Restart, VoiceAgent, repoVars
<1> QED
  BY <1>1, <1>2, <1>3, TableWarranted, DeskWarranted
     DEF Next, WorkerMoves, WorkerDies, WorkerReturns

\* Whoever intervenes, what is written to the row of an item in flight comes from
\* its owner, the sweep, the clock or a recruiter's request: no worker that was
\* overtaken writes over its successor (_lease_guarded_update).
THEOREM FlightsWarranted == Spec => [][\A i \in Items : Warranted(i)]_vars
<1>. DEFINE All == \A i \in Items : Warranted(i)
<1>1. IInv /\ [Next]_vars => [All]_vars
  BY NextWarranted
<1> QED
  BY <1>1, Invariance, PTL DEF Spec

\* While no recruiter intervenes, the row of an item in flight is written by
\* its owner, by the recovery of an expired lease, or by nobody: the guard of
\* _lease_guarded_update shuts out every worker that was overtaken.
THEOREM HolderWrites ==
  ASSUME Requests = {}
  PROVE  Spec => OnlyHolderWrites
<1>. DEFINE Kept == \A i \in Items : InFlight(item[i]) /\ item'[i] # item[i] =>
          \/ item[i].lease = "expired" /\ item'[i] = RecoveredRow(item[i])
          \/ item'[i] = [item[i] EXCEPT !.lease = "expired"]
          \/ worker'[item[i].claimedBy] # worker[item[i].claimedBy]
<1>1. IInv /\ [Next]_vars => [Kept]_vars
  <2>1. ASSUME IInv, Next, NEW i \in Items, InFlight(item[i]), item'[i] # item[i]
        PROVE  \/ item[i].lease = "expired" /\ item'[i] = RecoveredRow(item[i])
               \/ item'[i] = [item[i] EXCEPT !.lease = "expired"]
               \/ worker'[item[i].claimedBy] # worker[item[i].claimedBy]
    <3>1. LeaseLapses(i) => item'[i] = [item[i] EXCEPT !.lease = "expired"]
      BY <2>1, Typed DEF LeaseLapses, LeaseRunsOut
    <3> QED
      BY <2>1, <3>1, NextWarranted DEF Warranted
  <2> QED
    BY <2>1
<1> QED
  BY <1>1, Invariance, PTL DEF Spec, OnlyHolderWrites

-----------------------------------------------------------------------------
(* Reports: whose interview a session is, through rows, workers, requests. *)

\* In the table S, session s is an interview of candidate c, and its report
\* is on file.
Known(S, s, c)    == s \in SessionIds /\ S[s].state # "absent" /\ S[s].candidate = c
Reported(S, s, c) == Known(S, s, c) /\ S[s].state = "reported"

RowKnown(S, i, row) ==
    /\ row.session # NoSession => Known(S, row.session, CandidateOf[i])
    /\ row.status = "completed" => Reported(S, row.session, CandidateOf[i])

\* The steps at which a worker has no session, and those at which the report
\* of its session has been written.
Resting   == {"idle", "dead", "claim", "claiming", "prewarm", "prewarm_prepare"}
Screening == {"mark_screened", "complete"}

WorkerKnown(S, k) ==
    /\ k.session # NoSession => k.item \in Items /\ Known(S, k.session, CandidateOf[k.item])
    /\ k.pc \in Resting => k.session = NoSession
    /\ k.pc \in Screening => k.item \in Items /\ Reported(S, k.session, CandidateOf[k.item])

RequestKnown(S, d) == d.op \in {"cancel", "retry"} => RowKnown(S, d.item, d.row)

CandidateKnown(S, c, status) ==
    status = "screened" => \E s \in SessionIds : Reported(S, s, c)

SInv ==
    /\ \A i \in Items : RowKnown(session, i, item[i])
    /\ \A w \in Workers : WorkerKnown(session, worker[w])
    /\ \A r \in Requests : RequestKnown(session, desk[r])
    /\ \A c \in Candidates : CandidateKnown(session, c, candidate[c])

-----------------------------------------------------------------------------
(* A session, once prepared, stays its candidate's, and its report stays.  *)

Grows(S, T) ==
    \A s \in SessionIds :
        /\ S[s].state # "absent" => T[s].state # "absent" /\ T[s].candidate = S[s].candidate
        /\ S[s].state = "reported" => T[s].state = "reported"

\* What is known of sessions stays known while they grow.
LEMMA KnownLasts ==
  ASSUME NEW S, NEW T, Grows(S, T)
  PROVE  /\ \A s, c : Known(S, s, c) => Known(T, s, c)
         /\ \A s, c : Reported(S, s, c) => Reported(T, s, c)
BY DEF Known, Reported, Grows

\* So do the facts about rows, workers, requests and candidates.
LEMMA FactsLast ==
  ASSUME NEW S, NEW T, Grows(S, T)
  PROVE  /\ \A i, row : RowKnown(S, i, row) => RowKnown(T, i, row)
         /\ \A k : WorkerKnown(S, k) => WorkerKnown(T, k)
         /\ \A d : RequestKnown(S, d) => RequestKnown(T, d)
         /\ \A c, status : CandidateKnown(S, c, status) => CandidateKnown(T, c, status)
<1>1. \A i, row : RowKnown(S, i, row) => RowKnown(T, i, row)
  BY KnownLasts DEF RowKnown
<1>2. \A k : WorkerKnown(S, k) => WorkerKnown(T, k)
  BY KnownLasts DEF WorkerKnown
<1>3. \A d : RequestKnown(S, d) => RequestKnown(T, d)
  BY <1>1 DEF RequestKnown
<1>4. \A c, status : CandidateKnown(S, c, status) => CandidateKnown(T, c, status)
  BY KnownLasts DEF CandidateKnown
<1> QED
  BY <1>1, <1>2, <1>3, <1>4

\* A table that does not move grows.
LEMMA StillGrows ==
  ASSUME UNCHANGED session
  PROVE  Grows(session, session')
BY DEF Grows

\* The operations on a session.
LEMMA SessionOpGrows ==
  ASSUME SessionTypeOK, NEW s \in SessionIds,
         \/ OpenRoom(s) \/ CloseRoom(s) \/ EndInterview(s) \/ EvaluateInterview(s)
         \/ GenerateReport(s) \/ AgentStarts(s) \/ AgentFinishes(s)
  PROVE  Grows(session, session')
<1>. USE DEF SessionTypeOK, SessionRow
<1>1. CASE OpenRoom(s) \/ CloseRoom(s)
  BY <1>1 DEF OpenRoom, CloseRoom, Grows
<1>2. CASE EndInterview(s) \/ EvaluateInterview(s)
  BY <1>2 DEF EndInterview, EvaluateInterview, Grows
<1>3. CASE GenerateReport(s)
  BY <1>3 DEF GenerateReport, Grows
<1>4. CASE AgentStarts(s) \/ AgentFinishes(s)
  BY <1>4 DEF AgentStarts, AgentFinishes, Grows
<1> QED
  BY <1>1, <1>2, <1>3, <1>4

\* A session is created under an id not in use, for the candidate it is for.
LEMMA CreationGrows ==
  ASSUME SessionTypeOK, SessionsFree, NEW c, NEW q, CreateReadySession(FreshSession, c, q)
  PROVE  /\ Grows(session, session')
         /\ Known(session', FreshSession, c)
<1>1. FreshSession \in SessionIds /\ session[FreshSession].state = "absent"
  BY FreshSessionExists
<1>. DEFINE s == FreshSession
            new == [state |-> "ready", candidate |-> c, questions |-> q, room |-> FALSE]
<1>2. session' = [session EXCEPT ![s] = new] /\ new.state = "ready" /\ new.candidate = c
  BY DEF CreateReadySession
<1>. HIDE DEF s, new
<1>3. s \in SessionIds /\ session[s].state = "absent"
  BY <1>1 DEF s
<1>4. Grows(session, session')
  BY <1>2, <1>3 DEF Grows, SessionTypeOK
<1>5. Known(session', s, c)
  BY <1>2, <1>3 DEF Known, SessionTypeOK
<1> QED
  BY <1>4, <1>5 DEF s

-----------------------------------------------------------------------------
(* What a worker remembers of its session.                                 *)

\* The pass goes on with its item and its session, or has none.
Carries(k, l) == /\ l.session = k.session /\ l.item = k.item
                 /\ l.pc \notin Resting \union Screening
Empties(l)    == l.session = NoSession /\ l.pc \notin Screening

\* Neither asks for new facts about sessions.
LEMMA CarriedKnown ==
  ASSUME NEW S, NEW k, NEW l, WorkerKnown(S, k), Carries(k, l) \/ Empties(l)
  PROVE  WorkerKnown(S, l)
BY DEF WorkerKnown, Carries, Empties

\* Where exceptions, lost leases and the end of a pass lead.
LEMMA WaysOut ==
  ASSUME IInv, NEW w \in Workers
  PROVE  /\ Raise(w) => /\ worker' = [worker EXCEPT ![w] = worker'[w]]
                        /\ Carries(worker[w], worker'[w]) \/ Empties(worker'[w])
         /\ Abandon(w) => /\ worker' = [worker EXCEPT ![w] = worker'[w]]
                          /\ Empties(worker'[w])
         /\ EndPass(w) => /\ worker' = [worker EXCEPT ![w] = worker'[w]]
                          /\ Empties(worker'[w])
<1>. USE Typed
<1>1. \A pc : pc \notin Screening => Empties(WorkerAt(pc))
  BY DEF Empties, WorkerAt
<1>2. Raise(w) => /\ worker' = [worker EXCEPT ![w] = worker'[w]]
                  /\ Carries(worker[w], worker'[w]) \/ Empties(worker'[w])
  <2>. DEFINE k == [worker[w] EXCEPT !.pc = "release", !.outcome = "failed",
                                     !.inHandler = TRUE]
  <2>1. Carries(worker[w], k)
    BY DEF Carries, WorkerRow, Resting, Screening
  <2>2. Empties(WorkerAt("dead"))
    BY <1>1 DEF Screening
  <2>3. ASSUME Raise(w) PROVE worker' = [worker EXCEPT ![w] = k]
                                \/ worker' = [worker EXCEPT ![w] = WorkerAt("dead")]
    BY <2>3 DEF Raise
  <2>. HIDE DEF k
  <2> QED
    BY <2>1, <2>2, <2>3
<1>3. Abandon(w) => /\ worker' = [worker EXCEPT ![w] = worker'[w]]
                    /\ Empties(worker'[w])
  BY <1>1 DEF Abandon, Screening
<1>4. EndPass(w) => /\ worker' = [worker EXCEPT ![w] = worker'[w]]
                    /\ Empties(worker'[w])
  BY <1>1 DEF EndPass, Screening
<1> QED
  BY <1>2, <1>3, <1>4

\* The guarded updates leave the pass with what it has, or end it.
LEMMA GuardedCarries ==
  ASSUME IInv, NEW w \in Workers, NEW row, NEW pc,
         pc = "idle" \/ pc \notin Resting \union Screening,
         GuardedUpdate(w, row, pc) \/ GuardFails(w)
  PROVE  /\ worker' = [worker EXCEPT ![w] = worker'[w]]
         /\ Carries(worker[w], worker'[w]) \/ Empties(worker'[w])
<1>1. CASE GuardFails(w) \/ pc = "idle"
  BY <1>1, WaysOut DEF GuardFails, GuardedUpdate
<1>2. CASE GuardedUpdate(w, row, pc) /\ pc # "idle"
  <2>. DEFINE k == [worker[w] EXCEPT !.pc = pc]
  <2>1. Carries(worker[w], k)
    BY <1>2, Typed DEF Carries, WorkerRow, Resting
  <2>2. worker' = [worker EXCEPT ![w] = k]
    BY <1>2 DEF GuardedUpdate, GoTo
  <2>. HIDE DEF k
  <2> QED
    BY <2>1, <2>2, Typed
<1> QED
  BY <1>1, <1>2

\* The steps of a worker that neither take a session nor write a report.
LEMMA PlainSteps ==
  ASSUME IInv, SInv, NEW w \in Workers,
         \/ Recover(w) \/ LockNextItem(w) \/ NothingToClaim(w) \/ CheckPlan(w)
         \/ MarkInProgress(w) \/ MarkCandidate(w) \/ AttachSession(w) \/ StepRaises(w)
         \/ Dispatch(w) \/ DispatchFails(w) \/ Heartbeat(w)
         \/ PollOver(w) \/ PollAgain(w) \/ PollTimesOut(w)
         \/ TransportEndsInterview(w) \/ HangUp(w) \/ Evaluate(w) \/ Complete(w)
         \/ ReleaseCandidate(w) \/ SettleRetry(w) \/ ReleaseAgain(w) \/ SettleTerminal(w)
         \/ ClaimForPrewarm(w) \/ NothingToPrewarm(w) \/ PrewarmGivesUp(w)
         \/ PrewarmAttach(w) \/ Crash(w) \/ Restart(w)
  PROVE  /\ worker' = [worker EXCEPT ![w] = worker'[w]]
         /\ Carries(worker[w], worker'[w]) \/ Empties(worker'[w])
<1>. DEFINE k(pc) == [worker[w] EXCEPT !.pc = pc]
<1>1. ASSUME NEW pc, GoTo(w, pc), pc \notin Resting, pc \notin Screening
      PROVE  /\ worker' = [worker EXCEPT ![w] = worker'[w]]
             /\ Carries(worker[w], worker'[w])
  <2>1. Carries(worker[w], k(pc)) /\ worker' = [worker EXCEPT ![w] = k(pc)]
    BY <1>1, Typed DEF Carries, WorkerRow, GoTo
  <2>. HIDE DEF k
  <2> QED
    BY <2>1, Typed
<1>2. CASE Recover(w) \/ NothingToClaim(w)
  <2>1. PICK pc \in {"claim", "prewarm"} :
          GoTo(w, pc) /\ worker[w].pc \in Resting
    BY <1>2 DEF Recover, NothingToClaim, At, Resting
  <2>2. Empties(k(pc)) /\ worker' = [worker EXCEPT ![w] = k(pc)]
    BY <2>1, Typed DEF Empties, Screening, WorkerRow, GoTo, SInv, WorkerKnown
  <2>. HIDE DEF k
  <2> QED
    BY <2>2, Typed
<1>3. CASE LockNextItem(w) \/ ClaimForPrewarm(w)
  <2>1. PICK pc \in {"claiming", "prewarm_prepare"}, i \in Items :
          worker' = [worker EXCEPT ![w] = [worker[w] EXCEPT !.pc = pc, !.item = i]]
    BY <1>3, Typed DEF LockNextItem, ClaimForPrewarm
  <2>2. Empties([worker[w] EXCEPT !.pc = pc, !.item = i])
    BY <1>3, Typed DEF LockNextItem, ClaimForPrewarm, At, Empties, Screening, Resting,
       WorkerRow, SInv, WorkerKnown
  <2> QED
    BY <2>1, <2>2, Typed
<1>4. CASE CheckPlan(w) \/ MarkCandidate(w) \/ Dispatch(w) \/ PollOver(w)
             \/ TransportEndsInterview(w) \/ HangUp(w) \/ Evaluate(w)
             \/ ReleaseCandidate(w) \/ ReleaseAgain(w)
  <2>1. \E pc : GoTo(w, pc) /\ pc \notin Resting /\ pc \notin Screening
    BY <1>4 DEF CheckPlan, MarkCandidate, Dispatch, PollOver, TransportEndsInterview, HangUp,
       Evaluate, ReleaseCandidate, ReleaseAgain, Resting, Screening
  <2> QED
    BY <1>1, <2>1
<1>5. CASE DispatchFails(w) \/ PollAgain(w) \/ PollTimesOut(w)
  <2>1. PICK pc \in {"release", "heartbeat", "end_interview", "hang_up"} :
          \E joined, outcome :
            worker' = [worker EXCEPT ![w] = [worker[w] EXCEPT !.pc = pc, !.joined = joined,
                                                              !.outcome = outcome]]
    <3>1. CASE DispatchFails(w)
      <4>1. worker' = [worker EXCEPT ![w] = [worker[w] EXCEPT !.pc = "release",
                         !.joined = worker[w].joined, !.outcome = "failed"]]
        BY <3>1, Typed DEF DispatchFails, WorkerRow
      <4> QED
        BY <4>1
    <3>2. CASE PollAgain(w)
      <4>1. worker' = [worker EXCEPT ![w] = [worker[w] EXCEPT !.pc = "heartbeat",
                         !.joined = JoinedBy(w), !.outcome = worker[w].outcome]]
        BY <3>2, Typed DEF PollAgain, WorkerRow
      <4> QED
        BY <4>1
    <3>3. CASE PollTimesOut(w)
      <4>. DEFINE next == IF SeenState(w) = "in_progress" THEN "end_interview" ELSE "hang_up"
                  why  == IF JoinedBy(w) THEN "failed" ELSE "no_answer"
      <4>1. worker' = [worker EXCEPT ![w] = [worker[w] EXCEPT !.pc = next,
                         !.joined = JoinedBy(w), !.outcome = why]]
        BY <3>3, Typed DEF PollTimesOut
      <4>2. next \in {"end_interview", "hang_up"}
        OBVIOUS
      <4>. HIDE DEF next, why
      <4> QED
        BY <4>1, <4>2
    <3> QED
      BY <1>5, <3>1, <3>2, <3>3
  <2>2. PICK joined, outcome :
          worker' = [worker EXCEPT ![w] = [worker[w] EXCEPT !.pc = pc, !.joined = joined,
                                                            !.outcome = outcome]]
    BY <2>1
  <2>3. Carries(worker[w], [worker[w] EXCEPT !.pc = pc, !.joined = joined,
                                             !.outcome = outcome])
    BY Typed DEF Carries, Resting, Screening, WorkerRow
  <2> QED
    BY <2>2, <2>3, Typed
<1>6. CASE MarkInProgress(w) \/ AttachSession(w) \/ Heartbeat(w) \/ Complete(w)
             \/ SettleRetry(w) \/ SettleTerminal(w)
  <2>1. \E row : \E pc \in {"mark_candidate", "dispatch", "poll", "idle"} :
          GuardedUpdate(w, row, pc) \/ GuardFails(w)
    BY <1>6, Zenon DEF MarkInProgress, AttachSession, Heartbeat, Complete, SettleRetry,
       SettleTerminal
  <2> QED
    BY <2>1, GuardedCarries DEF Resting, Screening
<1>7. CASE StepRaises(w) \/ NothingToPrewarm(w) \/ PrewarmGivesUp(w) \/ PrewarmAttach(w)
             \/ Restart(w)
  BY <1>7, WaysOut DEF StepRaises, NothingToPrewarm, PrewarmGivesUp, PrewarmAttach, Restart
<1>8. CASE Crash(w)
  BY <1>8, Typed DEF Crash, Empties, WorkerAt, Screening
<1> QED
  BY <1>2, <1>3, <1>4, <1>5, <1>6, <1>7, <1>8

\* The steps that take a session, and those after its report.
LEMMA TakingSteps ==
  ASSUME IInv, SInv, NEW w \in Workers,
         CommitClaim(w) \/ Prepare(w) \/ PrewarmPrepare(w) \/ Report(w) \/ MarkScreened(w)
  PROVE  /\ worker' = [worker EXCEPT ![w] = worker'[w]]
         /\ Grows(session, session')
         /\ WorkerKnown(session', worker'[w])
<1>. USE Typed
<1>. DEFINE i == worker[w].item
<1>1. MemoryOK(w, worker[w]) /\ WorkerKnown(session, worker[w]) /\ SessionTypeOK
  BY DEF IInv, SInv, TypeOK
<1>2. CASE CommitClaim(w)
  <2>. DEFINE k == [worker[w] EXCEPT !.pc = "check_plan",
                                     !.attempts = ClaimedRow(item[i], w).attempts,
                                     !.session = item[i].session]
  <2>1. i \in Items /\ RowKnown(session, i, item[i])
    BY <1>1, <1>2, Names DEF CommitClaim, At, MemoryOK, SInv
  <2>2. worker' = [worker EXCEPT ![w] = k] /\ UNCHANGED session
    BY <1>2 DEF CommitClaim
  <2>3. k.pc = "check_plan" /\ k.session = item[i].session /\ k.item = i
    BY DEF WorkerRow
  <2>. HIDE DEF k
  <2>4. WorkerKnown(session, k)
    BY <2>1, <2>3 DEF WorkerKnown, RowKnown, Resting, Screening
  <2> QED
    BY <2>2, <2>4, StillGrows
<1>3. CASE Prepare(w) \/ PrewarmPrepare(w)
  <2>1. PICK pc \in {"attach", "prewarm_attach"} :
          worker' = [worker EXCEPT ![w] = [worker[w] EXCEPT !.pc = pc,
                                                            !.session = FreshSession]]
    BY <1>3 DEF Prepare, PrewarmPrepare
  <2>. DEFINE k == [worker[w] EXCEPT !.pc = pc, !.session = FreshSession]
  <2>2. i \in Items
    BY <1>1, <1>3, Names DEF Prepare, PrewarmPrepare, At, MemoryOK
  <2>3. Grows(session, session') /\ Known(session', FreshSession, CandidateOf[i])
    BY <1>1, <1>3, CreationGrows DEF Prepare, PrewarmPrepare, CandOf
  <2>4. k.pc = pc /\ k.session = FreshSession /\ k.item = i
    BY DEF WorkerRow
  <2>5. worker' = [worker EXCEPT ![w] = k]
    BY <2>1
  <2>. HIDE DEF k
  <2>6. WorkerKnown(session', k)
    BY <2>2, <2>3, <2>4 DEF WorkerKnown, Resting, Screening
  <2> QED
    BY <2>3, <2>5, <2>6
<1>4. CASE Report(w)
  <2>. DEFINE k == [worker[w] EXCEPT !.pc = "mark_screened"]
              s == worker[w].session
  <2>1. s \in SessionIds /\ i \in Items
    BY <1>1, <1>4, Names DEF Report, At, MemoryOK, WithSession
  <2>2. Known(session, s, CandidateOf[i])
    BY <1>1, <2>1, EntityAssumption DEF WorkerKnown, EntityAssumption
  <2>3. Grows(session, session') /\ session'[s].state = "reported"
    <3>1. GenerateReport(s)
      BY <1>4 DEF Report
    <3>2. session'[s].state = "reported"
      BY <2>1, <3>1 DEF GenerateReport, SessionRow
    <3> QED
      BY <1>1, <2>1, <3>1, <3>2, SessionOpGrows
  <2>4. Reported(session', s, CandidateOf[i])
    BY <2>2, <2>3, KnownLasts DEF Reported
  <2>5. worker' = [worker EXCEPT ![w] = k]
    BY <1>4 DEF Report, GoTo
  <2>6. k.pc = "mark_screened" /\ k.session = s /\ k.item = i
    BY DEF WorkerRow
  <2>. HIDE DEF k, s
  <2>7. WorkerKnown(session', k)
    BY <2>1, <2>4, <2>6 DEF WorkerKnown, Resting, Screening, Reported
  <2> QED
    BY <2>3, <2>5, <2>7
<1>5. CASE MarkScreened(w)
  <2>. DEFINE k == [worker[w] EXCEPT !.pc = "complete"]
  <2>1. worker' = [worker EXCEPT ![w] = k] /\ UNCHANGED session
    BY <1>5 DEF MarkScreened, GoTo
  <2>2. k.pc = "complete" /\ k.session = worker[w].session /\ k.item = i
    BY DEF WorkerRow
  <2>3. worker[w].pc = "mark_screened"
    BY <1>5 DEF MarkScreened, At
  <2>. HIDE DEF k
  <2>4. WorkerKnown(session, k)
    BY <1>1, <2>2, <2>3 DEF WorkerKnown, Resting, Screening
  <2> QED
    BY <2>1, <2>4, StillGrows
<1> QED
  BY <1>2, <1>3, <1>4, <1>5

-----------------------------------------------------------------------------
(* What the rows say of sessions.                                          *)

\* A row that keeps its session or loses it, and is not newly COMPLETED.
Keeps(row, new) ==
    \/ new.session = row.session /\ new.status = row.status
    \/ new.session \in {row.session, NoSession} /\ new.status # "completed"

\* Such a row asks for no new facts.
LEMMA KeptKnown ==
  ASSUME NEW i, NEW row, NEW new, RowKnown(session, i, row), Keeps(row, new)
  PROVE  RowKnown(session, i, new)
BY DEF RowKnown, Keeps

\* The row updates that keep or lose the session.
LEMMA UpdatesKeep ==
  ASSUME NEW row \in ItemRow
  PROVE  /\ Keeps(row, [row EXCEPT !.lease = "live"])
         /\ Keeps(row, [row EXCEPT !.lease = "expired"])
         /\ Keeps(row, [row EXCEPT !.backoff = FALSE])
         /\ Keeps(row, [row EXCEPT !.prewarm = TRUE])
         /\ Keeps(row, [row EXCEPT !.status = "in_progress"])
         /\ \A w : Keeps(row, ClaimedRow(row, w))
         /\ Keeps(row, ReleasedForRetry(row))
         /\ Keeps(row, ReleasedToAwaitingCandidate(row))
         /\ \A status : status # "completed" => Keeps(row, TerminalRow(row, status, NoSession))
         /\ Keeps(row, ArmedRow(row))
         /\ Keeps(row, RecoveredRow(row))
         /\ Keeps(row, CancelledRow(row))
         /\ Keeps(row, RetriedRow(row))
<1>. USE DEF ItemRow, Keeps
<1>1. /\ Keeps(row, [row EXCEPT !.lease = "live"])
      /\ Keeps(row, [row EXCEPT !.lease = "expired"])
      /\ Keeps(row, [row EXCEPT !.backoff = FALSE])
      /\ Keeps(row, [row EXCEPT !.prewarm = TRUE])
      /\ Keeps(row, [row EXCEPT !.status = "in_progress"])
  OBVIOUS
<1>2. \A w : Keeps(row, ClaimedRow(row, w))
  BY DEF ClaimedRow
<1>3. Keeps(row, ReleasedForRetry(row)) /\ Keeps(row, ReleasedToAwaitingCandidate(row))
  BY DEF ReleasedForRetry, ReleasedToAwaitingCandidate
<1>4. \A status : status # "completed" => Keeps(row, TerminalRow(row, status, NoSession))
  BY DEF TerminalRow
<1>5. Keeps(row, ArmedRow(row))
  BY DEF ArmedRow
<1>6. Keeps(row, RecoveredRow(row))
  BY DEF RecoveredRow
<1>7. Keeps(row, CancelledRow(row)) /\ Keeps(row, RetriedRow(row))
  BY DEF CancelledRow, RetriedRow
<1> QED
  BY <1>1, <1>2, <1>3, <1>4, <1>5, <1>6, <1>7

\* The guarded updates of a worker.
LEMMA HolderRows ==
  ASSUME IInv, SInv, NEW w \in Workers, NEW i \in Items,
         MarkInProgress(w) \/ AttachSession(w) \/ Heartbeat(w) \/ Complete(w)
           \/ SettleRetry(w) \/ SettleTerminal(w)
  PROVE  RowKnown(session, i, item'[i])
<1>. USE Typed
<1>. DEFINE j == worker[w].item
<1>1. /\ worker[w].pc \in RunStep \union SettleStep
      /\ MemoryOK(w, worker[w]) /\ WorkerKnown(session, worker[w])
  BY Names DEF MarkInProgress, AttachSession, Heartbeat, Complete, SettleRetry,
     SettleTerminal, At, IInv, SInv
<1>2. j \in Items /\ item[j] \in ItemRow /\ RowKnown(session, j, item[j])
  BY <1>1, Names DEF MemoryOK, SInv
<1>3. RowKnown(session, i, item[i])
  BY DEF SInv
<1>4. CASE GuardFails(w)
  BY <1>3, <1>4 DEF GuardFails
<1>5. ASSUME NEW row, NEW pc, GuardedUpdate(w, row, pc), RowKnown(session, j, row)
      PROVE  RowKnown(session, i, item'[i])
  <2>1. \/ item'[i] = item[i]
        \/ i = j /\ item'[i] = row
    BY <1>2, <1>5 DEF GuardedUpdate
  <2> QED
    BY <1>3, <1>5, <2>1
<1>6. ASSUME NEW row, NEW pc, GuardedUpdate(w, row, pc), Keeps(item[j], row)
      PROVE  RowKnown(session, i, item'[i])
  BY <1>2, <1>5, <1>6, KeptKnown
<1>7. CASE AttachSession(w)
           /\ GuardedUpdate(w, [item[j] EXCEPT !.session = worker[w].session], "dispatch")
  <2>. DEFINE row == [item[j] EXCEPT !.session = worker[w].session]
  <2>1. row.session = worker[w].session /\ row.status = item[j].status
    BY <1>2 DEF ItemRow
  <2>2. worker[w].session # NoSession
    BY <1>1, <1>7, EntityAssumption DEF EntityAssumption, MemoryOK, AttachSession, At,
       WithSession
  <2>3. item[j].status # "completed"
    BY <1>7 DEF GuardedUpdate, HoldsLease, InFlight, InFlightStatus
  <2>. HIDE DEF row
  <2>4. RowKnown(session, j, row)
    BY <1>1, <2>1, <2>2, <2>3 DEF RowKnown, WorkerKnown
  <2> QED
    BY <1>5, <1>7, <2>4 DEF row
<1>8. CASE Complete(w)
           /\ GuardedUpdate(w, TerminalRow(item[j], "completed", worker[w].session), "idle")
  <2>. DEFINE row == TerminalRow(item[j], "completed", worker[w].session)
  <2>1. row.session = worker[w].session
    BY <1>2 DEF TerminalRow, ItemRow
  <2>2. Reported(session, worker[w].session, CandidateOf[j])
    BY <1>1, <1>8 DEF Complete, At, WorkerKnown, Screening
  <2>. HIDE DEF row
  <2>3. RowKnown(session, j, row)
    BY <2>1, <2>2 DEF RowKnown, Reported
  <2> QED
    BY <1>5, <1>8, <2>3 DEF row
<1>9. worker[w].outcome # "completed"
  BY DEF WorkerRow
<1>10. CASE MarkInProgress(w) \/ Heartbeat(w) \/ SettleRetry(w) \/ SettleTerminal(w)
  <2>1. CASE GuardFails(w)
    BY <1>4, <2>1
  <2>2. CASE MarkInProgress(w) /\ ~GuardFails(w)
    BY <1>2, <1>6, <2>2, UpdatesKeep DEF MarkInProgress
  <2>3. CASE Heartbeat(w) /\ ~GuardFails(w)
    BY <1>2, <1>6, <2>3, UpdatesKeep DEF Heartbeat
  <2>4. CASE SettleRetry(w) /\ ~GuardFails(w)
    BY <1>2, <1>6, <2>4, UpdatesKeep DEF SettleRetry
  <2>5. CASE SettleTerminal(w) /\ ~GuardFails(w)
    BY <1>2, <1>6, <1>9, <2>5, UpdatesKeep DEF SettleTerminal
  <2> QED
    BY <1>10, <2>1, <2>2, <2>3, <2>4, <2>5
<1> QED
  BY <1>4, <1>7, <1>8, <1>10 DEF AttachSession, Complete

\* The other statements of workers, candidates and time.
LEMMA TableRows ==
  ASSUME IInv, SInv, NEW i \in Items,
         \/ \E w \in Workers : Recover(w) \/ CommitClaim(w) \/ ClaimForPrewarm(w)
         \/ \E j \in Items : PressStart(j) \/ LeaseLapses(j) \/ BackoffPasses(j)
  PROVE  RowKnown(session, i, item'[i])
<1>. USE Typed
<1>1. RowKnown(session, i, item[i]) /\ item[i] \in ItemRow
  BY DEF SInv
<1>2. SUFFICES item'[i] = item[i] \/ Keeps(item[i], item'[i])
  BY <1>1, KeptKnown
<1>3. ASSUME NEW w \in Workers, Recover(w) \/ CommitClaim(w) \/ ClaimForPrewarm(w)
      PROVE  item'[i] = item[i] \/ Keeps(item[i], item'[i])
  <2>1. CASE Recover(w)
    <3>1. item'[i] = item[i] \/ item'[i] = RecoveredRow(item[i])
      BY <2>1 DEF Recover, RecoverExpiredLeases
    <3> QED
      BY <1>1, <3>1, UpdatesKeep
  <2>2. CASE CommitClaim(w)
    <3>1. item'[i] = item[i] \/ item'[i] = ClaimedRow(item[i], w)
      BY <2>2 DEF CommitClaim
    <3> QED
      BY <1>1, <3>1, UpdatesKeep
  <2>3. CASE ClaimForPrewarm(w)
    <3>1. item'[i] = item[i] \/ item'[i] = [item[i] EXCEPT !.prewarm = TRUE]
      BY <2>3 DEF ClaimForPrewarm
    <3> QED
      BY <1>1, <3>1, UpdatesKeep
  <2> QED
    BY <1>3, <2>1, <2>2, <2>3
<1>4. ASSUME NEW j \in Items, PressStart(j) \/ LeaseLapses(j) \/ BackoffPasses(j)
      PROVE  item'[i] = item[i] \/ Keeps(item[i], item'[i])
  <2>1. CASE PressStart(j)
    <3>1. item'[i] = item[i] \/ item'[i] = ArmedRow(item[i])
      BY <2>1 DEF PressStart
    <3> QED
      BY <1>1, <3>1, UpdatesKeep
  <2>2. CASE LeaseLapses(j)
    <3>1. item'[i] = item[i] \/ item'[i] = [item[i] EXCEPT !.lease = "expired"]
      BY <2>2 DEF LeaseLapses, LeaseRunsOut
    <3> QED
      BY <1>1, <3>1, UpdatesKeep
  <2>3. CASE BackoffPasses(j)
    <3>1. item'[i] = item[i] \/ item'[i] = [item[i] EXCEPT !.backoff = FALSE]
      BY <2>3 DEF BackoffPasses, BackoffElapses
    <3> QED
      BY <1>1, <3>1, UpdatesKeep
  <2> QED
    BY <1>4, <2>1, <2>2, <2>3
<1> QED
  BY <1>3, <1>4

\* A session prepared ahead of time is attached to the item it is for.
LEMMA PrewarmRows ==
  ASSUME IInv, SInv, NEW w \in Workers, NEW i \in Items, PrewarmAttach(w)
  PROVE  RowKnown(session, i, item'[i])
<1>. USE Typed
<1>. DEFINE j == worker[w].item
            s == worker[w].session
<1>1. /\ j \in Items /\ s \in SessionIds /\ WorkerKnown(session, worker[w])
  BY Names DEF PrewarmAttach, At, IInv, SInv, MemoryOK, WithSession
<1>2. RowKnown(session, i, item[i]) /\ item[i] \in ItemRow
  BY DEF SInv
<1>3. CASE item'[i] = item[i]
  BY <1>2, <1>3
<1>4. CASE item'[i] # item[i]
  <2>1. /\ i = j /\ item'[i] = [item[i] EXCEPT !.session = s]
        /\ item[i].status \in {"awaiting_candidate", "pending"}
    BY <1>1, <1>4 DEF PrewarmAttach, PreparedRow
  <2>2. item'[i].session = s /\ item'[i].status # "completed"
    BY <1>2, <2>1 DEF ItemRow
  <2>3. Known(session, s, CandidateOf[i])
    BY <1>1, <2>1, EntityAssumption DEF EntityAssumption, WorkerKnown
  <2> QED
    BY <2>2, <2>3 DEF RowKnown
<1> QED
  BY <1>3, <1>4

\* What recruiters write back, from copies read earlier.
LEMMA DeskRows ==
  ASSUME IInv, SInv, NEW r \in Requests, NEW i \in Items, DeskAction(r)
  PROVE  RowKnown(session, i, item'[i])
<1>. USE Typed
<1>. DEFINE j == desk[r].item
<1>1. RowKnown(session, i, item[i]) /\ item[i] \in ItemRow /\ RequestOK(r)
      /\ RequestKnown(session, desk[r])
  BY DEF SInv, IInv
<1>2. \A status \in {"absent", "deleted", "awaiting_candidate", "pending"} :
        RowKnown(session, i, NewRow(status))
  BY DEF RowKnown, NewRow
<1>3. ASSUME NEW op, NEW row, WriteItem(r, op, row), i = j => RowKnown(session, i, row)
      PROVE  RowKnown(session, i, item'[i])
  BY <1>1, <1>3 DEF WriteItem
<1>4. CASE CancelItem(r) \/ RetryItem(r)
  <2>1. desk[r].op \in {"cancel", "retry"}
    BY <1>4 DEF CancelItem, RetryItem, WriteItem
  <2>2. desk[r].row \in ItemRow /\ RowKnown(session, j, desk[r].row)
    BY <1>1, <2>1 DEF RequestKnown, DeskRow
  <2>3. /\ RowKnown(session, j, CancelledRow(desk[r].row))
        /\ RowKnown(session, j, RetriedRow(desk[r].row))
    BY <2>2, UpdatesKeep, KeptKnown
  <2> QED
    BY <1>3, <1>4, <2>3 DEF CancelItem, RetryItem
<1>5. CASE RemoveCandidate(r)
  BY <1>2, <1>3, <1>5 DEF RemoveCandidate
<1>6. CASE AddItem(r)
  BY <1>1, <1>2, <1>6 DEF AddItem
<1>7. CASE item' = item
  BY <1>1, <1>7
<1> QED
  BY <1>4, <1>5, <1>6, <1>7 DEF DeskAction, ReadItem, ReadForAdd, AddStatus, SetQueueStatus,
     ReadPlan, EditPlan, ApprovePlan, WritePlan, repoVars

-----------------------------------------------------------------------------
(* The candidates, the sessions, and the whole step.                       *)

\* Only mark_screened, after its report, shows a candidate as SCREENED.
LEMMA CandidatesKnown ==
  ASSUME IInv, SInv, NEW c \in Candidates, Next
  PROVE  CandidateKnown(session, c, candidate'[c])
<1>. USE Typed
<1>1. CandidateKnown(session, c, candidate[c])
  BY DEF SInv
<1>2. ASSUME NEW w \in Workers, MarkScreened(w)
      PROVE  CandidateKnown(session, c, candidate'[c])
  <2>1. Reported(session, worker[w].session, CandOf(w))
    BY <1>2 DEF MarkScreened, At, SInv, WorkerKnown, Screening, CandOf
  <2>2. \/ candidate'[c] = candidate[c]
        \/ c = CandOf(w)
    BY <1>2 DEF MarkScreened
  <2> QED
    BY <1>1, <2>1, <2>2 DEF CandidateKnown, Reported, Known
<1>3. CASE candidate'[c] = candidate[c] \/ candidate'[c] # "screened"
  BY <1>1, <1>3 DEF CandidateKnown
<1>4. ASSUME NEW w \in Workers, WorkerAction(w)
      PROVE  MarkScreened(w) \/ candidate'[c] = candidate[c] \/ candidate'[c] # "screened"
  <2>1. CASE MarkCandidate(w) \/ ReleaseCandidate(w) \/ ReleaseAgain(w)
    BY <2>1 DEF MarkCandidate, ReleaseCandidate, ReleaseAgain, ReleasedCandidate
  <2>2. CASE MarkScreened(w) \/ candidate' = candidate
    BY <2>2
  <2> QED
    BY <1>4, <2>1, <2>2
       DEF WorkerAction, Recover, LockNextItem, NothingToClaim, CommitClaim, CheckPlan,
           MarkInProgress, Prepare, AttachSession, StepRaises, Dispatch, DispatchFails,
           Heartbeat, PollOver, PollAgain, PollTimesOut, TransportEndsInterview, HangUp,
           Evaluate, Report, Complete, SettleRetry, SettleTerminal, ClaimForPrewarm,
           NothingToPrewarm, PrewarmPrepare, PrewarmGivesUp, PrewarmAttach
<1>5. ASSUME NEW r \in Requests, DeskAction(r)
      PROVE  candidate'[c] = candidate[c] \/ candidate'[c] # "screened"
  <2>1. CASE AddStatus(r)
    BY <2>1 DEF AddStatus
  <2>2. CASE candidate' = candidate
    BY <2>2
  <2> QED
    BY <1>5, <2>1, <2>2 DEF DeskAction, ReadItem, CancelItem, RetryItem, RemoveCandidate,
       WriteItem, ReadForAdd, AddItem, SetQueueStatus, ReadPlan, EditPlan, ApprovePlan,
       WritePlan, workerVars
<1>6. ASSUME \/ \E w \in Workers : Crash(w) \/ Restart(w)
             \/ \E i \in Items : PressStart(i) \/ LeaseLapses(i) \/ BackoffPasses(i)
             \/ \E s \in SessionIds : VoiceAgent(s)
      PROVE  candidate'[c] = candidate[c]
  BY <1>6 DEF Crash, Restart, PressStart, LeaseLapses, BackoffPasses, VoiceAgent, workerVars
<1> QED
  BY <1>2, <1>3, <1>4, <1>5, <1>6 DEF Next, WorkerMoves, WorkerDies, WorkerReturns

\* Sessions grow whatever happens.
LEMMA StepGrows ==
  ASSUME IInv, SInv, Next
  PROVE  Grows(session, session')
<1>1. SessionTypeOK
  BY DEF IInv, TypeOK
<1>2. ASSUME NEW w \in Workers, WorkerAction(w) PROVE Grows(session, session')
  <2>. DEFINE s == worker[w].session
  <2>1. CASE Prepare(w) \/ PrewarmPrepare(w) \/ Report(w)
    BY <2>1, TakingSteps
  <2>2. CASE Dispatch(w) \/ TransportEndsInterview(w) \/ HangUp(w) \/ Evaluate(w)
    <3>1. s \in SessionIds
      BY <2>2, Names DEF Dispatch, TransportEndsInterview, HangUp, Evaluate, At, IInv,
         MemoryOK, WithSession
    <3>2. OpenRoom(s) \/ CloseRoom(s) \/ EndInterview(s) \/ EvaluateInterview(s)
      BY <2>2 DEF Dispatch, TransportEndsInterview, HangUp, Evaluate
    <3> QED
      BY <1>1, <3>1, <3>2, SessionOpGrows
  <2>3. CASE session' = session
    BY <2>3, StillGrows
  <2> QED
    BY <1>2, <2>1, <2>2, <2>3
       DEF WorkerAction, Recover, LockNextItem, NothingToClaim, CommitClaim, CheckPlan,
           MarkInProgress, MarkCandidate, AttachSession, StepRaises, DispatchFails,
           Heartbeat, PollOver, PollAgain, PollTimesOut, MarkScreened, Complete,
           ReleaseCandidate, SettleRetry, ReleaseAgain, SettleTerminal, ClaimForPrewarm,
           NothingToPrewarm, PrewarmGivesUp, PrewarmAttach
<1>3. ASSUME NEW s \in SessionIds, VoiceAgent(s) PROVE Grows(session, session')
  BY <1>1, <1>3, SessionOpGrows DEF VoiceAgent
<1>4. ASSUME NEW r \in Requests, DeskAction(r) PROVE session' = session
  BY <1>4 DEF DeskAction, ReadItem, CancelItem, RetryItem, RemoveCandidate, WriteItem,
     ReadForAdd, AddItem, AddStatus, SetQueueStatus, ReadPlan, EditPlan, ApprovePlan,
     WritePlan
<1>5. ASSUME \/ \E w \in Workers : Crash(w) \/ Restart(w)
             \/ \E i \in Items : PressStart(i) \/ LeaseLapses(i) \/ BackoffPasses(i)
      PROVE  session' = session
  BY <1>5 DEF Crash, Restart, PressStart, LeaseLapses, BackoffPasses
<1> QED
  BY <1>2, <1>3, <1>4, <1>5, StillGrows DEF Next, WorkerMoves, WorkerDies, WorkerReturns

\* The rows, whoever wrote them.
LEMMA StepRows ==
  ASSUME IInv, SInv, Next, NEW i \in Items
  PROVE  RowKnown(session, i, item'[i])
<1>1. RowKnown(session, i, item[i])
  BY DEF SInv
<1>2. CASE item' = item
  BY <1>1, <1>2
<1>3. ASSUME NEW w \in Workers, WorkerAction(w) PROVE RowKnown(session, i, item'[i])
  BY <1>2, <1>3, HolderRows, TableRows, PrewarmRows
     DEF WorkerAction, LockNextItem, NothingToClaim, CheckPlan, MarkCandidate, Prepare,
         StepRaises, Dispatch, DispatchFails, PollOver, PollAgain, PollTimesOut,
         TransportEndsInterview, HangUp, Evaluate, Report, MarkScreened, ReleaseCandidate,
         ReleaseAgain, NothingToPrewarm, PrewarmPrepare, PrewarmGivesUp, repoVars
<1>4. ASSUME \/ \E w \in Workers : Crash(w) \/ Restart(w)
             \/ \E s \in SessionIds : VoiceAgent(s)
      PROVE  item' = item
  BY <1>4 DEF Crash, Restart, VoiceAgent, repoVars
<1> QED
  BY <1>2, <1>3, <1>4, TableRows, DeskRows DEF Next, WorkerMoves, WorkerDies, WorkerReturns

\* The workers.
LEMMA StepWorkers ==
  ASSUME IInv, SInv, Next, NEW v \in Workers
  PROVE  WorkerKnown(session', worker'[v])
<1>. USE Typed
<1>1. Grows(session, session') /\ WorkerKnown(session, worker[v])
  BY StepGrows DEF SInv
<1>2. CASE worker'[v] = worker[v]
  BY <1>1, <1>2, FactsLast
<1>3. ASSUME NEW w \in Workers, WorkerAction(w) \/ Crash(w) \/ Restart(w)
      PROVE  WorkerKnown(session', worker'[v])
  <2>1. \/ /\ worker' = [worker EXCEPT ![w] = worker'[w]]
           /\ Carries(worker[w], worker'[w]) \/ Empties(worker'[w])
        \/ /\ worker' = [worker EXCEPT ![w] = worker'[w]]
           /\ WorkerKnown(session', worker'[w])
    BY <1>3, PlainSteps, TakingSteps DEF WorkerAction
  <2>2. CASE v = w
    <3>1. CASE Carries(worker[w], worker'[w]) \/ Empties(worker'[w])
      BY <1>1, <2>2, <3>1, CarriedKnown, FactsLast
    <3> QED
      BY <2>1, <2>2, <3>1
  <2>3. CASE v # w
    BY <1>2, <2>1, <2>3
  <2> QED
    BY <2>2, <2>3
<1>4. ASSUME NEW r \in Requests, DeskAction(r) PROVE worker' = worker
  BY <1>4 DEF DeskAction, ReadItem, CancelItem, RetryItem, RemoveCandidate, WriteItem,
     ReadForAdd, AddItem, AddStatus, SetQueueStatus, ReadPlan, EditPlan, ApprovePlan,
     WritePlan, workerVars
<1>5. ASSUME NEW i \in Items, PressStart(i) \/ LeaseLapses(i) \/ BackoffPasses(i)
      PROVE  worker' = worker
  BY <1>5 DEF PressStart, LeaseLapses, BackoffPasses, workerVars
<1>6. ASSUME NEW s \in SessionIds, VoiceAgent(s) PROVE worker' = worker
  BY <1>6 DEF VoiceAgent, workerVars
<1> QED
  BY <1>2, <1>3, <1>4, <1>5, <1>6 DEF Next, WorkerMoves, WorkerDies, WorkerReturns

\* The copies in open requests.
LEMMA StepRequests ==
  ASSUME IInv, SInv, Next, NEW x \in Requests
  PROVE  RequestKnown(session', desk'[x])
<1>. USE Typed
<1>1. Grows(session, session') /\ RequestKnown(session, desk[x])
  BY StepGrows DEF SInv
<1>2. SUFFICES RequestKnown(session, desk'[x])
  BY <1>1, FactsLast
<1>3. CASE desk'[x] = desk[x] \/ desk'[x].op \notin {"cancel", "retry"}
  BY <1>1, <1>3 DEF RequestKnown
<1>4. ASSUME NEW r \in Requests, NEW i \in Items, NEW op \in {"cancel", "retry", "remove"},
             ReadItem(r, i, op)
      PROVE  RequestKnown(session, desk'[x])
  <2>. DEFINE d == [desk[r] EXCEPT !.op = op, !.item = i, !.row = item[i]]
  <2>1. desk' = [desk EXCEPT ![r] = d]
    BY <1>4 DEF ReadItem
  <2>2. d.item = i /\ d.row = item[i]
    BY DEF DeskRow
  <2>. HIDE DEF d
  <2>3. RequestKnown(session, d)
    BY <2>2 DEF RequestKnown, SInv
  <2> QED
    BY <1>1, <2>1, <2>3
<1>5. ASSUME NEW r \in Requests, DoneWith(r)
      PROVE  desk'[x] = desk[x] \/ desk'[x].op \notin {"cancel", "retry"}
  BY <1>5 DEF DoneWith, NoRequest
<1>6. ASSUME NEW r \in Requests, NEW op \in {"add", "add_status", "edit", "approve"},
             NEW d, desk' = [desk EXCEPT ![r] = d], d.op = op
      PROVE  desk'[x] = desk[x] \/ desk'[x].op \notin {"cancel", "retry"}
  BY <1>6
<1>7. ASSUME NEW r \in Requests, \E i \in Items : ReadForAdd(r, i)
      PROVE  desk'[x] = desk[x] \/ desk'[x].op \notin {"cancel", "retry"}
  <2>1. PICK i \in Items : ReadForAdd(r, i)
    BY <1>7
  <2>. DEFINE d == [desk[r] EXCEPT !.op = "add", !.item = i, !.candidate = CandidateOf[i],
                                   !.status = candidate[CandidateOf[i]]]
  <2>2. desk' = [desk EXCEPT ![r] = d] /\ d.op = "add"
    BY <2>1 DEF ReadForAdd, DeskRow
  <2>. HIDE DEF d
  <2> QED
    BY <1>6, <2>2
<1>8. ASSUME NEW r \in Requests, AddItem(r)
      PROVE  desk'[x] = desk[x] \/ desk'[x].op \notin {"cancel", "retry"}
  <2>. DEFINE d == [desk[r] EXCEPT !.op = "add_status"]
  <2>1. DoneWith(r) \/ desk' = [desk EXCEPT ![r] = d]
    BY <1>8 DEF AddItem
  <2>2. d.op = "add_status"
    BY DEF DeskRow
  <2>. HIDE DEF d
  <2> QED
    BY <1>5, <1>6, <2>1, <2>2
<1>9. ASSUME NEW r \in Requests, NEW c \in Candidates, NEW op \in {"edit", "approve"},
             ReadPlan(r, c, op)
      PROVE  desk'[x] = desk[x] \/ desk'[x].op \notin {"cancel", "retry"}
  <2>. DEFINE d == [desk[r] EXCEPT !.op = op, !.candidate = c, !.version = plan[c].version]
  <2>1. desk' = [desk EXCEPT ![r] = d] /\ d.op = op
    BY <1>9 DEF ReadPlan, DeskRow
  <2>. HIDE DEF d
  <2> QED
    BY <1>6, <2>1
<1>10. ASSUME NEW r \in Requests,
              \/ CancelItem(r) \/ RetryItem(r) \/ RemoveCandidate(r) \/ AddStatus(r)
              \/ EditPlan(r) \/ ApprovePlan(r)
       PROVE  DoneWith(r)
  BY <1>10 DEF CancelItem, RetryItem, RemoveCandidate, WriteItem, AddStatus, EditPlan,
     ApprovePlan, WritePlan
<1>11. ASSUME NEW r \in Requests, DeskAction(r) PROVE RequestKnown(session, desk'[x])
  <2>1. CASE \E q \in Queues, status \in {"running", "paused"} : SetQueueStatus(r, q, status)
    BY <1>3, <2>1 DEF SetQueueStatus
  <2> QED
    BY <1>3, <1>4, <1>5, <1>7, <1>8, <1>9, <1>10, <1>11, <2>1 DEF DeskAction
<1>12. ASSUME NEW i \in Items, PressStart(i) \/ LeaseLapses(i) \/ BackoffPasses(i)
       PROVE  desk' = desk
  BY <1>12 DEF PressStart, LeaseLapses, BackoffPasses, deskVars
<1>13. ASSUME \/ \E w \in Workers : WorkerMoves(w) \/ WorkerDies(w) \/ WorkerReturns(w)
              \/ \E s \in SessionIds : VoiceAgent(s)
       PROVE  desk' = desk
  BY <1>13 DEF WorkerMoves, WorkerDies, WorkerReturns, VoiceAgent, deskVars
<1> QED
  BY <1>3, <1>11, <1>12, <1>13 DEF Next

-----------------------------------------------------------------------------
(* The theorems.                                                           *)

\* Nothing is claimed of sessions at the start.
LEMMA InitKnown == Init => SInv
<1> SUFFICES ASSUME Init PROVE SInv
  OBVIOUS
<1>1. \A i \in Items : RowKnown(session, i, item[i])
  BY DEF Init, RowKnown, NewRow
<1>2. \A w \in Workers : WorkerKnown(session, worker[w])
  BY DEF Init, WorkerKnown, WorkerAt, Screening
<1>3. \A r \in Requests : RequestKnown(session, desk[r])
  BY DEF Init, RequestKnown, NoRequest
<1>4. \A c \in Candidates : CandidateKnown(session, c, candidate[c])
  BY DEF Init, CandidateKnown
<1> QED
  BY <1>1, <1>2, <1>3, <1>4 DEF SInv

\* Every step keeps what is known.
LEMMA NextKnown == IInv /\ SInv /\ [Next]_vars => SInv'
<1>1. ASSUME IInv, SInv, Next PROVE SInv'
  <2>1. Grows(session, session')
    BY <1>1, StepGrows
  <2>2. \A i \in Items : RowKnown(session', i, item'[i])
    BY <1>1, <2>1, StepRows, FactsLast
  <2>3. \A w \in Workers : WorkerKnown(session', worker'[w])
    BY <1>1, StepWorkers
  <2>4. \A r \in Requests : RequestKnown(session', desk'[r])
    BY <1>1, StepRequests
  <2>5. \A c \in Candidates : CandidateKnown(session', c, candidate'[c])
    BY <1>1, <2>1, CandidatesKnown, FactsLast
  <2>6. SInv' = (/\ \A i \in Items : RowKnown(session', i, item'[i])
                 /\ \A w \in Workers : WorkerKnown(session', worker'[w])
                 /\ \A r \in Requests : RequestKnown(session', desk'[r])
                 /\ \A c \in Candidates : CandidateKnown(session', c, candidate'[c]))
    BY DEF SInv, RowKnown, WorkerKnown, RequestKnown, CandidateKnown, Known, Reported
  <2> QED
    BY <2>2, <2>3, <2>4, <2>5, <2>6
<1>2. ASSUME SInv, UNCHANGED vars PROVE SInv'
  BY <1>2 DEF vars, repoVars, workerVars, deskVars, SInv, RowKnown, WorkerKnown,
     RequestKnown, CandidateKnown, Known, Reported
<1> QED
  BY <1>1, <1>2

\* Rows, workers and requests only ever name sessions of their own candidate.
THEOREM SessionsKnown == Spec => []SInv
<1>1. Init => SInv
  BY InitKnown
<1>2. IInv /\ SInv /\ [Next]_vars => SInv'
  BY NextKnown
<1> QED
  BY <1>1, <1>2, Invariance, PTL DEF Spec

\* A COMPLETED item has a report about its own candidate on file, whatever
\* crashes, lapsed leases and late writes of recruiters did before.
THEOREM CompletedReported == Spec => []CompletedHasReport
<1>1. SInv => CompletedHasReport
  BY DEF SInv, RowKnown, Reported, Known, CompletedHasReport
<1> QED
  BY <1>1, SessionsKnown, PTL

\* A candidate is shown as SCREENED only with a report about them on file,
\* even when the worker that wrote the status had lost its lease.
THEOREM ScreenedReported == Spec => []ScreenedHasReport
<1>1. SInv => ScreenedHasReport
  BY DEF SInv, CandidateKnown, Reported, Known, ScreenedHasReport
<1> QED
  BY <1>1, SessionsKnown, PTL

-----------------------------------------------------------------------------
(* With punctual heartbeats, the worker at a call is the one that owns it. *)

\* The hypotheses under which the call is the worker's own: a lease outlasts
\* every gap between heartbeats, and no recruiter writes rows.
Undisturbed == PunctualHeartbeats /\ Requests = {}

\* The lease of the item in hand is held, and has not run out.
Held(w) ==
    worker[w].pc \in RunStep \union SettleStep =>
        /\ HoldsLease(w, worker[w].item)
        /\ item[worker[w].item].lease = "live"

HeldInv == \A w \in Workers : Held(w)

\* A row held by a worker that does not move stays as it is.
LEMMA HeldRowStays ==
  ASSUME IInv, HeldInv, Undisturbed, Next, NEW v \in Workers, worker'[v] = worker[v],
         worker[v].pc \in RunStep \union SettleStep
  PROVE  item'[worker[v].item] = item[worker[v].item]
<1>. DEFINE i == worker[v].item
<1>1. i \in Items /\ HoldsLease(v, i) /\ item[i].lease = "live"
  BY Names DEF IInv, MemoryOK, HeldInv, Held
<1>2. ~LeaseLapses(i)
  <2>1. LeaseInUse(i)
    BY <1>1 DEF LeaseInUse
  <2> QED
    BY <2>1 DEF LeaseLapses, Undisturbed
<1> QED
  BY <1>1, <1>2, NextWarranted DEF Warranted, HoldsLease, Undisturbed

\* The guarded updates of the worker that moves find its lease held.
LEMMA HolderHeld ==
  ASSUME IInv, HeldInv, NEW w \in Workers,
         MarkInProgress(w) \/ AttachSession(w) \/ Heartbeat(w) \/ Complete(w)
           \/ SettleRetry(w) \/ SettleTerminal(w)
  PROVE  Held(w)'
<1>. USE Typed
<1>. DEFINE i == worker[w].item
<1>1. worker[w].pc \in RunStep \union SettleStep
  BY Names DEF MarkInProgress, AttachSession, Heartbeat, Complete, SettleRetry,
     SettleTerminal, At
<1>2. i \in Items /\ HoldsLease(w, i) /\ item[i].lease = "live" /\ item[i] \in ItemRow
  BY <1>1, Names DEF IInv, MemoryOK, HeldInv, Held
<1>3. ~GuardFails(w)
  BY <1>2 DEF GuardFails
<1>4. ASSUME NEW row, NEW pc, GuardedUpdate(w, row, pc), InFlight(row),
             row.claimedBy = w, row.lease = "live", pc # "idle"
      PROVE  Held(w)'
  <2>1. worker'[w].item = i /\ item'[i] = row
    BY <1>2, <1>4 DEF GuardedUpdate, GoTo, WorkerRow
  <2> QED
    BY <1>4, <2>1 DEF Held, HoldsLease, InFlight
<1>5. CASE MarkInProgress(w)
  <2>. DEFINE row == [item[i] EXCEPT !.status = "in_progress"]
  <2>1. InFlight(row) /\ row.claimedBy = w /\ row.lease = "live"
    BY <1>2 DEF HoldsLease, ItemRow, InFlight, InFlightStatus
  <2> QED
    BY <1>3, <1>4, <1>5, <2>1 DEF MarkInProgress
<1>6. CASE AttachSession(w)
  <2>. DEFINE row == [item[i] EXCEPT !.session = worker[w].session]
  <2>1. InFlight(row) /\ row.claimedBy = w /\ row.lease = "live"
    BY <1>2 DEF HoldsLease, ItemRow, InFlight
  <2> QED
    BY <1>3, <1>4, <1>6, <2>1 DEF AttachSession
<1>7. CASE Heartbeat(w)
  <2>. DEFINE row == [item[i] EXCEPT !.lease = "live"]
  <2>1. InFlight(row) /\ row.claimedBy = w /\ row.lease = "live"
    BY <1>2 DEF HoldsLease, ItemRow, InFlight
  <2> QED
    BY <1>3, <1>4, <1>7, <2>1 DEF Heartbeat
<1>8. CASE Complete(w) \/ SettleRetry(w) \/ SettleTerminal(w)
  <2>1. EndPass(w)
    BY <1>3, <1>8 DEF Complete, SettleRetry, SettleTerminal, GuardedUpdate
  <2>2. worker'[w].pc = "idle"
    BY <2>1, EndPassOK
  <2> QED
    BY <2>2, Names DEF Held
<1> QED
  BY <1>5, <1>6, <1>7, <1>8

\* A worker whose pass goes on with the same row, or is over.
LEMMA SameRowHeld ==
  ASSUME IInv, HeldInv, NEW w \in Workers, item' = item,
         \/ worker'[w].pc \notin RunStep \union SettleStep
         \/ /\ worker'[w].item = worker[w].item
            /\ worker[w].pc \in RunStep \union SettleStep
  PROVE  Held(w)'
BY DEF HeldInv, Held, HoldsLease, InFlight

\* The steps of a worker that write no row, but for the claim.
LEMMA LocalHeld ==
  ASSUME IInv, HeldInv, NEW w \in Workers,
         \/ LockNextItem(w) \/ NothingToClaim(w) \/ CheckPlan(w) \/ MarkCandidate(w)
         \/ Prepare(w) \/ StepRaises(w) \/ Dispatch(w) \/ DispatchFails(w)
         \/ PollOver(w) \/ PollAgain(w) \/ PollTimesOut(w)
         \/ TransportEndsInterview(w) \/ HangUp(w) \/ Evaluate(w) \/ Report(w)
         \/ MarkScreened(w) \/ ReleaseCandidate(w) \/ ReleaseAgain(w)
         \/ NothingToPrewarm(w) \/ PrewarmPrepare(w) \/ PrewarmGivesUp(w)
         \/ Crash(w) \/ Restart(w)
  PROVE  Held(w)'
<1>. USE Typed
<1>1. item' = item
  BY DEF LockNextItem, NothingToClaim, CheckPlan, MarkCandidate, Prepare, StepRaises,
     Dispatch, DispatchFails, PollOver, PollAgain, PollTimesOut, TransportEndsInterview,
     HangUp, Evaluate, Report, MarkScreened, ReleaseCandidate, ReleaseAgain,
     NothingToPrewarm, PrewarmPrepare, PrewarmGivesUp, Crash, Restart, repoVars
<1>2. \A pc : GoTo(w, pc) => worker'[w].pc = pc /\ worker'[w].item = worker[w].item
  BY DEF GoTo, WorkerRow
<1>3. ASSUME EndPass(w) \/ Crash(w) PROVE Held(w)'
  <2>1. worker'[w].pc \in {"idle", "dead"}
    BY <1>3 DEF EndPass, Crash, WorkerAt
  <2> QED
    BY <2>1, Names DEF Held
<1>4. ASSUME Raise(w), worker[w].pc \in RunStep \union SettleStep PROVE Held(w)'
  <2>1. worker'[w].pc = "dead" \/ worker'[w].item = worker[w].item
    BY <1>4 DEF Raise, WorkerAt, WorkerRow
  <2> QED
    BY <1>1, <1>4, <2>1, Names, SameRowHeld
<1>5. CASE CheckPlan(w) \/ MarkCandidate(w) \/ Dispatch(w) \/ PollOver(w)
             \/ TransportEndsInterview(w) \/ HangUp(w) \/ Evaluate(w) \/ Report(w)
             \/ MarkScreened(w) \/ ReleaseCandidate(w) \/ ReleaseAgain(w)
  <2>1. worker[w].pc \in RunStep \union SettleStep /\ \E pc : GoTo(w, pc)
    BY <1>5, Names DEF CheckPlan, MarkCandidate, Dispatch, PollOver, TransportEndsInterview,
       HangUp, Evaluate, Report, MarkScreened, ReleaseCandidate, ReleaseAgain, At
  <2> QED
    BY <1>1, <1>2, <2>1, SameRowHeld
<1>6. CASE Prepare(w) \/ DispatchFails(w) \/ PollAgain(w) \/ PollTimesOut(w)
  <2>1. worker[w].pc \in RunStep \union SettleStep
    BY <1>6, Names DEF Prepare, DispatchFails, PollAgain, PollTimesOut, At
  <2>2. worker'[w].item = worker[w].item
    BY <1>6 DEF Prepare, DispatchFails, PollAgain, PollTimesOut, WorkerRow
  <2> QED
    BY <1>1, <2>1, <2>2, SameRowHeld
<1>7. CASE StepRaises(w)
  <2>1. worker[w].pc \in RunStep \union SettleStep
    BY <1>7, Names DEF StepRaises
  <2> QED
    BY <1>4, <1>7, <2>1 DEF StepRaises
<1>8. CASE NothingToClaim(w)
  <2>1. worker'[w].pc = "prewarm"
    BY <1>2, <1>8 DEF NothingToClaim
  <2> QED
    BY <2>1, Names DEF Held
<1>9. CASE LockNextItem(w) \/ PrewarmPrepare(w)
  <2>1. worker'[w].pc \in {"claiming", "prewarm_attach"}
    BY <1>9 DEF LockNextItem, PrewarmPrepare, WorkerRow
  <2> QED
    BY <2>1, Names DEF Held
<1>10. CASE NothingToPrewarm(w) \/ PrewarmGivesUp(w) \/ Restart(w) \/ Crash(w)
  BY <1>3, <1>10 DEF NothingToPrewarm, PrewarmGivesUp, Restart
<1> QED
  BY <1>5, <1>6, <1>7, <1>8, <1>9, <1>10

\* The other statements on rows; a claim takes the lease it will hold.
LEMMA TableHeld ==
  ASSUME IInv, NEW w \in Workers,
         Recover(w) \/ CommitClaim(w) \/ ClaimForPrewarm(w) \/ PrewarmAttach(w)
  PROVE  Held(w)'
<1>. USE Typed
<1>1. CASE CommitClaim(w)
  <2>. DEFINE i == worker[w].item
  <2>1. i \in Items /\ item[i] \in ItemRow
    BY <1>1, Names DEF IInv, MemoryOK, CommitClaim, At
  <2>2. worker'[w].item = i /\ item'[i] = ClaimedRow(item[i], w)
    BY <1>1, <2>1 DEF CommitClaim, WorkerRow
  <2>3. /\ ClaimedRow(item[i], w).status = "claimed"
        /\ ClaimedRow(item[i], w).claimedBy = w
        /\ ClaimedRow(item[i], w).lease = "live"
    BY <2>1 DEF ClaimedRow, ItemRow
  <2> QED
    BY <2>2, <2>3 DEF Held, HoldsLease, InFlight, InFlightStatus
<1>2. CASE Recover(w) \/ ClaimForPrewarm(w) \/ PrewarmAttach(w)
  <2>1. worker'[w].pc \in {"claim", "prewarm_prepare", "idle"}
    BY <1>2 DEF Recover, GoTo, ClaimForPrewarm, PrewarmAttach, EndPass, WorkerAt, WorkerRow
  <2> QED
    BY <2>1, Names DEF Held
<1> QED
  BY <1>1, <1>2

\* Nobody moves a worker but itself.
LEMMA OneMoves ==
  ASSUME IInv, SInv, Next, Requests = {}
  PROVE  \/ worker' = worker
         \/ \E w \in Workers : /\ WorkerAction(w) \/ Crash(w) \/ Restart(w)
                               /\ \A v \in Workers \ {w} : worker'[v] = worker[v]
<1>. USE Typed
<1>1. ASSUME NEW w \in Workers, WorkerAction(w) \/ Crash(w) \/ Restart(w)
      PROVE  \A v \in Workers \ {w} : worker'[v] = worker[v]
  BY <1>1, PlainSteps, TakingSteps DEF WorkerAction
<1>2. ASSUME \/ \E i \in Items : PressStart(i) \/ LeaseLapses(i) \/ BackoffPasses(i)
             \/ \E s \in SessionIds : VoiceAgent(s)
      PROVE  worker' = worker
  BY <1>2 DEF PressStart, LeaseLapses, BackoffPasses, VoiceAgent, workerVars
<1> QED
  BY <1>1, <1>2 DEF Next, WorkerMoves, WorkerDies, WorkerReturns

\* Every step keeps what is held.
LEMMA NextHeld ==
  ASSUME IInv, SInv, HeldInv, Undisturbed, [Next]_vars
  PROVE  HeldInv'
<1>1. CASE UNCHANGED vars
  BY <1>1 DEF vars, repoVars, workerVars, HeldInv, Held, HoldsLease, InFlight
<1>2. CASE Next
  <2>1. ASSUME NEW v \in Workers, worker'[v] = worker[v] PROVE Held(v)'
    BY <1>2, <2>1, HeldRowStays DEF HeldInv, Held, HoldsLease, InFlight
  <2>2. ASSUME NEW w \in Workers, WorkerAction(w) \/ Crash(w) \/ Restart(w)
        PROVE  Held(w)'
    BY <2>2, HolderHeld, LocalHeld, TableHeld DEF WorkerAction
  <2> QED
    BY <1>2, <2>1, <2>2, OneMoves DEF HeldInv, Undisturbed
<1> QED
  BY <1>1, <1>2

-----------------------------------------------------------------------------
(* The candidate at the other end.                                         *)

\* No candidate has items in two queues, or two in one.
OneItemEach == \A i, j \in Items : CandidateOf[i] = CandidateOf[j] => i = j

\* From the moment it marks the candidate until it lets go of them.
ShownStep == {"prepare", "attach", "dispatch"} \union CallStep

Shown(w) == worker[w].pc \in ShownStep => candidate[CandOf(w)] = "screening_in_progress"

ShownInv == \A w \in Workers : Shown(w)

\* Two workers that are busy with an attempt are busy with two candidates.
LEMMA ApartFromEachOther ==
  ASSUME IInv, HeldInv, OneItemEach, NEW v \in Workers, NEW w \in Workers, v # w,
         worker[v].pc \in RunStep \union SettleStep,
         worker[w].pc \in RunStep \union SettleStep
  PROVE  CandOf(v) # CandOf(w)
<1>1. /\ worker[v].item \in Items /\ worker[w].item \in Items
      /\ HoldsLease(v, worker[v].item) /\ HoldsLease(w, worker[w].item)
  BY Names DEF IInv, MemoryOK, HeldInv, Held
<1>2. worker[v].item # worker[w].item
  BY <1>1 DEF HoldsLease
<1> QED
  BY <1>1, <1>2 DEF CandOf, OneItemEach

\* The candidate of a worker that does not move is left alone.
LEMMA CandidateStays ==
  ASSUME IInv, HeldInv, OneItemEach, Next, Requests = {},
         NEW v \in Workers, worker[v].pc \in RunStep \union SettleStep,
         NEW w \in Workers, w # v, WorkerAction(w)
  PROVE  candidate'[CandOf(v)] = candidate[CandOf(v)]
<1>. USE Typed
<1>1. CASE MarkCandidate(w) \/ MarkScreened(w) \/ ReleaseCandidate(w) \/ ReleaseAgain(w)
  <2>1. worker[w].pc \in RunStep \union SettleStep
    BY <1>1, Names DEF MarkCandidate, MarkScreened, ReleaseCandidate, ReleaseAgain, At
  <2>2. CandOf(v) # CandOf(w)
    BY <2>1, ApartFromEachOther
  <2>3. \E status : candidate' = [candidate EXCEPT ![CandOf(w)] = status]
    <3>1. CASE MarkCandidate(w) \/ MarkScreened(w)
      BY <1>1, <3>1 DEF MarkCandidate, MarkScreened
    <3>2. CASE ReleaseCandidate(w) \/ ReleaseAgain(w)
      <4>1. ReleasedCandidate(CandOf(w))
        BY <3>2 DEF ReleaseCandidate, ReleaseAgain
      <4> QED
        BY <4>1 DEF ReleasedCandidate
    <3> QED
      BY <1>1, <3>1, <3>2
  <2>4. CandOf(v) \in Candidates
    <3>1. worker[v].pc \in Busy
      BY Names
    <3>2. worker[v].item \in Items
      BY <3>1 DEF IInv, MemoryOK
    <3> QED
      BY <3>2, RepositoryAssumption DEF CandOf
  <2> QED
    BY <2>2, <2>3, <2>4
<1>2. CASE candidate' = candidate
  BY <1>2
<1> QED
  BY <1>1, <1>2
     DEF WorkerAction, Recover, LockNextItem, NothingToClaim, CommitClaim, CheckPlan,
         MarkInProgress, Prepare, AttachSession, StepRaises, Dispatch, DispatchFails,
         Heartbeat, PollOver, PollAgain, PollTimesOut, TransportEndsInterview, HangUp,
         Evaluate, Report, Complete, SettleRetry, SettleTerminal, ClaimForPrewarm,
         NothingToPrewarm, PrewarmPrepare, PrewarmGivesUp, PrewarmAttach

\* A worker comes to the steps of a call by marking the candidate first.
LEMMA MoverShown ==
  ASSUME IInv, HeldInv, ShownInv, NEW w \in Workers, WorkerAction(w)
  PROVE  Shown(w)'
<1>. USE Typed
<1>1. SUFFICES ASSUME worker'[w].pc \in ShownStep
               PROVE  candidate'[CandidateOf[worker'[w].item]] = "screening_in_progress"
  BY DEF Shown, CandOf
<1>2. worker'[w].pc \in {"prepare", "attach", "dispatch", "heartbeat", "poll",
                         "end_interview", "hang_up"}
  BY <1>1 DEF ShownStep, CallStep
<1>3. \A pc : GoTo(w, pc) => worker'[w].pc = pc /\ worker'[w].item = worker[w].item
  BY DEF GoTo, WorkerRow
<1>4. ~(Raise(w) \/ Abandon(w) \/ EndPass(w) \/ GuardFails(w))
  <2>1. Raise(w) => worker'[w].pc \in {"release", "dead"}
    BY DEF Raise, WorkerAt, WorkerRow
  <2>2. Abandon(w) \/ EndPass(w) => worker'[w].pc \in {"idle", "dead"}
    BY DEF Abandon, EndPass, WorkerAt
  <2>3. GuardFails(w) => Raise(w) \/ Abandon(w)
    BY DEF GuardFails
  <2>4. ~Raise(w) /\ ~Abandon(w) /\ ~EndPass(w)
    BY <1>2, <2>1, <2>2
  <2> QED
    BY <2>3, <2>4
<1>5. CASE MarkCandidate(w)
  <2>1. CandOf(w) \in Candidates
    <3>1. worker[w].pc \in Busy
      BY <1>5, Names DEF MarkCandidate, At
    <3>2. worker[w].item \in Items
      BY <3>1 DEF IInv, MemoryOK
    <3> QED
      BY <3>2, RepositoryAssumption DEF CandOf
  <2> QED
    BY <1>3, <1>5, <2>1 DEF MarkCandidate, CandOf
<1>6. ASSUME worker[w].pc \in ShownStep, candidate' = candidate,
             worker'[w].item = worker[w].item
      PROVE  candidate'[CandidateOf[worker'[w].item]] = "screening_in_progress"
  BY <1>6 DEF ShownInv, Shown, CandOf
<1>7. CASE Dispatch(w) \/ TransportEndsInterview(w)
  BY <1>3, <1>6, <1>7 DEF Dispatch, TransportEndsInterview, At, ShownStep, CallStep
<1>8. CASE Prepare(w) \/ PollAgain(w) \/ PollTimesOut(w)
  <2>1. worker'[w].item = worker[w].item
    BY <1>8 DEF Prepare, PollAgain, PollTimesOut, WorkerRow
  <2> QED
    BY <1>6, <1>8, <2>1 DEF Prepare, PollAgain, PollTimesOut, At, ShownStep, CallStep
<1>9. CASE AttachSession(w) \/ Heartbeat(w)
  <2>1. \E pc : GoTo(w, pc)
    BY <1>4, <1>9 DEF AttachSession, Heartbeat, GuardedUpdate
  <2> QED
    BY <1>3, <1>6, <1>9, <2>1 DEF AttachSession, Heartbeat, At, ShownStep, CallStep
<1>10. CASE MarkInProgress(w) \/ Complete(w) \/ SettleRetry(w) \/ SettleTerminal(w)
  <2>1. \E row : \E pc \in {"mark_candidate", "idle"} : GuardedUpdate(w, row, pc)
    BY <1>4, <1>10, Zenon DEF MarkInProgress, Complete, SettleRetry, SettleTerminal
  <2> QED
    BY <1>2, <1>3, <1>4, <2>1 DEF GuardedUpdate
<1>11. CASE Recover(w) \/ NothingToClaim(w) \/ CheckPlan(w) \/ PollOver(w) \/ HangUp(w)
              \/ Evaluate(w) \/ Report(w) \/ MarkScreened(w) \/ ReleaseCandidate(w)
              \/ ReleaseAgain(w)
  <2>1. \E pc \in {"claim", "prewarm", "begin", "release_again", "evaluate", "release",
                   "report", "mark_screened", "complete", "settle", "settle_terminal"} :
          GoTo(w, pc)
    BY <1>11 DEF Recover, NothingToClaim, CheckPlan, PollOver, HangUp, Evaluate, Report,
       MarkScreened, ReleaseCandidate, ReleaseAgain
  <2> QED
    BY <1>2, <1>3, <2>1
<1>12. CASE LockNextItem(w) \/ CommitClaim(w) \/ DispatchFails(w) \/ ClaimForPrewarm(w)
              \/ PrewarmPrepare(w)
  <2>1. worker'[w].pc \in {"claiming", "check_plan", "release", "prewarm_prepare",
                           "prewarm_attach"}
    BY <1>12 DEF LockNextItem, CommitClaim, DispatchFails, ClaimForPrewarm, PrewarmPrepare,
       WorkerRow
  <2> QED
    BY <1>2, <2>1
<1>13. CASE StepRaises(w) \/ NothingToPrewarm(w) \/ PrewarmGivesUp(w) \/ PrewarmAttach(w)
  BY <1>4, <1>13 DEF StepRaises, NothingToPrewarm, PrewarmGivesUp, PrewarmAttach
<1> QED
  BY <1>5, <1>7, <1>8, <1>9, <1>10, <1>11, <1>12, <1>13 DEF WorkerAction

\* Every step keeps the candidate at the other end of a call shown as such.
LEMMA NextShown ==
  ASSUME IInv, SInv, HeldInv, ShownInv, Undisturbed, OneItemEach, [Next]_vars
  PROVE  ShownInv'
<1>. USE Typed
<1>1. CASE UNCHANGED vars
  BY <1>1 DEF vars, workerVars, ShownInv, Shown, CandOf
<1>2. ShownStep \subseteq RunStep \union SettleStep
  BY Names DEF ShownStep, CallStep
<1>3. ASSUME NEW v \in Workers, worker'[v] = worker[v],
             worker[v].pc \in ShownStep =>
               candidate'[CandOf(v)] = candidate[CandOf(v)]
      PROVE  Shown(v)'
  BY <1>3 DEF ShownInv, Shown, CandOf
<1>4. ASSUME NEW w \in Workers, WorkerAction(w), Next, NEW v \in Workers, worker'[v] = worker[v],
             v # w
      PROVE  Shown(v)'
  BY <1>2, <1>3, <1>4, CandidateStays DEF Undisturbed
<1>5. ASSUME NEW w \in Workers, Crash(w) \/ Restart(w)
      PROVE  candidate' = candidate /\ worker'[w].pc \notin ShownStep
  BY <1>5 DEF Crash, Restart, EndPass, WorkerAt, ShownStep, CallStep
<1>6. ASSUME Next, worker' = worker PROVE ShownInv' \/ \E w \in Workers : WorkerAction(w)
  <2>1. CASE candidate' = candidate
    BY <1>6, <2>1 DEF ShownInv, Shown, CandOf
  <2> QED
    BY <1>5, <1>6, <2>1
       DEF Next, WorkerMoves, WorkerDies, WorkerReturns, PressStart, LeaseLapses,
           BackoffPasses, VoiceAgent, workerVars, Undisturbed
<1>7. ASSUME NEW w \in Workers, WorkerAction(w), Next PROVE ShownInv'
  <2>1. \A v \in Workers \ {w} : worker'[v] = worker[v]
    BY <1>7, PlainSteps, TakingSteps DEF WorkerAction
  <2>2. \A v \in Workers \ {w} : Shown(v)'
    BY <1>4, <1>7, <2>1
  <2> QED
    BY <1>7, <2>2, MoverShown DEF ShownInv
<1>8. ASSUME NEW w \in Workers, Crash(w) \/ Restart(w),
             \A v \in Workers \ {w} : worker'[v] = worker[v]
      PROVE  ShownInv'
  BY <1>3, <1>5, <1>8 DEF ShownInv, Shown, CandOf
<1> QED
  BY <1>1, <1>6, <1>7, <1>8, OneMoves DEF Undisturbed

\* When leases outlast the gaps between heartbeats, every candidate has one
\* item, and no recruiter intervenes, two workers never have a call open to
\* the same candidate, however many workers there are and whichever die.
THEOREM OneCall ==
  ASSUME Undisturbed, OneItemEach
  PROVE  Spec => []OneCallPerCandidate
<1>1. Init => HeldInv
  <2>1. Init => \A w \in Workers : worker[w].pc = "idle"
    BY DEF Init, WorkerAt
  <2> QED
    BY <2>1, Names DEF HeldInv, Held
<1>2. IInv /\ SInv /\ HeldInv /\ [Next]_vars => HeldInv'
  BY NextHeld
<1>3. IInv /\ HeldInv => OneCallPerCandidate
  <2>1. CallStep \subseteq RunStep \union SettleStep
    BY Names DEF CallStep
  <2> QED
    BY <2>1, ApartFromEachOther DEF OneCallPerCandidate
<1> QED
  BY <1>1, <1>2, <1>3, Invariance, SessionsKnown, PTL DEF Spec

\* Under the same conditions a candidate to whom a call is open is shown as
\* being screened, which is what keeps their plan from being edited.
THEOREM CandidateShown ==
  ASSUME Undisturbed, OneItemEach
  PROVE  Spec => []CandidateShownInProgress
<1>1. Init => HeldInv /\ ShownInv
  <2>1. Init => \A w \in Workers : worker[w].pc = "idle"
    BY DEF Init, WorkerAt
  <2> QED
    BY <2>1, Names DEF HeldInv, Held, ShownInv, Shown, ShownStep, CallStep
<1>2. IInv /\ SInv /\ HeldInv /\ ShownInv /\ [Next]_vars => HeldInv' /\ ShownInv'
  BY NextHeld, NextShown
<1>3. ShownInv => CandidateShownInProgress
  BY DEF ShownInv, Shown, ShownStep, CandidateShownInProgress
<1> QED
  BY <1>1, <1>2, <1>3, Invariance, SessionsKnown, PTL DEF Spec

-----------------------------------------------------------------------------
(* A session waits, unopened, in one place only, until it is dispatched.   *)

Waiting(row) == row.status \in {"awaiting_candidate", "pending"}

\* The steps before a call at which a worker may hold a session.
Early == {"check_plan", "begin", "mark_candidate", "attach", "dispatch",
          "prewarm_attach"}

\* Nobody has begun the session, nor can the voice agent.
Sealed(S, s) == S[s].state = "ready" /\ ~S[s].room

RowFresh(i) ==
    Waiting(item[i]) /\ item[i].session # NoSession =>
        /\ Sealed(session, item[i].session)
        /\ \A w \in Workers : worker[w].session # item[i].session
        /\ \A j \in Items \ {i} : Waiting(item[j]) => item[j].session # item[i].session

WorkerFresh(w) ==
    worker[w].pc \in Early /\ worker[w].session # NoSession =>
        /\ Sealed(session, worker[w].session)
        /\ \A v \in Workers \ {w} : worker[v].session # worker[w].session

FreshInv ==
    /\ \A i \in Items : RowFresh(i)
    /\ \A w \in Workers : WorkerFresh(w)

\* The ways in which a step asks for nothing new: of a worker, a row, a session.
Passive(v) ==
    \/ worker'[v].session = NoSession
    \/ /\ worker'[v].session = worker[v].session
       /\ worker'[v].pc \in Early => worker[v].pc \in Early

Ages(row, new) ==
    Waiting(new) /\ new.session # NoSession => Waiting(row) /\ new.session = row.session

StaysSealed(s) ==
    \/ Sealed(session, s) => Sealed(session', s)
    \/ \E w \in Workers : worker[w].session = s /\ worker'[w].pc \notin Early

\* A step that asks for nothing new.
LEMMA PassiveStep ==
  ASSUME IInv, FreshInv, \A v \in Workers : Passive(v),
         \A i \in Items : Ages(item[i], item'[i]),
         \A s \in SessionIds : StaysSealed(s)
  PROVE  FreshInv'
<1>. USE Typed
<1>1. ASSUME NEW i \in Items, Waiting(item'[i]), item'[i].session # NoSession
      PROVE  /\ Sealed(session', item'[i].session)
             /\ \A w \in Workers : worker'[w].session # item'[i].session
             /\ \A j \in Items \ {i} : Waiting(item'[j]) => item'[j].session # item'[i].session
  <2>1. Waiting(item[i]) /\ item'[i].session = item[i].session /\ RowFresh(i)
    BY <1>1 DEF Ages, FreshInv
  <2>2. item[i].session \in SessionIds
    BY <1>1, <2>1 DEF ItemRow
  <2>3. Sealed(session', item[i].session)
    BY <1>1, <2>1, <2>2 DEF StaysSealed, RowFresh
  <2>4. \A w \in Workers : worker'[w].session # item[i].session
    BY <1>1, <2>1 DEF Passive, RowFresh
  <2>5. ASSUME NEW j \in Items \ {i}, Waiting(item'[j]) PROVE item'[j].session # item[i].session
    BY <1>1, <2>1, <2>5 DEF Ages, RowFresh
  <2> QED
    BY <2>1, <2>3, <2>4, <2>5
<1>2. ASSUME NEW v \in Workers, worker'[v].pc \in Early, worker'[v].session # NoSession
      PROVE  /\ Sealed(session', worker'[v].session)
             /\ \A u \in Workers \ {v} : worker'[u].session # worker'[v].session
  <2>1. /\ worker[v].pc \in Early /\ worker'[v].session = worker[v].session /\ WorkerFresh(v)
        /\ worker[v].session \in SessionIds
    BY <1>2 DEF Passive, FreshInv, WorkerRow
  <2>2. Sealed(session', worker[v].session)
    BY <1>2, <2>1 DEF StaysSealed, WorkerFresh
  <2>3. ASSUME NEW u \in Workers \ {v} PROVE worker'[u].session # worker[v].session
    BY <1>2, <2>1, <2>3 DEF Passive, WorkerFresh
  <2> QED
    BY <2>1, <2>2, <2>3
<1> QED
  BY <1>1, <1>2 DEF FreshInv, RowFresh, WorkerFresh, Sealed, Waiting

-----------------------------------------------------------------------------
(* The workers.                                                            *)

\* The steps of a worker that take no session.
LEMMA PassiveWorker ==
  ASSUME IInv, SInv, NEW w \in Workers,
         \/ Recover(w) \/ LockNextItem(w) \/ NothingToClaim(w) \/ CheckPlan(w)
         \/ MarkInProgress(w) \/ MarkCandidate(w) \/ AttachSession(w) \/ StepRaises(w)
         \/ Dispatch(w) \/ DispatchFails(w) \/ Heartbeat(w)
         \/ PollOver(w) \/ PollAgain(w) \/ PollTimesOut(w)
         \/ TransportEndsInterview(w) \/ HangUp(w) \/ Evaluate(w) \/ Complete(w)
         \/ ReleaseCandidate(w) \/ SettleRetry(w) \/ ReleaseAgain(w) \/ SettleTerminal(w)
         \/ ClaimForPrewarm(w) \/ NothingToPrewarm(w) \/ PrewarmGivesUp(w)
         \/ PrewarmAttach(w) \/ Crash(w) \/ Restart(w) \/ Report(w) \/ MarkScreened(w)
  PROVE  \A v \in Workers : Passive(v)
<1>. USE Typed
<1>1. /\ worker' = [worker EXCEPT ![w] = worker'[w]]
      /\ \/ worker'[w].session = NoSession
         \/ worker'[w].session = worker[w].session
  <2>1. CASE Report(w) \/ MarkScreened(w)
    BY <2>1 DEF Report, MarkScreened, GoTo, WorkerRow
  <2>2. CASE ~(Report(w) \/ MarkScreened(w))
    BY <2>2, PlainSteps DEF Carries, Empties
  <2> QED
    BY <2>1, <2>2
<1>2. worker'[w].pc \in Early => worker[w].pc \in Early \/ worker'[w].session = NoSession
  <2>1. CASE worker[w].pc \in Early
    BY <2>1
  <2>2. ASSUME NEW pc, GoTo(w, pc) PROVE worker'[w].pc = pc
    BY <2>2 DEF GoTo, WorkerRow
  <2>3. Raise(w) \/ Abandon(w) \/ EndPass(w) \/ GuardFails(w) => worker'[w].pc \notin Early
    <3>1. Raise(w) => worker'[w].pc \in {"release", "dead"}
      BY DEF Raise, WorkerAt, WorkerRow
    <3>2. Abandon(w) \/ EndPass(w) => worker'[w].pc \in {"idle", "dead"}
      BY DEF Abandon, EndPass, WorkerAt
    <3>3. Raise(w) \/ Abandon(w) \/ EndPass(w) => worker'[w].pc \notin Early
      BY <3>1, <3>2 DEF Early
    <3> QED
      BY <3>3 DEF GuardFails
  <2>4. CASE worker[w].pc \notin Early
    <3>1. ~(CheckPlan(w) \/ MarkInProgress(w) \/ MarkCandidate(w) \/ AttachSession(w)
              \/ Dispatch(w) \/ DispatchFails(w) \/ PrewarmAttach(w))
      BY <2>4 DEF CheckPlan, MarkInProgress, MarkCandidate, AttachSession, Dispatch,
         DispatchFails, PrewarmAttach, At, Early
    <3>2. CASE Recover(w) \/ NothingToClaim(w) \/ PollOver(w) \/ TransportEndsInterview(w)
                 \/ HangUp(w) \/ Evaluate(w) \/ ReleaseCandidate(w) \/ ReleaseAgain(w)
                 \/ Report(w) \/ MarkScreened(w)
      <4>1. \E pc : GoTo(w, pc) /\ pc \notin Early
        BY <3>2 DEF Recover, NothingToClaim, PollOver, TransportEndsInterview, HangUp, Evaluate,
           ReleaseCandidate, ReleaseAgain, Report, MarkScreened, Early
      <4> QED
        BY <2>2, <4>1
    <3>3. CASE StepRaises(w) \/ NothingToPrewarm(w) \/ PrewarmGivesUp(w) \/ Restart(w)
      BY <2>3, <3>3 DEF StepRaises, NothingToPrewarm, PrewarmGivesUp, Restart
    <3>4. CASE LockNextItem(w) \/ ClaimForPrewarm(w) \/ PollAgain(w) \/ PollTimesOut(w)
                 \/ Crash(w)
      <4>1. CASE LockNextItem(w) \/ ClaimForPrewarm(w)
        BY <4>1 DEF LockNextItem, ClaimForPrewarm, WorkerRow, Early
      <4>2. CASE PollAgain(w) \/ PollTimesOut(w)
        BY <4>2 DEF PollAgain, PollTimesOut, WorkerRow, Early
      <4>3. CASE Crash(w)
        BY <4>3 DEF Crash, WorkerAt, Early
      <4> QED
        BY <3>4, <4>1, <4>2, <4>3
    <3>5. CASE Heartbeat(w) \/ Complete(w) \/ SettleRetry(w) \/ SettleTerminal(w)
      <4>1. \E row : \E pc \in {"poll", "idle"} : GuardedUpdate(w, row, pc) \/ GuardFails(w)
        BY <3>5, Zenon DEF Heartbeat, Complete, SettleRetry, SettleTerminal
      <4> QED
        BY <2>2, <2>3, <4>1 DEF GuardedUpdate, Early
    <3> QED
      BY <3>1, <3>2, <3>3, <3>4, <3>5
  <2> QED
    BY <2>1, <2>4
<1> QED
  BY <1>1, <1>2 DEF Passive

-----------------------------------------------------------------------------
(* The rows.                                                               *)

\* The row updates that give a row no session.
LEMMA UpdatesAge ==
  ASSUME NEW row \in ItemRow
  PROVE  /\ Ages(row, row)
         /\ Ages(row, [row EXCEPT !.lease = "live"])
         /\ Ages(row, [row EXCEPT !.lease = "expired"])
         /\ Ages(row, [row EXCEPT !.backoff = FALSE])
         /\ Ages(row, [row EXCEPT !.prewarm = TRUE])
         /\ Ages(row, [row EXCEPT !.status = "in_progress"])
         /\ \A w : Ages(row, ClaimedRow(row, w))
         /\ Ages(row, ReleasedForRetry(row))
         /\ Ages(row, ReleasedToAwaitingCandidate(row))
         /\ \A status \in TerminalStatus : \A s : Ages(row, TerminalRow(row, status, s))
         /\ Ages(row, ArmedRow(row))
         /\ Ages(row, RecoveredRow(row))
         /\ InFlight(row) => \A s : Ages(row, [row EXCEPT !.session = s])
<1>. USE DEF ItemRow, Ages, Waiting
<1>1. /\ Ages(row, row)
      /\ Ages(row, [row EXCEPT !.lease = "live"])
      /\ Ages(row, [row EXCEPT !.lease = "expired"])
      /\ Ages(row, [row EXCEPT !.backoff = FALSE])
      /\ Ages(row, [row EXCEPT !.prewarm = TRUE])
      /\ Ages(row, [row EXCEPT !.status = "in_progress"])
  OBVIOUS
<1>2. \A w : Ages(row, ClaimedRow(row, w))
  BY DEF ClaimedRow
<1>3. Ages(row, ReleasedForRetry(row)) /\ Ages(row, ReleasedToAwaitingCandidate(row))
  BY DEF ReleasedForRetry, ReleasedToAwaitingCandidate
<1>4. \A status \in TerminalStatus : \A s : Ages(row, TerminalRow(row, status, s))
  BY DEF TerminalRow, TerminalStatus
<1>5. Ages(row, ArmedRow(row))
  BY DEF ArmedRow
<1>6. Ages(row, RecoveredRow(row))
  BY DEF RecoveredRow
<1>7. InFlight(row) => \A s : Ages(row, [row EXCEPT !.session = s])
  BY DEF InFlight, InFlightStatus
<1> QED
  BY <1>1, <1>2, <1>3, <1>4, <1>5, <1>6, <1>7

\* Every statement on the rows but that of prewarming.
LEMMA RowsAge ==
  ASSUME IInv, NEW i \in Items,
         \/ \E w \in Workers :
              \/ MarkInProgress(w) \/ AttachSession(w) \/ Heartbeat(w) \/ Complete(w)
              \/ SettleRetry(w) \/ SettleTerminal(w)
              \/ Recover(w) \/ CommitClaim(w) \/ ClaimForPrewarm(w)
         \/ \E j \in Items : PressStart(j) \/ LeaseLapses(j) \/ BackoffPasses(j)
  PROVE  Ages(item[i], item'[i])
<1>. USE Typed
<1>1. Ages(item[i], item[i])
  BY UpdatesAge
<1>2. ASSUME NEW w \in Workers, NEW row, NEW pc, GuardedUpdate(w, row, pc) \/ GuardFails(w),
             i = worker[w].item /\ HoldsLease(w, i) => Ages(item[i], row)
      PROVE  Ages(item[i], item'[i])
  BY <1>1, <1>2 DEF GuardedUpdate, GuardFails
<1>3. ASSUME NEW w \in Workers, MarkInProgress(w) \/ AttachSession(w) \/ Heartbeat(w)
      PROVE  Ages(item[i], item'[i])
  <2>. DEFINE j == worker[w].item
  <2>1. CASE MarkInProgress(w)
    <3>1. i = j => Ages(item[i], [item[j] EXCEPT !.status = "in_progress"])
      BY UpdatesAge
    <3> QED
      BY <1>2, <2>1, <3>1 DEF MarkInProgress
  <2>2. CASE AttachSession(w)
    <3>1. i = j /\ HoldsLease(w, i) =>
            Ages(item[i], [item[j] EXCEPT !.session = worker[w].session])
      BY UpdatesAge DEF HoldsLease
    <3> QED
      BY <1>2, <2>2, <3>1 DEF AttachSession
  <2>3. CASE Heartbeat(w)
    <3>1. i = j => Ages(item[i], [item[j] EXCEPT !.lease = "live"])
      BY UpdatesAge
    <3> QED
      BY <1>2, <2>3, <3>1 DEF Heartbeat
  <2> QED
    BY <1>3, <2>1, <2>2, <2>3
<1>4. ASSUME NEW w \in Workers, Complete(w) \/ SettleRetry(w) \/ SettleTerminal(w)
      PROVE  Ages(item[i], item'[i])
  <2>. DEFINE j == worker[w].item
  <2>1. i = j => /\ \A status \in TerminalStatus : \A s :
                       Ages(item[i], TerminalRow(item[j], status, s))
                 /\ Ages(item[i], ReleasedForRetry(item[j]))
                 /\ Ages(item[i], ReleasedToAwaitingCandidate(item[j]))
    BY UpdatesAge
  <2>2. "completed" \in TerminalStatus /\ worker[w].outcome \in TerminalStatus
    BY DEF TerminalStatus, WorkerRow
  <2>3. CASE Complete(w)
    BY <1>2, <2>1, <2>2, <2>3 DEF Complete
  <2>4. CASE SettleRetry(w)
    BY <1>2, <2>1, <2>4 DEF SettleRetry
  <2>5. CASE SettleTerminal(w)
    BY <1>2, <2>1, <2>2, <2>5 DEF SettleTerminal
  <2> QED
    BY <1>4, <2>3, <2>4, <2>5
<1>5. ASSUME NEW w \in Workers, Recover(w) \/ CommitClaim(w) \/ ClaimForPrewarm(w)
      PROVE  Ages(item[i], item'[i])
  <2>1. \/ item'[i] = item[i] \/ item'[i] = RecoveredRow(item[i])
        \/ item'[i] = ClaimedRow(item[i], w)
        \/ item'[i] = [item[i] EXCEPT !.prewarm = TRUE]
    <3>1. CASE Recover(w)
      BY <3>1 DEF Recover, RecoverExpiredLeases
    <3>2. CASE CommitClaim(w) \/ ClaimForPrewarm(w)
      BY <3>2 DEF CommitClaim, ClaimForPrewarm
    <3> QED
      BY <1>5, <3>1, <3>2
  <2>2. /\ Ages(item[i], item[i]) /\ Ages(item[i], RecoveredRow(item[i]))
        /\ Ages(item[i], ClaimedRow(item[i], w))
        /\ Ages(item[i], [item[i] EXCEPT !.prewarm = TRUE])
    BY UpdatesAge
  <2> QED
    BY <2>1, <2>2
<1>6. ASSUME NEW j \in Items, PressStart(j) \/ LeaseLapses(j) \/ BackoffPasses(j)
      PROVE  Ages(item[i], item'[i])
  <2>1. \/ item'[i] = item[i] \/ item'[i] = ArmedRow(item[i])
        \/ item'[i] = [item[i] EXCEPT !.lease = "expired"]
        \/ item'[i] = [item[i] EXCEPT !.backoff = FALSE]
    BY <1>6 DEF PressStart, LeaseLapses, LeaseRunsOut, BackoffPasses, BackoffElapses
  <2> QED
    BY <2>1, UpdatesAge
<1> QED
  BY <1>3, <1>4, <1>5, <1>6

-----------------------------------------------------------------------------
(* The sessions.                                                           *)

\* Only dispatching opens a session, and it belongs to the worker that does.
LEMMA SealsLast ==
  ASSUME IInv, NEW t \in SessionIds,
         \/ \E w \in Workers : Dispatch(w) \/ TransportEndsInterview(w) \/ HangUp(w)
                                 \/ Evaluate(w) \/ Report(w)
         \/ \E s \in SessionIds : VoiceAgent(s)
  PROVE  StaysSealed(t)
<1>. USE Typed DEF Sealed, StaysSealed
<1>1. ASSUME NEW w \in Workers, Dispatch(w) PROVE StaysSealed(t)
  <2>1. worker'[w].pc = "heartbeat"
    BY <1>1 DEF Dispatch, GoTo, WorkerRow
  <2>2. worker[w].session # t => session'[t] = session[t]
    BY <1>1 DEF Dispatch, OpenRoom
  <2> QED
    BY <2>1, <2>2 DEF Early
<1>2. ASSUME NEW w \in Workers, HangUp(w) PROVE StaysSealed(t)
  <2>1. \/ session'[t] = session[t]
        \/ session'[t] = [session[t] EXCEPT !.room = FALSE]
    BY <1>2 DEF HangUp, CloseRoom
  <2> QED
    BY <2>1 DEF SessionRow
<1>3. ASSUME NEW w \in Workers, TransportEndsInterview(w) \/ Evaluate(w) \/ Report(w)
      PROVE  StaysSealed(t)
  <2>1. session[t].state = "ready" => session'[t] = session[t]
    BY <1>3 DEF TransportEndsInterview, Evaluate, Report, EndInterview, EvaluateInterview,
       GenerateReport
  <2> QED
    BY <2>1
<1>4. ASSUME NEW s \in SessionIds, VoiceAgent(s) PROVE StaysSealed(t)
  <2>1. Sealed(session, t) => session'[t] = session[t]
    BY <1>4 DEF VoiceAgent, AgentStarts, AgentFinishes
  <2> QED
    BY <2>1
<1> QED
  BY <1>1, <1>2, <1>3, <1>4

-----------------------------------------------------------------------------
(* The steps that move a session.                                          *)

\* A claim takes the session of the row with it.
LEMMA ClaimFresh ==
  ASSUME IInv, FreshInv, NEW w \in Workers, CommitClaim(w)
  PROVE  FreshInv'
<1>. USE Typed
<1>. DEFINE i == worker[w].item
            s == item[i].session
<1>1. i \in Items /\ item[i].status = "pending" /\ RowFresh(i)
  BY Names DEF IInv, MemoryOK, CommitClaim, At, FreshInv
<1>2. /\ worker' = [worker EXCEPT ![w] = worker'[w]]
      /\ worker'[w].pc = "check_plan" /\ worker'[w].session = s
      /\ session' = session
  BY DEF CommitClaim, WorkerRow
<1>3. /\ ~Waiting(item'[i])
      /\ \A j \in Items \ {i} : item'[j] = item[j]
  <2>1. item'[i].status = "claimed"
    BY <1>1 DEF CommitClaim, ClaimedRow, ItemRow
  <2> QED
    BY <1>1, <2>1 DEF CommitClaim, Waiting
<1>4. ASSUME NEW j \in Items, Waiting(item'[j]), item'[j].session # NoSession
      PROVE  /\ Sealed(session', item'[j].session)
             /\ \A v \in Workers : worker'[v].session # item'[j].session
             /\ \A k \in Items \ {j} : Waiting(item'[k]) => item'[k].session # item'[j].session
  <2>1. j # i /\ item'[j] = item[j] /\ RowFresh(j)
    BY <1>3, <1>4 DEF FreshInv
  <2>2. item[j].session # s
    BY <1>1, <1>4, <2>1 DEF RowFresh, Waiting
  <2>3. \A v \in Workers : worker'[v].session # item[j].session
    BY <1>2, <1>4, <2>1, <2>2 DEF RowFresh
  <2>4. \A k \in Items \ {j} : Waiting(item'[k]) => item'[k].session # item[j].session
    BY <1>3, <1>4, <2>1 DEF RowFresh
  <2> QED
    BY <1>2, <1>4, <2>1, <2>3, <2>4 DEF RowFresh
<1>5. ASSUME NEW v \in Workers, worker'[v].pc \in Early, worker'[v].session # NoSession
      PROVE  /\ Sealed(session', worker'[v].session)
             /\ \A u \in Workers \ {v} : worker'[u].session # worker'[v].session
  <2>1. CASE v = w
    BY <1>1, <1>2, <1>5, <2>1 DEF RowFresh, Waiting
  <2>2. CASE v # w
    <3>1. worker'[v] = worker[v] /\ WorkerFresh(v)
      BY <1>2, <2>2 DEF FreshInv
    <3>2. s # worker[v].session
      BY <1>1, <1>5, <3>1 DEF RowFresh, Waiting
    <3> QED
      BY <1>2, <1>5, <2>2, <3>1, <3>2 DEF WorkerFresh
  <2> QED
    BY <2>1, <2>2
<1> QED
  BY <1>4, <1>5 DEF FreshInv, RowFresh, WorkerFresh, Sealed, Waiting

\* A session just prepared is known to the worker that prepared it only.
LEMMA PreparationFresh ==
  ASSUME IInv, SInv, FreshInv, NEW w \in Workers, Prepare(w) \/ PrewarmPrepare(w)
  PROVE  FreshInv'
<1>. USE Typed
<1>. DEFINE s == FreshSession
<1>1. s \in SessionIds /\ session[s].state = "absent" /\ s # NoSession
  BY FreshSessionExists, EntityAssumption DEF Prepare, PrewarmPrepare, EntityAssumption
<1>2. /\ worker' = [worker EXCEPT ![w] = worker'[w]]
      /\ worker'[w].session = s /\ item' = item
      /\ Sealed(session', s) /\ \A t \in SessionIds \ {s} : session'[t] = session[t]
  <2>1. PICK pc \in {"attach", "prewarm_attach"} :
          worker' = [worker EXCEPT ![w] = [worker[w] EXCEPT !.pc = pc, !.session = s]]
    BY DEF Prepare, PrewarmPrepare
  <2>2. item' = item
    BY DEF Prepare, PrewarmPrepare, repoVars
  <2>3. \E c, q : session' = [session EXCEPT ![s] = [state |-> "ready", candidate |-> c,
                                                     questions |-> q, room |-> FALSE]]
    BY DEF Prepare, PrewarmPrepare, CreateReadySession
  <2>. HIDE DEF s
  <2>4. worker' = [worker EXCEPT ![w] = worker'[w]] /\ worker'[w].session = s
    BY <2>1 DEF WorkerRow
  <2>5. Sealed(session', s) /\ \A t \in SessionIds \ {s} : session'[t] = session[t]
    BY <1>1, <2>3 DEF Sealed
  <2> QED
    BY <2>2, <2>4, <2>5
<1>3. /\ \A i \in Items : item[i].session # s
      /\ \A v \in Workers : worker[v].session # s
  BY <1>1 DEF SInv, RowKnown, WorkerKnown, Known
<1>. HIDE DEF s
<1>4. ASSUME NEW j \in Items, Waiting(item[j]), item[j].session # NoSession
      PROVE  /\ Sealed(session', item[j].session)
             /\ \A v \in Workers : worker'[v].session # item[j].session
             /\ \A k \in Items \ {j} : Waiting(item[k]) => item[k].session # item[j].session
  <2>1. RowFresh(j) /\ item[j].session \in SessionIds \ {s}
    BY <1>3, <1>4 DEF FreshInv, ItemRow
  <2> QED
    BY <1>2, <1>4, <2>1 DEF RowFresh, Sealed
<1>5. ASSUME NEW v \in Workers, worker'[v].pc \in Early, worker'[v].session # NoSession
      PROVE  /\ Sealed(session', worker'[v].session)
             /\ \A u \in Workers \ {v} : worker'[u].session # worker'[v].session
  <2>1. CASE v = w
    BY <1>2, <1>3, <2>1
  <2>2. CASE v # w
    <3>1. worker'[v] = worker[v] /\ WorkerFresh(v) /\ worker[v].session \in SessionIds \ {s}
      BY <1>2, <1>3, <1>5, <2>2 DEF FreshInv, WorkerRow
    <3> QED
      BY <1>2, <1>5, <2>2, <3>1 DEF WorkerFresh, Sealed
  <2> QED
    BY <2>1, <2>2
<1> QED
  BY <1>2, <1>4, <1>5 DEF FreshInv, RowFresh, WorkerFresh, Sealed, Waiting

\* The worker that prepared a session ahead of time leaves it with the row.
LEMMA PrewarmFresh ==
  ASSUME IInv, FreshInv, NEW w \in Workers, PrewarmAttach(w)
  PROVE  FreshInv'
<1>. USE Typed
<1>. DEFINE i == worker[w].item
            s == worker[w].session
<1>1. /\ i \in Items /\ s \in SessionIds /\ s # NoSession
      /\ worker[w].pc \in Early /\ WorkerFresh(w)
  BY Names, EntityAssumption
     DEF EntityAssumption, IInv, MemoryOK, PrewarmAttach, At, WithSession, Early, FreshInv
<1>2. /\ worker' = [worker EXCEPT ![w] = worker'[w]] /\ session' = session
      /\ worker'[w].session = NoSession
  BY DEF PrewarmAttach, EndPass, WorkerAt
<1>3. \A j \in Items : item'[j] = item[j] \/ (j = i /\ item'[j].session = s)
  BY <1>1 DEF PrewarmAttach, PreparedRow, ItemRow
<1>4. \A j \in Items : Waiting(item'[j]) => Waiting(item[j])
  BY <1>1 DEF PrewarmAttach, PreparedRow, ItemRow, Waiting
<1>5. ASSUME NEW j \in Items, Waiting(item'[j]), item'[j].session # NoSession
      PROVE  /\ Sealed(session', item'[j].session)
             /\ \A v \in Workers : worker'[v].session # item'[j].session
             /\ \A k \in Items \ {j} : Waiting(item'[k]) => item'[k].session # item'[j].session
  <2>1. \A k \in Items : Waiting(item[k]) => item[k].session # s
    BY <1>1 DEF FreshInv, RowFresh
  <2>2. CASE item'[j] = item[j]
    <3>1. RowFresh(j) /\ Waiting(item[j]) /\ item[j].session # s
      BY <1>5, <2>1, <2>2 DEF FreshInv
    <3>2. \A v \in Workers : worker'[v].session # item[j].session
      BY <1>2, <1>5, <2>2, <3>1 DEF RowFresh
    <3>3. \A k \in Items \ {j} : Waiting(item'[k]) => item'[k].session # item[j].session
      BY <1>3, <1>4, <1>5, <2>2, <3>1 DEF RowFresh
    <3> QED
      BY <1>2, <1>5, <2>2, <3>1, <3>2, <3>3 DEF RowFresh
  <2>3. CASE item'[j] # item[j]
    <3>1. j = i /\ item'[j].session = s
      BY <1>3, <2>3
    <3>2. \A v \in Workers : worker'[v].session # s
      BY <1>1, <1>2 DEF WorkerFresh
    <3>3. \A k \in Items \ {j} : Waiting(item'[k]) => item'[k].session # s
      BY <1>3, <1>4, <2>1, <3>1
    <3> QED
      BY <1>1, <1>2, <3>1, <3>2, <3>3 DEF WorkerFresh
  <2> QED
    BY <2>2, <2>3
<1>6. ASSUME NEW v \in Workers, worker'[v].pc \in Early, worker'[v].session # NoSession
      PROVE  /\ Sealed(session', worker'[v].session)
             /\ \A u \in Workers \ {v} : worker'[u].session # worker'[v].session
  <2>1. v # w /\ worker'[v] = worker[v] /\ WorkerFresh(v)
    BY <1>2, <1>6 DEF FreshInv
  <2> QED
    BY <1>2, <1>6, <2>1 DEF WorkerFresh
<1> QED
  BY <1>5, <1>6 DEF FreshInv, RowFresh, WorkerFresh, Sealed, Waiting

-----------------------------------------------------------------------------
(* The whole step.                                                         *)

\* Every step of a system without recruiters.
LEMMA NextFresh ==
  ASSUME IInv, SInv, FreshInv, [Next]_vars, Requests = {}
  PROVE  FreshInv'
<1>. USE Typed
<1>1. ASSUME worker' = worker PROVE \A v \in Workers : Passive(v)
  BY <1>1 DEF Passive
<1>2. ASSUME item' = item PROVE \A i \in Items : Ages(item[i], item'[i])
  BY <1>2, UpdatesAge
<1>3. ASSUME session' = session PROVE \A s \in SessionIds : StaysSealed(s)
  BY <1>3 DEF StaysSealed
<1>4. CASE UNCHANGED vars
  BY <1>1, <1>2, <1>3, <1>4, PassiveStep DEF vars, repoVars, workerVars
<1>5. ASSUME NEW w \in Workers, WorkerAction(w) PROVE FreshInv'
  <2>1. CASE CommitClaim(w) \/ Prepare(w) \/ PrewarmPrepare(w) \/ PrewarmAttach(w)
    BY <2>1, ClaimFresh, PreparationFresh, PrewarmFresh
  <2>2. CASE Dispatch(w) \/ TransportEndsInterview(w) \/ HangUp(w) \/ Evaluate(w) \/ Report(w)
    <3>1. item' = item
      BY <2>2 DEF Dispatch, TransportEndsInterview, HangUp, Evaluate, Report, repoVars
    <3> QED
      BY <1>2, <2>2, <3>1, PassiveWorker, SealsLast, PassiveStep
  <2>3. CASE MarkInProgress(w) \/ AttachSession(w) \/ Heartbeat(w) \/ Complete(w)
               \/ SettleRetry(w) \/ SettleTerminal(w) \/ Recover(w) \/ ClaimForPrewarm(w)
    <3>1. session' = session
      BY <2>3 DEF MarkInProgress, AttachSession, Heartbeat, Complete, SettleRetry,
         SettleTerminal, Recover, ClaimForPrewarm
    <3> QED
      BY <1>3, <2>3, <3>1, PassiveWorker, RowsAge, PassiveStep
  <2>4. CASE LockNextItem(w) \/ NothingToClaim(w) \/ CheckPlan(w) \/ MarkCandidate(w)
               \/ StepRaises(w) \/ DispatchFails(w) \/ PollOver(w) \/ PollAgain(w)
               \/ PollTimesOut(w) \/ MarkScreened(w) \/ ReleaseCandidate(w)
               \/ ReleaseAgain(w) \/ NothingToPrewarm(w) \/ PrewarmGivesUp(w)
    <3>1. item' = item /\ session' = session
      BY <2>4 DEF LockNextItem, NothingToClaim, CheckPlan, MarkCandidate, StepRaises,
         DispatchFails, PollOver, PollAgain, PollTimesOut, MarkScreened, ReleaseCandidate,
         ReleaseAgain, NothingToPrewarm, PrewarmGivesUp, repoVars
    <3> QED
      BY <1>2, <1>3, <2>4, <3>1, PassiveWorker, PassiveStep
  <2> QED
    BY <1>5, <2>1, <2>2, <2>3, <2>4 DEF WorkerAction
<1>6. ASSUME NEW w \in Workers, Crash(w) \/ Restart(w) PROVE FreshInv'
  <2>1. item' = item /\ session' = session
    BY <1>6 DEF Crash, Restart, repoVars
  <2> QED
    BY <1>2, <1>3, <1>6, <2>1, PassiveWorker, PassiveStep
<1>7. ASSUME NEW i \in Items, PressStart(i) \/ LeaseLapses(i) \/ BackoffPasses(i)
      PROVE  FreshInv'
  <2>1. session' = session /\ worker' = worker
    BY <1>7 DEF PressStart, LeaseLapses, BackoffPasses, workerVars
  <2> QED
    BY <1>1, <1>3, <1>7, <2>1, RowsAge, PassiveStep
<1>8. ASSUME NEW s \in SessionIds, VoiceAgent(s) PROVE FreshInv'
  <2>1. item' = item /\ worker' = worker
    BY <1>8 DEF VoiceAgent, repoVars, workerVars
  <2> QED
    BY <1>1, <1>2, <1>8, <2>1, SealsLast, PassiveStep
<1> QED
  BY <1>4, <1>5, <1>6, <1>7, <1>8 DEF Next, WorkerMoves, WorkerDies, WorkerReturns

\* While no recruiter intervenes, a call is opened only on a session that is
\* READY, prepared now or ahead of time, whatever crashes and lapses: no
\* interview is begun twice ("Reuse it as is", _run_item).
THEOREM ReadyDispatched ==
  ASSUME Requests = {}
  PROVE  Spec => []DispatchesReadySession
<1>1. Init => FreshInv
  <2>1. Init => /\ \A i \in Items : item[i].session = NoSession
                /\ \A w \in Workers : worker[w].session = NoSession
    BY DEF Init, NewRow, WorkerAt
  <2> QED
    BY <2>1 DEF FreshInv, RowFresh, WorkerFresh
<1>2. IInv /\ SInv /\ FreshInv /\ [Next]_vars => FreshInv'
  BY NextFresh
<1>3. IInv /\ FreshInv => DispatchesReadySession
  <2>1. ASSUME IInv, FreshInv, NEW w \in Workers, At(w, "dispatch")
        PROVE  session[worker[w].session].state = "ready"
    <3>1. worker[w].session # NoSession
      BY <2>1, EntityAssumption, SessionInHand DEF EntityAssumption, At, WithSession
    <3> QED
      BY <2>1, <3>1 DEF At, Early, FreshInv, WorkerFresh, Sealed
  <2> QED
    BY <2>1 DEF DispatchesReadySession
<1> QED
  BY <1>1, <1>2, <1>3, Invariance, SessionsKnown, PTL DEF Spec

=============================================================================
