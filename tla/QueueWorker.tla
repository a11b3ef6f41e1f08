---------------------------- MODULE QueueWorker ----------------------------
(***************************************************************************)
(* application/queue_worker.py: the passes of a worker process over the    *)
(* queue, one action per database transaction or external call, with the   *)
(* LiveKit transport it drives.  What a worker read earlier and still uses *)
(* (the item as claimed, the session, the join flag) is in worker[w].      *)
(***************************************************************************)
EXTENDS QueueRepository, InterviewSessions

CONSTANTS NoItem,      \* a worker that has no item in hand
          MaxCrashes   \* bound: how many times worker processes are killed

ASSUME WorkerAssumption == NoItem \notin Items /\ MaxCrashes \in Nat

VARIABLES
    worker,     \* per worker: where its pass is and what it remembers
    candidate,  \* candidates.status
    plan,       \* candidate_interview_plans: version of the questions, approval
    crashes     \* worker processes killed so far

workerVars == <<worker, candidate, plan, crashes>>

CandidateStatus == {"new", "applied", "queued", "invited",
                    "screening_in_progress", "screened"}

ClaimStep   == {"claim", "claiming"}
RunStep     == {"check_plan", "begin", "mark_candidate", "prepare", "attach",
                "dispatch", "heartbeat", "poll", "end_interview", "hang_up",
                "evaluate", "report", "mark_screened", "complete"}
SettleStep  == {"release", "settle", "release_again", "settle_terminal"}
PrewarmStep == {"prewarm", "prewarm_prepare", "prewarm_attach"}
WorkerStep  == {"idle", "dead"} \union ClaimStep \union RunStep
                 \union SettleStep \union PrewarmStep

\* The steps at which a call to the candidate is open.
CallStep == {"heartbeat", "poll", "end_interview", "hang_up"}

WorkerRow == [pc        : WorkerStep,
              item      : Items \union {NoItem},
              attempts  : Nat,       \* item.attempts as claimed
              session   : SessionIds \union {NoSession},
              joined    : BOOLEAN,   \* interview_started_at is not None
              outcome   : {"failed", "no_answer"},
              inHandler : BOOLEAN]   \* inside process_next's except Exception

WorkerAt(pc) == [pc |-> pc, item |-> NoItem, attempts |-> 0,
                 session |-> NoSession, joined |-> FALSE, outcome |-> "failed",
                 inHandler |-> FALSE]

PlanRow == [version : Nat, approved : BOOLEAN]

WorkerTypeOK ==
    /\ worker \in [Workers -> WorkerRow]
    /\ candidate \in [Candidates -> CandidateStatus]
    /\ plan \in [Candidates -> PlanRow]
    /\ crashes \in 0..MaxCrashes

-----------------------------------------------------------------------------
(* Control.                                                                *)

At(w, pc)   == worker[w].pc = pc
CandOf(w)   == CandidateOf[worker[w].item]
GoTo(w, pc) == worker' = [worker EXCEPT ![w].pc = pc]

\* process_next (or prewarm_next) returns to the loop.
EndPass(w) == worker' = [worker EXCEPT ![w] = WorkerAt("idle")]

\* Any exception but LeaseLostError: process_next settles the attempt as a
\* failure; raised while doing that, it leaves process_next and the process.
Raise(w) ==
    worker' = [worker EXCEPT ![w] =
        IF @.inHandler THEN WorkerAt("dead")
        ELSE [@ EXCEPT !.pc = "release", !.outcome = "failed", !.inHandler = TRUE]]

\* LeaseLostError: the attempt is abandoned, unless it is the handler that
\* lost the lease.
Abandon(w) ==
    worker' = [worker EXCEPT ![w] =
        WorkerAt(IF @.inHandler THEN "dead" ELSE "idle")]

\* A lease-guarded update that matches no row.
GuardFails(w) ==
    /\ ~HoldsLease(w, worker[w].item)
    /\ IF Exists(item[worker[w].item]) THEN Abandon(w) ELSE Raise(w)
    /\ UNCHANGED item

\* A lease-guarded update of the row, after which the pass is at pc.
GuardedUpdate_AnyHolder(w, row, pc) ==
    /\ InFlight(item[worker[w].item])
    /\ item' = [item EXCEPT ![worker[w].item] = row]
    /\ IF pc = "idle" THEN EndPass(w) ELSE GoTo(w, pc)

GuardedUpdate(w, row, pc) ==
    /\ HoldsLease(w, worker[w].item)
    /\ item' = [item EXCEPT ![worker[w].item] = row]
    /\ IF pc = "idle" THEN EndPass(w) ELSE GoTo(w, pc)

-----------------------------------------------------------------------------
(* process_next up to the claim.                                           *)

Recover(w) ==
    /\ At(w, "idle")
    /\ RecoverExpiredLeases
    /\ GoTo(w, "claim")
    /\ UNCHANGED <<queueStatus, rowLock, session, candidate, plan, crashes>>

\* The SELECT ... FOR UPDATE SKIP LOCKED: the row is chosen from a snapshot
\* and locked; other transactions still see it PENDING.
LockNextItem(w) ==
    /\ At(w, "claim")
    /\ \E i \in Items :
         /\ NextClaimable(i)
         /\ rowLock' = [rowLock EXCEPT ![i] = w]
         /\ worker' = [worker EXCEPT ![w].pc = "claiming", ![w].item = i]
    /\ UNCHANGED <<item, queueStatus, session, candidate, plan, crashes>>

NothingToClaim(w) ==
    /\ At(w, "claim")
    /\ \A i \in Items : ~Claimable(i)
    /\ GoTo(w, "prewarm")
    /\ UNCHANGED <<repoVars, session, candidate, plan, crashes>>

\* The UPDATE of the locked row and its commit; the worker keeps the row it
\* read back.
CommitClaim(w) ==
    LET i == worker[w].item IN
    /\ At(w, "claiming")
    /\ item' = [item EXCEPT ![i] = ClaimedRow(@, w)]
    /\ rowLock' = [rowLock EXCEPT ![i] = NoWorker]
    /\ worker' = [worker EXCEPT ![w].pc = "check_plan",
                                ![w].attempts = ClaimedRow(item[i], w).attempts,
                                ![w].session = item[i].session]
    /\ UNCHANGED <<queueStatus, session, candidate, plan, crashes>>

-----------------------------------------------------------------------------
(* _run_item.                                                              *)

CheckPlan(w) ==
    /\ At(w, "check_plan")
    /\ GoTo(w, IF plan[CandOf(w)].approved THEN "begin" ELSE "release_again")
    /\ UNCHANGED <<repoVars, session, candidate, plan, crashes>>

MarkInProgress(w) ==
    /\ At(w, "begin")
    /\ \/ GuardedUpdate(w, [item[worker[w].item] EXCEPT !.status = "in_progress"],
                        "mark_candidate")
       \/ GuardFails(w)
    /\ UNCHANGED <<queueStatus, rowLock, session, candidate, plan, crashes>>

MarkCandidate_OnlyUnprepared(w) ==
    /\ At(w, "mark_candidate")
    /\ candidate' = [candidate EXCEPT ![CandOf(w)] =
           IF worker[w].session = NoSession THEN "screening_in_progress" ELSE @]
    /\ GoTo(w, IF worker[w].session # NoSession THEN "dispatch" ELSE "prepare")
    /\ UNCHANGED <<repoVars, session, plan, crashes>>

\* The status written over the candidate row read at the start of _run_item.
MarkCandidate(w) ==
    /\ At(w, "mark_candidate")
    /\ candidate' = [candidate EXCEPT ![CandOf(w)] = "screening_in_progress"]
    /\ GoTo(w, IF worker[w].session # NoSession THEN "dispatch" ELSE "prepare")
    /\ UNCHANGED <<repoVars, session, plan, crashes>>

\* prepare(): the plan is read again, and only an approved one is used; the
\* question bank stands in for it otherwise.
QuestionsFor(c) == IF plan[c].approved THEN plan[c].version ELSE 0

Prepare(w) ==
    LET s == FreshSession IN
    /\ At(w, "prepare")
    /\ SessionsFree
    /\ CreateReadySession(s, CandOf(w), QuestionsFor(CandOf(w)))
    /\ worker' = [worker EXCEPT ![w].pc = "attach", ![w].session = s]
    /\ UNCHANGED <<repoVars, candidate, plan, crashes>>

AttachSession(w) ==
    /\ At(w, "attach")
    /\ \/ GuardedUpdate(w, [item[worker[w].item] EXCEPT !.session = worker[w].session],
                        "dispatch")
       \/ GuardFails(w)
    /\ UNCHANGED <<queueStatus, rowLock, session, candidate, plan, crashes>>

\* A provider or a store fails in the middle of an attempt.
StepRaises(w) ==
    /\ worker[w].pc \in {"check_plan", "prepare", "poll", "end_interview",
                         "evaluate", "report"}
    /\ Raise(w)
    /\ UNCHANGED <<repoVars, session, candidate, plan, crashes>>

-----------------------------------------------------------------------------
(* The LiveKit transport's run().                                          *)

Dispatch(w) ==
    /\ At(w, "dispatch")
    /\ OpenRoom(worker[w].session)
    /\ GoTo(w, "heartbeat")
    /\ UNCHANGED <<repoVars, candidate, plan, crashes>>

\* A gateway error is a FAILED result, not an exception.
DispatchFails(w) ==
    /\ At(w, "dispatch")
    /\ worker' = [worker EXCEPT ![w].pc = "release", ![w].outcome = "failed"]
    /\ UNCHANGED <<repoVars, session, candidate, plan, crashes>>

Heartbeat(w) ==
    /\ At(w, "heartbeat")
    /\ \/ GuardedUpdate(w, [item[worker[w].item] EXCEPT !.lease = "live"], "poll")
       \/ GuardFails(w)
    /\ UNCHANGED <<queueStatus, rowLock, session, candidate, plan, crashes>>

SeenState(w) == session[worker[w].session].state

\* interview_started_at once this poll has looked at the session.
JoinedBy(w) == worker[w].joined \/ SeenState(w) = "in_progress"

PollOver_Unevaluated(w) ==
    /\ At(w, "poll")
    /\ SeenState(w) \in {"completed", "evaluated", "reported"}
    /\ GoTo(w, "mark_screened")
    /\ UNCHANGED <<repoVars, session, candidate, plan, crashes>>

PollOver(w) ==
    /\ At(w, "poll")
    /\ SeenState(w) \in {"completed", "evaluated", "reported"}
    /\ GoTo(w, "evaluate")
    /\ UNCHANGED <<repoVars, session, candidate, plan, crashes>>

PollAgain(w) ==
    /\ At(w, "poll")
    /\ SeenState(w) \in {"ready", "in_progress"}
    /\ worker' = [worker EXCEPT ![w].pc = "heartbeat", ![w].joined = JoinedBy(w)]
    /\ UNCHANGED <<repoVars, session, candidate, plan, crashes>>

\* The join timeout when nobody started, the interview timeout otherwise.
PollTimesOut(w) ==
    /\ At(w, "poll")
    /\ SeenState(w) \in {"ready", "in_progress"}
    /\ worker' = [worker EXCEPT
           ![w].pc = IF SeenState(w) = "in_progress" THEN "end_interview" ELSE "hang_up",
           ![w].joined = JoinedBy(w),
           ![w].outcome = IF JoinedBy(w) THEN "failed" ELSE "no_answer"]
    /\ UNCHANGED <<repoVars, session, candidate, plan, crashes>>

TransportEndsInterview(w) ==
    /\ At(w, "end_interview")
    /\ EndInterview(worker[w].session)
    /\ GoTo(w, "hang_up")
    /\ UNCHANGED <<repoVars, candidate, plan, crashes>>

HangUp(w) ==
    /\ At(w, "hang_up")
    /\ CloseRoom(worker[w].session)
    /\ GoTo(w, "release")
    /\ UNCHANGED <<repoVars, candidate, plan, crashes>>

-----------------------------------------------------------------------------
(* After a completed conversation.                                         *)

Evaluate(w) ==
    /\ At(w, "evaluate")
    /\ EvaluateInterview(worker[w].session)
    /\ GoTo(w, "report")
    /\ UNCHANGED <<repoVars, candidate, plan, crashes>>

Report_Skipped(w) ==
    /\ At(w, "report")
    /\ GoTo(w, "mark_screened")
    /\ UNCHANGED <<repoVars, session, candidate, plan, crashes>>

Report(w) ==
    /\ At(w, "report")
    /\ GenerateReport(worker[w].session)
    /\ GoTo(w, "mark_screened")
    /\ UNCHANGED <<repoVars, candidate, plan, crashes>>

MarkScreened(w) ==
    /\ At(w, "mark_screened")
    /\ candidate' = [candidate EXCEPT ![CandOf(w)] = "screened"]
    /\ GoTo(w, "complete")
    /\ UNCHANGED <<repoVars, session, plan, crashes>>

Complete(w) ==
    LET row == item[worker[w].item] IN
    /\ At(w, "complete")
    /\ \/ GuardedUpdate(w, TerminalRow(row, "completed", worker[w].session), "idle")
       \/ GuardFails(w)
    /\ UNCHANGED <<queueStatus, rowLock, session, candidate, plan, crashes>>

-----------------------------------------------------------------------------
(* _settle_failure and _settle_terminal.                                   *)

ReleasedCandidate(c) ==
    candidate' = [candidate EXCEPT ![c] =
        IF @ = "screening_in_progress" THEN "queued" ELSE @]

ReleaseCandidate(w) ==
    /\ At(w, "release")
    /\ ReleasedCandidate(CandOf(w))
    /\ GoTo(w, IF worker[w].attempts < MaxAttempts THEN "settle" ELSE "release_again")
    /\ UNCHANGED <<repoVars, session, plan, crashes>>

SettleRetry(w) ==
    LET i == worker[w].item IN
    /\ At(w, "settle")
    /\ \/ IsAuto(i) /\ GuardedUpdate(w, ReleasedToAwaitingCandidate(item[i]), "idle")
       \/ ~IsAuto(i) /\ GuardedUpdate(w, ReleasedForRetry(item[i]), "idle")
       \/ GuardFails(w)
    /\ UNCHANGED <<queueStatus, rowLock, session, candidate, plan, crashes>>

ReleaseAgain(w) ==
    /\ At(w, "release_again")
    /\ ReleasedCandidate(CandOf(w))
    /\ GoTo(w, "settle_terminal")
    /\ UNCHANGED <<repoVars, session, plan, crashes>>

SettleTerminal(w) ==
    LET row == item[worker[w].item] IN
    /\ At(w, "settle_terminal")
    /\ \/ GuardedUpdate(w, TerminalRow(row, worker[w].outcome, NoSession), "idle")
       \/ GuardFails(w)
    /\ UNCHANGED <<queueStatus, rowLock, session, candidate, plan, crashes>>

-----------------------------------------------------------------------------
(* prewarm_next.                                                           *)

ClaimForPrewarm(w) ==
    /\ At(w, "prewarm")
    /\ \E i \in Items :
         /\ NextPrewarmable(i)
         /\ item' = [item EXCEPT ![i].prewarm = TRUE]
         /\ worker' = [worker EXCEPT ![w].pc = "prewarm_prepare", ![w].item = i]
    /\ UNCHANGED <<queueStatus, rowLock, session, candidate, plan, crashes>>

\* The rest of the cycle (email, invitation sweep, sleep) leaves the queue alone.
NothingToPrewarm(w) ==
    /\ At(w, "prewarm")
    /\ \A i \in Items : ~Prewarmable(i)
    /\ EndPass(w)
    /\ UNCHANGED <<repoVars, session, candidate, plan, crashes>>

PrewarmPrepare(w) ==
    LET s == FreshSession IN
    /\ At(w, "prewarm_prepare")
    /\ plan[CandOf(w)].approved
    /\ SessionsFree
    /\ CreateReadySession(s, CandOf(w), QuestionsFor(CandOf(w)))
    /\ worker' = [worker EXCEPT ![w].pc = "prewarm_attach", ![w].session = s]
    /\ UNCHANGED <<repoVars, candidate, plan, crashes>>

\* The plan is not approved, or preparation fails: the item is left as it is.
PrewarmGivesUp(w) ==
    /\ At(w, "prewarm_prepare")
    /\ EndPass(w)
    /\ UNCHANGED <<repoVars, session, candidate, plan, crashes>>

\* The conditional update waits for a claim transaction on the row.
PrewarmAttach(w) ==
    LET i == worker[w].item IN
    /\ At(w, "prewarm_attach")
    /\ rowLock[i] = NoWorker
    /\ item' = [item EXCEPT ![i] = PreparedRow(@, worker[w].session)]
    /\ EndPass(w)
    /\ UNCHANGED <<queueStatus, rowLock, session, candidate, plan, crashes>>

-----------------------------------------------------------------------------
(* The process dies, its transaction is rolled back; it is started again.  *)

Crash(w) ==
    /\ ~At(w, "dead")
    /\ crashes < MaxCrashes
    /\ crashes' = crashes + 1
    /\ worker' = [worker EXCEPT ![w] = WorkerAt("dead")]
    /\ rowLock' = [i \in Items |-> IF rowLock[i] = w THEN NoWorker ELSE rowLock[i]]
    /\ UNCHANGED <<item, queueStatus, session, candidate, plan>>

Restart(w) ==
    /\ At(w, "dead")
    /\ EndPass(w)
    /\ UNCHANGED <<repoVars, session, candidate, plan, crashes>>

WorkerAction(w) ==
    \/ Recover(w) \/ LockNextItem(w) \/ NothingToClaim(w) \/ CommitClaim(w)
    \/ CheckPlan(w) \/ MarkInProgress(w) \/ MarkCandidate(w) \/ Prepare(w)
    \/ AttachSession(w) \/ StepRaises(w)
    \/ Dispatch(w) \/ DispatchFails(w) \/ Heartbeat(w)
    \/ PollOver(w) \/ PollAgain(w) \/ PollTimesOut(w)
    \/ TransportEndsInterview(w) \/ HangUp(w)
    \/ Evaluate(w) \/ Report(w) \/ MarkScreened(w) \/ Complete(w)
    \/ ReleaseCandidate(w) \/ SettleRetry(w) \/ ReleaseAgain(w) \/ SettleTerminal(w)
    \/ ClaimForPrewarm(w) \/ NothingToPrewarm(w) \/ PrewarmPrepare(w)
    \/ PrewarmGivesUp(w) \/ PrewarmAttach(w)

=============================================================================
