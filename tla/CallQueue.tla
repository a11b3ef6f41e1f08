----------------------------- MODULE CallQueue -----------------------------
(***************************************************************************)
(* The calling queue at work: worker processes, recruiters, candidates     *)
(* pressing Start, voice agents in their rooms, and time, over the shared  *)
(* tables.                                                                 *)
(***************************************************************************)
EXTENDS RecruiterDesk

CONSTANTS
    InitialItems,       \* the items already queued, plans approved, at the start
    PunctualHeartbeats  \* TRUE: a lease outlasts every gap between heartbeats

ASSUME QueueAssumption ==
    /\ InitialItems \subseteq Items
    /\ PunctualHeartbeats \in BOOLEAN

vars == <<repoVars, session, workerVars, deskVars>>

TypeOK ==
    /\ RepoTypeOK
    /\ SessionTypeOK
    /\ WorkerTypeOK
    /\ DeskTypeOK

Init ==
    /\ item = [i \in Items |->
                 NewRow(IF i \notin InitialItems THEN "absent"
                        ELSE IF IsAuto(i) THEN "awaiting_candidate" ELSE "pending")]
    /\ queueStatus = [q \in Queues |-> "running"]
    /\ rowLock = [i \in Items |-> NoWorker]
    /\ session = [s \in SessionIds |->
                    [state |-> "absent", candidate |-> CHOOSE c \in Candidates : TRUE,
                     questions |-> 0, room |-> FALSE]]
    /\ worker = [w \in Workers |-> WorkerAt("idle")]
    /\ candidate = [c \in Candidates |->
                      IF \E i \in InitialItems : CandidateOf[i] = c
                      THEN "queued" ELSE "new"]
    /\ plan = [c \in Candidates |-> [version |-> 1, approved |-> TRUE]]
    /\ crashes = 0
    /\ desk = [r \in Requests |-> NoRequest]
    /\ served = 0

-----------------------------------------------------------------------------

\* The public "Start interview" endpoint: arm_item, which waits for a claim
\* transaction on the row.
PressStart(i) ==
    /\ item[i].status = "awaiting_candidate"
    /\ rowLock[i] = NoWorker
    /\ item' = [item EXCEPT ![i] = ArmedRow(@)]
    /\ UNCHANGED <<queueStatus, rowLock, session, workerVars, deskVars>>

VoiceAgent(s) ==
    /\ AgentStarts(s) \/ AgentFinishes(s)
    /\ UNCHANGED <<repoVars, workerVars, deskVars>>

\* Some worker is busy with item i under the lease it took.
LeaseInUse(i) ==
    \E w \in Workers : /\ HoldsLease(w, i)
                       /\ worker[w].item = i
                       /\ worker[w].pc \in RunStep \union SettleStep

LeaseLapses(i) ==
    /\ PunctualHeartbeats => ~LeaseInUse(i)
    /\ LeaseRunsOut(i)
    /\ UNCHANGED <<session, workerVars, deskVars>>

BackoffPasses(i) ==
    /\ BackoffElapses(i)
    /\ UNCHANGED <<session, workerVars, deskVars>>

WorkerMoves(w) ==
    /\ WorkerAction(w)
    /\ UNCHANGED deskVars

WorkerDies(w) ==
    /\ Crash(w)
    /\ UNCHANGED deskVars

WorkerReturns(w) ==
    /\ Restart(w)
    /\ UNCHANGED deskVars

Next ==
    \/ \E w \in Workers : WorkerMoves(w) \/ WorkerDies(w) \/ WorkerReturns(w)
    \/ \E r \in Requests : DeskAction(r)
    \/ \E i \in Items : PressStart(i) \/ LeaseLapses(i) \/ BackoffPasses(i)
    \/ \E s \in SessionIds : VoiceAgent(s)

Spec == Init /\ [][Next]_vars

\* Worker processes keep running and are restarted; a poll that keeps finding
\* the interview unfinished times out in the end; deadlines pass.  Nothing is
\* assumed of recruiters, candidates or voice agents.
Fairness ==
    /\ \A w \in Workers : /\ WF_vars(WorkerMoves(w))
                          /\ WF_vars(WorkerReturns(w))
                          /\ SF_vars(PollTimesOut(w) /\ UNCHANGED deskVars)
    /\ \A i \in Items : /\ WF_vars(LeaseLapses(i))
                        /\ WF_vars(BackoffPasses(i))

FairSpec == Spec /\ Fairness

-----------------------------------------------------------------------------
(* Safety: what holds whatever crashes, lapses and late requests do.       *)

\* An item has an owner and a lease exactly while it is in flight, although
\* eight statements of three services write those columns (queues.py's guard,
\* recover_expired_leases, update_item with a copy read earlier).
LeaseMatchesStatus ==
    \A i \in Items : /\ InFlight(item[i]) <=> item[i].claimedBy # NoWorker
                     /\ InFlight(item[i]) <=> item[i].lease # "none"

\* "a worker that dies mid-call cannot retry forever" (claim_next_item): an
\* item that may be handed out has an attempt left, one in flight has spent one.
AttemptsBounded ==
    \A i \in Items :
        /\ item[i].attempts <= MaxAttempts
        /\ item[i].status \in {"awaiting_candidate", "pending"}
             => item[i].attempts < MaxAttempts
        /\ InFlight(item[i]) => item[i].attempts > 0

\* "A completed platform interview always has a persisted recruiter report"
\* (_run_item): a COMPLETED item names the session of its own candidate, and
\* that session's report is on file.
CompletedHasReport ==
    \A i \in Items : item[i].status = "completed" =>
        /\ item[i].session \in SessionIds
        /\ session[item[i].session].state = "reported"
        /\ session[item[i].session].candidate = CandidateOf[i]

\* A candidate is shown as SCREENED only when a report about them is on file,
\* even when the worker that wrote the status had lost its lease.
ScreenedHasReport ==
    \A c \in Candidates : candidate[c] = "screened" =>
        \E s \in SessionIds : /\ session[s].candidate = c
                              /\ session[s].state = "reported"

\* The row of an item in flight is written by its owner, by the recovery of
\* an expired lease, or by nobody (_lease_guarded_update).
OnlyHolderWrites ==
    [][\A i \in Items : InFlight(item[i]) /\ item'[i] # item[i] =>
          \/ item[i].lease = "expired" /\ item'[i] = RecoveredRow(item[i])
          \/ item'[i] = [item[i] EXCEPT !.lease = "expired"]
          \/ worker'[item[i].claimedBy] # worker[item[i].claimedBy]]_vars

\* A call is opened only on a session that is READY, prepared now or ahead of
\* time (_run_item's "Reuse it as is").
DispatchesReadySession ==
    \A w \in Workers : At(w, "dispatch") =>
        session[worker[w].session].state = "ready"

\* Two workers never have a call open to the same candidate (claim_next_item:
\* "no candidate is ever called twice").
OneCallPerCandidate ==
    \A v, w \in Workers :
        worker[v].pc \in CallStep /\ worker[w].pc \in CallStep /\ v # w
            => CandOf(v) # CandOf(w)

\* While a worker has a call open, the candidate is shown as being screened,
\* which is what locks the plan (_require_editable).
CandidateShownInProgress ==
    \A w \in Workers : worker[w].pc \in CallStep =>
        candidate[CandOf(w)] = "screening_in_progress"

\* The refinement mapping to AttemptLedger.
Phase(row) ==
    CASE InFlight(row) -> "running"
      [] row.status \in TerminalStatus -> "settled"
      [] OTHER -> "waiting"

Ledger == INSTANCE AttemptLedger WITH
    Tasks <- InitialItems,
    Limit <- MaxAttempts,
    phase <- [i \in InitialItems |-> Phase(item[i])],
    spent <- [i \in InitialItems |-> item[i].attempts]

\* The promise of AttemptLedger, for the items queued from the start, when no
\* recruiter reopens them: what the guarded updates, the recovery of expired
\* leases and the retry policy of _settle_failure keep together.
KeepsLedger == Ledger!Spec

-----------------------------------------------------------------------------
(* Liveness.                                                               *)

\* "the item is not stuck IN_PROGRESS forever" (recover_expired_leases), and
\* a queued item of a manual queue is settled in the end, whether the
\* candidate answers or not and whichever workers die.
ItemsSettle ==
    \A i \in InitialItems : ~IsAuto(i) => <>(item[i].status \in TerminalStatus)

=============================================================================
