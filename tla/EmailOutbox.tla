----------------------------- MODULE EmailOutbox -----------------------------
(***************************************************************************)
(* The email outbox (services/db/email_outbox.py) and the background pass  *)
(* that drains it (application/email_dispatch_service.py, process_next)    *)
(* in one or more worker processes.  A claim consumes an attempt and moves *)
(* next_attempt_at into the future; the row stays PENDING.  Sending and    *)
(* settling are steps of their own, and a worker may die between any two.  *)
(***************************************************************************)
EXTENDS Naturals, Sequences

CONSTANTS Workers,
          MaxAttempts   \* max_attempts of every row

ASSUME OutboxAssumption == MaxAttempts \in Nat \ {0}

VARIABLES
    outbox,  \* the table, by id
    sender,  \* per worker: the row it has claimed and how far it is
    deaths

outboxVars == <<outbox, sender, deaths>>

EmailOutboxStatus == {"pending", "sent", "failed"}

\* later: next_attempt_at is in the future.  sends is history.
Email == [link : Nat, status : EmailOutboxStatus, attempts : Nat,
          later : BOOLEAN, sends : Nat]

OutboxTypeOK ==
    /\ outbox \in Seq(Email)
    /\ sender \in [Workers -> [at : {"idle", "claimed", "sent", "error"}, row : Nat]]
    /\ deaths \in Nat
    /\ \A i \in DOMAIN outbox : outbox[i].attempts <= MaxAttempts + deaths

OutboxInit ==
    /\ outbox = << >>
    /\ sender = [w \in Workers |-> [at |-> "idle", row |-> 0]]
    /\ deaths = 0

\* enqueue; the idempotency key is the fingerprint of the link's token, and an
\* email of that key is left as it is.
Enqueued(link) ==
    IF \E i \in DOMAIN outbox : outbox[i].link = link THEN outbox
    ELSE Append(outbox, [link |-> link, status |-> "pending", attempts |-> 0,
                         later |-> FALSE, sends |-> 0])

\* _due_query.
Due == {i \in DOMAIN outbox : outbox[i].status = "pending" /\ ~outbox[i].later}

\* Mutant: the claim consumes an attempt and reserves nothing.
Claimed_Unreserved(i) == [outbox EXCEPT ![i].attempts = @ + 1]

Claimed(i) == [outbox EXCEPT ![i].attempts = @ + 1, ![i].later = TRUE]

Released(w) == [sender EXCEPT ![w] = [at |-> "idle", row |-> 0]]

ClaimDue(w) ==
    /\ sender[w].at = "idle"
    /\ \E i \in Due :
          /\ \A j \in Due : i <= j
          /\ outbox' = Claimed(i)
          /\ sender' = [sender EXCEPT ![w] = [at |-> "claimed", row |-> i]]
    /\ UNCHANGED deaths

SendSucceeds(w) ==
    /\ sender[w].at = "claimed"
    /\ outbox' = [outbox EXCEPT ![sender[w].row].sends = @ + 1]
    /\ sender' = [sender EXCEPT ![w].at = "sent"]
    /\ UNCHANGED deaths

SendFails(w) ==
    /\ sender[w].at = "claimed"
    /\ sender' = [sender EXCEPT ![w].at = "error"]
    /\ UNCHANGED <<outbox, deaths>>

MarkSent(w) ==
    /\ sender[w].at = "sent"
    /\ outbox' = [outbox EXCEPT ![sender[w].row].status = "sent",
                                ![sender[w].row].later = FALSE]
    /\ sender' = Released(w)
    /\ UNCHANGED deaths

\* Mutant: the last attempt is retried too.
Exhausted_Late(email) == email.attempts > MaxAttempts

Exhausted(email) == email.attempts >= MaxAttempts

\* mark_failed or mark_retry.
MarkUnsent(w) ==
    /\ sender[w].at = "error"
    /\ LET i == sender[w].row
           over == Exhausted(outbox[i])
       IN  outbox' = [outbox EXCEPT ![i].status = IF over THEN "failed" ELSE "pending",
                                    ![i].later  = ~over]
    /\ sender' = Released(w)
    /\ UNCHANGED deaths

\* next_attempt_at passes.  A send ends well within reserve_seconds, so a row in
\* a worker's hands is not due.
BecomesDue(i) ==
    /\ i \in DOMAIN outbox
    /\ outbox[i].status = "pending" /\ outbox[i].later
    /\ \A w \in Workers : sender[w].row # i
    /\ outbox' = [outbox EXCEPT ![i].later = FALSE]
    /\ UNCHANGED <<sender, deaths>>

WorkerDies(w) ==
    /\ sender[w].at # "idle"
    /\ deaths' = deaths + 1
    /\ sender' = Released(w)
    /\ UNCHANGED outbox

DispatchStep ==
    \/ \E w \in Workers : \/ ClaimDue(w) \/ SendSucceeds(w) \/ SendFails(w)
                          \/ MarkSent(w) \/ MarkUnsent(w)
    \/ \E i \in DOMAIN outbox : BecomesDue(i)

\* However the passes of several workers interleave, an email goes out twice only
\* when a worker has died between sending it and saying so (email_outbox.py:3).
SentOncePerDeath == \A i \in DOMAIN outbox : outbox[i].sends <= 1 + deaths
=============================================================================
