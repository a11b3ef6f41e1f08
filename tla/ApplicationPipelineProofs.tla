---------------------- MODULE ApplicationPipelineProofs ----------------------
(***************************************************************************)
(* The application pipeline for any number of addresses, requests, workers *)
(* of the outbox, recruiter's tabs, crashes and lapsed links.              *)
(***************************************************************************)
EXTENDS ApplicationPipeline, FiniteSetTheorems, SequenceTheorems, TLAPS

USE PipelineAssumption, TemplateAssumption, OutboxAssumption

-----------------------------------------------------------------------------
(* The outbox.                                                             *)

Holds(w, i) == sender[w].at # "idle" /\ sender[w].row = i
SentBy(w, i) == sender[w].at = "sent" /\ sender[w].row = i

\* A row in a worker's hands is pending, reserved, and in no other's hands.
SenderHolds(w) ==
    /\ sender[w].at = "idle" => sender[w].row = 0
    /\ sender[w].at # "idle" =>
          /\ sender[w].row \in DOMAIN outbox
          /\ outbox[sender[w].row].status = "pending" /\ outbox[sender[w].row].later
          /\ \A v \in Workers : v # w => ~Holds(v, sender[w].row)

\* What was sent and is not accounted for was sent by a worker that died; and
\* so was the attempt beyond the last.
EmailHolds(i) ==
    /\ outbox[i].sends <= 1 + deaths
    /\ (outbox[i].status # "sent" /\ \A w \in Workers : ~SentBy(w, i)) => outbox[i].sends <= deaths
    /\ outbox[i].attempts <= MaxAttempts + deaths
    /\ (outbox[i].status = "pending" /\ \A w \in Workers : ~Holds(w, i)) =>
          outbox[i].attempts < MaxAttempts + deaths

Sender == [at : {"idle", "claimed", "sent", "error"}, row : Nat]

OutboxHolds ==
    /\ outbox \in Seq(Email)
    /\ sender \in [Workers -> Sender]
    /\ deaths \in Nat
    /\ \A w \in Workers : SenderHolds(w)
    /\ \A i \in DOMAIN outbox : EmailHolds(i)

\* Emails are never taken out, nor addressed to another link.
OutboxGrows ==
    /\ DOMAIN outbox \subseteq DOMAIN outbox'
    /\ \A i \in DOMAIN outbox : outbox'[i].link = outbox[i].link

\* The invariant of the outbox contains its types.
LEMMA OutboxTypes == OutboxHolds => OutboxTypeOK
BY DEF OutboxHolds, EmailHolds, OutboxTypeOK, Sender

\* An empty outbox satisfies it.
LEMMA OutboxStarts == OutboxInit => OutboxHolds
BY DEF OutboxInit, OutboxHolds, SenderHolds, EmailHolds, Sender

\* A bound that counts deaths holds when there are more of them.
LEMMA MoreDeaths ==
  ASSUME NEW n \in Nat, NEW k \in Nat, NEW d \in Nat, NEW e \in Nat, d <= e
  PROVE  /\ n <= k + d => n <= k + e
         /\ n < k + d => n < k + e
         /\ n <= d => n <= e
OBVIOUS

\* One row rewritten by the worker that moves.
LEMMA RowMoves ==
  ASSUME OutboxHolds, NEW w \in Workers, NEW i \in DOMAIN outbox, NEW email \in Email,
         NEW new \in Sender, email.link = outbox[i].link,
         \A v \in Workers : v # w => ~Holds(v, i),
         sender[w].at # "idle" => sender[w].row = i, new.at # "idle" => new.row = i,
         outbox' = [outbox EXCEPT ![i] = email],
         sender' = [sender EXCEPT ![w] = new],
         deaths' \in Nat, deaths <= deaths',
         SenderHolds(w)', EmailHolds(i)'
  PROVE  OutboxHolds' /\ OutboxGrows
<1>1. /\ outbox \in Seq(Email) /\ sender \in [Workers -> Sender] /\ deaths \in Nat
      /\ DOMAIN outbox = 1..Len(outbox)
  BY DEF OutboxHolds
<1>2. /\ outbox' \in Seq(Email) /\ DOMAIN outbox' = DOMAIN outbox
      /\ outbox'[i] = email /\ \A j \in DOMAIN outbox : j # i => outbox'[j] = outbox[j]
  BY <1>1, ExceptSeq
<1>3. /\ sender' \in [Workers -> Sender] /\ sender'[w] = new
      /\ \A v \in Workers : v # w => sender'[v] = sender[v]
  BY <1>1
<1>4. ASSUME NEW v \in Workers, v # w PROVE SenderHolds(v)'
  <2>1. SenderHolds(v)
    BY DEF OutboxHolds
  <2>2. CASE sender[v].at = "idle"
    BY <1>3, <1>4, <2>1, <2>2 DEF SenderHolds
  <2>3. CASE sender[v].at # "idle"
    <3>1. sender[v].row # i /\ sender[v].row \in DOMAIN outbox
      BY <1>4, <2>1, <2>3 DEF SenderHolds, Holds
    <3>2. ASSUME NEW u \in Workers, u # v
          PROVE  ~(sender'[u].at # "idle" /\ sender'[u].row = sender[v].row)
      <4>1. CASE u = w
        BY <1>3, <3>1, <4>1
      <4>2. CASE u # w
        <5>1. sender'[u] = sender[u] /\ ~Holds(u, sender[v].row)
          BY <1>3, <2>1, <2>3, <3>2, <4>2 DEF SenderHolds
        <5> QED
          BY <5>1 DEF Holds
      <4> QED
        BY <4>1, <4>2
    <3> QED
      BY <1>2, <1>3, <1>4, <2>1, <2>3, <3>1, <3>2 DEF SenderHolds, Holds
  <2> QED
    BY <2>2, <2>3
<1>5. ASSUME NEW j \in DOMAIN outbox, j # i PROVE EmailHolds(j)'
  <2>1. EmailHolds(j) /\ outbox'[j] = outbox[j] /\ outbox[j] \in Email
    BY <1>1, <1>2, <1>5 DEF OutboxHolds
  <2>2. \A v \in Workers : Holds(v, j) => Holds(v, j)'
    BY <1>3, <1>5 DEF Holds
  <2>3. \A v \in Workers : SentBy(v, j) => SentBy(v, j)'
    BY <1>3, <1>5 DEF SentBy
  <2>4. outbox[j].sends \in Nat /\ outbox[j].attempts \in Nat /\ MaxAttempts \in Nat
    BY <2>1 DEF Email
  <2>. DEFINE sends == outbox[j].sends
              attempts == outbox[j].attempts
  <2>5. /\ sends <= 1 + deaths'
        /\ attempts <= MaxAttempts + deaths'
    <3>1. sends <= 1 + deaths /\ attempts <= MaxAttempts + deaths
      BY <2>1 DEF EmailHolds
    <3>2. sends \in Nat /\ attempts \in Nat /\ deaths \in Nat
      BY <1>1, <2>4
    <3>. HIDE DEF sends, attempts
    <3>3. sends <= 1 + deaths'
      BY <3>1, <3>2, MoreDeaths
    <3>4. attempts <= MaxAttempts + deaths'
      BY <2>4, <3>1, <3>2, MoreDeaths
    <3> QED
      BY <3>3, <3>4
  <2>6. ASSUME outbox[j].status # "sent", \A v \in Workers : ~SentBy(v, j)'
        PROVE  sends <= deaths'
    <3>1. \A v \in Workers : ~SentBy(v, j)
      BY <2>3, <2>6
    <3>2. sends <= deaths /\ sends \in Nat /\ deaths \in Nat
      BY <1>1, <2>1, <2>4, <2>6, <3>1 DEF EmailHolds
    <3>. HIDE DEF sends
    <3> QED
      BY <3>2, MoreDeaths
  <2>7. ASSUME outbox[j].status = "pending", \A v \in Workers : ~Holds(v, j)'
        PROVE  attempts < MaxAttempts + deaths'
    <3>1. \A v \in Workers : ~Holds(v, j)
      BY <2>2, <2>7
    <3>2. attempts < MaxAttempts + deaths /\ attempts \in Nat /\ deaths \in Nat
      BY <1>1, <2>1, <2>4, <2>7, <3>1 DEF EmailHolds
    <3>. HIDE DEF attempts
    <3> QED
      BY <2>4, <3>2, MoreDeaths
  <2> QED
    BY <2>1, <2>5, <2>6, <2>7 DEF EmailHolds
<1>6. OutboxGrows
  BY <1>2 DEF OutboxGrows
<1> QED
  BY <1>2, <1>3, <1>4, <1>5, <1>6 DEF OutboxHolds

\* What RowMoves asks of the row a worker holds.
LEMMA HeldRow ==
  ASSUME OutboxHolds, NEW w \in Workers, sender[w].at # "idle"
  PROVE  /\ sender[w].row \in DOMAIN outbox /\ sender[w].row \in Nat \ {0}
         /\ outbox[sender[w].row] \in Email /\ EmailHolds(sender[w].row)
         /\ outbox[sender[w].row].status = "pending" /\ outbox[sender[w].row].later
         /\ \A v \in Workers : v # w => ~Holds(v, sender[w].row)
         /\ \A v \in Workers : v # w => ~SentBy(v, sender[w].row)
<1>1. SenderHolds(w) /\ outbox \in Seq(Email) /\ DOMAIN outbox = 1..Len(outbox)
  BY DEF OutboxHolds
<1>2. sender[w].row \in DOMAIN outbox /\ EmailHolds(sender[w].row)
  BY <1>1 DEF OutboxHolds, SenderHolds
<1>3. \A v \in Workers : v # w => ~Holds(v, sender[w].row)
  BY <1>1 DEF SenderHolds
<1>4. \A v \in Workers : v # w => ~SentBy(v, sender[w].row)
  BY <1>3 DEF Holds, SentBy
<1> QED
  BY <1>1, <1>2, <1>3, <1>4 DEF SenderHolds

\* Claiming takes a row that is due, so in nobody's hands.
LEMMA Claims ==
  ASSUME OutboxHolds, NEW w \in Workers, ClaimDue(w)
  PROVE  OutboxHolds' /\ OutboxGrows
<1>1. /\ outbox \in Seq(Email) /\ sender \in [Workers -> Sender] /\ deaths \in Nat
      /\ DOMAIN outbox = 1..Len(outbox)
  BY DEF OutboxHolds
<1>2. PICK i \in Due : /\ outbox' = Claimed(i)
                       /\ sender' = [sender EXCEPT ![w] = [at |-> "claimed", row |-> i]]
  BY DEF ClaimDue
<1>3. i \in DOMAIN outbox /\ i \in Nat /\ outbox[i] \in Email
      /\ outbox[i].status = "pending" /\ ~outbox[i].later /\ EmailHolds(i)
  BY <1>1, <1>2 DEF Due, OutboxHolds
<1>4. \A v \in Workers : ~Holds(v, i)
  BY <1>3 DEF OutboxHolds, SenderHolds, Holds
<1>5. \A v \in Workers : ~SentBy(v, i)
  BY <1>4 DEF Holds, SentBy
<1> DEFINE email == [outbox[i] EXCEPT !.attempts = @ + 1, !.later = TRUE]
           new == [at |-> "claimed", row |-> i]
<1>6. /\ outbox[i].attempts \in Nat /\ outbox[i].sends \in Nat /\ MaxAttempts \in Nat
      /\ outbox[i].attempts + 1 \in Nat
  BY <1>3 DEF Email
<1>7. /\ email \in Email /\ email.link = outbox[i].link /\ email.status = "pending"
      /\ email.attempts = outbox[i].attempts + 1 /\ email.later
      /\ email.sends = outbox[i].sends
  BY <1>3, <1>6 DEF Email
<1>8. new \in Sender /\ new.at = "claimed" /\ new.row = i
  BY <1>3 DEF Sender
<1>9. outbox' = [outbox EXCEPT ![i] = email] /\ sender' = [sender EXCEPT ![w] = new]
  BY <1>2 DEF Claimed
<1> HIDE DEF email, new
<1>10. /\ outbox'[i] = email /\ DOMAIN outbox' = DOMAIN outbox
       /\ sender'[w] = new /\ \A v \in Workers : v # w => sender'[v] = sender[v]
       /\ deaths' = deaths
  BY <1>1, <1>3, <1>9 DEF ClaimDue
<1>11. SenderHolds(w)'
  BY <1>3, <1>4, <1>7, <1>8, <1>10 DEF SenderHolds, Holds
<1>12. outbox[i].sends <= deaths /\ outbox[i].attempts < MaxAttempts + deaths
  BY <1>3, <1>4, <1>5 DEF EmailHolds
<1>13. EmailHolds(i)'
  <2>1. email.sends <= 1 + deaths /\ email.sends <= deaths
        /\ email.attempts <= MaxAttempts + deaths
    BY <1>1, <1>6, <1>7, <1>12
  <2>2. Holds(w, i)'
    BY <1>8, <1>10 DEF Holds
  <2> QED
    BY <1>10, <2>1, <2>2 DEF EmailHolds
<1>14. sender[w].at = "idle"
  BY DEF ClaimDue
<1>15. /\ deaths' \in Nat /\ deaths <= deaths'
       /\ \A v \in Workers : v # w => ~Holds(v, i)
       /\ sender[w].at # "idle" => sender[w].row = i
       /\ new.at # "idle" => new.row = i
  BY <1>1, <1>4, <1>8, <1>10, <1>14
<1> QED
  BY <1>3, <1>7, <1>8, <1>9, <1>11, <1>13, <1>15, RowMoves

\* Sending is possible once while the row is held.
LEMMA Sends ==
  ASSUME OutboxHolds, NEW w \in Workers, SendSucceeds(w)
  PROVE  OutboxHolds' /\ OutboxGrows
<1>0. PICK i : i = sender[w].row
  OBVIOUS
<1> DEFINE email == [outbox[i] EXCEPT !.sends = @ + 1]
           new == [sender[w] EXCEPT !.at = "sent"]
<1>1. /\ outbox \in Seq(Email) /\ sender \in [Workers -> Sender] /\ deaths \in Nat
      /\ sender[w] \in Sender /\ DOMAIN outbox = 1..Len(outbox) /\ sender[w].at = "claimed"
  BY DEF OutboxHolds, SendSucceeds
<1>2. /\ i \in DOMAIN outbox /\ i \in Nat /\ outbox[i] \in Email /\ EmailHolds(i)
      /\ outbox[i].status = "pending" /\ outbox[i].later
      /\ \A v \in Workers : v # w => ~Holds(v, i)
      /\ \A v \in Workers : v # w => ~SentBy(v, i)
  BY <1>0, <1>1, HeldRow
<1>3. /\ outbox[i].attempts \in Nat /\ outbox[i].sends \in Nat /\ MaxAttempts \in Nat
      /\ outbox[i].sends + 1 \in Nat
  BY <1>2 DEF Email
<1>4. email \in Email /\ email.link = outbox[i].link /\ email.attempts = outbox[i].attempts
      /\ email.sends = outbox[i].sends + 1 /\ email.status = "pending" /\ email.later
  BY <1>2, <1>3 DEF Email, EmailOutboxStatus
<1>5. new \in Sender /\ new.at = "sent" /\ new.row = i
  BY <1>0, <1>1, <1>2 DEF Sender
<1>6. outbox' = [outbox EXCEPT ![i] = email] /\ sender' = [sender EXCEPT ![w] = new]
      /\ deaths' = deaths
  BY <1>0, <1>1, <1>2 DEF SendSucceeds
<1> HIDE DEF email, new
<1>7. /\ outbox'[i] = email /\ DOMAIN outbox' = DOMAIN outbox
      /\ sender'[w] = new /\ \A v \in Workers : v # w => sender'[v] = sender[v]
  BY <1>0, <1>1, <1>2, <1>6
<1>8. SenderHolds(w)'
  BY <1>2, <1>4, <1>5, <1>7 DEF SenderHolds, Holds
<1>9. SentBy(w, i)' /\ Holds(w, i)'  /\ \A v \in Workers : ~SentBy(v, i)
  BY <1>0, <1>1, <1>2, <1>5, <1>7 DEF SentBy, Holds
<1>10. /\ outbox[i].sends <= 1 + deaths /\ outbox[i].attempts <= MaxAttempts + deaths
       /\ outbox[i].sends <= deaths
  BY <1>0, <1>1, <1>2, <1>9 DEF EmailHolds, SentBy, Holds
<1>11. EmailHolds(i)'
  <2>1. /\ email.sends <= 1 + deaths' /\ email.attempts <= MaxAttempts + deaths'
        /\ email.status = "pending"
    BY <1>1, <1>3, <1>4, <1>6, <1>10
  <2> QED
    BY <1>4, <1>7, <1>9, <2>1 DEF EmailHolds
<1>12. /\ deaths' \in Nat /\ deaths <= deaths'
       /\ \A v \in Workers : v # w => ~Holds(v, i)
       /\ sender[w].at # "idle" => sender[w].row = i
       /\ new.at # "idle" => new.row = i
  BY <1>0, <1>1, <1>2, <1>5, <1>6
<1> QED
  BY <1>2, <1>4, <1>5, <1>6, <1>8, <1>11, <1>12, RowMoves

\* A send that fails leaves the row as it is.
LEMMA Fails ==
  ASSUME OutboxHolds, NEW w \in Workers, SendFails(w)
  PROVE  OutboxHolds' /\ OutboxGrows
<1>0. PICK i : i = sender[w].row
  OBVIOUS
<1> DEFINE email == outbox[i]
           new == [sender[w] EXCEPT !.at = "error"]
<1>1. /\ outbox \in Seq(Email) /\ sender \in [Workers -> Sender] /\ deaths \in Nat
      /\ sender[w] \in Sender /\ DOMAIN outbox = 1..Len(outbox) /\ sender[w].at = "claimed"
  BY DEF OutboxHolds, SendFails
<1>2. /\ i \in DOMAIN outbox /\ i \in Nat /\ outbox[i] \in Email /\ EmailHolds(i)
      /\ outbox[i].status = "pending" /\ outbox[i].later
      /\ \A v \in Workers : v # w => ~Holds(v, i)
      /\ \A v \in Workers : v # w => ~SentBy(v, i)
  BY <1>0, <1>1, HeldRow
<1>3. /\ outbox[i].attempts \in Nat /\ outbox[i].sends \in Nat /\ MaxAttempts \in Nat
      /\ outbox[i].sends + 1 \in Nat
  BY <1>2 DEF Email
<1>4. email \in Email /\ email.link = outbox[i].link /\ email.attempts = outbox[i].attempts
      /\ email.sends = outbox[i].sends /\ email.status = "pending" /\ email.later
  BY <1>2, <1>3 DEF Email, EmailOutboxStatus
<1>5. new \in Sender /\ new.at = "error" /\ new.row = i
  BY <1>0, <1>1, <1>2 DEF Sender
<1>6. outbox' = [outbox EXCEPT ![i] = email] /\ sender' = [sender EXCEPT ![w] = new]
      /\ deaths' = deaths
  BY <1>0, <1>1, <1>2 DEF SendFails
<1> HIDE DEF email, new
<1>7. /\ outbox'[i] = email /\ DOMAIN outbox' = DOMAIN outbox
      /\ sender'[w] = new /\ \A v \in Workers : v # w => sender'[v] = sender[v]
  BY <1>0, <1>1, <1>2, <1>6
<1>8. SenderHolds(w)'
  BY <1>2, <1>4, <1>5, <1>7 DEF SenderHolds, Holds
<1>9. Holds(w, i)' /\ \A v \in Workers : ~SentBy(v, i)
  BY <1>0, <1>1, <1>2, <1>5, <1>7 DEF SentBy, Holds
<1>10. /\ outbox[i].sends <= 1 + deaths /\ outbox[i].attempts <= MaxAttempts + deaths
       /\ outbox[i].sends <= deaths
  BY <1>0, <1>1, <1>2, <1>9 DEF EmailHolds, SentBy, Holds
<1>11. EmailHolds(i)'
  <2>1. /\ email.sends <= 1 + deaths' /\ email.attempts <= MaxAttempts + deaths'
        /\ email.sends <= deaths'
    BY <1>1, <1>3, <1>4, <1>6, <1>10
  <2> QED
    BY <1>4, <1>7, <1>9, <2>1 DEF EmailHolds
<1>12. /\ deaths' \in Nat /\ deaths <= deaths'
       /\ \A v \in Workers : v # w => ~Holds(v, i)
       /\ sender[w].at # "idle" => sender[w].row = i
       /\ new.at # "idle" => new.row = i
  BY <1>0, <1>1, <1>2, <1>5, <1>6
<1> QED
  BY <1>2, <1>4, <1>5, <1>6, <1>8, <1>11, <1>12, RowMoves

\* What is sent is accounted for.
LEMMA Marks ==
  ASSUME OutboxHolds, NEW w \in Workers, MarkSent(w)
  PROVE  OutboxHolds' /\ OutboxGrows
<1>0. PICK i : i = sender[w].row
  OBVIOUS
<1> DEFINE email == [outbox[i] EXCEPT !.status = "sent", !.later = FALSE]
           new == [at |-> "idle", row |-> 0]
<1>1. /\ outbox \in Seq(Email) /\ sender \in [Workers -> Sender] /\ deaths \in Nat
      /\ sender[w] \in Sender /\ DOMAIN outbox = 1..Len(outbox) /\ sender[w].at = "sent"
  BY DEF OutboxHolds, MarkSent
<1>2. /\ i \in DOMAIN outbox /\ i \in Nat /\ outbox[i] \in Email /\ EmailHolds(i)
      /\ outbox[i].status = "pending" /\ outbox[i].later
      /\ \A v \in Workers : v # w => ~Holds(v, i)
      /\ \A v \in Workers : v # w => ~SentBy(v, i)
  BY <1>0, <1>1, HeldRow
<1>3. /\ outbox[i].attempts \in Nat /\ outbox[i].sends \in Nat /\ MaxAttempts \in Nat
      /\ outbox[i].sends + 1 \in Nat
  BY <1>2 DEF Email
<1>4. email \in Email /\ email.link = outbox[i].link /\ email.attempts = outbox[i].attempts
      /\ email.sends = outbox[i].sends /\ email.status = "sent" /\ ~email.later
  BY <1>2, <1>3 DEF Email, EmailOutboxStatus
<1>5. new \in Sender /\ new.at = "idle" /\ new.row = 0
  BY <1>0, <1>1, <1>2 DEF Sender
<1>6. outbox' = [outbox EXCEPT ![i] = email] /\ sender' = [sender EXCEPT ![w] = new]
      /\ deaths' = deaths
  BY <1>0, <1>1, <1>2 DEF MarkSent, Released
<1> HIDE DEF email, new
<1>7. /\ outbox'[i] = email /\ DOMAIN outbox' = DOMAIN outbox
      /\ sender'[w] = new /\ \A v \in Workers : v # w => sender'[v] = sender[v]
  BY <1>0, <1>1, <1>2, <1>6
<1>8. SenderHolds(w)'
  BY <1>2, <1>4, <1>5, <1>7 DEF SenderHolds, Holds
<1>9. SentBy(w, i)
  BY <1>0, <1>1, <1>2, <1>5, <1>7 DEF SentBy
<1>10. /\ outbox[i].sends <= 1 + deaths /\ outbox[i].attempts <= MaxAttempts + deaths
       /\ outbox[i].sends <= 1 + deaths
  BY <1>0, <1>1, <1>2 DEF EmailHolds, SentBy
<1>11. EmailHolds(i)'
  <2>1. /\ email.sends <= 1 + deaths' /\ email.attempts <= MaxAttempts + deaths'
        /\ email.status = "sent"
    BY <1>1, <1>3, <1>4, <1>6, <1>10
  <2> QED
    BY <1>4, <1>7, <1>9, <2>1 DEF EmailHolds
<1>12. /\ deaths' \in Nat /\ deaths <= deaths'
       /\ \A v \in Workers : v # w => ~Holds(v, i)
       /\ sender[w].at # "idle" => sender[w].row = i
       /\ new.at # "idle" => new.row = i
  BY <1>0, <1>1, <1>2, <1>5, <1>6
<1> QED
  BY <1>2, <1>4, <1>5, <1>6, <1>8, <1>11, <1>12, RowMoves

\* A row is put back only while it has attempts left.
LEMMA Retries ==
  ASSUME OutboxHolds, NEW w \in Workers, MarkUnsent(w)
  PROVE  OutboxHolds' /\ OutboxGrows
<1>0. PICK i : i = sender[w].row
  OBVIOUS
<1> DEFINE status == IF Exhausted(outbox[i]) THEN "failed" ELSE "pending"
           later == ~Exhausted(outbox[i])
           email == [outbox[i] EXCEPT !.status = status, !.later = later]
           new == [at |-> "idle", row |-> 0]
<1>1. /\ outbox \in Seq(Email) /\ sender \in [Workers -> Sender] /\ deaths \in Nat
      /\ sender[w] \in Sender /\ DOMAIN outbox = 1..Len(outbox) /\ sender[w].at = "error"
  BY DEF OutboxHolds, MarkUnsent
<1>2. /\ i \in DOMAIN outbox /\ i \in Nat /\ outbox[i] \in Email /\ EmailHolds(i)
      /\ outbox[i].status = "pending" /\ outbox[i].later
      /\ \A v \in Workers : v # w => ~Holds(v, i)
      /\ \A v \in Workers : v # w => ~SentBy(v, i)
  BY <1>0, <1>1, HeldRow
<1>3. /\ outbox[i].attempts \in Nat /\ outbox[i].sends \in Nat /\ MaxAttempts \in Nat
      /\ outbox[i].sends + 1 \in Nat
  BY <1>2 DEF Email
<1>4. email \in Email /\ email.link = outbox[i].link /\ email.attempts = outbox[i].attempts
      /\ email.sends = outbox[i].sends /\ email.status # "sent"
      /\ (email.status = "pending" => outbox[i].attempts < MaxAttempts)
  <2>1. /\ status \in EmailOutboxStatus /\ later \in BOOLEAN
        /\ status # "sent" /\ (status = "pending" => outbox[i].attempts < MaxAttempts)
    BY <1>3 DEF EmailOutboxStatus, Exhausted
  <2> HIDE DEF status, later
  <2> QED
    BY <1>2, <1>3, <2>1 DEF Email
<1>5. new \in Sender /\ new.at = "idle" /\ new.row = 0
  BY <1>0, <1>1, <1>2 DEF Sender
<1>6. outbox' = [outbox EXCEPT ![i] = email] /\ sender' = [sender EXCEPT ![w] = new]
      /\ deaths' = deaths
  BY <1>0, <1>1, <1>2 DEF MarkUnsent, Released, Exhausted
<1> HIDE DEF email, new
<1>7. /\ outbox'[i] = email /\ DOMAIN outbox' = DOMAIN outbox
      /\ sender'[w] = new /\ \A v \in Workers : v # w => sender'[v] = sender[v]
  BY <1>0, <1>1, <1>2, <1>6
<1>8. SenderHolds(w)'
  BY <1>2, <1>4, <1>5, <1>7 DEF SenderHolds, Holds
<1>9. \A v \in Workers : ~SentBy(v, i)
  BY <1>0, <1>1, <1>2, <1>5, <1>7 DEF SentBy
<1>10. /\ outbox[i].sends <= 1 + deaths /\ outbox[i].attempts <= MaxAttempts + deaths
       /\ outbox[i].sends <= deaths
  BY <1>0, <1>1, <1>2, <1>9 DEF EmailHolds, SentBy
<1>11. EmailHolds(i)'
  <2>1. /\ email.sends <= 1 + deaths' /\ email.attempts <= MaxAttempts + deaths'
        /\ email.sends <= deaths' /\ (email.status = "pending" => email.attempts < MaxAttempts + deaths')
    BY <1>1, <1>3, <1>4, <1>6, <1>10
  <2> QED
    BY <1>4, <1>7, <1>9, <2>1 DEF EmailHolds
<1>12. /\ deaths' \in Nat /\ deaths <= deaths'
       /\ \A v \in Workers : v # w => ~Holds(v, i)
       /\ sender[w].at # "idle" => sender[w].row = i
       /\ new.at # "idle" => new.row = i
  BY <1>0, <1>1, <1>2, <1>5, <1>6
<1> QED
  BY <1>2, <1>4, <1>5, <1>6, <1>8, <1>11, <1>12, RowMoves

\* A death accounts for what was sent and for the attempt it takes with it.
LEMMA Dies ==
  ASSUME OutboxHolds, NEW w \in Workers, WorkerDies(w)
  PROVE  OutboxHolds' /\ OutboxGrows
<1>0. PICK i : i = sender[w].row
  OBVIOUS
<1> DEFINE email == outbox[i]
           new == [at |-> "idle", row |-> 0]
<1>1. /\ outbox \in Seq(Email) /\ sender \in [Workers -> Sender] /\ deaths \in Nat
      /\ sender[w] \in Sender /\ DOMAIN outbox = 1..Len(outbox) /\ sender[w].at # "idle"
  BY DEF OutboxHolds, WorkerDies
<1>2. /\ i \in DOMAIN outbox /\ i \in Nat /\ outbox[i] \in Email /\ EmailHolds(i)
      /\ outbox[i].status = "pending" /\ outbox[i].later
      /\ \A v \in Workers : v # w => ~Holds(v, i)
      /\ \A v \in Workers : v # w => ~SentBy(v, i)
  BY <1>0, <1>1, HeldRow
<1>3. /\ outbox[i].attempts \in Nat /\ outbox[i].sends \in Nat /\ MaxAttempts \in Nat
      /\ outbox[i].sends + 1 \in Nat
  BY <1>2 DEF Email
<1>4. email \in Email /\ email.link = outbox[i].link /\ email.attempts = outbox[i].attempts
      /\ email.sends = outbox[i].sends /\ email.status = "pending"
  BY <1>2, <1>3 DEF Email, EmailOutboxStatus
<1>5. new \in Sender /\ new.at = "idle" /\ new.row = 0
  BY <1>0, <1>1, <1>2 DEF Sender
<1>6. outbox' = [outbox EXCEPT ![i] = email] /\ sender' = [sender EXCEPT ![w] = new]
      /\ deaths' = deaths + 1
  BY <1>0, <1>1, <1>2 DEF WorkerDies, Released
<1> HIDE DEF email, new
<1>7. /\ outbox'[i] = email /\ DOMAIN outbox' = DOMAIN outbox
      /\ sender'[w] = new /\ \A v \in Workers : v # w => sender'[v] = sender[v]
  BY <1>0, <1>1, <1>2, <1>6
<1>8. SenderHolds(w)'
  BY <1>2, <1>4, <1>5, <1>7 DEF SenderHolds, Holds
<1>9. Holds(w, i)
  BY <1>0, <1>1, <1>2, <1>5, <1>7 DEF SentBy, Holds
<1>10. /\ outbox[i].sends <= 1 + deaths /\ outbox[i].attempts <= MaxAttempts + deaths
       /\ outbox[i].sends <= 1 + deaths
  BY <1>0, <1>1, <1>2 DEF EmailHolds, SentBy, Holds
<1>11. EmailHolds(i)'
  <2>1. /\ email.sends <= 1 + deaths' /\ email.attempts <= MaxAttempts + deaths'
        /\ email.sends <= deaths' /\ email.attempts < MaxAttempts + deaths'
    BY <1>1, <1>3, <1>4, <1>6, <1>10
  <2> QED
    BY <1>4, <1>7, <1>9, <2>1 DEF EmailHolds
<1>12. /\ deaths' \in Nat /\ deaths <= deaths'
       /\ \A v \in Workers : v # w => ~Holds(v, i)
       /\ sender[w].at # "idle" => sender[w].row = i
       /\ new.at # "idle" => new.row = i
  BY <1>0, <1>1, <1>2, <1>5, <1>6
<1> QED
  BY <1>2, <1>4, <1>5, <1>6, <1>8, <1>11, <1>12, RowMoves

\* What becomes due again is in nobody's hands.
LEMMA Dues ==
  ASSUME OutboxHolds, NEW i \in DOMAIN outbox, BecomesDue(i)
  PROVE  OutboxHolds' /\ OutboxGrows
<1>1. /\ outbox \in Seq(Email) /\ sender \in [Workers -> Sender] /\ deaths \in Nat
      /\ DOMAIN outbox = 1..Len(outbox) /\ outbox[i] \in Email
      /\ \A w \in Workers : sender[w].row # i
  BY DEF OutboxHolds, BecomesDue
<1> DEFINE email == [outbox[i] EXCEPT !.later = FALSE]
<1>2. /\ email \in Email /\ email.link = outbox[i].link /\ email.sends = outbox[i].sends
      /\ email.status = outbox[i].status /\ email.attempts = outbox[i].attempts
  BY <1>1 DEF Email
<1>3. outbox' = [outbox EXCEPT ![i] = email] /\ sender' = sender /\ deaths' = deaths
  BY <1>1 DEF BecomesDue
<1> HIDE DEF email
<1>4. /\ outbox' \in Seq(Email) /\ DOMAIN outbox' = DOMAIN outbox
      /\ outbox'[i] = email /\ \A j \in DOMAIN outbox : j # i => outbox'[j] = outbox[j]
  BY <1>1, <1>2, <1>3, ExceptSeq
<1>5. ASSUME NEW w \in Workers PROVE SenderHolds(w)'
  <2>1. SenderHolds(w) /\ sender[w].row # i
    BY <1>1 DEF OutboxHolds
  <2> QED
    BY <1>3, <1>4, <2>1 DEF SenderHolds, Holds
<1>6. ASSUME NEW j \in DOMAIN outbox PROVE EmailHolds(j)'
  <2>1. EmailHolds(j)
    BY DEF OutboxHolds
  <2>2. /\ outbox'[j].sends = outbox[j].sends /\ outbox'[j].status = outbox[j].status
        /\ outbox'[j].attempts = outbox[j].attempts
    BY <1>2, <1>4
  <2> QED
    BY <1>3, <2>1, <2>2 DEF EmailHolds, Holds, SentBy
<1>7. OutboxGrows
  BY <1>2, <1>4 DEF OutboxGrows
<1> QED
  BY <1>1, <1>3, <1>4, <1>5, <1>6, <1>7 DEF OutboxHolds

\* An email that is enqueued has not been tried.
LEMMA Enqueues ==
  ASSUME OutboxHolds, NEW l \in Nat, outbox' = Enqueued(l), sender' = sender, deaths' = deaths
  PROVE  /\ OutboxHolds' /\ OutboxGrows
         /\ \E i \in DOMAIN outbox' : outbox'[i].link = l
<1>1. /\ outbox \in Seq(Email) /\ sender \in [Workers -> Sender] /\ deaths \in Nat
      /\ DOMAIN outbox = 1..Len(outbox) /\ Len(outbox) \in Nat
  BY DEF OutboxHolds
<1>2. CASE \E i \in DOMAIN outbox : outbox[i].link = l
  <2>1. outbox' = outbox
    BY <1>2 DEF Enqueued
  <2> QED
    BY <1>2, <2>1 DEF OutboxHolds, OutboxGrows, SenderHolds, EmailHolds, Holds, SentBy
<1>3. CASE ~\E i \in DOMAIN outbox : outbox[i].link = l
  <2> DEFINE email == [link |-> l, status |-> "pending", attempts |-> 0, later |-> FALSE, sends |-> 0]
             n == Len(outbox) + 1
  <2>1. /\ email \in Email /\ email.link = l /\ email.sends = 0 /\ email.attempts = 0
    BY DEF Email, EmailOutboxStatus
  <2>2. outbox' = Append(outbox, email)
    BY <1>3 DEF Enqueued
  <2> HIDE DEF email
  <2>3. /\ outbox' \in Seq(Email) /\ DOMAIN outbox' = DOMAIN outbox \union {n}
        /\ outbox'[n] = email /\ n \in DOMAIN outbox' /\ n \notin DOMAIN outbox
        /\ \A j \in DOMAIN outbox : outbox'[j] = outbox[j]
    <3>1. Len(outbox') = n /\ outbox' \in Seq(Email)
      BY <1>1, <2>1, <2>2, AppendProperties
    <3>2. outbox'[n] = email /\ \A j \in 1..Len(outbox) : outbox'[j] = outbox[j]
      BY <1>1, <2>1, <2>2, AppendProperties
    <3>3. DOMAIN outbox' = 1..n
      BY <3>1
    <3> QED
      BY <1>1, <3>1, <3>2, <3>3
  <2> HIDE DEF n
  <2>4. ASSUME NEW w \in Workers PROVE SenderHolds(w)'
    <3>1. SenderHolds(w)
      BY DEF OutboxHolds
    <3> QED
      BY <1>1, <2>3, <3>1 DEF SenderHolds, Holds
  <2>5. ASSUME NEW j \in DOMAIN outbox' PROVE EmailHolds(j)'
    <3>1. CASE j = n
      BY <1>1, <2>1, <2>3, <3>1 DEF EmailHolds
    <3>2. CASE j # n
      <4>1. EmailHolds(j) /\ outbox'[j] = outbox[j]
        BY <2>3, <3>2 DEF OutboxHolds
      <4> QED
        BY <4>1 DEF EmailHolds, Holds, SentBy
    <3> QED
      BY <3>1, <3>2
  <2>6. OutboxGrows
    BY <2>3 DEF OutboxGrows
  <2>7. outbox'[n].link = l /\ n \in DOMAIN outbox'
    BY <2>1, <2>3
  <2> QED
    BY <1>1, <2>3, <2>4, <2>5, <2>6, <2>7 DEF OutboxHolds
<1> QED
  BY <1>2, <1>3

\* A step of something else leaves the outbox as it holds.
LEMMA OutboxStutters ==
  ASSUME OutboxHolds, UNCHANGED outboxVars
  PROVE  OutboxHolds' /\ OutboxGrows
BY DEF outboxVars, OutboxHolds, OutboxGrows, SenderHolds, EmailHolds, Holds, SentBy

\* Every step of the background pass, put together.
LEMMA Dispatches ==
  ASSUME OutboxHolds, DispatchStep
  PROVE  OutboxHolds' /\ OutboxGrows
BY Claims, Sends, Fails, Marks, Retries, Dues DEF DispatchStep

-----------------------------------------------------------------------------
(* The template.                                                           *)

\* What is copied into a plan is never an empty bank.
TemplateHolds == TemplateTypeOK /\ bank >= 1

\* The approved and published position starts with a bank.
LEMMA TemplateStarts == TemplateInit => TemplateHolds
<1> SUFFICES ASSUME TemplateInit PROVE TemplateHolds
  OBVIOUS
<1>1. config \in Config
  BY DEF TemplateInit, Config
<1>2. tab \in [Tabs -> [doing : Request, copy : Config]]
  BY <1>1 DEF TemplateInit, Request
<1> QED
  BY <1>1, <1>2 DEF TemplateInit, TemplateHolds, TemplateTypeOK

\* Every request of the recruiter keeps the types; the bank only grows.
LEMMA TemplateMoves ==
  ASSUME TemplateHolds, TemplateNext
  PROVE  TemplateHolds'
<1>1. /\ bank \in 1..(MaxEdits + 1) /\ config \in Config /\ reviewed \subseteq 1..(MaxEdits + 1)
      /\ tab \in [Tabs -> [doing : Request, copy : Config]]
      /\ queues \in Nat /\ asked \in 0..MaxTabRequests
  BY DEF TemplateHolds, TemplateTypeOK
<1>2. PICK t \in Tabs :
        \/ \E request \in {"settings", "approve", "publish", "unpublish"} : TabReads(t, request)
        \/ SettingsSaved(t) \/ TemplateApproved(t) \/ Published(t) \/ Unpublished(t)
        \/ ContentEdited(t) \/ ApprovalRevoked(t)
  BY DEF TemplateNext
<1>3. tab[t].copy \in Config /\ queues + 1 \in Nat
      /\ \A d \in Request : [tab EXCEPT ![t].doing = d] \in [Tabs -> [doing : Request, copy : Config]]
  BY <1>1
<1>4. Done(t) \in [Tabs -> [doing : Request, copy : Config]]
  BY <1>3 DEF Done, Request
<1>5. ASSUME NEW request \in {"settings", "approve", "publish", "unpublish"}, TabReads(t, request)
      PROVE  TemplateHolds'
  <2>1. tab' \in [Tabs -> [doing : Request, copy : Config]]
    BY <1>1, <1>5 DEF TabReads, Request
  <2> QED
    BY <1>1, <1>5, <2>1 DEF TabReads, Begins, TemplateHolds, TemplateTypeOK
<1>6. CASE SettingsSaved(t)
  BY <1>1, <1>3, <1>4, <1>6 DEF SettingsSaved, TemplateHolds, TemplateTypeOK
<1>7. CASE TemplateApproved(t)
  <2>1. config' \in Config
    <3>1. bank \in 0..(MaxEdits + 1)
      BY <1>1
    <3> QED
      BY <1>3, <1>7, <3>1 DEF TemplateApproved, Config
  <2> QED
    BY <1>1, <1>4, <1>7, <2>1 DEF TemplateApproved, TemplateHolds, TemplateTypeOK
<1>8. CASE Published(t)
  <2>1. config' \in Config
    <3> DEFINE q == IF tab[t].copy.autoQueue = 0 THEN queues + 1 ELSE tab[t].copy.autoQueue
    <3>1. q \in Nat
      BY <1>1, <1>3 DEF Config
    <3>2. config' = [tab[t].copy EXCEPT !.accept = TRUE, !.autoQueue = q]
      BY <1>3, <1>8 DEF Published, Config
    <3> HIDE DEF q
    <3> QED
      BY <1>3, <3>1, <3>2 DEF Config
  <2>2. queues' \in Nat
    BY <1>1, <1>3, <1>8 DEF Published
  <2> QED
    BY <1>1, <1>4, <1>8, <2>1, <2>2 DEF Published, TemplateHolds, TemplateTypeOK
<1>9. CASE Unpublished(t)
  <2>1. config' \in Config
    BY <1>3, <1>9 DEF Unpublished, Config
  <2> QED
    BY <1>1, <1>4, <1>9, <2>1 DEF Unpublished, TemplateHolds, TemplateTypeOK
<1>10. CASE ContentEdited(t)
  <2>1. tab' \in [Tabs -> [doing : Request, copy : Config]]
    BY <1>3, <1>10 DEF ContentEdited, Request
  <2> QED
    <3>1. /\ bank' \in 0..(MaxEdits + 1) /\ bank' >= 1
          /\ asked' \in 0..MaxTabRequests
      BY <1>1, <1>10 DEF ContentEdited, Begins
    <3> QED
      BY <1>1, <1>10, <2>1, <3>1 DEF ContentEdited, TemplateHolds, TemplateTypeOK
<1>11. CASE ApprovalRevoked(t)
  <2>1. config' \in Config
    <3>1. 0 \in 0..(MaxEdits + 1)
      OBVIOUS
    <3>2. Revoked \in Config
      BY <1>1, <3>1 DEF Revoked, Config
    <3> QED
      BY <1>1, <1>11, <3>2 DEF ApprovalRevoked
  <2> QED
    BY <1>1, <1>4, <1>11, <2>1 DEF ApprovalRevoked, TemplateHolds, TemplateTypeOK
<1> QED
  BY <1>2, <1>5, <1>6, <1>7, <1>8, <1>9, <1>10, <1>11

-----------------------------------------------------------------------------
(* The requests.                                                           *)

Prepared(c) == candidate[c].plan > 0 /\ candidate[c].item # "none"
Emailed(c) == \E i \in DOMAIN outbox : outbox[i].link \in LinksOf(c)

\* StateIsEarned of one row, wherever it is kept.
Earned(row) ==
    /\ row.candidate # 0 => row.candidate \in DOMAIN candidate
    /\ row.state \notin {"none", "received"} => row.candidate # 0
    /\ row.state \in {"plan_ready", "invited"} => Prepared(row.candidate)
    /\ row.state = "invited" => Emailed(row.candidate)

RowHolds(e) == Earned(application[e])

\* What a request has done when it is where it is.
RequestHolds(r) ==
    /\ Earned(req[r].copy)
    /\ req[r].at \notin {"idle", "lookup", "limit", "insert", "candidate"} => Mine(r) # 0
    /\ req[r].at = "queue" => candidate[Mine(r)].plan > 0
    /\ req[r].at = "ready" => Prepared(Mine(r))
    /\ req[r].at \in {"active", "revoke", "create", "email"} /\ req[r].apply => Prepared(Mine(r))
    /\ req[r].at = "revoke" => req[r].old \in DOMAIN link
    /\ req[r].at = "email" => req[r].new \in LinksOf(Mine(r))
    /\ req[r].at \in {"status", "invited"} => Prepared(Mine(r)) /\ Emailed(Mine(r))

PipelineHolds ==
    /\ application \in [Emails -> Application]
    /\ candidate \in Seq(Candidate)
    /\ link \in Seq(Link)
    /\ req \in [Requests -> Req]
    /\ served \in 0..MaxRequests /\ crashes \in 0..MaxMishaps
    /\ \A e \in Emails : RowHolds(e)
    /\ \A r \in Requests : RequestHolds(r)

\* What was done for a candidate is not undone.
CandidatesGrow ==
    /\ DOMAIN candidate \subseteq DOMAIN candidate'
    /\ \A c \in DOMAIN candidate :
          /\ candidate[c].plan > 0 => candidate'[c].plan > 0
          /\ candidate[c].item # "none" => candidate'[c].item # "none"

LinksGrow ==
    /\ DOMAIN link \subseteq DOMAIN link'
    /\ \A i \in DOMAIN link : link'[i].candidate = link[i].candidate

\* So whatever was earned stays so.
LEMMA EarnedStays ==
  ASSUME CandidatesGrow, LinksGrow, OutboxGrows
  PROVE  /\ \A c \in DOMAIN candidate : Prepared(c) => Prepared(c)'
         /\ \A c : Emailed(c) => Emailed(c)'
         /\ \A e \in Emails : RowHolds(e) /\ application'[e] = application[e] => RowHolds(e)'
         /\ \A r \in Requests : RequestHolds(r) /\ req'[r] = req[r] => RequestHolds(r)'
<1>1. \A c \in DOMAIN candidate : Prepared(c) => Prepared(c)'
  BY DEF CandidatesGrow, Prepared
<1>2. \A c : Emailed(c) => Emailed(c)'
  BY DEF LinksGrow, OutboxGrows, Emailed, LinksOf
<1>3. ASSUME NEW e \in Emails, RowHolds(e), application'[e] = application[e] PROVE RowHolds(e)'
  <2>1. PICK row : row = application[e] /\ row = application'[e]
    BY <1>3
  <2>2. row.candidate \in DOMAIN candidate => row.candidate \in DOMAIN candidate'
    BY DEF CandidatesGrow
  <2>3. row.state \in {"plan_ready", "invited"} => Prepared(row.candidate)'
    BY <1>1, <1>3, <2>1 DEF RowHolds, Earned
  <2>4. row.state = "invited" => Emailed(row.candidate)'
    BY <1>2, <1>3, <2>1 DEF RowHolds, Earned
  <2> QED
    BY <1>3, <2>1, <2>2, <2>3, <2>4 DEF RowHolds, Earned
<1>4. ASSUME NEW r \in Requests, RequestHolds(r), req'[r] = req[r] PROVE RequestHolds(r)'
  <2>1. PICK q : q = req[r] /\ q = req'[r]
    BY <1>4
  <2> DEFINE c == q.copy.candidate
  <2>2. /\ c \in DOMAIN candidate => c \in DOMAIN candidate'
        /\ c # 0 => c \in DOMAIN candidate
    BY <1>4, <2>1 DEF CandidatesGrow, RequestHolds, Earned
  <2>3. /\ c # 0 /\ Prepared(c) => Prepared(c)'
        /\ Emailed(c) => Emailed(c)'
        /\ c # 0 /\ candidate[c].plan > 0 => candidate'[c].plan > 0
    BY <1>1, <1>2, <2>2 DEF CandidatesGrow
  <2>4. /\ q.old \in DOMAIN link => q.old \in DOMAIN link'
        /\ q.new \in LinksOf(c) => q.new \in LinksOf(c)'
    BY DEF LinksGrow, LinksOf
  <2>5. Earned(q.copy)'
    BY <1>4, <2>1, <2>2, <2>3 DEF RequestHolds, Earned
  <2> QED
    BY <1>4, <2>1, <2>2, <2>3, <2>4, <2>5 DEF RequestHolds, Mine
<1> QED
  BY <1>1, <1>2, <1>3, <1>4

\* A step of one request.
LEMMA Moves ==
  ASSUME PipelineHolds, NEW r \in Requests, NEW new \in Req, req' = [req EXCEPT ![r] = new],
         application' \in [Emails -> Application],
         \A e \in Emails : application'[e] = application[e] \/ RowHolds(e)',
         candidate' \in Seq(Candidate), link' \in Seq(Link),
         served' \in 0..MaxRequests, crashes' \in 0..MaxMishaps,
         CandidatesGrow, LinksGrow, OutboxGrows, RequestHolds(r)'
  PROVE  PipelineHolds'
<1>1. req \in [Requests -> Req]
  BY DEF PipelineHolds
<1>2. /\ req' \in [Requests -> Req]
      /\ \A s \in Requests : s # r => req'[s] = req[s]
  BY <1>1
<1>3. \A e \in Emails : RowHolds(e)'
  BY EarnedStays DEF PipelineHolds
<1>4. \A s \in Requests : RequestHolds(s)'
  <2>1. \A s \in Requests : s # r => RequestHolds(s)'
    BY <1>2, EarnedStays DEF PipelineHolds
  <2> QED
    BY <2>1
<1> QED
  BY <1>2, <1>3, <1>4 DEF PipelineHolds

\* A step that touches the request and no table.
LEMMA MovesAlone ==
  ASSUME PipelineHolds, OutboxHolds, NEW r \in Requests, NEW new \in Req,
         req' = [req EXCEPT ![r] = new], UNCHANGED <<application, candidate, link, outbox>>,
         served' \in 0..MaxRequests, crashes' \in 0..MaxMishaps,
         RequestHolds(r)'
  PROVE  PipelineHolds'
<1>1. CandidatesGrow /\ LinksGrow /\ OutboxGrows
  BY DEF CandidatesGrow, LinksGrow, OutboxGrows
<1>2. application' \in [Emails -> Application] /\ candidate' \in Seq(Candidate) /\ link' \in Seq(Link)
  BY DEF PipelineHolds
<1> QED
  BY <1>1, <1>2, Moves

\* What is known of a request and of the row of its address.
LEMMA Types ==
  ASSUME PipelineHolds, NEW r \in Requests
  PROVE  /\ req \in [Requests -> Req] /\ req[r] \in Req /\ req[r].copy \in Application
         /\ req[r].email \in Emails /\ Mine(r) \in Nat
         /\ application[req[r].email] \in Application /\ RowHolds(req[r].email)
         /\ served \in 0..MaxRequests /\ crashes \in 0..MaxMishaps
         /\ RequestHolds(r)
<1>1. req \in [Requests -> Req] /\ req[r] \in Req /\ RequestHolds(r)
  BY DEF PipelineHolds
<1>2. req[r].copy \in Application /\ req[r].email \in Emails
  BY <1>1 DEF Req
<1>3. Mine(r) \in Nat
  BY <1>2 DEF Mine, Application
<1> QED
  BY <1>1, <1>2, <1>3 DEF PipelineHolds

\* A request not yet begun.
LEMMA Blank ==
  /\ NoApplication \in Application /\ InitialReq \in Req
  /\ InitialReq.at = "idle" /\ InitialReq.copy = NoApplication
  /\ InitialReq.old = 0 /\ InitialReq.new = 0 /\ ~InitialReq.apply
<1>1. NoApplication \in Application
  BY DEF NoApplication, Application, State
<1>2. (CHOOSE e \in Emails : TRUE) \in Emails
  BY DEF PipelineAssumption
<1> QED
  BY <1>1, <1>2 DEF InitialReq, Req, Stage

\* A request that is idle holds nothing.
LEMMA Ending ==
  ASSUME PipelineHolds, OutboxHolds, NEW r \in Requests, req' = Ends(r),
         UNCHANGED <<application, candidate, link, outbox, served>>, crashes' \in 0..MaxMishaps
  PROVE  PipelineHolds'
<1>1. req \in [Requests -> Req] /\ served' \in 0..MaxRequests
  BY DEF PipelineHolds
<1>2. req'[r] = InitialReq /\ req' = [req EXCEPT ![r] = InitialReq]
  BY <1>1 DEF Ends
<1>3. RequestHolds(r)'
  <2>1. PICK q : q = InitialReq
    OBVIOUS
  <2>2. /\ q.at = "idle" /\ q.copy.candidate = 0 /\ q.copy.state = "none"
    BY <2>1, Blank DEF NoApplication
  <2> QED
    BY <1>2, <2>1, <2>2 DEF RequestHolds, Earned
<1> QED
  BY <1>1, <1>2, <1>3, Blank, MovesAlone

\* An application begins.
LEMMA Applies ==
  ASSUME PipelineHolds, OutboxHolds, NEW r \in Requests, NEW e \in Emails, Apply(r, e)
  PROVE  PipelineHolds'
<1> DEFINE new == [InitialReq EXCEPT !.at = "lookup", !.email = e, !.apply = TRUE]
<1>1. new \in Req /\ new.at = "lookup" /\ new.copy = NoApplication
  BY Blank DEF Req, Stage
<1>2. req' = [req EXCEPT ![r] = new] /\ served' \in 0..MaxRequests /\ crashes' \in 0..MaxMishaps
      /\ UNCHANGED <<application, candidate, link, outbox>>
  BY Types DEF Apply, outboxVars
<1> HIDE DEF new
<1>3. req'[r] = new
  BY <1>2, Types
<1>4. RequestHolds(r)'
  BY <1>1, <1>3 DEF RequestHolds, Earned, NoApplication
<1> QED
  BY <1>1, <1>2, <1>4, MovesAlone

\* A row found is one that was earned.
LEMMA LooksUp ==
  ASSUME PipelineHolds, OutboxHolds, NEW r \in Requests, LookUp(r)
  PROVE  PipelineHolds'
<1>1. PICK row \in Application : row = application[req[r].email]
  BY Types
<1>2. Earned(row)
  BY <1>1, Types DEF RowHolds
<1>3. UNCHANGED <<application, candidate, link, outbox>>
      /\ served' \in 0..MaxRequests /\ crashes' \in 0..MaxMishaps
  BY Types DEF LookUp, Elsewhere, outboxVars
<1>4. CASE row.state = "none"
  <2> DEFINE new == [req[r] EXCEPT !.at = "limit"]
  <2>1. new \in Req /\ new.at = "limit" /\ new.copy = req[r].copy
    BY Types DEF Req, Stage
  <2>2. req' = [req EXCEPT ![r] = new] /\ req'[r] = new
    BY <1>1, <1>4, Types DEF LookUp, Goes
  <2> HIDE DEF new
  <2>3. RequestHolds(r)'
    BY <1>3, <2>1, <2>2, Types DEF RequestHolds, Earned, Prepared, Emailed, LinksOf
  <2> QED
    BY <1>3, <2>1, <2>2, <2>3, MovesAlone
<1>5. CASE row.state # "none"
  <2> DEFINE new == [req[r] EXCEPT !.at = "candidate", !.copy = row]
  <2>1. new \in Req /\ new.at = "candidate" /\ new.copy = row
    BY Types DEF Req, Stage
  <2>2. req' = [req EXCEPT ![r] = new] /\ req'[r] = new
    BY <1>1, <1>5, Types DEF LookUp
  <2> HIDE DEF new
  <2>3. RequestHolds(r)'
    BY <1>2, <1>3, <2>1, <2>2 DEF RequestHolds, Earned, Prepared, Emailed, LinksOf
  <2> QED
    BY <1>3, <2>1, <2>2, <2>3, MovesAlone
<1> QED
  BY <1>4, <1>5

\* The rate limit ends the request or lets it on.
LEMMA ChecksLimit ==
  ASSUME PipelineHolds, OutboxHolds, NEW r \in Requests, CheckLimit(r)
  PROVE  PipelineHolds'
<1>1. UNCHANGED <<application, candidate, link, outbox, served>>
      /\ served' \in 0..MaxRequests /\ crashes' \in 0..MaxMishaps
  BY Types DEF CheckLimit, Elsewhere, outboxVars
<1>2. CASE req' = Ends(r)
  BY <1>1, <1>2, Ending
<1>3. CASE req' = Goes(r, "insert")
  <2> DEFINE new == [req[r] EXCEPT !.at = "insert"]
  <2>1. new \in Req /\ new.at = "insert" /\ new.copy = req[r].copy
    BY Types DEF Req, Stage
  <2>2. req' = [req EXCEPT ![r] = new] /\ req'[r] = new
    BY <1>3, Types DEF Goes
  <2> HIDE DEF new
  <2>3. RequestHolds(r)'
    BY <1>1, <2>1, <2>2, Types DEF RequestHolds, Earned, Prepared, Emailed, LinksOf
  <2> QED
    BY <1>1, <2>1, <2>2, <2>3, MovesAlone
<1> QED
  BY <1>2, <1>3 DEF CheckLimit

\* A request that moves on to a stage it has earned.
LEMMA Advances ==
  ASSUME PipelineHolds, OutboxHolds, NEW r \in Requests, NEW stage \in Stage,
         req' = Goes(r, stage), UNCHANGED <<served, crashes>>,
         application' \in [Emails -> Application],
         \A e \in Emails : application'[e] = application[e] \/ RowHolds(e)',
         candidate' \in Seq(Candidate), link' \in Seq(Link),
         CandidatesGrow, LinksGrow, OutboxGrows,
         stage \in {"limit", "insert", "candidate"} \/ Mine(r) # 0,
         stage = "queue" => candidate'[Mine(r)].plan > 0,
         stage = "ready" => candidate'[Mine(r)].plan > 0 /\ candidate'[Mine(r)].item # "none",
         stage \in {"active", "revoke", "create", "email"} /\ req[r].apply => Prepared(Mine(r)),
         stage \notin {"revoke", "email"},
         stage \in {"status", "invited"} => Prepared(Mine(r)),
         stage \in {"status", "invited"} =>
            \E i \in DOMAIN outbox' : outbox'[i].link \in LinksOf(Mine(r))
  PROVE  PipelineHolds'
<1> DEFINE new == [req[r] EXCEPT !.at = stage]
<1>1. /\ new \in Req /\ new.at = stage /\ new.copy = req[r].copy
      /\ new.apply = req[r].apply
  BY Types DEF Req
<1>2. req' = [req EXCEPT ![r] = new] /\ req'[r] = new
  BY Types DEF Goes
<1>3. served' \in 0..MaxRequests /\ crashes' \in 0..MaxMishaps
  BY Types
<1> HIDE DEF new
<1>4. PICK q : q = req[r] /\ q.copy = req'[r].copy /\ stage = req'[r].at /\ q.apply = req'[r].apply
  BY <1>1, <1>2
<1> DEFINE c == q.copy.candidate
<1>5. c = Mine(r) /\ c = Mine(r)' /\ (c # 0 => c \in DOMAIN candidate)
  BY <1>4, Types DEF Mine, RequestHolds, Earned
<1>6. /\ c # 0 /\ Prepared(c) => Prepared(c)'
      /\ Emailed(c) => Emailed(c)'
      /\ c # 0 => c \in DOMAIN candidate'
  BY <1>5, EarnedStays DEF CandidatesGrow
<1>7. Earned(q.copy)'
  BY <1>4, <1>5, <1>6, Types DEF RequestHolds, Earned
<1>8. stage \in {"status", "invited"} => Emailed(c)'
  BY <1>5 DEF Emailed, LinksOf, LinksGrow
<1>9. stage \in {"ready"} => Prepared(c)'
  BY <1>5 DEF Prepared
<1>10. RequestHolds(r)'
  BY <1>4, <1>5, <1>6, <1>7, <1>8, <1>9 DEF RequestHolds
<1> QED
  BY <1>1, <1>2, <1>3, <1>10, Moves

\* What a step that writes no table leaves as it was.
LEMMA NothingMoves ==
  ASSUME PipelineHolds, UNCHANGED <<application, candidate, link, outbox>>
  PROVE  /\ CandidatesGrow /\ LinksGrow /\ OutboxGrows
         /\ application' \in [Emails -> Application]
         /\ candidate' \in Seq(Candidate) /\ link' \in Seq(Link)
BY DEF PipelineHolds, CandidatesGrow, LinksGrow, OutboxGrows

\* One candidate's row rewritten.
LEMMA RowOfCandidate ==
  ASSUME PipelineHolds, NEW c \in DOMAIN candidate, NEW row \in Candidate,
         candidate' = [candidate EXCEPT ![c] = row],
         candidate[c].plan > 0 => row.plan > 0,
         candidate[c].item # "none" => row.item # "none"
  PROVE  /\ candidate' \in Seq(Candidate) /\ CandidatesGrow /\ candidate'[c] = row
<1>1. candidate \in Seq(Candidate)
  BY DEF PipelineHolds
<1>2. /\ candidate' \in Seq(Candidate) /\ DOMAIN candidate' = DOMAIN candidate
      /\ candidate'[c] = row /\ \A d \in DOMAIN candidate : d # c => candidate'[d] = candidate[d]
  BY <1>1, ExceptSeq
<1> QED
  BY <1>2 DEF CandidatesGrow

\* The candidate a request works for is on file.
LEMMA TheCandidate ==
  ASSUME PipelineHolds, NEW r \in Requests, Mine(r) # 0
  PROVE  /\ Mine(r) \in DOMAIN candidate /\ candidate[Mine(r)] \in Candidate
<1>1. Mine(r) \in DOMAIN candidate
  BY Types DEF RequestHolds, Earned, Mine
<1> QED
  BY <1>1 DEF PipelineHolds

\* The row inserted claims nothing; the row of the winner was earned.
LEMMA Inserts ==
  ASSUME PipelineHolds, OutboxHolds, NEW r \in Requests, Insert(r)
  PROVE  PipelineHolds'
<1>1. UNCHANGED <<candidate, link, outbox>>
      /\ served' \in 0..MaxRequests /\ crashes' \in 0..MaxMishaps
  BY Types DEF Insert, Elsewhere, outboxVars
<1>2. PICK e \in Emails : e = req[r].email
  BY Types
<1>3. PICK row : row = IF application[e].state = "none"
                       THEN [NoApplication EXCEPT !.state = "received"] ELSE application[e]
  OBVIOUS
<1>4. row \in Application
  BY <1>2, <1>3, Types, Blank DEF Application, State
<1>5. Earned(row)
  <2>1. CASE application[e].state = "none"
    BY <1>3, <2>1 DEF Earned, NoApplication
  <2>2. CASE application[e].state # "none"
    BY <1>2, <1>3, <2>2, Types DEF RowHolds
  <2> QED
    BY <2>1, <2>2
<1> DEFINE new == [req[r] EXCEPT !.at = "candidate", !.copy = row]
<1>6. new \in Req /\ new.at = "candidate" /\ new.copy = row
  BY <1>4, Types DEF Req, Stage
<1>7. application' = [application EXCEPT ![e] = row] /\ req' = [req EXCEPT ![r] = new]
  BY <1>2, <1>3, Types DEF Insert
<1> HIDE DEF new
<1>8. /\ application' \in [Emails -> Application] /\ application'[e] = row
      /\ \A d \in Emails : d # e => application'[d] = application[d]
      /\ req'[r] = new
  BY <1>4, <1>7, Types DEF PipelineHolds
<1>9. CandidatesGrow /\ LinksGrow /\ OutboxGrows /\ candidate' \in Seq(Candidate) /\ link' \in Seq(Link)
  BY <1>1 DEF CandidatesGrow, LinksGrow, OutboxGrows, PipelineHolds
<1>10. Earned(row)'
  BY <1>1, <1>5 DEF Earned, Prepared, Emailed, LinksOf
<1>11. \A d \in Emails : application'[d] = application[d] \/ RowHolds(d)'
  BY <1>8, <1>10 DEF RowHolds
<1>12. RequestHolds(r)'
  BY <1>6, <1>8, <1>10 DEF RequestHolds
<1> QED
  BY <1>1, <1>6, <1>7, <1>8, <1>9, <1>11, <1>12, Moves

\* A candidate created is on file before the request names it.
LEMMA EnsuresCandidate ==
  ASSUME PipelineHolds, OutboxHolds, NEW r \in Requests, EnsureCandidate(r)
  PROVE  PipelineHolds'
<1>1. UNCHANGED <<application, link, outbox, served, crashes>>
  BY DEF EnsureCandidate, Elsewhere, outboxVars
<1>2. CASE Mine(r) # 0
  <2>1. req' = Goes(r, "plan") /\ UNCHANGED candidate /\ "plan" \in Stage
    BY <1>2 DEF EnsureCandidate, Stage
  <2> QED
    BY <1>1, <1>2, <2>1, NothingMoves, Advances
<1>3. CASE Mine(r) = 0
  <2> DEFINE n == Len(candidate) + 1
             blank == [status |-> "new", plan |-> 0, item |-> "none"]
             copy == [req[r].copy EXCEPT !.candidate = n]
             new == [req[r] EXCEPT !.at = "applied", !.copy = copy]
  <2>1. candidate \in Seq(Candidate) /\ blank \in Candidate /\ n \in Nat /\ n # 0
    BY DEF PipelineHolds, Candidate
  <2>2. copy \in Application /\ copy.candidate = n /\ copy.state = req[r].copy.state
    BY <2>1, Types DEF Application
  <2>3. copy.state \in {"none", "received"}
    BY <1>3, <2>2, Types DEF RequestHolds, Earned, Mine
  <2>4. new \in Req /\ new.at = "applied" /\ new.copy = copy
    BY <2>2, Types DEF Req, Stage
  <2>5. candidate' = Append(candidate, blank) /\ req' = [req EXCEPT ![r] = new] /\ req'[r] = new
    <3>1. /\ candidate' = Append(candidate, blank)
          /\ req' = [req EXCEPT ![r].at = "applied", ![r].copy.candidate = n]
      BY <1>3 DEF EnsureCandidate
    <3>2. [req[r].copy EXCEPT !.candidate = n] = copy
      OBVIOUS
    <3>3. req' = [req EXCEPT ![r].at = "applied", ![r].copy = copy]
      BY <3>1, <3>2, Types DEF Req, Application
    <3> HIDE DEF copy, n, blank
    <3> QED
      BY <3>1, <3>3, Types
  <2>6. PICK m : m = n
    OBVIOUS
  <2> HIDE DEF blank, n
  <2>7. /\ candidate' \in Seq(Candidate) /\ DOMAIN candidate' = DOMAIN candidate \union {m}
        /\ \A c \in DOMAIN candidate : candidate'[c] = candidate[c]
    <3>1. Len(candidate') = n /\ candidate' \in Seq(Candidate)
          /\ \A c \in 1..Len(candidate) : candidate'[c] = candidate[c]
      BY <2>1, <2>5, AppendProperties DEF n
    <3> QED
      BY <2>1, <2>6, <3>1 DEF n
  <2>8. PICK row : row = copy
    OBVIOUS
  <2> HIDE DEF new, copy
  <2>9. RequestHolds(r)'
    BY <2>1, <2>2, <2>3, <2>4, <2>5, <2>6, <2>7, <2>8 DEF RequestHolds, Earned, Mine
  <2>10. CandidatesGrow /\ LinksGrow /\ OutboxGrows
    BY <1>1, <2>7 DEF CandidatesGrow, LinksGrow, OutboxGrows
  <2>11. /\ application' \in [Emails -> Application] /\ link' \in Seq(Link)
         /\ served' \in 0..MaxRequests /\ crashes' \in 0..MaxMishaps
    BY <1>1, Types DEF PipelineHolds
  <2> QED
    BY <1>1, <2>4, <2>5, <2>7, <2>9, <2>10, <2>11, Moves
<1> QED
  BY <1>2, <1>3

\* The candidate is shown as applied.
LEMMA MarksApplied ==
  ASSUME PipelineHolds, OutboxHolds, NEW r \in Requests, MarkApplied(r)
  PROVE  PipelineHolds'
<1>1. UNCHANGED <<application, link, outbox, served, crashes>> /\ req' = Goes(r, "record")
  BY DEF MarkApplied, Elsewhere, outboxVars
<1>2. Mine(r) # 0
  BY Types DEF MarkApplied, At, RequestHolds
<1> DEFINE row == [candidate[Mine(r)] EXCEPT !.status = "applied"]
<1>3. /\ row \in Candidate /\ row.plan = candidate[Mine(r)].plan /\ row.item = candidate[Mine(r)].item
      /\ candidate' = [candidate EXCEPT ![Mine(r)] = row]
  BY <1>2, TheCandidate DEF MarkApplied, Candidate
<1> HIDE DEF row
<1>4. candidate' \in Seq(Candidate) /\ CandidatesGrow
  BY <1>2, <1>3, TheCandidate, RowOfCandidate
<1>5. /\ LinksGrow /\ OutboxGrows
      /\ application' \in [Emails -> Application] /\ link' \in Seq(Link) /\ "record" \in Stage
  BY <1>1 DEF LinksGrow, OutboxGrows, PipelineHolds, Stage
<1> QED
  BY <1>1, <1>2, <1>4, <1>5, Advances

\* The state a request writes is one it has earned, and so is the row.
LEMMA Records ==
  ASSUME PipelineHolds, OutboxHolds, NEW r \in Requests, NEW stage \in Stage,
         NEW state \in {"candidate_created", "plan_ready", "invited"}, NEW next \in Stage,
         SetState(r, stage, state, next), UNCHANGED <<served, crashes, outbox>>,
         Mine(r) # 0,
         state \in {"plan_ready", "invited"} => Prepared(Mine(r)),
         state = "invited" => Emailed(Mine(r)),
         next \in {"plan", "active", "idle"}, next = "active" => Prepared(Mine(r))
  PROVE  PipelineHolds'
<1>1. PICK row : row = [req[r].copy EXCEPT !.state = state]
  OBVIOUS
<1>2. row \in Application /\ row.state = state /\ row.candidate = Mine(r)
  BY <1>1, Types DEF Application, State, Mine
<1>3. Earned(row)
  BY <1>2, TheCandidate DEF Earned
<1> DEFINE new == [req[r] EXCEPT !.at = next, !.copy = row]
<1>4. new \in Req /\ new.at = next /\ new.copy = row
  BY <1>2, Types DEF Req
<1>5. PICK e \in Emails : e = req[r].email
  BY Types
<1>6. UNCHANGED <<candidate, link>> /\ application' = [application EXCEPT ![e] = row]
  BY <1>1, <1>5 DEF SetState, RowWritten
<1>7. req' = [req EXCEPT ![r] = new]
  <2>1. req' = [req EXCEPT ![r].at = next, ![r].copy.state = state]
    BY DEF SetState
  <2>2. [req[r].copy EXCEPT !.state = state] = row
    BY <1>1
  <2>3. req' = [req EXCEPT ![r].at = next, ![r].copy = row]
    BY <2>1, <2>2, Types DEF Req, Application
  <2> QED
    BY <2>3, Types
<1> HIDE DEF new
<1>8. /\ application' \in [Emails -> Application] /\ application'[e] = row
      /\ \A d \in Emails : d # e => application'[d] = application[d]
      /\ req'[r] = new
  BY <1>2, <1>6, <1>7, Types DEF PipelineHolds
<1>9. /\ CandidatesGrow /\ LinksGrow /\ OutboxGrows
      /\ candidate' \in Seq(Candidate) /\ link' \in Seq(Link)
      /\ served' \in 0..MaxRequests /\ crashes' \in 0..MaxMishaps
  BY <1>6, Types DEF CandidatesGrow, LinksGrow, OutboxGrows, PipelineHolds
<1>10. Earned(row)'
  BY <1>3, <1>6 DEF Earned, Prepared, Emailed, LinksOf
<1>11. \A d \in Emails : application'[d] = application[d] \/ RowHolds(d)'
  BY <1>8, <1>10 DEF RowHolds
<1>12. RequestHolds(r)'
  <2>1. PICK c : c = Mine(r)
    OBVIOUS
  <2>2. next = "active" => Prepared(c)'
    BY <1>6, <2>1 DEF Prepared
  <2> QED
    BY <1>2, <1>4, <1>8, <1>10, <2>1, <2>2 DEF RequestHolds, Mine
<1> QED
  BY <1>4, <1>7, <1>8, <1>9, <1>11, <1>12, Moves

\* A plan copies a bank that is not empty.
LEMMA Materializes ==
  ASSUME PipelineHolds, OutboxHolds, TemplateHolds, NEW r \in Requests, MaterializePlan(r)
  PROVE  PipelineHolds'
<1>1. UNCHANGED <<application, link, outbox, served, crashes>>
  BY DEF MaterializePlan, Elsewhere, outboxVars
<1>2. Mine(r) # 0
  BY Types DEF MaterializePlan, At, RequestHolds
<1>3. CASE req[r].copy.state = "candidate_created"
  <2> DEFINE row == [candidate[Mine(r)] EXCEPT !.plan = bank]
  <2>1. bank \in Nat /\ bank > 0
    BY DEF TemplateHolds, TemplateTypeOK
  <2>2. /\ row \in Candidate /\ row.plan > 0 /\ row.item = candidate[Mine(r)].item
        /\ candidate' = [candidate EXCEPT ![Mine(r)] = row]
    BY <1>2, <1>3, <2>1, TheCandidate DEF MaterializePlan, Candidate
  <2> HIDE DEF row
  <2>3. /\ candidate' \in Seq(Candidate) /\ CandidatesGrow /\ candidate'[Mine(r)].plan > 0
    BY <1>2, <2>2, TheCandidate, RowOfCandidate
  <2>4. /\ LinksGrow /\ OutboxGrows
        /\ application' \in [Emails -> Application] /\ link' \in Seq(Link) /\ "queue" \in Stage
    BY <1>1 DEF LinksGrow, OutboxGrows, PipelineHolds, Stage
  <2>5. req' = Goes(r, "queue")
    BY <1>3 DEF MaterializePlan
  <2> QED
    BY <1>1, <1>2, <2>3, <2>4, <2>5, Advances
<1>4. CASE req[r].copy.state = "plan_ready" /\ AutoInvite
  <2>1. req' = Goes(r, "active") /\ UNCHANGED candidate /\ "active" \in Stage
    BY <1>4 DEF MaterializePlan, Stage
  <2>2. Prepared(Mine(r))
    BY <1>4, Types DEF RequestHolds, Earned, Mine
  <2> QED
    BY <1>1, <1>2, <2>1, <2>2, NothingMoves, Advances
<1>5. CASE req[r].copy.state # "candidate_created"
           /\ ~(req[r].copy.state = "plan_ready" /\ AutoInvite)
  BY <1>1, <1>5, Types, Ending DEF MaterializePlan
<1> QED
  BY <1>3, <1>4, <1>5

\* An item exists before the request goes on.
LEMMA EnsuresQueued ==
  ASSUME PipelineHolds, OutboxHolds, NEW r \in Requests, EnsureQueued(r)
  PROVE  PipelineHolds'
<1>1. UNCHANGED <<application, link, outbox, served, crashes>> /\ req' = Goes(r, "ready")
  BY DEF EnsureQueued, Elsewhere, outboxVars
<1>2. Mine(r) # 0 /\ candidate[Mine(r)].plan > 0
  BY Types DEF EnsureQueued, At, RequestHolds
<1> DEFINE status == IF candidate[Mine(r)].status \in {"new", "applied"} THEN "queued"
                     ELSE candidate[Mine(r)].status
           row == IF candidate[Mine(r)].item # "none" THEN candidate[Mine(r)]
                  ELSE [candidate[Mine(r)] EXCEPT !.item = "awaiting", !.status = status]
<1>3. status \in {"new", "applied", "queued", "invited"}
  BY <1>2, TheCandidate DEF Candidate
<1>4. candidate' = [candidate EXCEPT ![Mine(r)] = row]
  <2>1. candidate \in Seq(Candidate) /\ DOMAIN candidate = 1..Len(candidate)
    BY DEF PipelineHolds
  <2>2. CASE candidate[Mine(r)].item # "none"
    BY <1>2, <2>1, <2>2, TheCandidate DEF EnsureQueued
  <2>3. CASE candidate[Mine(r)].item = "none"
    BY <1>2, <2>1, <2>3, TheCandidate DEF EnsureQueued
  <2> QED
    BY <2>2, <2>3
<1> HIDE DEF status
<1>5. /\ row \in Candidate /\ row.plan = candidate[Mine(r)].plan /\ row.item # "none"
  BY <1>2, <1>3, TheCandidate DEF Candidate
<1> HIDE DEF row
<1>6. /\ candidate' \in Seq(Candidate) /\ CandidatesGrow /\ candidate'[Mine(r)] = row
  BY <1>2, <1>4, <1>5, TheCandidate, RowOfCandidate
<1>7. /\ LinksGrow /\ OutboxGrows
      /\ application' \in [Emails -> Application] /\ link' \in Seq(Link) /\ "ready" \in Stage
  BY <1>1 DEF LinksGrow, OutboxGrows, PipelineHolds, Stage
<1> QED
  BY <1>1, <1>2, <1>5, <1>6, <1>7, Advances

\* The candidate is shown as invited.
LEMMA MarksInvited ==
  ASSUME PipelineHolds, OutboxHolds, NEW r \in Requests, MarkInvited(r)
  PROVE  PipelineHolds'
<1>1. UNCHANGED <<application, link, outbox, served, crashes>> /\ req' = Goes(r, "invited")
  BY DEF MarkInvited, Elsewhere, outboxVars
<1>2. Mine(r) # 0 /\ Prepared(Mine(r)) /\ Emailed(Mine(r))
  BY Types DEF MarkInvited, At, RequestHolds
<1> DEFINE row == [candidate[Mine(r)] EXCEPT !.status = "invited"]
<1>3. /\ row \in Candidate /\ row.plan = candidate[Mine(r)].plan /\ row.item = candidate[Mine(r)].item
      /\ candidate' = [candidate EXCEPT ![Mine(r)] = row]
  BY <1>2, TheCandidate DEF MarkInvited, Candidate
<1> HIDE DEF row
<1>4. candidate' \in Seq(Candidate) /\ CandidatesGrow
  BY <1>2, <1>3, TheCandidate, RowOfCandidate
<1>5. /\ LinksGrow /\ OutboxGrows
      /\ application' \in [Emails -> Application] /\ link' \in Seq(Link) /\ "invited" \in Stage
  BY <1>1 DEF LinksGrow, OutboxGrows, PipelineHolds, Stage
<1>6. \E i \in DOMAIN outbox' : outbox'[i].link \in LinksOf(Mine(r))
  BY <1>1, <1>2 DEF Emailed
<1> QED
  BY <1>1, <1>2, <1>4, <1>5, <1>6, Advances

\* A resend starts from a row that was earned.
LEMMA Resends ==
  ASSUME PipelineHolds, OutboxHolds, NEW r \in Requests, NEW e \in Emails, Resend(r, e)
  PROVE  PipelineHolds'
<1> DEFINE row == application[e]
           new == [InitialReq EXCEPT !.at = "active", !.email = e, !.copy = row]
<1>1. row \in Application /\ RowHolds(e)
  BY DEF PipelineHolds
<1>2. new \in Req /\ new.at = "active" /\ new.copy = row /\ ~new.apply
  BY <1>1, Blank DEF Req, Stage
<1>3. req' = [req EXCEPT ![r] = new] /\ served' \in 0..MaxRequests /\ crashes' \in 0..MaxMishaps
      /\ UNCHANGED <<application, candidate, link, outbox>>
  BY Types DEF Resend, outboxVars
<1>4. PICK q : q = row /\ q.candidate # 0
  BY DEF Resend
<1>5. Earned(q)'
  BY <1>1, <1>3, <1>4 DEF RowHolds, Earned, Prepared, Emailed, LinksOf
<1> HIDE DEF row, new
<1>6. req'[r] = new
  BY <1>3, Types
<1>7. RequestHolds(r)'
  BY <1>2, <1>4, <1>5, <1>6 DEF RequestHolds, Mine
<1> QED
  BY <1>2, <1>3, <1>7, MovesAlone

\* The active link, if there is one, is on file.
LEMMA ReadsActive ==
  ASSUME PipelineHolds, OutboxHolds, NEW r \in Requests, ReadActive(r)
  PROVE  PipelineHolds'
<1>1. UNCHANGED <<application, candidate, link, outbox, served, crashes>>
  BY DEF ReadActive, Elsewhere, outboxVars
<1>2. /\ Mine(r) # 0 /\ (req[r].apply => Prepared(Mine(r))) /\ Earned(req[r].copy)
  BY Types DEF ReadActive, At, RequestHolds
<1>3. CASE req' = Goes(r, "create")
  BY <1>1, <1>2, <1>3, NothingMoves, Advances DEF Stage
<1>4. ASSUME NEW i \in ActiveLinks(Mine(r)),
             req' = [req EXCEPT ![r].at = "revoke", ![r].old = i]
      PROVE  PipelineHolds'
  <2> DEFINE new == [req[r] EXCEPT !.at = "revoke", !.old = i]
  <2>1. i \in DOMAIN link /\ i \in Nat
    BY DEF ActiveLinks, PipelineHolds
  <2>2. new \in Req /\ new.at = "revoke" /\ new.copy = req[r].copy /\ new.old = i
        /\ new.apply = req[r].apply
    BY <2>1, Types DEF Req, Stage
  <2>3. req' = [req EXCEPT ![r] = new] /\ req'[r] = new
    BY <1>4, Types
  <2> HIDE DEF new
  <2>4. RequestHolds(r)'
    BY <1>1, <1>2, <2>1, <2>2, <2>3 DEF RequestHolds, Earned, Prepared, Emailed, LinksOf, Mine
  <2> QED
    BY <1>1, <2>2, <2>3, <2>4, Types, MovesAlone
<1> QED
  BY <1>3, <1>4 DEF ReadActive

\* Revoking a link leaves it on file.
LEMMA Revokes ==
  ASSUME PipelineHolds, OutboxHolds, NEW r \in Requests, Revoke(r)
  PROVE  PipelineHolds'
<1>1. UNCHANGED <<application, candidate, outbox, served, crashes>> /\ req' = Goes(r, "create")
  BY DEF Revoke, Elsewhere, outboxVars
<1>2. /\ Mine(r) # 0 /\ (req[r].apply => Prepared(Mine(r)))
  BY Types DEF Revoke, At, RequestHolds
<1>3. PICK i \in DOMAIN link : i = req[r].old
  BY Types DEF Revoke, At, RequestHolds
<1>4. link \in Seq(Link) /\ link[i] \in Link
  BY <1>3 DEF PipelineHolds
<1> DEFINE status == IF link[i].status = "active" THEN "revoked" ELSE link[i].status
           row == [link[i] EXCEPT !.status = status]
<1>5. status \in InvitationStatus
  BY <1>4 DEF Link, InvitationStatus
<1>6. link' = [link EXCEPT ![i] = row]
  BY <1>3, <1>4 DEF Revoke
<1> HIDE DEF status
<1>7. row \in Link /\ row.candidate = link[i].candidate
  BY <1>4, <1>5 DEF Link
<1> HIDE DEF row
<1>8. link' \in Seq(Link) /\ LinksGrow
  BY <1>4, <1>6, <1>7, ExceptSeq DEF LinksGrow
<1>9. /\ CandidatesGrow /\ OutboxGrows
      /\ application' \in [Emails -> Application] /\ candidate' \in Seq(Candidate)
      /\ "create" \in Stage
  BY <1>1 DEF CandidatesGrow, OutboxGrows, PipelineHolds, Stage
<1> QED
  BY <1>1, <1>2, <1>8, <1>9, Advances

\* The link created is the one to be emailed.
LEMMA CreatesLink ==
  ASSUME PipelineHolds, OutboxHolds, NEW r \in Requests, CreateLink(r)
  PROVE  PipelineHolds'
<1>1. UNCHANGED <<application, candidate, outbox, served, crashes>>
  BY DEF CreateLink, Elsewhere, outboxVars
<1>2. /\ Mine(r) # 0 /\ (req[r].apply => Prepared(Mine(r))) /\ Earned(req[r].copy)
  BY Types DEF CreateLink, At, RequestHolds
<1>3. CASE ActiveLinks(Mine(r)) # {}
  BY <1>1, <1>3, Types, Ending DEF CreateLink
<1>4. CASE ActiveLinks(Mine(r)) = {}
  <2> DEFINE n == Len(link) + 1
             row == [candidate |-> Mine(r), status |-> "active", lapsed |-> FALSE]
             new == [req[r] EXCEPT !.at = "email", !.new = n]
  <2>1. link \in Seq(Link) /\ n \in Nat
    BY DEF PipelineHolds
  <2>2. row \in Link /\ row.candidate = Mine(r)
    BY Types DEF Link, InvitationStatus
  <2>3. new \in Req /\ new.at = "email" /\ new.copy = req[r].copy /\ new.new = n
        /\ new.apply = req[r].apply
    BY <2>1, Types DEF Req, Stage
  <2>4. link' = Append(link, row) /\ req' = [req EXCEPT ![r] = new] /\ req'[r] = new
    BY <1>4, Types DEF CreateLink
  <2>5. PICK m : m = n
    OBVIOUS
  <2> HIDE DEF row, new, n
  <2>6. /\ link' \in Seq(Link) /\ DOMAIN link' = DOMAIN link \union {m}
        /\ \A i \in DOMAIN link : link'[i] = link[i]
        /\ link'[m] = row
    <3>1. Len(link') = n /\ link' \in Seq(Link) /\ link'[n] = row
          /\ \A i \in 1..Len(link) : link'[i] = link[i]
      BY <2>1, <2>2, <2>4, AppendProperties DEF n
    <3> QED
      BY <2>1, <2>5, <3>1 DEF n
  <2>7. CandidatesGrow /\ LinksGrow /\ OutboxGrows
    BY <1>1, <2>6 DEF CandidatesGrow, LinksGrow, OutboxGrows
  <2>8. PICK q : q = req[r].copy /\ q = req'[r].copy /\ q.candidate = Mine(r) /\ q.candidate = Mine(r)'
    BY <2>3, <2>4 DEF Mine
  <2>9. /\ Prepared(q.candidate) => Prepared(q.candidate)'
        /\ Emailed(q.candidate) => Emailed(q.candidate)'
    BY <1>1, <2>7, EarnedStays DEF Prepared
  <2>10. Earned(q)'
    BY <1>1, <1>2, <2>8, <2>9 DEF Earned
  <2>11. m \in LinksOf(q.candidate)'
    BY <2>2, <2>6, <2>8 DEF LinksOf
  <2>12. RequestHolds(r)'
    BY <1>2, <2>3, <2>4, <2>5, <2>8, <2>9, <2>10, <2>11 DEF RequestHolds
  <2>13. /\ application' \in [Emails -> Application] /\ candidate' \in Seq(Candidate)
         /\ served' \in 0..MaxRequests /\ crashes' \in 0..MaxMishaps
    BY <1>1, Types DEF PipelineHolds
  <2> QED
    BY <1>1, <2>3, <2>4, <2>6, <2>7, <2>12, <2>13, Moves
<1> QED
  BY <1>3, <1>4

\* The email enqueued, or already there, is to the link created.
LEMMA EnqueuesEmail ==
  ASSUME PipelineHolds, OutboxHolds, NEW r \in Requests, EnqueueEmail(r)
  PROVE  PipelineHolds' /\ OutboxHolds'
<1>1. UNCHANGED <<application, candidate, link, served, crashes, sender, deaths>>
  BY DEF EnqueueEmail
<1>2. /\ Mine(r) # 0 /\ (req[r].apply => Prepared(Mine(r))) /\ req[r].new \in LinksOf(Mine(r))
  BY Types DEF EnqueueEmail, At, RequestHolds
<1>3. PICK l \in Nat : l = req[r].new
  BY Types DEF Req
<1>4. outbox' = Enqueued(l)
  BY <1>3 DEF EnqueueEmail
<1>5. /\ OutboxHolds' /\ OutboxGrows
      /\ \E i \in DOMAIN outbox' : outbox'[i].link = l
  BY <1>1, <1>4, Enqueues
<1>6. /\ CandidatesGrow /\ LinksGrow /\ application' \in [Emails -> Application]
      /\ candidate' \in Seq(Candidate) /\ link' \in Seq(Link)
  BY <1>1 DEF CandidatesGrow, LinksGrow, PipelineHolds
<1>7. CASE req[r].apply
  <2>1. req' = Goes(r, "status") /\ "status" \in Stage
    BY <1>7 DEF EnqueueEmail, Stage
  <2>2. \E i \in DOMAIN outbox' : outbox'[i].link \in LinksOf(Mine(r))
    BY <1>2, <1>3, <1>5
  <2>3. PipelineHolds'
    BY <1>1, <1>2, <1>5, <1>6, <1>7, <2>1, <2>2, Advances
  <2> QED
    BY <1>5, <2>3
<1>8. CASE ~req[r].apply
  <2>1. req' = [req EXCEPT ![r] = InitialReq] /\ req'[r] = InitialReq
    BY <1>8, Types DEF EnqueueEmail, Ends
  <2>2. PICK q : q = InitialReq
    OBVIOUS
  <2>3. q.at = "idle" /\ q.copy.candidate = 0 /\ q.copy.state = "none"
    BY <2>2, Blank DEF NoApplication
  <2>4. RequestHolds(r)'
    BY <2>1, <2>2, <2>3 DEF RequestHolds, Earned
  <2>5. served' \in 0..MaxRequests /\ crashes' \in 0..MaxMishaps
    BY <1>1, Types
  <2>6. PipelineHolds'
    BY <1>1, <1>5, <1>6, <2>1, <2>4, <2>5, Blank, Moves
  <2> QED
    BY <1>5, <2>6
<1> QED
  BY <1>7, <1>8

\* The bound on mishaps bounds the crashes.
LEMMA RoomForAMishap ==
  ASSUME PipelineHolds, OutboxHolds, MishapsLeft
  PROVE  crashes + 1 \in 0..MaxMishaps
<1>1. IsFiniteSet({i \in DOMAIN link : link[i].lapsed})
  <2>1. link \in Seq(Link) /\ DOMAIN link = 1..Len(link) /\ Len(link) \in Nat
    BY DEF PipelineHolds
  <2>2. IsFiniteSet(DOMAIN link)
    BY <2>1, FS_Interval
  <2> QED
    BY <2>2, FS_Subset
<1>2. Cardinality({i \in DOMAIN link : link[i].lapsed}) \in Nat
  BY <1>1, FS_CardinalityType
<1>3. crashes \in Nat /\ deaths \in Nat
  BY DEF PipelineHolds, OutboxHolds
<1> QED
  BY <1>2, <1>3 DEF MishapsLeft

\* Steps of the links, of the template and of the outbox.
LEMMA TablesMove ==
  ASSUME PipelineHolds, UNCHANGED <<application, req, served, crashes>>,
         candidate' \in Seq(Candidate), link' \in Seq(Link),
         CandidatesGrow, LinksGrow, OutboxGrows
  PROVE  PipelineHolds'
BY EarnedStays DEF PipelineHolds

\* Using, losing and sweeping links undoes nothing.
LEMMA LinkMoves ==
  ASSUME PipelineHolds, OutboxHolds, LinkStep
  PROVE  PipelineHolds'
<1>1. UNCHANGED <<application, req, served, crashes, outbox>>
  BY DEF LinkStep, StartInterview, LinkLapses, ExpireStale, Elsewhere, outboxVars
<1>2. /\ candidate \in Seq(Candidate) /\ link \in Seq(Link) /\ OutboxGrows
      /\ DOMAIN candidate = 1..Len(candidate)
      /\ \A i \in DOMAIN link : link[i] \in Link
  BY <1>1 DEF PipelineHolds, OutboxGrows
<1>3. ASSUME NEW i \in DOMAIN link, StartInterview(i) PROVE PipelineHolds'
  <2>1. link' = link
    BY <1>3 DEF StartInterview
  <2>2. candidate' \in Seq(Candidate) /\ CandidatesGrow
    <3> DEFINE c == link[i].candidate
               item == IF candidate[c].item = "awaiting" THEN "armed" ELSE candidate[c].item
               row == [candidate[c] EXCEPT !.item = item]
    <3>1. candidate' = [candidate EXCEPT ![c] = row]
      BY <1>2, <1>3 DEF StartInterview
    <3>2. CASE c \in DOMAIN candidate
      <4>1. candidate[c] \in Candidate
        BY <1>2, <3>2
      <4>2. item \in {"none", "awaiting", "armed"} /\ (candidate[c].item # "none" => item # "none")
        BY <4>1 DEF Candidate
      <4> HIDE DEF item
      <4>3. /\ row \in Candidate /\ row.plan = candidate[c].plan
            /\ (candidate[c].item # "none" => row.item # "none")
        BY <4>1, <4>2 DEF Candidate
      <4> HIDE DEF row, c
      <4> QED
        BY <3>1, <3>2, <4>3, RowOfCandidate
    <3>3. CASE c \notin DOMAIN candidate
      <4>1. candidate' = candidate
        BY <1>2, <3>1, <3>3
      <4> QED
        BY <1>2, <4>1 DEF CandidatesGrow
    <3> QED
      BY <3>2, <3>3
  <2>3. LinksGrow
    BY <2>1 DEF LinksGrow
  <2> QED
    BY <1>1, <1>2, <2>1, <2>2, <2>3, TablesMove
<1>4. ASSUME NEW i \in DOMAIN link, LinkLapses(i) PROVE PipelineHolds'
  <2> DEFINE row == [link[i] EXCEPT !.lapsed = TRUE]
  <2>1. row \in Link /\ row.candidate = link[i].candidate
    <3>1. link[i] \in Link
      BY <1>2
    <3> QED
      BY <3>1 DEF Link
  <2>2. link' = [link EXCEPT ![i] = row] /\ candidate' = candidate
    <3>1. link' = [link EXCEPT ![i].lapsed = TRUE] /\ candidate' = candidate
      BY <1>4 DEF LinkLapses
    <3> QED
      BY <1>2, <3>1 DEF Link
  <2> HIDE DEF row
  <2>3. link' \in Seq(Link) /\ LinksGrow
    BY <1>2, <2>1, <2>2, ExceptSeq DEF LinksGrow
  <2>4. CandidatesGrow
    BY <2>2 DEF CandidatesGrow
  <2> QED
    BY <1>1, <1>2, <2>2, <2>3, <2>4, TablesMove
<1>5. CASE ExpireStale
  <2>1. candidate' = candidate
    BY <1>5 DEF ExpireStale
  <2>2. /\ DOMAIN link' = DOMAIN link
        /\ \A i \in DOMAIN link : link'[i] \in Link /\ link'[i].candidate = link[i].candidate
    <3> DEFINE Row(i) == IF link[i].status = "active" /\ link[i].lapsed
                         THEN [link[i] EXCEPT !.status = "expired"] ELSE link[i]
    <3>1. ASSUME NEW i \in DOMAIN link
          PROVE  Row(i) \in Link /\ Row(i).candidate = link[i].candidate
      <4>1. link[i] \in Link
        BY <1>2
      <4> QED
        BY <4>1 DEF Link, InvitationStatus
    <3>2. link' = [i \in DOMAIN link |-> Row(i)]
      BY <1>5 DEF ExpireStale
    <3> HIDE DEF Row
    <3> QED
      BY <3>1, <3>2
  <2>3. link' \in Seq(Link)
    <3>1. link' = [i \in 1..Len(link) |-> link'[i]] /\ DOMAIN link = 1..Len(link) /\ Len(link) \in Nat
      BY <1>2, <1>5, <2>2 DEF ExpireStale
    <3> QED
      BY <2>2, <3>1
  <2>4. CandidatesGrow /\ LinksGrow
    BY <2>1, <2>2 DEF CandidatesGrow, LinksGrow
  <2> QED
    BY <1>1, <1>2, <2>1, <2>3, <2>4, TablesMove
<1> QED
  BY <1>3, <1>4, <1>5 DEF LinkStep

-----------------------------------------------------------------------------
(* The invariant and the theorems.                                         *)

Holding == PipelineHolds /\ OutboxHolds /\ TemplateHolds

\* The initial states satisfy the invariant.
LEMMA Starts == Init => Holding
<1> SUFFICES ASSUME Init PROVE Holding
  OBVIOUS
<1>1. /\ application = [e \in Emails |-> NoApplication] /\ candidate = << >> /\ link = << >>
      /\ req = [r \in Requests |-> InitialReq] /\ served = 0 /\ crashes = 0
  BY DEF Init, PipelineInit
<1>2. << >> \in Seq(Candidate) /\ << >> \in Seq(Link)
  OBVIOUS
<1>3. /\ application \in [Emails -> Application] /\ req \in [Requests -> Req]
      /\ candidate \in Seq(Candidate) /\ link \in Seq(Link)
      /\ served \in 0..MaxRequests /\ crashes \in 0..MaxMishaps
  BY <1>1, <1>2, Blank
<1>4. \A e \in Emails : RowHolds(e)
  BY <1>1 DEF RowHolds, Earned, NoApplication
<1>5. ASSUME NEW r \in Requests PROVE RequestHolds(r)
  <2>1. req[r].at = "idle" /\ req[r].copy.candidate = 0 /\ req[r].copy.state = "none"
    BY <1>1, Blank DEF NoApplication
  <2> QED
    BY <2>1 DEF RequestHolds, Earned
<1>6. OutboxHolds /\ TemplateHolds
  BY OutboxStarts, TemplateStarts DEF Init
<1> QED
  BY <1>3, <1>4, <1>5, <1>6 DEF Holding, PipelineHolds

\* Every step of a request keeps the invariant.
LEMMA Requested ==
  ASSUME Holding, NEW r \in Requests, RequestStep(r)
  PROVE  Holding'
<1>1. PipelineHolds /\ OutboxHolds /\ TemplateHolds
  BY DEF Holding
<1>2. CASE EnqueueEmail(r)
  <2>1. UNCHANGED templateVars
    BY <1>2 DEF EnqueueEmail
  <2> QED
    BY <1>1, <1>2, <2>1, EnqueuesEmail DEF Holding, TemplateHolds, TemplateTypeOK, templateVars
<1>3. CASE ~EnqueueEmail(r)
  <2>1. UNCHANGED <<templateVars, outboxVars>>
    BY <1>3 DEF RequestStep, LookUp, CheckLimit, Insert, EnsureCandidate, MarkApplied,
         RecordCandidate, MaterializePlan, EnsureQueued, PlanReady, ReadActive, Revoke,
         CreateLink, MarkInvited, Invited, SetState, Elsewhere
  <2>2. UNCHANGED <<served, crashes, outbox>>
    BY <1>3, <2>1 DEF RequestStep, LookUp, CheckLimit, Insert, EnsureCandidate, MarkApplied,
         RecordCandidate, MaterializePlan, EnsureQueued, PlanReady, ReadActive, Revoke,
         CreateLink, MarkInvited, Invited, SetState, Elsewhere, outboxVars
  <2>3. OutboxHolds' /\ TemplateHolds'
    BY <1>1, <2>1, OutboxStutters DEF TemplateHolds, TemplateTypeOK, templateVars
  <2>4. ASSUME RecordCandidate(r) PROVE PipelineHolds'
    <3>1. Mine(r) # 0
      BY <1>1, <2>4, Types DEF RecordCandidate, SetState, At, RequestHolds
    <3> QED
      BY <1>1, <2>2, <2>4, <3>1, Records DEF RecordCandidate, Stage
  <2>5. ASSUME PlanReady(r) PROVE PipelineHolds'
    <3>1. Mine(r) # 0 /\ Prepared(Mine(r))
      BY <1>1, <2>5, Types DEF PlanReady, SetState, At, RequestHolds
    <3>2. PICK next \in {"active", "idle"} : next = IF AutoInvite THEN "active" ELSE "idle"
      OBVIOUS
    <3>3. SetState(r, "ready", "plan_ready", next)
      BY <2>5, <3>2 DEF PlanReady
    <3> QED
      BY <1>1, <2>2, <3>1, <3>2, <3>3, Records DEF Stage
  <2>6. ASSUME Invited(r) PROVE PipelineHolds'
    <3>1. Mine(r) # 0 /\ Prepared(Mine(r)) /\ Emailed(Mine(r))
      BY <1>1, <2>6, Types DEF Invited, SetState, At, RequestHolds
    <3> QED
      BY <1>1, <2>2, <2>6, <3>1, Records DEF Invited, Stage
  <2>7. PipelineHolds'
    BY <1>1, <1>3, <2>4, <2>5, <2>6, LooksUp, ChecksLimit, Inserts, EnsuresCandidate,
       MarksApplied, Materializes, EnsuresQueued, ReadsActive, Revokes, CreatesLink,
       MarksInvited DEF RequestStep
  <2> QED
    BY <2>3, <2>7 DEF Holding
<1> QED
  BY <1>2, <1>3

\* Every step keeps the invariant.
LEMMA Inductive == Holding /\ [Next]_vars => Holding'
<1> SUFFICES ASSUME Holding, [Next]_vars PROVE Holding'
  OBVIOUS
<1>1. PipelineHolds /\ OutboxHolds /\ TemplateHolds
  BY DEF Holding
<1>2. ASSUME UNCHANGED pipelineVars, OutboxGrows PROVE PipelineHolds'
  <2>1. /\ UNCHANGED <<application, req, served, crashes>> /\ CandidatesGrow /\ LinksGrow
        /\ candidate' \in Seq(Candidate) /\ link' \in Seq(Link)
    BY <1>1, <1>2 DEF pipelineVars, CandidatesGrow, LinksGrow, PipelineHolds
  <2> QED
    BY <1>1, <1>2, <2>1, TablesMove
<1>3. ASSUME UNCHANGED templateVars PROVE TemplateHolds'
  BY <1>1, <1>3 DEF templateVars, TemplateHolds, TemplateTypeOK
<1>4. ASSUME UNCHANGED outboxVars PROVE OutboxHolds' /\ OutboxGrows
  BY <1>1, <1>4, OutboxStutters
<1>5. ASSUME NEW r \in Requests, RequestStep(r) PROVE Holding'
  BY <1>5, Requested
<1>6. ASSUME NEW r \in Requests, Crash(r) PROVE Holding'
  <2>1. /\ UNCHANGED <<application, candidate, link, served, outbox>>
        /\ UNCHANGED templateVars /\ UNCHANGED outboxVars
        /\ req' = Ends(r) /\ crashes' \in 0..MaxMishaps
    BY <1>1, <1>6, RoomForAMishap DEF Crash, outboxVars
  <2> QED
    BY <1>1, <1>3, <1>4, <2>1, Ending DEF Holding
<1>7. ASSUME NEW r \in Requests, NEW e \in Emails, Apply(r, e) \/ Resend(r, e) PROVE Holding'
  <2>1. UNCHANGED templateVars /\ UNCHANGED outboxVars
    BY <1>7 DEF Apply, Resend
  <2> QED
    BY <1>1, <1>3, <1>4, <1>7, <2>1, Applies, Resends DEF Holding
<1>8. CASE LinkStep
  <2>1. UNCHANGED templateVars /\ UNCHANGED outboxVars
    BY <1>8 DEF LinkStep, StartInterview, LinkLapses, ExpireStale, Elsewhere
  <2> QED
    BY <1>1, <1>3, <1>4, <1>8, <2>1, LinkMoves DEF Holding
<1>9. CASE TemplateNext /\ UNCHANGED <<pipelineVars, outboxVars>>
  BY <1>1, <1>2, <1>4, <1>9, TemplateMoves DEF Holding
<1>10. CASE DispatchStep /\ UNCHANGED <<pipelineVars, templateVars>>
  BY <1>1, <1>2, <1>3, <1>10, Dispatches DEF Holding
<1>11. ASSUME NEW w \in Workers, WorkerDies(w), UNCHANGED <<pipelineVars, templateVars>>
       PROVE  Holding'
  BY <1>1, <1>2, <1>3, <1>11, Dies DEF Holding
<1>12. CASE UNCHANGED vars
  BY <1>1, <1>2, <1>3, <1>4, <1>12 DEF vars, pipelineVars, Holding
<1> QED
  BY <1>5, <1>6, <1>7, <1>8, <1>9, <1>10, <1>11, <1>12 DEF Next

\* The inductive invariant: what each request, each email and each worker's hand
\* says of what has been done.
THEOREM PipelineInvariant == Spec => []Holding
BY Starts, Inductive, PTL DEF Spec

\* Every table, every request and every worker's hand keeps its type, and an
\* email is tried no more than its attempts and once per death.
THEOREM PipelineTypeCorrect == Spec => []TypeOK
<1>1. Holding => TypeOK
  BY OutboxTypes DEF Holding, PipelineHolds, TemplateHolds, TypeOK
<1> QED
  BY <1>1, PipelineInvariant, PTL

\* The row of an address never claims more than was done for its candidate,
\* however many requests for it overlap and wherever they die.
THEOREM RowsAreEarned == Spec => []StateIsEarned
<1>1. Holding => StateIsEarned
  <2> SUFFICES ASSUME Holding, NEW e \in Emails
               PROVE  LET row == application[e]
                      IN  /\ row.state \notin {"none", "received"} => row.candidate \in DOMAIN candidate
                          /\ row.state \in {"plan_ready", "invited"} =>
                                candidate[row.candidate].plan > 0
                                /\ candidate[row.candidate].item # "none"
                          /\ row.state = "invited" =>
                                \E i \in DOMAIN outbox : outbox[i].link \in LinksOf(row.candidate)
    BY DEF StateIsEarned
  <2>1. RowHolds(e)
    BY DEF Holding, PipelineHolds
  <2> QED
    BY <2>1 DEF RowHolds, Earned, Prepared, Emailed
<1> QED
  BY <1>1, PipelineInvariant, PTL

\* An email goes out twice only when a worker died between sending and marking.
THEOREM EmailsGoOutOnce == Spec => []SentOncePerDeath
<1>1. Holding => SentOncePerDeath
  BY DEF Holding, OutboxHolds, EmailHolds, SentOncePerDeath
<1> QED
  BY <1>1, PipelineInvariant, PTL

\* Only a link that resolves arms an interview: nothing else writes "armed".
THEOREM OnlyLiveLinksArm == Spec => ArmedByLiveLink
<1> DEFINE Arms == \A c \in DOMAIN candidate :
                      candidate[c].item = "awaiting" /\ candidate'[c].item = "armed" =>
                          \E i \in LinksOf(c) : link[i].status = "active" /\ ~link[i].lapsed
<1>1. ASSUME Holding, [Next]_vars, NEW c \in DOMAIN candidate,
             candidate[c].item = "awaiting", candidate'[c].item = "armed"
      PROVE  \E i \in LinksOf(c) : link[i].status = "active" /\ ~link[i].lapsed
  <2>1. /\ candidate \in Seq(Candidate) /\ DOMAIN candidate = 1..Len(candidate)
        /\ \A d \in DOMAIN candidate : candidate[d] \in Candidate
    BY <1>1 DEF Holding, PipelineHolds
  <2>2. candidate' # candidate
    BY <1>1
  <2>3. CASE \E i \in DOMAIN link : StartInterview(i)
    <3>1. PICK i \in DOMAIN link : StartInterview(i)
      BY <2>3
    <3>2. link[i].candidate = c
      BY <1>1, <2>1, <3>1 DEF StartInterview
    <3> QED
      BY <3>1, <3>2 DEF StartInterview, Resolves, LinksOf
  <2>4. ASSUME NEW r \in Requests, EnsureCandidate(r) PROVE FALSE
    <3>1. \E x : candidate' = Append(candidate, x)
      BY <2>2, <2>4 DEF EnsureCandidate
    <3>2. candidate'[c] = candidate[c]
      BY <2>1, <3>1
    <3> QED
      BY <1>1, <3>2
  <2>5. ASSUME NEW r \in Requests, MarkApplied(r) \/ MaterializePlan(r) \/ MarkInvited(r)
        PROVE  FALSE
    <3>1. candidate'[c].item = candidate[c].item
      <4>1. candidate[c] \in Candidate
        BY <2>1
      <4>2. \/ candidate' = [candidate EXCEPT ![Mine(r)].status = "applied"]
            \/ candidate' = [candidate EXCEPT ![Mine(r)].plan = bank]
            \/ candidate' = [candidate EXCEPT ![Mine(r)].status = "invited"]
        BY <2>2, <2>5 DEF MarkApplied, MaterializePlan, MarkInvited
      <4>3. CASE Mine(r) = c
        BY <4>1, <4>2, <4>3 DEF Candidate
      <4>4. CASE Mine(r) # c
        BY <4>2, <4>4
      <4> QED
        BY <4>3, <4>4
    <3> QED
      BY <1>1, <3>1
  <2>6. ASSUME NEW r \in Requests, EnsureQueued(r) PROVE FALSE
    <3>1. Mine(r) # c
      BY <1>1, <2>2, <2>6 DEF EnsureQueued
    <3>2. candidate'[c] = candidate[c]
      BY <2>1, <2>6, <3>1 DEF EnsureQueued
    <3> QED
      BY <1>1, <3>2
  <2>7. \/ \E i \in DOMAIN link : StartInterview(i)
        \/ \E r \in Requests : \/ EnsureCandidate(r) \/ MarkApplied(r) \/ MaterializePlan(r)
                               \/ EnsureQueued(r) \/ MarkInvited(r)
    BY <1>1, <2>2 DEF Next, RequestStep, LinkStep, LookUp, CheckLimit, Insert, RecordCandidate,
         PlanReady, Invited, SetState, ReadActive, Revoke, CreateLink, EnqueueEmail, Crash,
         Apply, Resend, LinkLapses, ExpireStale, pipelineVars, vars
  <2> QED
    BY <2>3, <2>4, <2>5, <2>6, <2>7
<1>2. Holding /\ [Next]_vars => [Arms]_vars
  BY <1>1
<1> QED
  BY <1>2, PipelineInvariant, PTL DEF Spec, ArmedByLiveLink

-----------------------------------------------------------------------------
(* One tab: what is published is what was reviewed.                        *)

\* No approval on file is of other content, unless tab t is about to revoke it; and if
\* t will write the row back, it has read the row as it is.
InStep(t) ==
    /\ tab[t].doing # "revoke" /\ config.approved => config.approvedBank = bank
    /\ tab[t].doing \in {"settings", "approve", "publish", "unpublish"} => tab[t].copy = config

ReviewHolds == \A t \in Tabs : InStep(t)

\* A step of the only tab keeps the approval in step with the bank.
LEMMA ReviewMoves ==
  ASSUME NEW only, Tabs = {only}, TemplateHolds, ReviewHolds, TemplateNext
  PROVE  ReviewHolds'
<1>1. /\ bank \in 1..(MaxEdits + 1) /\ config \in Config
      /\ tab \in [Tabs -> [doing : Request, copy : Config]]
  BY DEF TemplateHolds, TemplateTypeOK
<1>2. PICK t \in Tabs :
        \/ \E request \in {"settings", "approve", "publish", "unpublish"} : TabReads(t, request)
        \/ SettingsSaved(t) \/ TemplateApproved(t) \/ Published(t) \/ Unpublished(t)
        \/ ContentEdited(t) \/ ApprovalRevoked(t)
  BY DEF TemplateNext
<1>3. InStep(t)
  BY DEF ReviewHolds
<1>4. SUFFICES InStep(t)'
  BY DEF ReviewHolds
<1>5. Done(t)[t].doing = "idle"
  BY <1>1 DEF Done
<1>6. ASSUME NEW request \in {"settings", "approve", "publish", "unpublish"}, TabReads(t, request)
      PROVE  InStep(t)'
  <2>1. tab'[t] = [doing |-> request, copy |-> config] /\ UNCHANGED <<bank, config>>
    BY <1>1, <1>6 DEF TabReads
  <2>2. tab[t].doing = "idle"
    BY <1>6 DEF TabReads, Begins
  <2> QED
    BY <1>3, <2>1, <2>2 DEF InStep
<1>7. CASE SettingsSaved(t)
  BY <1>3, <1>5, <1>7 DEF SettingsSaved, InStep
<1>8. CASE TemplateApproved(t)
  <2>1. config' = [config EXCEPT !.approved = TRUE, !.approvedBank = bank] /\ bank' = bank
    BY <1>3, <1>8 DEF TemplateApproved, InStep
  <2>2. config'.approvedBank = bank'
    BY <1>1, <2>1 DEF Config
  <2> QED
    BY <1>5, <1>8, <2>2 DEF TemplateApproved, InStep
<1>9. CASE Published(t)
  <2>1. /\ config'.approved = config.approved
        /\ config'.approvedBank = config.approvedBank
    BY <1>1, <1>3, <1>9 DEF Published, Config, InStep
  <2> QED
    BY <1>3, <1>5, <1>9, <2>1 DEF Published, InStep
<1>10. CASE Unpublished(t)
  <2>1. /\ config'.approved = config.approved
        /\ config'.approvedBank = config.approvedBank
    BY <1>1, <1>3, <1>10 DEF Unpublished, Config, InStep
  <2> QED
    BY <1>3, <1>5, <1>10, <2>1 DEF Unpublished, InStep
<1>11. CASE ContentEdited(t)
  <2>1. tab'[t].doing = "revoke"
    BY <1>1, <1>11 DEF ContentEdited
  <2> QED
    BY <2>1 DEF InStep
<1>12. CASE ApprovalRevoked(t)
  <2>1. ~config'.approved
    BY <1>1, <1>12 DEF ApprovalRevoked, Revoked, Config
  <2> QED
    BY <1>5, <1>12, <2>1 DEF ApprovalRevoked, InStep
<1> QED
  BY <1>2, <1>6, <1>7, <1>8, <1>9, <1>10, <1>11, <1>12

\* Only the recruiter's requests touch the template.
LEMMA TemplateMovesAlone == [Next]_vars => TemplateNext \/ UNCHANGED templateVars
BY DEF Next, RequestStep, LinkStep, LookUp, CheckLimit, Insert, EnsureCandidate, MarkApplied,
       RecordCandidate, MaterializePlan, EnsureQueued, PlanReady, ReadActive, Revoke, CreateLink,
       EnqueueEmail, MarkInvited, Invited, SetState, Elsewhere, Crash, Apply, Resend,
       StartInterview, LinkLapses, ExpireStale, vars

\* With one tab an approval never silently goes stale: an edit revokes it before the
\* position counts as published again, however applications and emails interleave
\* (screening_configs.py, revoke_approval).
THEOREM PublishedWasReviewed ==
  ASSUME NEW only, Tabs = {only}
  PROVE  Spec => []PublishedIsReviewed
<1>1. Init => ReviewHolds
  BY DEF Init, TemplateInit, ReviewHolds, InStep
<1>2. ReviewHolds /\ Holding /\ [Next]_vars => ReviewHolds'
  <2>. SUFFICES ASSUME ReviewHolds, Holding, [Next]_vars PROVE ReviewHolds'
    OBVIOUS
  <2>1. CASE TemplateNext
    BY <2>1, ReviewMoves DEF Holding
  <2>2. CASE UNCHANGED templateVars
    BY <2>2 DEF templateVars, ReviewHolds, InStep
  <2> QED
    BY <2>1, <2>2, TemplateMovesAlone
<1>3. ReviewHolds => PublishedIsReviewed
  BY DEF ReviewHolds, InStep, PublishedIsReviewed, IsPublished
<1> QED
  BY <1>1, <1>2, <1>3, PipelineInvariant, PTL DEF Spec

=============================================================================
