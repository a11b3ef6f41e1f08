-------------------------- MODULE InterviewRecord --------------------------
(***************************************************************************)
(* What the session store promises its callers: the interview is one       *)
(* record, and each operation of InterviewAgentService that succeeds       *)
(* happens to it at one moment, as if nobody else were using it.           *)
(***************************************************************************)
EXTENDS InterviewAgentService

VARIABLE record

Init == record = NotPrepared

Prepares == /\ record = NotPrepared
            /\ record' \in PreparedFromDocuments \union PreparedFromPosition

Happens == \E op \in Writing : record' \in Outcomes(op, record)

Next == Prepares \/ Happens

Spec == Init /\ [][Next]_record

=============================================================================
