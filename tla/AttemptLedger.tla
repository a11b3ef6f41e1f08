--------------------------- MODULE AttemptLedger ---------------------------
(***************************************************************************)
(* What the queue promises for its items, whatever happens to the workers: *)
(* an item waits, runs or is settled; a run spends one attempt when it     *)
(* begins; an item whose attempts are spent is never handed out again; and *)
(* a settled item stays settled.  One step may move several items: the     *)
(* recovery of expired leases is a sweep over the table.                   *)
(***************************************************************************)
EXTENDS Integers

CONSTANTS Tasks, Limit

VARIABLES
    phase,  \* per task: "waiting", "running" or "settled"
    spent   \* per task: the attempts its runs have cost

ledger == <<phase, spent>>

Init ==
    /\ phase = [t \in Tasks |-> "waiting"]
    /\ spent = [t \in Tasks |-> 0]

Begins(t) ==
    /\ phase[t] = "waiting" /\ phase'[t] = "running"
    /\ spent[t] < Limit /\ spent'[t] = spent[t] + 1

GivenBack(t) ==
    /\ phase[t] = "running" /\ phase'[t] = "waiting"
    /\ spent[t] < Limit /\ spent'[t] = spent[t]

Settles(t) ==
    /\ phase[t] = "running" /\ phase'[t] = "settled"
    /\ spent'[t] = spent[t]

Rests(t) == phase'[t] = phase[t] /\ spent'[t] = spent[t]

Next == \A t \in Tasks : Begins(t) \/ GivenBack(t) \/ Settles(t) \/ Rests(t)

Spec == Init /\ [][Next]_ledger

=============================================================================
