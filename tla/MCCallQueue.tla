---------------------------- MODULE MCCallQueue ----------------------------
(***************************************************************************)
(* Instances of CallQueue for TLC.                                         *)
(***************************************************************************)
EXTENDS CallQueue, TLC

CONSTANTS w1, w2, q1, q2, c1, c2, r1, r2

\* Two candidates in one queue.
OneQueue      == 1 :> q1 @@ 2 :> q1
TwoPeople     == 1 :> c1 @@ 2 :> c2

\* One candidate in two queues.
TwoQueues     == 1 :> q1 @@ 2 :> q2
OnePerson     == 1 :> c1 @@ 2 :> c1

\* A single item.
SingleQueue   == 1 :> q1
SinglePerson  == 1 :> c1

=============================================================================
