--------------------------- MODULE MCSessionStore ---------------------------
(***************************************************************************)
(* Instances of SessionStore for TLC.                                      *)
(***************************************************************************)
EXTENDS SessionStore, TLC

CONSTANTS c1, c2

Asks(category, followUps) == [category |-> category, followUpAllowed |-> followUps]

\* A single question of HR's, to be framed, and an authored list that has
\* both its frames and allows more follow-ups than its budget.
TwoLists == { <<Asks("content", TRUE)>>,
              <<Asks("introduction", TRUE), Asks("closing", TRUE)>> }

Callers == Permutations(Clients)

=============================================================================
