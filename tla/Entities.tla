------------------------------ MODULE Entities ------------------------------
(***************************************************************************)
(* The people and the interview sessions every table refers to.            *)
(***************************************************************************)
EXTENDS Integers

CONSTANTS
    Candidates,  \* candidates ids
    SessionIds,  \* interview session ids that may be drawn
    NoSession    \* a session column that IS NULL

ASSUME EntityAssumption == NoSession \notin SessionIds /\ Candidates # {}

=============================================================================
