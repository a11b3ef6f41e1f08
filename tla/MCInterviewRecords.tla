------------------------- MODULE MCInterviewRecords -------------------------
(***************************************************************************)
(* InterviewRecords for TLC.  The constants are plain numbers.             *)
(***************************************************************************)
EXTENDS InterviewRecords
=============================================================================
