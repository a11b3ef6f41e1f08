-------------------------- MODULE MCVoiceInterview --------------------------
(***************************************************************************)
(* VoiceInterview for TLC: a plan of two questions, the first with room    *)
(* for a follow-up, and the next_question calls of one or two replies.     *)
(***************************************************************************)
EXTENDS VoiceInterview

TwoQuestions == << [category |-> "content", followUpAllowed |-> TRUE],
                   [category |-> "closing", followUpAllowed |-> FALSE] >>
=============================================================================
