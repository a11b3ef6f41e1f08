----------------------------- MODULE MCVoiceJob -----------------------------
(***************************************************************************)
(* VoiceJob for TLC: two questions, the first with room for a follow-up.   *)
(***************************************************************************)
EXTENDS VoiceJob

TwoQuestions == << [category |-> "content", followUpAllowed |-> TRUE],
                   [category |-> "closing", followUpAllowed |-> FALSE] >>
TheirIds == {1, 2}
=============================================================================
