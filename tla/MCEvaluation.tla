---------------------------- MODULE MCEvaluation ----------------------------
(***************************************************************************)
(* Evaluation for TLC, with the technical profile and the thresholds of    *)
(* config/rubrics.json.                                                    *)
(***************************************************************************)
EXTENDS Evaluation

TechnicalProfile ==
    [technical_knowledge |-> 30, relevant_experience |-> 25, problem_solving |-> 20,
     job_requirement_coverage |-> 15, communication |-> 10, behavioral_competencies |-> 0]

\* One answer, and three answers to questions of several kinds.
SampleTranscripts ==
    {<<"behavioral">>,
     <<"cv_project_validation", "technical", "behavioral">>,
     <<"cv_project_validation", "problem_solving">>}

SampleScores == {59, 60, 76}

\* Nothing; two concerns; the first, and again in words a report must not use.
SampleAreas ==
    LET design == {"rest", "api", "design"}
    IN  {<< >>, <<design, {"team", "size"}>>, <<design, design \union {"reject"}>>}
=============================================================================
