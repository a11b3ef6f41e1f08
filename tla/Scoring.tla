------------------------------- MODULE Scoring -------------------------------
(***************************************************************************)
(* The rubric and the pure scoring rules: config/rubric_config.py and      *)
(* services/scoring.py.  Weights, scores and thresholds are integers; the  *)
(* evidence coverage, a fraction in the code, is compared in hundredths of *)
(* the rubric's total weight.                                              *)
(***************************************************************************)
EXTENDS Integers, FiniteSets, Sequences

CONSTANTS Weight,       \* weights of the default profile, by category
          MinCoverage,  \* min_evidence_coverage, in hundredths
          StrongScore,  \* strong_evidence_min_score
          ProceedScore, \* proceed_min_score
          PassScore     \* pass_score_threshold

\* EvaluationCategory, in the order of its members.
CategoryOrder == <<"relevant_experience", "technical_knowledge", "problem_solving",
                   "communication", "behavioral_competencies", "job_requirement_coverage">>
Categories == {CategoryOrder[i] : i \in DOMAIN CategoryOrder}

\* The sum of a number per category.
Total(number) ==
    number["relevant_experience"] + number["technical_knowledge"]
    + number["problem_solving"] + number["communication"]
    + number["behavioral_competencies"] + number["job_requirement_coverage"]

WeightOf(cats) == Total([c \in Categories |-> IF c \in cats THEN Weight[c] ELSE 0])

\* RubricProfile and RubricThresholds refuse any other configuration.
RubricProfile == {w \in [Categories -> Nat] : Total(w) = 100}

RubricThresholds ==
    /\ MinCoverage \in 0..100 /\ PassScore \in 0..100
    /\ ProceedScore \in 0..100 /\ StrongScore \in ProceedScore..100

ASSUME RubricAssumption == Weight \in RubricProfile /\ RubricThresholds

None == -1    \* a score that is not given

\* The categories of an evaluation that carry a score.
Scored(evals) == {c \in Categories : evals[c].score # None}

\* round: to the nearest, a half to the even neighbour.
Round(n, d) ==
    LET q == n \div d
        r == 2 * (n % d)
    IN  IF r > d \/ (r = d /\ q % 2 = 1) THEN q + 1 ELSE q

WeightedSum(evals) ==
    Total([c \in Categories |-> IF c \in Scored(evals) THEN evals[c].score * Weight[c] ELSE 0])

\* Mutant: the mean divides by the whole profile, an unscored category counts 0.
OverallScore_WholeProfile(evals) ==
    IF WeightOf(Scored(evals)) = 0 THEN None
    ELSE Round(WeightedSum(evals), WeightOf(Categories))

\* Mutant: the mean divides by the number of categories.
OverallScore_Unweighted(evals) ==
    IF WeightOf(Scored(evals)) = 0 THEN None
    ELSE Round(WeightedSum(evals), Cardinality(Scored(evals)))

\* compute_overall_score.
OverallScore(evals) ==
    IF WeightOf(Scored(evals)) = 0 THEN None
    ELSE Round(WeightedSum(evals), WeightOf(Scored(evals)))

\* compute_evidence_coverage against min_evidence_coverage.
Covered(evals) == 100 * WeightOf(Scored(evals)) >= MinCoverage * WeightOf(Categories)

Recommendation(evals) ==
    LET score == OverallScore(evals)
    IN  CASE ~Covered(evals) \/ score = None -> "insufficient_evidence"
          [] Covered(evals) /\ score >= StrongScore -> "strong_evidence"
          [] Covered(evals) /\ score \in ProceedScore..(StrongScore - 1) -> "proceed"
          [] OTHER -> "requires_validation"

\* determine_screening_outcome.
ScreeningOutcome(evals) ==
    CASE ~Covered(evals) \/ OverallScore(evals) = None -> "needs_review"
      [] Covered(evals) /\ OverallScore(evals) >= PassScore -> "pass"
      [] OTHER -> "fail"

\* build_interview_evaluation: no overall score without enough coverage.
InterviewEvaluation(evals) ==
    [overall |-> IF Covered(evals) THEN OverallScore(evals) ELSE None,
     categories |-> evals,
     recommendation |-> Recommendation(evals),
     outcome |-> ScreeningOutcome(evals)]
=============================================================================
