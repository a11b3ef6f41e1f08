------------------------------- MODULE HRReport -------------------------------
(***************************************************************************)
(* How services/report_service.py makes the recruiter's lists out of the   *)
(* category evaluations: concerns are compared by their words, a concern   *)
(* much like an earlier one is dropped, five are kept.  A concern is the   *)
(* set of its words (_concern_tokens).                                     *)
(***************************************************************************)
EXTENDS Scoring, SequencesExt

MaxRecruiterItems == 5

\* The words of a category's label, plurals cut.
LabelWords ==
    [relevant_experience      |-> {"relevant", "experience"},
     technical_knowledge      |-> {"technical", "knowledge"},
     problem_solving          |-> {"problem", "solving"},
     communication            |-> {"communication"},
     behavioral_competencies  |-> {"behavioral", "competencie"},
     job_requirement_coverage |-> {"job", "requirement", "coverage"}]

\* "<label>: insufficient evidence from this interview."
Gap(c) == LabelWords[c] \union {"insufficient", "evidence", "from", "this", "interview"}

\* _same_concern: three quarters of the shorter, or three fifths of both.
SameConcern(a, b) ==
    LET common == Cardinality(a \intersect b)
    IN  \/ a = b
        \/ /\ a # {} /\ b # {}
           /\ \/ 4 * common >= 3 * Min({Cardinality(a), Cardinality(b)})
              \/ 5 * common >= 3 * Cardinality(a \union b)

\* Mutant: a concern is compared with the one before it only.
Kept_ComparesLast(kept, concern) ==
    IF \/ kept # << >> /\ SameConcern(concern, Last(kept))
       \/ Len(kept) >= MaxRecruiterItems
    THEN kept ELSE Append(kept, concern)

Kept(kept, concern) ==
    IF \/ \E i \in DOMAIN kept : SameConcern(concern, kept[i])
       \/ Len(kept) >= MaxRecruiterItems
    THEN kept ELSE Append(kept, concern)

\* _dedup_concerns, after each of the items.
DedupConcerns(items) ==
    LET kept[n \in 0..Len(items)] ==
            IF n = 0 THEN << >> ELSE Kept(kept[n - 1], items[n])
    IN  kept[Len(items)]

\* What the categories among cats have to say, one after the other.
InOrder(Op(_), cats) ==
    LET Of(i) == IF CategoryOrder[i] \in cats THEN Op(CategoryOrder[i]) ELSE << >>
    IN  Of(1) \o Of(2) \o Of(3) \o Of(4) \o Of(5) \o Of(6)

\* Everything a category leaves open: what the evaluator names, then what has no
\* evidence.
Concerns(evals) ==
    InOrder(LAMBDA c : evals[c].areas, Categories)
    \o InOrder(LAMBDA c : <<Gap(c)>>, Categories \ Scored(evals))

\* _build_areas_requiring_validation; a question is derived from each for the
\* human interview.
AreasRequiringValidation(evals) == DedupConcerns(Concerns(evals))

\* _BANNED_DECISION_WORDS.
Banned(concern) == concern \intersect {"hire", "reject", "disqualif"} # {}

\* _assert_report_is_safe, of the texts that are not fixed.
ReportIsSafe(evals) ==
    /\ \A i \in DOMAIN AreasRequiringValidation(evals) :
          ~Banned(AreasRequiringValidation(evals)[i])
    /\ \A c \in Categories : \A i \in DOMAIN evals[c].areas : ~Banned(evals[c].areas[i])

\* build_hr_report, the parts that depend on the evaluation; the score is left
\* out when the evidence is not enough.
HRReport(evaluation) ==
    [overall |-> IF evaluation.recommendation = "insufficient_evidence" THEN None
                 ELSE evaluation.overall,
     outcome |-> evaluation.outcome,
     areas   |-> AreasRequiringValidation(evaluation.categories)]
=============================================================================
