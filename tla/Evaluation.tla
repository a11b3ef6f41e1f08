------------------------------ MODULE Evaluation ------------------------------
(***************************************************************************)
(* What becomes of a completed interview: evaluate_interview asks the      *)
(* evaluator agent for one category after the other                        *)
(* (agents/evaluator.py), each by a structured call of an LLM adapter that *)
(* repairs an answer once (services/llm/mistral_service.py and the other   *)
(* two), checks the excerpts against the transcript, and scores;           *)
(* generate_report makes the recruiter's report of the result.             *)
(***************************************************************************)
EXTENDS HRReport

CONSTANTS Transcripts, \* per instance: question categories of the turns, in order
          Scores,      \* scores the model gives
          Areas        \* per instance: lists of concerns the model names

\* A concern is one the model names, or a category without evidence.
Concern == {Gap(c) : c \in Categories} \union UNION {Range(named) : named \in Areas}

\* A score is one of 0..100, concerns come in a list (CategoryEvaluation).
ASSUME ModelAssumption == Scores \subseteq 0..100 /\ Areas \subseteq Seq(Concern)

VARIABLES
    transcript, \* the turns of the interview: the category of the question answered
    done,       \* the evaluations made so far, in CategoryOrder
    repairing,  \* the structured call under way has been given its repair prompt
    at,         \* "idle", "asking" the model, or "scoring"
    evaluation, \* stored with the session, or NoEvaluation
    report      \* likewise

vars == <<transcript, done, repairing, at, evaluation, report>>

\* An evaluation of one category, its excerpts checked.
CategoryEvaluation == [score : 0..100 \union {None}, evidence : SUBSET DOMAIN transcript,
                       areas : Areas \union {<< >>}]

StoredEvaluation == [overall : 0..100 \union {None},
                     categories : [Categories -> CategoryEvaluation],
                     recommendation : {"strong_evidence", "proceed", "requires_validation",
                                       "insufficient_evidence"},
                     outcome : {"pass", "fail", "needs_review"}]

StoredReport == [overall : 0..100 \union {None}, outcome : {"pass", "fail", "needs_review"},
                 areas : Seq(Concern)]

NoEvaluation == [overall |-> None, categories |-> << >>, recommendation |-> "none",
                 outcome |-> "none"]
NoReport == [overall |-> None, outcome |-> "none", areas |-> << >>]

Turns == DOMAIN transcript

\* _EVALUATION_TO_QUESTION_CATEGORIES.
QuestionCategories ==
    [relevant_experience      |-> {"candidate_background", "cv_project_validation"},
     technical_knowledge      |-> {"cv_project_validation", "technical"},
     problem_solving          |-> {"problem_solving"},
     communication            |-> {"behavioral"},
     behavioral_competencies  |-> {"behavioral"},
     job_requirement_coverage |-> {"cv_project_validation", "technical"}]

\* The turns an evaluation category may rest on.
RelevantTurns(c) == {t \in Turns : transcript[t] \in QuestionCategories[c]}

\* An excerpt is the turn it quotes, 0 if nobody said it.
Excerpts == Turns \union {0}

\* The evaluations CategoryEvaluation's validators accept.
Replies ==
    {[score |-> None, evidence |-> {}, areas |-> a] : a \in Areas}
    \union {[score |-> s, evidence |-> e, areas |-> << >>] :
               s \in Scores, e \in (SUBSET Excerpts) \ {{}}}

Init ==
    /\ transcript \in Transcripts
    /\ done = << >>
    /\ repairing = FALSE
    /\ at = "idle"
    /\ evaluation = NoEvaluation
    /\ report = NoReport

\* evaluate_interview, of a session that is completed and not yet evaluated.
Evaluate ==
    /\ at = "idle" /\ evaluation = NoEvaluation
    /\ at' = "asking"
    /\ UNCHANGED <<transcript, done, repairing, evaluation, report>>

Asked == CategoryOrder[Len(done) + 1]

\* _is_traceable, of each excerpt.
Traceable(c, evidence) == evidence \intersect RelevantTurns(c)

\* Mutant: the score stays when nothing of its evidence does.
Verified_ScoreStays(c, reply) ==
    [reply EXCEPT !.evidence = Traceable(c, reply.evidence)]

\* _verify_evidence: excerpts nobody said are dropped; with none left the score
\* goes too.
Verified(c, reply) ==
    LET traceable == Traceable(c, reply.evidence)
    IN  IF traceable # {} \/ reply.score = None
        THEN [reply EXCEPT !.evidence = traceable]
        ELSE [score |-> None, evidence |-> {}, areas |-> reply.areas]

\* generate_structured returns an evaluation.
CategoryEvaluated(reply) ==
    /\ at = "asking"
    /\ done' = Append(done, Verified(Asked, reply))
    /\ repairing' = FALSE
    /\ at' = IF Len(done') = Len(CategoryOrder) THEN "scoring" ELSE "asking"
    /\ UNCHANGED <<transcript, evaluation, report>>

\* An answer that does not fit the schema is repaired once.
InvalidAnswer ==
    /\ at = "asking"
    /\ IF repairing
       THEN at' = "idle" /\ repairing' = FALSE /\ done' = << >>
       ELSE repairing' = TRUE /\ UNCHANGED <<at, done>>
    /\ UNCHANGED <<transcript, evaluation, report>>

\* The provider's error is raised at once.
ProviderFails ==
    /\ at = "asking"
    /\ at' = "idle" /\ repairing' = FALSE /\ done' = << >>
    /\ UNCHANGED <<transcript, evaluation, report>>

\* build_interview_evaluation, and the session saved as evaluated.
Score ==
    /\ at = "scoring"
    /\ evaluation' = InterviewEvaluation(
                         [c \in Categories |->
                             done[CHOOSE i \in DOMAIN CategoryOrder : CategoryOrder[i] = c]])
    /\ done' = << >> /\ at' = "idle"
    /\ UNCHANGED <<transcript, repairing, report>>

\* generate_report; a report that is not safe is refused.
GenerateReport ==
    /\ at = "idle" /\ evaluation # NoEvaluation
    /\ ReportIsSafe(evaluation.categories)
    /\ report' = HRReport(evaluation)
    /\ UNCHANGED <<transcript, done, repairing, at, evaluation>>

Next ==
    \/ Evaluate
    \/ \E reply \in Replies : CategoryEvaluated(reply)
    \/ InvalidAnswer \/ ProviderFails
    \/ Score
    \/ GenerateReport

Spec == Init /\ [][Next]_vars

-----------------------------------------------------------------------------
(* Properties.                                                             *)

Evaluated == evaluation # NoEvaluation

\* Scores stay within 0..100, whatever the weights round to.
EvaluationTypeOK ==
    /\ transcript \in Transcripts
    /\ done \in Seq(CategoryEvaluation)
    /\ repairing \in BOOLEAN
    /\ at \in {"idle", "asking", "scoring"}
    /\ evaluation \in StoredEvaluation \union {NoEvaluation}

\* Types, and a report of the model's concerns and the gaps, no longer than a
\* recruiter reads.
TypeOK ==
    /\ EvaluationTypeOK
    /\ report \in StoredReport \union {NoReport}
    /\ Len(report.areas) <= MaxRecruiterItems

\* A score shown to a recruiter rests on enough of the rubric, and every category
\* in it on something the candidate said about that category, whatever the model
\* quotes (agents/evaluator.py:4-9).
PublishedScoreIsBacked ==
    evaluation.overall # None =>
        LET backed == {c \in Categories :
                          /\ evaluation.categories[c].score # None
                          /\ evaluation.categories[c].evidence # {}
                          /\ evaluation.categories[c].evidence \subseteq RelevantTurns(c)}
        IN  /\ backed = Scored(evaluation.categories)
            /\ 100 * WeightOf(backed) >= MinCoverage * 100

\* What is missing counts neither for nor against: some score given is no higher
\* than the overall score, and some is no lower (scoring.py:15-17).
OverallIsAMean ==
    evaluation.overall # None =>
        \E low, high \in Scored(evaluation.categories) :
            /\ evaluation.categories[low].score <= evaluation.overall
            /\ evaluation.overall <= evaluation.categories[high].score

\* The recruiter's list names no concern twice, and leaves one out only for
\* another like it or for want of room (report_service.py:62-73).
ConcernsListedOnce ==
    report # NoReport =>
        LET listed == report.areas
            all == Concerns(evaluation.categories)
        IN  /\ \A i, j \in DOMAIN listed : i # j => ~SameConcern(listed[i], listed[j])
            /\ \A k \in DOMAIN all :
                  \/ \E i \in DOMAIN listed : SameConcern(all[k], listed[i])
                  \/ Len(listed) = MaxRecruiterItems

\* tests/test_report_service.py:115 says the areas requiring validation include
\* the categories without evidence.
GapsAreListed ==
    report # NoReport /\ Len(report.areas) < MaxRecruiterItems =>
        \A c \in Categories \ Scored(evaluation.categories) :
            \E i \in DOMAIN report.areas : report.areas[i] = Gap(c)
=============================================================================
