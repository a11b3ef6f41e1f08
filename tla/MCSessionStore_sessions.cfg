CONSTANTS
    MaxFollowUpsPerQuestion = 1
    QuestionLists <- TwoLists
    Clients = {c1, c2}
    c1 = c1
    c2 = c2
    MaxEdits = 1
SPECIFICATION Spec
INVARIANTS
    TypeOK
    TranscriptFollowsPlan
    EvaluationCoversTranscript
    ReadsHangTogether
PROPERTIES
    OneOperationAtATime
SYMMETRY Callers
