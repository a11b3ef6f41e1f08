CONSTANTS
    Weight <- TechnicalProfile
    MinCoverage = 50
    StrongScore = 75
    ProceedScore = 60
    PassScore = 60
    Transcripts <- SampleTranscripts
    Scores <- SampleScores
    Areas <- SampleAreas
SPECIFICATION Spec
INVARIANT GapsAreListed
CHECK_DEADLOCK FALSE
