CONSTANTS
    Weight <- TechnicalProfile
    MinCoverage = 50
    StrongScore = 75
    ProceedScore = 60
    PassScore = 60
    Transcripts <- SampleTranscripts
    Scores <- SampleScores
    Areas <- SampleAreas
SPECIFICATION Spec
INVARIANTS
    TypeOK
    
    OverallIsAMean
    ConcernsListedOnce
CHECK_DEADLOCK FALSE
