CONSTANTS
    MaxFollowUpsPerQuestion = 1
    Plan <- TwoQuestions
    Questions <- TheirIds
    MaxUtterances = 2
    MaxDelay = 1
    ThinkPause = 2
    PresenceCheck = 3
    PresenceRetry = 4
    NoResponse = 5
    MaxNudges = 3
    MaxElapsed = 2
SPECIFICATION FairSpec
INVARIANTS
    TypeOK
    AnswersInOrder
    
PROPERTIES
    NudgesOnlyThePresent
    
