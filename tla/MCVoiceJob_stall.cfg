CONSTANTS
    MaxFollowUpsPerQuestion = 1
    Plan <- TwoQuestions
    Questions <- TheirIds
    MaxUtterances = 2
    MaxDelay = 1
    ThinkPause = 2
    PresenceCheck = 3
    PresenceRetry = 4
    NoResponse = 5
    MaxNudges = 2
    MaxElapsed = 2
SPECIFICATION FairSpec
PROPERTIES
    FollowUpIsResolved
