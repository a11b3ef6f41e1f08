CONSTANTS
    MaxFollowUpsPerQuestion = 0
    Plan <- TwoQuestions
    ToolCalls = {t1, t2}
    MaxUtterances = 1
SPECIFICATION FairSpec
INVARIANTS
    TypeOK
    OneClosing
    DirectorFollowsEngine
PROPERTIES
    NudgesOnlyIntoSilence
    
