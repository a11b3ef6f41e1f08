CONSTANTS
    MaxQueued = 2
    MaxSegments = 3
    MaxPolls = 2
    MaxCalls = 2
SPECIFICATION Spec
INVARIANTS
    TypeOK
    RecordedWithConsent
    LossesAreCounted
    TranscriptIsComplete
PROPERTIES
    TeardownEnds
