CONSTANTS
    w1 = w1
    w2 = w2
    q1 = q1
    q2 = q2
    c1 = c1
    c2 = c2
    r1 = r1
    r2 = r2
    NoWorker = NoWorker
    NoSession = NoSession
    NoItem = NoItem
    Workers = {w1, w2}
    Queues = {q1}
    AutoQueues = {}
    Candidates = {c1}
    Items = {1}
    QueueOf <- SingleQueue
    CandidateOf <- SinglePerson
    MaxAttempts = 1
    SessionIds = {1, 2}
    MaxCrashes = 1
    Requests = {r1}
    MaxRequests = 3
    MaxPlanVersion = 2
    InitialItems = {}
    PunctualHeartbeats = FALSE
SPECIFICATION Spec
INVARIANTS
    TypeOK
    
    
    CompletedHasReport
    ScreenedHasReport
