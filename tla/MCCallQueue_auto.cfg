CONSTANTS
    w1 = w1
    w2 = w2
    q1 = q1
    q2 = q2
    c1 = c1
    c2 = c2
    r1 = r1
    r2 = r2
    NoWorker = NoWorker
    NoSession = NoSession
    NoItem = NoItem
    Workers = {w1, w2}
    Queues = {q1}
    AutoQueues = {q1}
    Candidates = {c1, c2}
    Items = {1, 2}
    QueueOf <- OneQueue
    CandidateOf <- TwoPeople
    MaxAttempts = 2
    SessionIds = {1, 2}
    MaxCrashes = 0
    Requests = {}
    MaxRequests = 0
    MaxPlanVersion = 1
    InitialItems = {1, 2}
    PunctualHeartbeats = TRUE
SPECIFICATION Spec
INVARIANTS
    OneCallPerCandidate
    CandidateShownInProgress
