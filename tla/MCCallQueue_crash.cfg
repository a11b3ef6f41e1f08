CONSTANTS
    w1 = w1
    w2 = w2
    q1 = q1
    q2 = q2
    c1 = c1
    c2 = c2
    r1 = r1
    r2 = r2
    NoWorker = NoWorker
    NoSession = NoSession
    NoItem = NoItem
    Workers = {w1, w2}
    Queues = {q1}
    AutoQueues = {}
    Candidates = {c1}
    Items = {1}
    QueueOf <- SingleQueue
    CandidateOf <- SinglePerson
    MaxAttempts = 2
    SessionIds = {1, 2, 3}
    MaxCrashes = 1
    Requests = {}
    MaxRequests = 0
    MaxPlanVersion = 1
    InitialItems = {1}
    PunctualHeartbeats = FALSE
SPECIFICATION FairSpec
INVARIANTS
    DispatchesReadySession
PROPERTIES
    OnlyHolderWrites
    KeepsLedger
    ItemsSettle
