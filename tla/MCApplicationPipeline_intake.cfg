CONSTANTS
    Tabs = {tab1}
    MaxEdits = 1
    MaxTabRequests = 1
    Workers = {w1, w2}
    MaxAttempts = 1
    Emails = {ann}
    Requests = {r1, r2}
    MaxPerDay = 1
    MaxRequests = 2
    MaxMishaps = 1
    AutoInvite = TRUE
SPECIFICATION Spec
SYMMETRY Alike
INVARIANTS
    TypeOK
    
    
    

    
CHECK_DEADLOCK FALSE
