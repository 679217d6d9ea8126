SPECIFICATION DeskSpec
CHECK_DEADLOCK FALSE
CONSTANTS
    h1 = h1
    r1 = r1
    w1 = w1
    a1 = a1
    a2 = a2
    first = first
    c1 = c1
    c2 = c2
    m1 = m1
    cron = cron
    j1 = j1
    j2 = j2
    Dispute = {}
    Hash = {h1}
    Synthetic = {}
    WrongType = {}
    Handler = {r1}
    Worker = {w1}
    Stream = {}
    NoDispute = NoDispute
    NoHash = NoHash
    Routes = {"track"}
    XrplEnabled = TRUE
    Overlap = TRUE
    MaxProbes = 2
    MaxRequests = 1
    MaxFaults = 2
INVARIANTS
    BudgetHonoured
PROPERTIES
    
    JobsDrain
    FeedConverges
    ListedIsSettled
