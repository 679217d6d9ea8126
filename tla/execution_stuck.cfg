SPECIFICATION FairSpec
CONSTANTS
    d1 = d1
    h1 = h1
    h2 = h2
    hs = hs
    r1 = r1
    r2 = r2
    w1 = w1
    w2 = w2
    s1 = s1
    Dispute = {d1}
    Hash = {h1}
    Synthetic = {}
    WrongType = {}
    Handler = {r1}
    Worker = {w1}
    Stream = {}
    NoDispute = NoDispute
    NoHash = NoHash
    Routes = {"decision", "execution", "submission"}
    XrplEnabled = TRUE
    Overlap = TRUE
    MaxProbes = 2
    MaxRequests = 2
    MaxFaults = 0
PROPERTIES
    ExecutionResolves
