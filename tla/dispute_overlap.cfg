SPECIFICATION Spec
CONSTANTS
    d1 = d1
    h1 = h1
    h2 = h2
    hs = hs
    r1 = r1
    r2 = r2
    w1 = w1
    w2 = w2
    s1 = s1
    Dispute = {d1}
    Hash = {h1, h2}
    Synthetic = {}
    WrongType = {h2}
    Handler = {r1, r2}
    Worker = {}
    Stream = {s1}
    NoDispute = NoDispute
    NoHash = NoHash
    Routes = {"patch", "sla", "decision", "execution", "escalate"}
    XrplEnabled = TRUE
    Overlap = TRUE
    MaxProbes = 2
    MaxRequests = 3
    MaxFaults = 1
CHECK_DEADLOCK FALSE
SYMMETRY Interchangeable
INVARIANTS
    TypeOK
    StatusHasItsRecords
    VerdictBackedByLedger
