SPECIFICATION Spec
CONSTANTS
    d1 = d1
    h1 = h1
    h2 = h2
    hs = hs
    r1 = r1
    r2 = r2
    w1 = w1
    w2 = w2
    s1 = s1
    Dispute = {d1}
    Hash = {h1}
    Synthetic = {}
    WrongType = {}
    Handler = {r1}
    Worker = {w1}
    Stream = {s1}
    NoDispute = NoDispute
    NoHash = NoHash
    Routes = {"patch", "escalate", "sla", "decision", "execution", "submission", "track", "refresh", "backfill"}
    XrplEnabled = TRUE
    Overlap = FALSE
    MaxProbes = 2
    MaxRequests = 4
    MaxFaults = 1
PROPERTIES
    SerialDisputeEdges
    LinkKept
    ValidatedIsFinal
