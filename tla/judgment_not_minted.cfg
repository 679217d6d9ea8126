SPECIFICATION Spec
CHECK_DEADLOCK FALSE
CONSTANTS
    v1 = v1
    v2 = v2
    v3 = v3
    v4 = v4
    d1 = d1
    d2 = d2
    l1 = l1
    l2 = l2
    p1 = p1
    p2 = p2
    land = land
    Candidate = {v1}
    Tenant = v2
    Landlord = land
    Dispute = {d1}
    Lease = {l1}
    Caller = {p1}
    PanelSizes = {1}
    Stakes = {3}
    NoStake = NoStake
    None = None
    MaxFaults = 0
SYMMETRY Interchangeable
INVARIANTS
    RulingIsMinted
