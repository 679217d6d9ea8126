SPECIFICATION Spec
CHECK_DEADLOCK FALSE
CONSTANTS
    Subject = {s1, s2}
    Issuer = {i1, i2}
    Lookup = {l1}
    MaxClock = 2
    MaxIssued = 2
INVARIANTS
    VerifiedIsActive
