SPECIFICATION Spec
CHECK_DEADLOCK FALSE
CONSTANTS
    c1 = c1
    c2 = c2
    m1 = m1
    m2 = m2
    cron = cron
    h1 = h1
    h2 = h2
    w1 = w1
    w2 = w2
    j1 = j1
    j2 = j2
    j3 = j3
    Contract = {c1}
    Month = {m1}
    WithEmail = {c1}
    Cron = {cron}
    Handler = {}
    Worker = {w1}
    Job = {j1, j2}
    Attempts = 2
    Overlap = FALSE
    MaxManual = 0
    MaxRejects = 0
    MaxLosses = 1
    MaxOutages = 0
SYMMETRY Interchangeable
INVARIANTS
    PaidOnce
