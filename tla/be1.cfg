SPECIFICATION DeskSpec
CHECK_DEADLOCK FALSE
CONSTANTS
    c1 = c1
    c2 = c2
    m1 = m1
    cron = cron
    h1 = h1
    w1 = w1
    w2 = w2
    w3 = w3
    j1 = j1
    j2 = j2
    Contract = {c1, c2}
    Month = {m1}
    WithEmail = {c1}
    Cron = {cron}
    Handler = {h1}
    Worker = {w1}
    Job = {j1, j2}
    Attempts = 2
    Overlap = TRUE
    MaxManual = 1
    MaxRejects = 1
    MaxLosses = 1
    MaxOutages = 0
SYMMETRY Interchangeable
INVARIANTS
    MatchedIsPaid
    ReportsFollowMatches
    SerialPaidOncePerLoss
    FundingAddsUp
    LockIsWhole
    IouConserved
