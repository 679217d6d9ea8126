SPECIFICATION LeaseSpec
CHECK_DEADLOCK FALSE
CONSTANTS
    l1 = l1
    l2 = l2
    tw = tw
    lw = lw
    op = op
    c1 = c1
    c2 = c2
    t1 = t1
    t2 = t2
    d1 = d1
    Lock = {l1, l2}
    Party = {tw, lw}
    Operator = op
    Modes = {"XRP"}
    IssuerSeed = FALSE
    Deposit = 2
    Stake = 1
    OperatorFunds = 0
    MaxLockFaults = 1
    Contract = {c1, c2}
    NoTx = NoTx
    Task = {t1, t2}
    Desk = {d1}
    WalletOf <- Wallets
    MaxRequests = 2
    MaxTaps = 5
    MaxMishaps = 1
SYMMETRY Interchangeable
INVARIANTS
    KnownIsLocked
    EscrowPaysTheParties
    OrphanHasCause
