------------------------------- MODULE MCBe1 -------------------------------
(***************************************************************************)
(* Instances of the parts of services/be1-xrpl.  They share no state, so a *)
(* behaviour exercises one of them, the desk it is at: overlapping calls   *)
(* of the reconciler, calls one after another, the internal wallets, or    *)
(* the locks of contracts.  Away from the overlapping calls, the variables *)
(* of the part are the cells x1, x2, ...                                   *)
(***************************************************************************)
EXTENDS Reconciler, TLC

CONSTANTS c1, c2, m1, cron, h1, w1, j1, j2, w2, w3

VARIABLES desk, x1, x2, x3, x4, x5, x6, x7, x8

cells == <<x1, x2, x3, x4, x5, x6, x7, x8>>

Serial == INSTANCE Reconciler WITH
    Overlap <- FALSE, MaxManual <- 1, MaxRejects <- 2, MaxLosses <- 1, MaxOutages <- 1,
    status <- x1, rows <- x2, paid <- x3, emails <- x4, jobs <- x5, local <- x6, fired <- x7,
    used <- x8

Funding == INSTANCE WalletFunding WITH
    Wallet <- {w1, w2, w3}, Handler <- {j1, j2}, IssuerSeed <- FALSE, Testnet <- TRUE,
    Amount <- 2, OperatorFunds <- 1, MaxBuys <- 2, Faucet <- 2, MinFee <- 2, Reserve <- 1,
    Drops <- 1, MaxRequests <- 3, MaxFaults <- 1,
    wallets <- x1, connected <- x2, xrp <- x3, iou <- x4, lines <- x5, tasks <- x6, past <- x7

Locks == INSTANCE ContractLock WITH
    Lock <- {j1, j2}, Party <- {c1, c2}, Operator <- cron, Modes <- {"XRP", "IOU"},
    IssuerSeed <- FALSE, Deposit <- 2, Stake <- 1, OperatorFunds <- 4, MaxLockFaults <- 1,
    locks <- x1, rows <- x2, accounts <- x3, operatorIou <- x4, lockFaults <- x5

DeskInit ==
    /\ Init
    /\ \/ /\ desk = "overlap"
          /\ x1 = 0 /\ x2 = 0 /\ x3 = 0 /\ x4 = 0 /\ x5 = 0 /\ x6 = 0 /\ x7 = 0 /\ x8 = 0
       \/ desk = "serial" /\ Serial!Init
       \/ desk = "funding" /\ Funding!Init /\ x8 = 0
       \/ desk = "locks" /\ Locks!Init /\ x6 = 0 /\ x7 = 0 /\ x8 = 0

DeskNext ==
    /\ UNCHANGED desk
    /\ \/ desk = "overlap" /\ Next /\ UNCHANGED cells
       \/ desk = "serial" /\ Serial!Next /\ UNCHANGED vars
       \/ desk = "funding" /\ Funding!Next /\ UNCHANGED <<x8, vars>>
       \/ desk = "locks" /\ Locks!Next /\ UNCHANGED <<x6, x7, x8, vars>>

DeskSpec == DeskInit /\ [][DeskNext]_<<desk, cells, vars>>

\* Retry jobs, and requests of the other desks, are interchangeable.
Interchangeable == Permutations({j1, j2})
-----------------------------------------------------------------------------
(* The properties of the parts that are at a desk of their own.            *)

\* When calls do not overlap, a month is paid more than once only for a payment
\* whose success was lost (reconcileContract).
SerialPaidOncePerLoss == desk = "serial" => Serial!PaidOncePerLoss

\* Internal wallets are held, the operator buys no more tokens than the requests ask
\* for, and a payment or roundtrip that falls short lost its funds to another request
\* or to a failure (fundInternalWallet, ensureOperatorIouForPayment, roundtrip).
FundingAddsUp == desk = "funding" => Funding!FundingAddsUp

\* A row is locked only with both escrows and a signer list of three on the ledger,
\* and a deposit that stays without its lock is the work of a failure or of parties
\* with one address (lockTenantDeposit).
LockIsWhole == desk = "locks" => Locks!LockIsWhole

\* The tokens of a contract account are its deposit and its stake, in the account
\* or in escrow, and they come from the operator's balance
\* (ensureTrustLineAndFundFromOperator, createEscrow).
IouConserved == desk = "locks" => Locks!IouConserved
=============================================================================
