---------------------------- MODULE ContractLock ----------------------------
(***************************************************************************)
(* POST /contracts of be1-xrpl: a fresh contract account is funded, the    *)
(* contract row is created, the deposit and the stake are put into escrow, *)
(* the signer list is set, and only then the row learns of the account and *)
(* becomes locked.  Each submission to the ledger may fail before or after *)
(* the ledger has taken it, and the process may stop between any two.      *)
(***************************************************************************)
EXTENDS Integers, FiniteSets

CONSTANTS
    Lock,                 \* requests; each has a row and a contract account
    Party,                \* addresses of tenants and landlords
    Operator,             \* the address in every signer list
    Modes,                \* asset modes asked for, a subset of {"XRP", "IOU"}
    IssuerSeed,           \* XRPL_IOU_ISSUER_SEED is set: the issuer pays
    Deposit, Stake,       \* amounts
    OperatorFunds,        \* IOU balance of the operator's wallet at the start
    MaxLockFaults         \* bound on refusals, lost answers and stops

ASSUME LockAssumption ==
    /\ IsFiniteSet(Lock)
    /\ Modes \subseteq {"XRP", "IOU"}
    /\ IssuerSeed \in BOOLEAN
    /\ Deposit \in Nat /\ Stake \in Nat /\ OperatorFunds \in Nat /\ MaxLockFaults \in Nat

VARIABLES
    locks,                \* the requests: where each one is, and its input
    rows,                 \* status of the contract row of each request
    accounts,             \* what the ledger holds for each contract account
    operatorIou,
    lockFaults

vars == <<locks, rows, accounts, operatorIou, lockFaults>>

Init ==
    /\ locks = [l \in Lock |-> [pc |-> "idle", mode |-> "XRP", tenant |-> Operator,
                                landlord |-> Operator, ordered |-> TRUE]]
    /\ rows = [l \in Lock |-> "none"]
    /\ accounts = [l \in Lock |-> [iou |-> 0, objects |-> {}]]
    /\ operatorIou = OperatorFunds
    /\ lockFaults = 0

Total == Deposit + Stake

Go(l, pc) == locks' = [locks EXCEPT ![l].pc = pc]

At(l, pc) == locks[l].pc = pc

\* The request throws; what it did on the ledger and in the table stays.
Throw(l) == Go(l, "failed")

Fault ==
    /\ lockFaults < MaxLockFaults
    /\ lockFaults' = lockFaults + 1

-----------------------------------------------------------------------------
(* The controller: an account for the contract.                            *)

\* `ordered`: cancelAfter is later than finishAfter.
Create(l, mode, tenant, landlord, ordered) ==
    /\ At(l, "idle")
    /\ locks' = [locks EXCEPT ![l] =
           [pc |-> IF mode = "IOU" THEN "lines" ELSE "wallet", mode |-> mode,
            tenant |-> tenant, landlord |-> landlord, ordered |-> ordered]]
    /\ UNCHANGED <<rows, accounts, operatorIou, lockFaults>>

\* Both parties must trust the issuer for their amount; the ledger decides.
AssertCounterpartyTrustLines(l) ==
    /\ At(l, "lines")
    /\ Go(l, "wallet") \/ Throw(l)
    /\ UNCHANGED <<rows, accounts, operatorIou, lockFaults>>

GenerateAndFundWallet(l) ==
    /\ At(l, "wallet")
    /\ \/ Go(l, IF locks[l].mode = "IOU" THEN "balance" ELSE "row") /\ UNCHANGED lockFaults
       \/ Throw(l) /\ Fault
    /\ UNCHANGED <<rows, accounts, operatorIou>>

\* The operator's balance is read long before it is spent.
CheckOperatorBalance(l) ==
    /\ At(l, "balance")
    /\ IF IssuerSeed \/ operatorIou >= Total THEN Go(l, "trust") ELSE Throw(l)
    /\ UNCHANGED <<rows, accounts, operatorIou, lockFaults>>

\* A submission the ledger takes: the answer comes, or it is lost.
Answered(l, next) ==
    \/ Go(l, next) /\ UNCHANGED lockFaults
    \/ Throw(l) /\ Fault

\* A submission the ledger refuses.
Refused(l) ==
    /\ Throw(l)
    /\ Fault
    /\ UNCHANGED <<rows, accounts, operatorIou>>

SubmitTrustSet(l) ==
    /\ At(l, "trust")
    /\ \/ /\ accounts' = [accounts EXCEPT ![l].objects = @ \cup {"line"}]
          /\ Answered(l, "pay")
          /\ UNCHANGED <<rows, operatorIou>>
       \/ Refused(l)

\* The payment fails when another request has spent the balance meanwhile.
FundFromOperator(l) ==
    /\ At(l, "pay")
    /\ \/ /\ IssuerSeed \/ operatorIou >= Total
          /\ operatorIou' = IF IssuerSeed THEN operatorIou ELSE operatorIou - Total
          /\ accounts' = [accounts EXCEPT ![l].iou = Total]
          /\ Answered(l, "row")
          /\ UNCHANGED rows
       \/ /\ ~IssuerSeed /\ operatorIou < Total
          /\ Throw(l)
          /\ UNCHANGED <<rows, accounts, operatorIou, lockFaults>>
       \/ Refused(l)

-----------------------------------------------------------------------------
(* lockTenantDeposit.                                                      *)

CreateRow(l) ==
    /\ At(l, "row")
    /\ \/ rows' = [rows EXCEPT ![l] = "pending"] /\ Answered(l, "deposit")
       \/ Throw(l) /\ Fault /\ UNCHANGED rows
    /\ UNCHANGED <<accounts, operatorIou>>

\* createEscrow: the time window is checked before anything is submitted, and
\* an escrow of the issued currency takes its amount off the account.
CreateEscrow(l, object, amount, next) ==
    \/ /\ locks[l].ordered
       /\ accounts' = [accounts EXCEPT ![l] =
              [iou |-> IF locks[l].mode = "IOU" THEN @.iou - amount ELSE @.iou,
               objects |-> @.objects \cup {object}]]
       /\ Answered(l, next)
       /\ UNCHANGED <<rows, operatorIou>>
    \/ /\ ~locks[l].ordered
       /\ Throw(l)
       /\ UNCHANGED <<rows, accounts, operatorIou, lockFaults>>
    \/ Refused(l)

LockDeposit(l) == At(l, "deposit") /\ CreateEscrow(l, "deposit", Deposit, "stake")

\* Mutant: the stake escrow locks nothing.
StakeOfNothing(l) == At(l, "stake") /\ CreateEscrow(l, "stake", 0, "signers")

LockStake(l) == At(l, "stake") /\ CreateEscrow(l, "stake", Stake, "signers")

Signers(l) == {locks[l].tenant, locks[l].landlord, Operator}

\* Mutant: the answer to SignerListSet is not checked.
SignersUnchecked(l) ==
    /\ At(l, "signers")
    /\ \/ /\ accounts' = [accounts EXCEPT ![l].objects = @ \cup {"signers"}]
          /\ Answered(l, "save")
          /\ UNCHANGED <<rows, operatorIou>>
       \/ Refused(l)

\* Three signers of weight one, two of them make the quorum; the same address
\* twice is refused before the submission.
SetSignerList(l) ==
    /\ At(l, "signers")
    /\ \/ /\ Cardinality(Signers(l)) = 3
          /\ accounts' = [accounts EXCEPT ![l].objects = @ \cup {"signers"}]
          /\ Answered(l, "save")
          /\ UNCHANGED <<rows, operatorIou>>
       \/ /\ Cardinality(Signers(l)) < 3
          /\ Throw(l)
          /\ UNCHANGED <<rows, accounts, operatorIou, lockFaults>>
       \/ Refused(l)

\* The row learns the account, its key, the hashes and its new status at once.
SaveLocked(l) ==
    /\ At(l, "save")
    /\ \/ rows' = [rows EXCEPT ![l] = "locked"] /\ Answered(l, "done")
       \/ Throw(l) /\ Fault /\ UNCHANGED rows
    /\ UNCHANGED <<accounts, operatorIou>>

\* The process stops: every request in flight is cut off.
Stop ==
    /\ Fault
    /\ locks' = [l \in Lock |->
           IF locks[l].pc \in {"idle", "done", "failed"} THEN locks[l]
           ELSE [locks[l] EXCEPT !.pc = "failed"]]
    /\ UNCHANGED <<rows, accounts, operatorIou>>

LockStep(l) ==
    \/ AssertCounterpartyTrustLines(l) \/ GenerateAndFundWallet(l)
    \/ CheckOperatorBalance(l) \/ SubmitTrustSet(l) \/ FundFromOperator(l)
    \/ CreateRow(l) \/ LockDeposit(l) \/ LockStake(l) \/ SetSignerList(l)
    \/ SaveLocked(l)

Next ==
    \/ \E l \in Lock :
          \/ LockStep(l)
          \/ \E mode \in Modes, tenant \in Party, landlord \in Party,
                ordered \in BOOLEAN : Create(l, mode, tenant, landlord, ordered)
    \/ Stop

Spec == Init /\ [][Next]_vars

-----------------------------------------------------------------------------

Pc == {"idle", "lines", "wallet", "balance", "trust", "pay", "row", "deposit",
       "stake", "signers", "save", "done", "failed"}

\* Requests, rows and accounts hold values of the program's types; a balance
\* is never negative.
TypeOK ==
    /\ locks \in [Lock ->
           [pc : Pc, mode : {"XRP", "IOU"}, tenant : Party \cup {Operator},
            landlord : Party \cup {Operator}, ordered : BOOLEAN]]
    /\ rows \in [Lock -> {"none", "pending", "locked"}]
    /\ accounts \in [Lock ->
           [iou : Nat, objects : SUBSET {"line", "deposit", "stake", "signers"}]]
    /\ operatorIou \in Nat
    /\ lockFaults \in Nat

\* A locked row stands for two escrows and a signer list on the ledger, and no
\* two of the three signers are the same account.
LockedIsBacked ==
    \A l \in Lock :
        rows[l] = "locked" =>
            /\ {"deposit", "stake", "signers"} \subseteq accounts[l].objects
            /\ Cardinality(Signers(l)) = 3

InFlight(l) == locks[l].pc \notin {"idle", "done", "failed"}

\* Escrows in an account whose key no row keeps.
Stranded == {l \in Lock : /\ "deposit" \in accounts[l].objects
                          /\ rows[l] # "locked"
                          /\ ~InFlight(l)}

\* A deposit is stranded only by a fault of the ledger, the database or the
\* process, or when both parties have one address.
StrandedHasCause ==
    \A l \in Stranded :
        lockFaults > 0 \/ Cardinality(Signers(l)) < 3

\* The tokens of a contract account that are in escrow.
Escrowed(l) ==
    IF locks[l].mode # "IOU" THEN 0
    ELSE (IF "deposit" \in accounts[l].objects THEN Deposit ELSE 0)
           + (IF "stake" \in accounts[l].objects THEN Stake ELSE 0)

Paid == {l \in Lock : accounts[l].iou + Escrowed(l) = Total}

\* What concurrent requests take from the operator's balance never exceeds
\* it, although each checked it long before paying.
IouConserved ==
    /\ \A l \in Lock \ Paid : accounts[l].iou + Escrowed(l) = 0
    /\ ~IssuerSeed => operatorIou = OperatorFunds - Total * Cardinality(Paid)

\* A lock is all or nothing: a locked row has everything behind it on the
\* ledger, and a deposit without its lock has a cause (lockTenantDeposit).
LockIsWhole ==
  /\ TypeOK
  /\ LockedIsBacked
  /\ StrandedHasCause
=============================================================================
