----------------------------- MODULE WalletFunding -----------------------------
(***************************************************************************)
(* The internal wallets of be1-xrpl: one per role, held in memory          *)
(* (wallet.service.ts); POST fund-iou pays tokens into one from the issuer *)
(* or from the operator, who buys what is missing on the exchange          *)
(* (wallet-iou-fund.service.ts); POST peer-xrp-roundtrip pays XRP to and   *)
(* fro (wallet-peer-xrp.service.ts).  Each call of the ledger is a step.   *)
(***************************************************************************)
EXTENDS Naturals, FiniteSets, FiniteSetsExt

CONSTANTS
  Wallet,         \* the wallets Wallet.generate may make
  Handler,        \* requests in progress
  IssuerSeed,     \* is XRPL_IOU_ISSUER_SEED configured
  Testnet,        \* does XRPL_NETWORK_URL name the altnet
  Amount,         \* tokens per fund-iou request
  OperatorFunds,  \* tokens the operator starts with
  MaxBuys,        \* purchases tried per request (8 in the code)
  Faucet, MinFee, Reserve, Drops,  \* XRP: what the faucet pays, the fee floor,
                                   \* the account reserve, a roundtrip's payment
  MaxRequests,    \* bound on the requests
  MaxFaults       \* bound on failed calls and restarts

VARIABLES
  wallets,    \* the wallet of each role, if one was made
  connected,  \* the roles that are connected
  xrp,        \* XRP per account, 0 when the account does not exist
  iou,        \* tokens per account
  lines,      \* accounts with a trust line
  tasks,      \* what each request is doing
  past        \* requests, faults, purchases; wallets given; half-done roundtrips

vars == <<wallets, connected, xrp, iou, lines, tasks, past>>

Role == {"tenant", "landlord"}
Operator == "operator"
Account == Wallet \cup {Operator}
NoWallet == "none"
Idle == [pc |-> "idle"]

Init ==
  /\ wallets = [r \in Role |-> NoWallet]
  /\ connected = {}
  /\ xrp = [a \in Account |-> IF a = Operator THEN Faucet ELSE 0]
  /\ iou = [a \in Account |-> IF a = Operator THEN OperatorFunds ELSE 0]
  /\ lines = IF OperatorFunds > 0 THEN {Operator} ELSE {}
  /\ tasks = [h \in Handler |-> Idle]
  /\ past = [requests |-> 0, faults |-> 0, bought |-> 0, given |-> {}, half |-> {}, bare |-> FALSE]

Goto(h, t) == tasks' = [tasks EXCEPT ![h] = t]
Fault == past.faults < MaxFaults
Ledger == <<xrp, iou, lines>>

(***************************************************************************)
(* getOrCreateWallet: the roles of a request have wallets afterwards.      *)
(***************************************************************************)
getOrCreateWallet(roles) ==
  LET missing == {r \in roles : wallets[r] = NoWallet} IN
  \E f \in [missing -> Wallet \ past.given] :
    /\ \A r, s \in missing : f[r] = f[s] => r = s
    /\ wallets' = [r \in Role |-> IF r \in missing THEN f[r] ELSE wallets[r]]
    /\ past' = [past EXCEPT !.requests = @ + 1, !.given = @ \cup {f[r] : r \in missing}]

Connect(role) ==
  /\ past.requests < MaxRequests
  /\ getOrCreateWallet({role})
  /\ \E approve \in BOOLEAN :
       connected' = IF approve THEN connected \cup {role} ELSE connected \ {role}
  /\ UNCHANGED <<Ledger, tasks>>

Disconnect(role) ==
  /\ role \in connected /\ connected' = connected \ {role}
  /\ UNCHANGED <<wallets, Ledger, tasks, past>>

-----------------------------------------------------------------------------
(***************************************************************************)
(* POST fund-iou.                                                          *)
(***************************************************************************)
fundInternalWallet(h, role) ==
  /\ tasks[h] = Idle /\ past.requests < MaxRequests
  /\ getOrCreateWallet({role})
  /\ Goto(h, [pc |-> "fees", to |-> wallets'[role], buys |-> 0, raced |-> FALSE])
  /\ UNCHANGED <<connected, Ledger>>

\* Top up the recipient and the payer when they are below the floor.
ensureTestnetXrpForFees(h) ==
  /\ tasks[h].pc = "fees"
  /\ LET poor == {a \in {tasks[h].to} \cup (IF IssuerSeed THEN {} ELSE {Operator}) : xrp[a] < MinFee}
     IN  xrp' = [a \in Account |-> IF a \in poor THEN xrp[a] + Faucet ELSE xrp[a]]
  /\ Goto(h, [tasks[h] EXCEPT !.pc = IF IssuerSeed THEN "trust" ELSE "line"])
  /\ UNCHANGED <<wallets, connected, iou, lines, past>>

\* ensureOperatorIouForPayment: a trust line first.
OperatorLine(h) ==
  /\ tasks[h].pc = "line"
  /\ lines' = lines \cup {Operator}
  /\ Goto(h, [tasks[h] EXCEPT !.pc = "check"])
  /\ UNCHANGED <<wallets, connected, xrp, iou, past>>

\* Mutant: a short operator balance is not noticed.
TrustTheBalance(h) ==
  /\ tasks[h].pc = "check"
  /\ Goto(h, [tasks[h] EXCEPT !.pc = "trust"])
  /\ UNCHANGED <<wallets, connected, Ledger, past>>

\* Enough: go on.  Short on the main net, or after the last purchase: refuse.
CheckBalance(h) ==
  /\ tasks[h].pc = "check"
  /\ LET t == tasks[h] IN
     Goto(h, IF iou[Operator] >= Amount THEN [t EXCEPT !.pc = "trust", !.raced = FALSE]
             ELSE IF ~Testnet \/ t.buys = MaxBuys THEN Idle
             ELSE [pc |-> "buy", to |-> t.to, buys |-> t.buys + 1, raced |-> FALSE,
                   shortfall |-> Amount - iou[Operator]])
  /\ UNCHANGED <<wallets, connected, Ledger, past>>

\* A path is found and the purchase delivers the shortfall that was read.
buyIouWithXrpViaPathFind(h) ==
  /\ tasks[h].pc = "buy"
  /\ iou' = [iou EXCEPT ![Operator] = @ + tasks[h].shortfall]
  /\ past' = [past EXCEPT !.bought = @ + tasks[h].shortfall]
  /\ Goto(h, [pc |-> "check", to |-> tasks[h].to, buys |-> tasks[h].buys, raced |-> FALSE])
  /\ UNCHANGED <<wallets, connected, xrp, lines>>

submitTrustSet(h) ==
  /\ tasks[h].pc = "trust"
  /\ lines' = lines \cup {tasks[h].to}
  /\ Goto(h, [tasks[h] EXCEPT !.pc = "pay"])
  /\ UNCHANGED <<wallets, connected, xrp, iou, past>>

\* The payment: issued, or taken from the operator, if it still has it.
PayIou(h) ==
  /\ tasks[h].pc = "pay"
  /\ IssuerSeed \/ iou[Operator] >= Amount
  /\ iou' = [iou EXCEPT ![tasks[h].to] = @ + Amount,
                        ![Operator] = IF IssuerSeed THEN @ ELSE @ - Amount]
  /\ tasks' = [k \in Handler |->
       IF k = h THEN Idle
       ELSE IF tasks[k].pc \in {"trust", "pay"} THEN [tasks[k] EXCEPT !.raced = TRUE] ELSE tasks[k]]
  /\ UNCHANGED <<wallets, connected, xrp, lines, past>>

PaymentUnfunded(h) ==
  /\ tasks[h].pc = "pay" /\ ~IssuerSeed /\ iou[Operator] < Amount
  /\ Goto(h, Idle)
  /\ UNCHANGED <<wallets, connected, Ledger, past>>

-----------------------------------------------------------------------------
(***************************************************************************)
(* POST peer-xrp-roundtrip: two payments, the second after the first.      *)
(***************************************************************************)
Roundtrip(h) ==
  /\ tasks[h] = Idle /\ Testnet /\ past.requests < MaxRequests
  /\ getOrCreateWallet(Role)
  /\ Goto(h, [pc |-> "there", tenant |-> wallets'["tenant"], landlord |-> wallets'["landlord"]])
  /\ UNCHANGED <<connected, Ledger>>

Payable(from, to) == xrp[from] >= Drops + Reserve /\ (xrp[to] > 0 \/ Drops >= Reserve)
Moved(from, to) == [xrp EXCEPT ![from] = @ - Drops, ![to] = @ + Drops]

PayThere(h) ==
  /\ tasks[h].pc = "there"
  /\ LET t == tasks[h] IN
     IF Payable(t.tenant, t.landlord)
     THEN /\ xrp' = Moved(t.tenant, t.landlord)
          /\ Goto(h, [t EXCEPT !.pc = "back"])
          /\ past' = [past EXCEPT !.half = @ \cup {h}, !.bare = @ \/ xrp[t.landlord] < Reserve]
     ELSE Goto(h, Idle) /\ UNCHANGED <<xrp, past>>
  /\ UNCHANGED <<wallets, connected, iou, lines>>

PayBack(h) ==
  /\ tasks[h].pc = "back"
  /\ LET t == tasks[h] IN
     IF Payable(t.landlord, t.tenant)
     THEN xrp' = Moved(t.landlord, t.tenant) /\ past' = [past EXCEPT !.half = @ \ {h}]
     ELSE UNCHANGED <<xrp, past>>
  /\ Goto(h, Idle)
  /\ UNCHANGED <<wallets, connected, iou, lines>>

-----------------------------------------------------------------------------
\* A call throws and the request ends where it is; what was done stays.
CallThrows(h) ==
  /\ tasks[h] # Idle /\ Fault
  /\ Goto(h, Idle)
  /\ past' = [past EXCEPT !.faults = @ + 1]
  /\ UNCHANGED <<wallets, connected, Ledger>>

\* The process restarts: requests, wallets and their seeds are gone.
Restart ==
  /\ Fault
  /\ wallets' = [r \in Role |-> NoWallet] /\ connected' = {}
  /\ tasks' = [h \in Handler |-> Idle]
  /\ past' = [past EXCEPT !.faults = @ + 1]
  /\ UNCHANGED Ledger

Next ==
  \/ \E r \in Role : Connect(r) \/ Disconnect(r)
  \/ \E h \in Handler :
       \/ \E r \in Role : fundInternalWallet(h, r)
       \/ ensureTestnetXrpForFees(h) \/ OperatorLine(h) \/ CheckBalance(h)
       \/ buyIouWithXrpViaPathFind(h) \/ submitTrustSet(h) \/ PayIou(h) \/ PaymentUnfunded(h)
       \/ Roundtrip(h) \/ PayThere(h) \/ PayBack(h) \/ CallThrows(h)
  \/ Restart

Spec == Init /\ [][Next]_vars

-----------------------------------------------------------------------------
\* Balances are numbers and tokens lie on trust lines.
TypeOK ==
  /\ wallets \in [Role -> Wallet \cup {NoWallet}] /\ connected \subseteq Role
  /\ xrp \in [Account -> Nat] /\ iou \in [Account -> Nat]
  /\ \A a \in Account : iou[a] > 0 => a \in lines

(***************************************************************************)
(* Tenant and landlord never share a wallet, and tokens lie in a wallet    *)
(* the service still has the seed of unless it was restarted, which drops  *)
(* the seeds (wallet.service.ts:15, 62-69).                                *)
(***************************************************************************)
WalletsAreHeld ==
  /\ wallets["tenant"] = wallets["landlord"] => wallets["tenant"] = NoWallet
  /\ past.faults = 0 => \A a \in Wallet : iou[a] > 0 => \E r \in Role : wallets[r] = a

(***************************************************************************)
(* A payment the operator cannot fund, although the request had checked    *)
(* the balance, lost it to another request's payment in between.           *)
(***************************************************************************)
ShortPaymentHasCause ==
  \A h \in Handler : tasks[h].pc = "pay" /\ ~IssuerSeed /\ iou[Operator] < Amount => tasks[h].raced

(***************************************************************************)
(* The operator never buys more than the requests ask for: each request    *)
(* buys at most its amount, plus what other requests took from under it.   *)
(***************************************************************************)
BoughtWithinRequests == past.bought <= Amount * past.requests

(***************************************************************************)
(* A roundtrip that stops half-way, with the tenant's XRP at the landlord, *)
(* failed in between or found the landlord's account below its reserve     *)
(* before the first payment.                                               *)
(***************************************************************************)
HalfRoundtripHasCause ==
  \A h \in past.half : tasks[h].pc = "back" \/ past.faults > 0 \/ past.bare

\* The internal wallets and the operator account for their funds: wallets are
\* held, purchases stay within the requests, and a payment or a roundtrip that
\* falls short has a cause (fundInternalWallet, roundtrip).
FundingAddsUp ==
  /\ TypeOK
  /\ WalletsAreHeld
  /\ ShortPaymentHasCause
  /\ BoughtWithinRequests
  /\ HalfRoundtripHasCause
=============================================================================
