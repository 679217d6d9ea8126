------------------------------- MODULE Lease -------------------------------
(***************************************************************************)
(* The mobile app making a lease through both back ends: wallets from      *)
(* be1-xrpl, a contract from be2-ops, the deposit locked by be1-xrpl       *)
(* (ContractLock) and anchored at be2-ops (ContractLifecycle), while an    *)
(* operator patches the contract's status.                                 *)
(*                                                                         *)
(* A task is one call of App.run: it sees the app as it was when its       *)
(* button was pressed, and one busy flag is shared by all of them.  The    *)
(* hash of a deposit is the lock it belongs to.                            *)
(***************************************************************************)
EXTENDS ContractLock

CONSTANTS
    Contract, NoTx,
    Task,                 \* tasks of the app that may be in flight together
    Desk,                 \* the operator's own requests to be2-ops
    WalletOf,             \* the wallet be1-xrpl keeps for each role
    MaxRequests,          \* bound on requests to be2-ops
    MaxTaps,              \* bound on the tasks the user starts
    MaxMishaps            \* bound on lost answers, dying requests and reloads

ASSUME LeaseAssumption ==
    /\ "XRP" \in Modes
    /\ WalletOf \in [{"tenant", "landlord"} -> Party]
    /\ NoTx \notin Lock \cup Contract \cup Party
    /\ Task \cap Desk = {}

VARIABLES
    contracts, handlers, requests, trail,   \* be2-ops, see ContractLifecycle
    app,                  \* the AppModel, kept in localStorage
    busy,
    tasks,
    parties,              \* tenant and landlord each contract was created for
    lockedFor,            \* the contract each lock was asked for
    past                  \* taps and mishaps so far, whether the role was switched
                          \* while a wallet was being connected, and whether two
                          \* requests overlapped at be2-ops

be2Vars == <<contracts, handlers, requests, trail>>
appVars == <<app, busy, tasks, parties, lockedFor, past>>
leaseVars == <<vars, be2Vars, appVars>>

\* A deposit on the ledger is a validated EscrowCreate to be2-ops.
Seen == [l \in Lock |-> IF "deposit" \in accounts[l].objects THEN "escrow" ELSE "unseen"]

Be2 == INSTANCE ContractLifecycle WITH
           TxHash <- Lock, Handler <- Task \cup Desk, XrplEnabled <- TRUE,
           Overlap <- TRUE, ledger <- Seen

Rest == [kind |-> "none", pc |-> "idle", role |-> "tenant", id |-> NoTx, lock |-> NoTx,
         row |-> Be2!Absent, pair |-> <<NoTx, NoTx>>]

LeaseInit ==
    /\ Init
    /\ Be2!Init
    /\ app = [role |-> "tenant", tenant |-> NoTx, landlord |-> NoTx,
              contract |-> NoTx, status |-> "none", escrow |-> NoTx]
    /\ busy = FALSE
    /\ tasks = [t \in Task |-> Rest]
    /\ parties = [c \in Contract |-> <<NoTx, NoTx>>]
    /\ lockedFor = [l \in Lock |-> NoTx]
    /\ past = [taps |-> 0, mishaps |-> 0, switched |-> FALSE,
               overlapped |-> FALSE]

-----------------------------------------------------------------------------
(* App.run and its tasks.                                                  *)

\* run: the flag goes up, whatever else is in flight.
Tap(t, task) ==
    /\ tasks[t].pc = "idle"
    /\ handlers[t].pc = "free"
    /\ past.taps < MaxTaps
    /\ past' = [past EXCEPT !.taps = @ + 1]
    /\ tasks' = [tasks EXCEPT ![t] = task]
    /\ busy' = TRUE

\* run: the flag goes down when any task ends.
End(t) ==
    /\ tasks' = [tasks EXCEPT ![t] = Rest]
    /\ busy' = FALSE

Waiting(t, kind) == tasks[t].kind = kind /\ tasks[t].pc = "sent"

Both == app.tenant # NoTx /\ app.landlord # NoTx

Sent(kind) == [Rest EXCEPT !.kind = kind, !.pc = "sent", !.role = app.role,
                           !.id = app.contract, !.row.status = app.status,
                           !.pair = <<app.tenant, app.landlord>>]

SelectRole(role) ==
    /\ role # app.role
    /\ app' = [app EXCEPT !.role = role]
    /\ past' = [past EXCEPT !.switched = @ \/ \E t \in Task : Waiting(t, "connect")]
    /\ UNCHANGED <<vars, be2Vars, busy, tasks, parties, lockedFor>>

\* The wallet screen offers to connect while the role has no address.
ConnectWallet(t) ==
    /\ app[app.role] = NoTx
    /\ Tap(t, Sent("connect"))
    /\ UNCHANGED <<vars, be2Vars, app, parties, lockedFor>>

\* The session was asked for the role of the tap and goes to the role of now.
WalletConnected(t) ==
    /\ Waiting(t, "connect")
    /\ app' = [app EXCEPT ![app.role] = WalletOf[tasks[t].role]]
    /\ End(t)
    /\ UNCHANGED <<vars, be2Vars, parties, lockedFor, past>>

Other(role) == IF role = "tenant" THEN "landlord" ELSE "tenant"

\* The invitation screens: t05 while the landlord is missing, l01 while the
\* tenant is.
ConnectCounterpartyWallet(t) ==
    /\ ~Both
    /\ Tap(t, [Sent("counterparty") EXCEPT !.role = Other(app.role)])
    /\ UNCHANGED <<vars, be2Vars, app, parties, lockedFor>>

CounterpartyConnected(t) ==
    /\ Waiting(t, "counterparty")
    /\ app' = [app EXCEPT ![tasks[t].role] = WalletOf[tasks[t].role]]
    /\ End(t)
    /\ UNCHANGED <<vars, be2Vars, parties, lockedFor, past>>

\* t06, and l04 when there is no contract yet.
CreateDraftContract(t, kind) ==
    /\ ~busy /\ Both /\ app.contract = NoTx
    /\ Tap(t, Sent(kind))
    /\ UNCHANGED <<vars, be2Vars, app, parties, lockedFor>>

\* be2-ops answers with the draft; signing goes on with it.
DraftCreated(t) ==
    /\ Waiting(t, "create") \/ (Waiting(t, "sign") /\ tasks[t].id = NoTx)
    /\ UNCHANGED vars
    /\ \E c \in Contract :
        /\ Be2!CreateContract(c)
        /\ parties' = [parties EXCEPT ![c] = tasks[t].pair]
        /\ app' = [app EXCEPT !.contract = c, !.status = "draft"]
        /\ IF tasks[t].kind = "create" THEN End(t)
           ELSE /\ tasks' = [tasks EXCEPT ![t].id = c, ![t].row.status = "draft"]
                /\ UNCHANGED busy
    /\ UNCHANGED <<lockedFor, past>>

-----------------------------------------------------------------------------
(* Signing, and the deposit.                                               *)

\* A request is made to be2-ops.
Ask ==
    past' = [past EXCEPT !.overlapped =
                 @ \/ \E h \in Task \cup Desk : handlers[h].pc # "free"]

\* l04 with a contract.
LandlordSignContract(t) ==
    /\ ~busy /\ Both /\ app.contract # NoTx
    /\ Tap(t, Sent("sign"))
    /\ UNCHANGED <<vars, be2Vars, app, parties, lockedFor>>

\* A draft goes to escrow_pending; any other status is sent as it is, which
\* be2-ops refuses.
SendSignature(t) ==
    /\ Waiting(t, "sign") /\ tasks[t].id # NoTx
    /\ UNCHANGED vars
    /\ IF tasks[t].row.status = "draft" /\ contracts[tasks[t].id].status = "draft"
       THEN /\ Be2!PatchStatus(t, tasks[t].id, "escrow_pending")
            /\ tasks' = [tasks EXCEPT ![t].pc = "asked"]
            /\ Ask
            /\ UNCHANGED busy
       ELSE End(t) /\ UNCHANGED <<be2Vars, past>>
    /\ UNCHANGED <<app, parties, lockedFor>>

\* Mutant: the landlord and the tenant are swapped in the request.
PartiesSwapped(t) ==
    /\ ~busy /\ Both /\ app.contract # NoTx
    /\ \E l \in Lock :
        /\ Create(l, "XRP", app.landlord, app.tenant, TRUE)
        /\ Tap(t, [Sent("lock") EXCEPT !.lock = l])
        /\ lockedFor' = [lockedFor EXCEPT ![l] = app.contract]
    /\ UNCHANGED <<be2Vars, app, parties>>

\* t07: nothing asks whether the deposit was locked before.
LockDepositTapped(t) ==
    /\ ~busy /\ Both /\ app.contract # NoTx
    /\ \E l \in Lock :
        /\ Create(l, "XRP", app.tenant, app.landlord, TRUE)
        /\ Tap(t, [Sent("lock") EXCEPT !.lock = l])
        /\ lockedFor' = [lockedFor EXCEPT ![l] = app.contract]
    /\ UNCHANGED <<be2Vars, app, parties>>

\* Mutant: the escrow is anchored before be1-xrpl has answered.
AnchorEarly(t) ==
    /\ Waiting(t, "lock") /\ ~At(tasks[t].lock, "failed")
    /\ UNCHANGED vars
    /\ "deposit" \in accounts[tasks[t].lock].objects
    /\ Be2!AnchorEscrow(t, tasks[t].id, tasks[t].lock)
    /\ tasks' = [tasks EXCEPT ![t].pc = "asked"]
    /\ Ask
    /\ UNCHANGED <<busy, app, parties, lockedFor>>

\* Mutant: the escrow is never anchored.
AnchorForgotten(t) ==
    /\ Waiting(t, "lock") /\ locks[tasks[t].lock].pc \in {"done", "failed"}
    /\ End(t)
    /\ UNCHANGED <<vars, be2Vars, past, app, parties, lockedFor>>

\* be1-xrpl answers: anchorEscrow, or the error ends the task.
Anchor(t) ==
    /\ Waiting(t, "lock")
    /\ UNCHANGED vars
    /\ \/ /\ At(tasks[t].lock, "done")
          /\ Be2!AnchorEscrow(t, tasks[t].id, tasks[t].lock)
          /\ tasks' = [tasks EXCEPT ![t].pc = "asked"]
          /\ Ask
          /\ UNCHANGED busy
       \/ /\ \/ At(tasks[t].lock, "failed")
             \/ /\ At(tasks[t].lock, "done")
                /\ Be2!AnchorRefused(contracts[tasks[t].id], tasks[t].lock)
          /\ End(t)
          /\ UNCHANGED <<be2Vars, past>>
    /\ UNCHANGED <<app, parties, lockedFor>>

\* be2-ops saves; its answer is on its way to the task that asked.
Be2Saves(h) ==
    /\ UNCHANGED vars
    /\ Be2!SaveContract(h)
    /\ tasks' = IF h \in Task /\ tasks[h].pc = "asked"
                THEN [tasks EXCEPT ![h].pc = "answered", ![h].row = handlers[h].row]
                ELSE tasks
    /\ UNCHANGED <<app, busy, parties, lockedFor, past>>

\* setApp with the answer; trackTx, whose errors are ignored, comes before.
Answer(t) ==
    /\ tasks[t].pc = "answered"
    /\ app' = [app EXCEPT !.contract = tasks[t].id, !.status = tasks[t].row.status,
                          !.escrow = IF tasks[t].kind = "lock" THEN tasks[t].lock ELSE @]
    /\ End(t)
    /\ UNCHANGED <<vars, be2Vars, parties, lockedFor, past>>

\* The settlements screens load when they open: nothing but the flag matters
\* here.
LoadSettlements(t) ==
    /\ app.contract # NoTx
    /\ Tap(t, Sent("load"))
    /\ UNCHANGED <<vars, be2Vars, app, parties, lockedFor>>

SettlementsLoaded(t) ==
    /\ Waiting(t, "load")
    /\ End(t)
    /\ UNCHANGED <<vars, be2Vars, app, parties, lockedFor, past>>

-----------------------------------------------------------------------------
(* What goes wrong around it.                                              *)

Mishap ==
    /\ past.mishaps < MaxMishaps
    /\ past' = [past EXCEPT !.mishaps = @ + 1]

\* An answer is lost on its way: the request may go on without its task.
AnswerLost(t) ==
    /\ tasks[t].pc # "idle"
    /\ Mishap
    /\ End(t)
    /\ UNCHANGED <<vars, be2Vars, app, parties, lockedFor>>

\* The page is reloaded: the stored app stays, every task is gone.
Reload ==
    /\ Mishap
    /\ tasks' = [t \in Task |-> Rest]
    /\ busy' = FALSE
    /\ UNCHANGED <<vars, be2Vars, app, parties, lockedFor>>

\* A request dies at be2-ops, and the task that asked for it with it.
Be2Dies(h) ==
    /\ UNCHANGED vars
    /\ Mishap
    /\ Be2!HandlerDies(h)
    /\ IF h \in Task /\ tasks[h].pc = "asked" THEN End(h) ELSE UNCHANGED <<tasks, busy>>
    /\ UNCHANGED <<app, parties, lockedFor>>

\* The steps of be1-xrpl, and of be2-ops on its own.
Be1Step ==
    /\ Stop \/ \E l \in Lock : LockStep(l)
    /\ UNCHANGED <<be2Vars, appVars>>

Be2Step(h) ==
    /\ UNCHANGED vars
    /\ Be2!LookUp(h) \/ Be2!Announce(h)
    /\ UNCHANGED appVars

\* An operator patches the status.
DeskPatches(h) ==
    /\ UNCHANGED vars
    /\ \E c \in Contract, to \in Be2!Status : Be2!PatchStatus(h, c, to)
    /\ Ask
    /\ UNCHANGED <<app, busy, tasks, parties, lockedFor>>

TaskStep(t) ==
    \/ WalletConnected(t) \/ CounterpartyConnected(t) \/ DraftCreated(t)
    \/ SendSignature(t) \/ Anchor(t) \/ Answer(t) \/ SettlementsLoaded(t)

UserStep(t) ==
    \/ ConnectWallet(t) \/ ConnectCounterpartyWallet(t)
    \/ \E kind \in {"create", "sign"} : CreateDraftContract(t, kind)
    \/ LandlordSignContract(t) \/ LockDepositTapped(t) \/ LoadSettlements(t)

\* Both back ends and the app share the bound on what goes wrong.
LeaseNext ==
    /\ \/ \E role \in {"tenant", "landlord"} : SelectRole(role)
       \/ \E t \in Task : UserStep(t) \/ TaskStep(t) \/ AnswerLost(t)
       \/ \E h \in Task \cup Desk : Be2Saves(h) \/ Be2Dies(h) \/ Be2Step(h)
       \/ \E h \in Desk : DeskPatches(h)
       \/ Be1Step
       \/ Reload
    /\ past'.mishaps + lockFaults' <= MaxMishaps

LeaseSpec == LeaseInit /\ [][LeaseNext]_leaseVars

-----------------------------------------------------------------------------
\* be2-ops and the app only ever know deposits whose lock be1-xrpl completed:
\* two escrows and a signer list are on the ledger behind them.
KnownIsLocked ==
    \A l \in Lock :
        app.escrow = l \/ (\E c \in Contract : contracts[c].hash = l)
            => rows[l] = "locked" /\ {"deposit", "stake", "signers"} \subseteq accounts[l].objects

\* The escrow anchored at a contract pays the parties the contract was made
\* for, unless the role was switched while a wallet was being connected.
EscrowPaysTheParties ==
    \A c \in Contract :
        LET l == contracts[c].hash
        IN  l # NoTx /\ ~past.switched
                => <<locks[l].tenant, locks[l].landlord>> = parties[c]

\* A locked deposit no contract names has a cause: its task is still running,
\* something was lost on the way, two requests overlapped at be2-ops, the
\* contract had a second deposit, or it had ended.
OrphanHasCause ==
    \A l \in Lock :
        rows[l] = "locked" /\ (\A c \in Contract : contracts[c].hash # l) =>
            \/ \E t \in Task : tasks[t].lock = l \/ handlers[t].tx = l
            \/ past.mishaps + lockFaults > 0 \/ past.overlapped
            \/ \E k \in Lock \ {l} : lockedFor[k] = lockedFor[l]
            \/ contracts[lockedFor[l]].status \in {"active", "closed", "cancelled"}
=============================================================================
