------------------------- MODULE ContractLifecycle -------------------------
(***************************************************************************)
(* The contracts of be2-ops: the create, status and escrow-anchor routes.  *)
(* A handler reads the row, awaits the ledger in between and saves the     *)
(* whole row, so what it writes back may be older than what it overwrites. *)
(* A transaction is known by its hash; the ledger says of a hash that it   *)
(* is a validated, successful EscrowCreate ("escrow"), that it is anything *)
(* else ("other"), or nothing ("unseen").                                  *)
(***************************************************************************)
EXTENDS Integers, FiniteSets

CONSTANTS
    Contract,             \* ids randomId("ctr") draws
    TxHash,
    NoTx,
    Handler,              \* requests in flight at a time
    XrplEnabled,
    Overlap,              \* FALSE: a request starts when the last one is answered
    MaxRequests           \* bound on status and anchor requests

VARIABLES
    contracts,            \* the contracts table
    handlers,             \* the requests in flight and the row each one holds
    ledger,
    requests,             \* how many status and anchor requests were made
    trail                 \* per contract: statuses announced to the parties, and
                          \* whether a request set escrow_validated by hand

vars == <<contracts, handlers, ledger, requests, trail>>

Absent == [status |-> "none", hash |-> NoTx]
Free == [pc |-> "free", id |-> NoTx, row |-> Absent, tx |-> NoTx]

Init ==
    /\ contracts = [c \in Contract |-> Absent]
    /\ handlers = [h \in Handler |-> Free]
    /\ ledger = [t \in TxHash |-> "unseen"]
    /\ requests = 0
    /\ trail = [c \in Contract |-> [announced |-> {}, byHand |-> FALSE]]

Status == {"draft", "escrow_pending", "escrow_validated", "active", "closed", "cancelled"}

Allowed ==
    [draft |-> {"escrow_pending", "cancelled"},
     escrow_pending |-> {"escrow_validated", "cancelled"},
     escrow_validated |-> {"active", "cancelled"},
     active |-> {"closed", "cancelled"},
     closed |-> {},
     cancelled |-> {}]

IsContractStatusTransitionAllowed(from, to) == to \in Allowed[from]

-----------------------------------------------------------------------------
\* POST /v1/contracts.
CreateContract(c) ==
    /\ contracts[c].status = "none"
    /\ contracts' = [contracts EXCEPT ![c].status = "draft"]
    /\ UNCHANGED <<handlers, ledger, requests, trail>>

\* A request is taken up: the contract exists, and the row is read.
Take(h, c) ==
    /\ handlers[h].pc = "free"
    /\ Overlap \/ \A g \in Handler : handlers[g].pc = "free"
    /\ requests < MaxRequests
    /\ requests' = requests + 1
    /\ contracts[c].status # "none"
    /\ UNCHANGED <<contracts, ledger, trail>>

Hold(h, pc, c, row, tx) ==
    handlers' = [handlers EXCEPT ![h] = [pc |-> pc, id |-> c, row |-> row, tx |-> tx]]

\* PATCH /v1/contracts/:contractId/status; a refused transition is a 409 and
\* changes nothing.
PatchStatus(h, c, to) ==
    /\ Take(h, c)
    /\ IsContractStatusTransitionAllowed(contracts[c].status, to)
    /\ Hold(h, "save", c, [contracts[c] EXCEPT !.status = to], NoTx)

\* Mutant: a new anchor puts any contract back to escrow_pending.
AnchoredPending(row, t) == [status |-> "escrow_pending", hash |-> t]

\* The row escrow-anchor works on: the hash is set, a draft becomes pending.
Anchored(row, t) ==
    [status |-> IF row.status = "draft" THEN "escrow_pending" ELSE row.status,
     hash |-> t]

\* PATCH /v1/contracts/:contractId/escrow-anchor, up to its first look at
\* the ledger.
AnchorRefused(row, t) ==
    \/ row.status \in {"active", "closed", "cancelled"}
    \/ row.status = "escrow_validated" /\ row.hash \notin {NoTx, t}

AnchorEscrow(h, c, t) ==
    /\ Take(h, c)
    /\ ~AnchorRefused(contracts[c], t)
    /\ Hold(h, IF XrplEnabled THEN "look" ELSE "save", c, Anchored(contracts[c], t), t)

\* Mutant: the transaction's type is not checked.
LookUpAnyType(h) ==
    /\ handlers[h].pc = "look"
    /\ \E live \in {"unseen", ledger[handlers[h].tx]} :
        handlers' = [handlers EXCEPT ![h].pc = "save",
            ![h].row.status =
                IF live # "unseen" /\ @ = "escrow_pending" THEN "escrow_validated" ELSE @]
    /\ UNCHANGED <<contracts, ledger, requests, trail>>

\* getTxStatus, then the account histories of both parties: the transaction
\* is found or not, or the lookup throws and the row stays as it is.
LookUp(h) ==
    /\ handlers[h].pc = "look"
    /\ \E live \in {"unseen", ledger[handlers[h].tx]} :
        handlers' = [handlers EXCEPT ![h].pc = "save",
            ![h].row.status =
                IF live = "escrow" /\ @ = "escrow_pending" THEN "escrow_validated" ELSE @]
    /\ UNCHANGED <<contracts, ledger, requests, trail>>

\* Closing and cancelling are announced to the parties after the save.
Announces(h) ==
    handlers[h].tx = NoTx /\ handlers[h].row.status \in {"closed", "cancelled"}

ByHand(h) == handlers[h].tx = NoTx /\ handlers[h].row.status = "escrow_validated"

\* saveContract overwrites every column.
SaveContract(h) ==
    LET c == handlers[h].id
    IN  /\ handlers[h].pc = "save"
        /\ contracts' = [contracts EXCEPT ![c] = handlers[h].row]
        /\ trail' = [trail EXCEPT ![c].byHand = @ \/ ByHand(h)]
        /\ handlers' = [handlers EXCEPT ![h] =
               IF Announces(h) THEN [@ EXCEPT !.pc = "announce"] ELSE Free]
        /\ UNCHANGED <<ledger, requests>>

\* maybeEnqueueDomainNotifications.
Announce(h) ==
    /\ handlers[h].pc = "announce"
    /\ trail' = [trail EXCEPT ![handlers[h].id].announced = @ \cup {handlers[h].row.status}]
    /\ handlers' = [handlers EXCEPT ![h] = Free]
    /\ UNCHANGED <<contracts, ledger, requests>>

\* The request dies: before its save, or between the save and the rest.
HandlerDies(h) ==
    /\ handlers[h].pc # "free"
    /\ handlers' = [handlers EXCEPT ![h] = Free]
    /\ UNCHANGED <<contracts, ledger, requests, trail>>

\* The ledger validates a transaction.
Validate(t) ==
    /\ ledger[t] = "unseen"
    /\ \E outcome \in {"escrow", "other"} : ledger' = [ledger EXCEPT ![t] = outcome]
    /\ UNCHANGED <<contracts, handlers, requests, trail>>

Serve(h) ==
    \/ \E c \in Contract :
          \/ \E to \in Status : PatchStatus(h, c, to)
          \/ \E t \in TxHash : AnchorEscrow(h, c, t)
    \/ LookUp(h) \/ SaveContract(h) \/ Announce(h) \/ HandlerDies(h)

Next ==
    \/ \E c \in Contract : CreateContract(c)
    \/ \E h \in Handler : Serve(h)
    \/ \E t \in TxHash : Validate(t)

Spec == Init /\ [][Next]_vars

-----------------------------------------------------------------------------

Row == [status : Status \cup {"none"}, hash : TxHash \cup {NoTx}]

\* Rows, requests and the ledger hold values of the program's types.
TypeOK ==
    /\ contracts \in [Contract -> Row]
    /\ handlers \in [Handler ->
           [pc : {"free", "look", "save", "announce"}, id : Contract \cup {NoTx},
            row : Row, tx : TxHash \cup {NoTx}]]
    /\ ledger \in [TxHash -> {"unseen", "escrow", "other"}]
    /\ requests \in Nat
    /\ trail \in [Contract -> [announced : SUBSET Status, byHand : BOOLEAN]]

\* However requests interleave and overwrite each other, a contract that is
\* escrow_validated names an escrow the ledger has validated, unless a request
\* set the status by hand.
ValidatedByLedger ==
    \A c \in Contract :
        contracts[c].status = "escrow_validated" /\ ~trail[c].byHand
            => contracts[c].hash # NoTx /\ ledger[contracts[c].hash] = "escrow"

\* When requests do not overlap, a contract whose end was announced to its
\* parties keeps that status.
AnnouncedStands ==
    \A c \in Contract : \A s \in trail[c].announced : contracts[c].status = s

\* When requests do not overlap, the escrow of a validated contract is never
\* exchanged for another one, and a status only moves along the table (an
\* anchor may take a draft over two edges at once).
EscrowKept ==
    \A c \in Contract :
       LET old == contracts[c] new == contracts'[c]
       IN  /\ old.status = "escrow_validated" /\ old.hash # NoTx
                  => new.hash = old.hash
           /\ old.status \notin {"none", new.status} =>
                  \/ new.status \in Allowed[old.status]
                  \/ old.status = "draft" /\ new.status = "escrow_validated"

=============================================================================
