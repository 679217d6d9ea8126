---------------------------- MODULE MCXrplCore ----------------------------
(***************************************************************************)
(* Instances of the services of packages/xrpl-core.  They share no state,  *)
(* so a behaviour exercises one of them, the desk it is at: the books of   *)
(* the verifier panel, the rulings of a larger panel, the holder account,  *)
(* or the credentials.  Away from the books, the variables of the service  *)
(* are the cells x1, x2, ...                                               *)
(***************************************************************************)
EXTENDS VerifierPanel, TLC

CONSTANTS v1, v2, v3, v4, d1, d2, l1, p1, p2, land

VARIABLES desk, x1, x2, x3, x4, x5, x6, x7, x8, x9

cells == <<x1, x2, x3, x4, x5, x6, x7, x8, x9>>

\* The panel with more verifiers, and no stakes to slash.
Panel == INSTANCE VerifierPanel WITH
    Candidate <- {v1, v2, v3}, Tenant <- v4, Dispute <- {d1}, PanelSizes <- {2, 3}, Stakes <- {},
    roster <- x1, cases <- x2, agreed <- x3, disputes <- x4, call <- x5,
    escrow <- x6, paid <- x7, minted <- x8, faults <- x9

Holder == INSTANCE HolderAccount WITH
    Draft <- {d1}, Lengths <- {32, 125}, LeaseEnd <- 1, Prepared <- {"pay"}, MaxSeq <- 4,
    day <- x1, escrows <- x2, holder <- x3, drafts <- x4, log <- x5

Issued == INSTANCE Credentials WITH
    Subject <- {d1, d2}, Issuer <- {p1, p2}, Lookup <- {l1}, MaxClock <- 2, MaxIssued <- 2,
    ledger <- x1, lookups <- x2, clock <- x3, issued <- x4

\* The cells a service has no use for.
spare == <<x6, x7, x8, x9>>
NoSpare == x6 = 0 /\ x7 = 0 /\ x8 = 0 /\ x9 = 0

DeskInit ==
    /\ Init
    /\ \/ desk = "books" /\ x1 = 0 /\ x2 = 0 /\ x3 = 0 /\ x4 = 0 /\ x5 = 0 /\ NoSpare
       \/ desk = "panel" /\ Panel!Init
       \/ desk = "holder" /\ Holder!Init /\ NoSpare
       \/ desk = "credentials" /\ Issued!Init /\ x5 = 0 /\ NoSpare

DeskNext ==
    /\ UNCHANGED desk
    /\ \/ desk = "books" /\ Next /\ UNCHANGED cells
       \/ desk = "panel" /\ Panel!Next /\ UNCHANGED vars
       \/ desk = "holder" /\ Holder!Next /\ UNCHANGED <<spare, vars>>
       \/ desk = "credentials" /\ Issued!Next /\ UNCHANGED <<x5, spare, vars>>

DeskSpec == DeskInit /\ [][DeskNext]_<<desk, cells, vars>>

\* Disputes and calls are interchangeable, and so are subjects and issuers.
Interchangeable == Permutations({d1, d2}) \cup Permutations({p1, p2})

-----------------------------------------------------------------------------
(* The properties of the services that are at a desk of their own.         *)

\* With three verifiers, the partial shuffle of selectVerifiers draws every panel
\* of the wanted size equally often.
PanelDrawIsUniform == desk = "panel" => Panel!DrawIsUniform

\* A ruling is the one the complete vote would give, whichever way the rest of the
\* panel would have voted; a party wins only ahead of all others; and the ruling and
\* its votes stay while its transactions are awaited (computeRuling, requireOpen).
PanelRulingIsFinal ==
    /\ [](desk = "panel" => Panel!PartyWinsOnlyAhead)
    /\ [][desk = "panel" => Panel!RulesEarly /\ Panel!RulingKept]_cells

\* "BlueSafe alone can never move funds" (MultisigService.ts:19): two parties of the
\* lease are needed to pay out of the holder account once its master key is off, and
\* two suffice unless the list is missing or the draft has become stale.
TwoOfThreeMove == desk = "holder" => Holder!TwoOfThreeMove

\* The deposit and the stake of a lease can be cancelled together or not at all, and
\* the fulfillment releases the deposit before that (EscrowService.ts:50,
\* buildPreimageCondition, restoreConditionFromFulfillment).
EscrowsEndAsAgreed == desk = "holder" => Holder!EscrowsEndAsAgreed

\* A credential that verifyCredential answers with had not expired when the
\* answer was made, and is the one asked for.
VerifiedIsUnexpired == desk = "credentials" => Issued!VerifiedIsUnexpired
=============================================================================
