--------------------------- MODULE MCOperations ---------------------------
(***************************************************************************)
(* Instances of the parts of services/be2-ops beside dispute execution.    *)
(* They meet only in the database, each in tables of its own, so a         *)
(* behaviour exercises one of them, the desk it is at, whose variables are *)
(* the cells x1, x2, ...  The evidence vault has a desk with files in the  *)
(* clear and one with encryption, contracts one with overlapping requests  *)
(* and one without; `simulated` is dispute execution with XRPL disabled.   *)
(***************************************************************************)
EXTENDS Naturals, TLC

CONSTANTS a1, a2, b1, b2, c1, c2, NoTx, NoDispute, NoHash

VARIABLES desk, x1, x2, x3, x4, x5, x6, x7, x8, x9, x10, x11, x12, x13

Metadata == {[class |-> "legal_hold", hold |-> 0, retain |-> 2],
             [class |-> "standard", hold |-> 2, retain |-> 1],
             [class |-> "standard", hold |-> 0, retain |-> 0]}

Clear == INSTANCE EvidenceVault WITH
    Evidence <- {a1, a2}, Content <- {c1}, MimeOf <- [c \in {c1} |-> "pdf"],
    Category <- {"contract_pdf"}, Handler <- {b1, b2}, KeySource <- "none", Provider <- "pinata",
    MaxPinAttempts <- 2, Days <- {1}, Patches <- Metadata, MaxClock <- 3, MaxPatches <- 1,
    MaxRuns <- 1, MaxFaults <- 1,
    rows <- x1, pins <- x2, tasks <- x3, clock <- x4, audits <- x5, history <- x6, used <- x7

Sealed == INSTANCE EvidenceVault WITH
    Evidence <- {a1, a2}, Content <- {c1}, MimeOf <- [c \in {c1} |-> "pdf"],
    Category <- {"contract_pdf"}, Handler <- {b1, b2}, KeySource <- "env", Provider <- "pinata",
    MaxPinAttempts <- 2, Days <- {1}, Patches <- Metadata, MaxClock <- 3, MaxPatches <- 1,
    MaxRuns <- 1, MaxFaults <- 1,
    rows <- x1, pins <- x2, tasks <- x3, clock <- x4, audits <- x5, history <- x6, used <- x7

Review == INSTANCE DisputeReview WITH
    Verifier <- {a1, a2}, Recommendation <- {c1, c2}, Handler <- {b1, b2}, QuorumK <- 2,
    MaxVotes <- 3, MaxUpserts <- 2,
    status <- x1, votes <- x2, registry <- x3, requests <- x4, answers <- x5, seen <- x6

Reputation == INSTANCE ReputationOutbound WITH
    Key <- {a1, a2}, Flight <- {b1, b2}, MAX <- 1, MaxEvents <- 3, MaxRetries <- 2,
    MaxRejects <- 2, MaxFaults <- 1,
    dlq <- x1, flights <- x2, delivered <- x3, fate <- x4, used <- x5

Trail == INSTANCE AuditTrail WITH
    Id <- {1, 2}, Job <- {a1, a2}, Reader <- {b1, b2}, PageSize <- 1, Limits <- {2}, MaxResult <- 2,
    BatchSize <- 2, MaxClock <- 2, MaxReads <- 1, MaxFaults <- 1,
    audits <- x1, stamped <- x2, clock <- x3, jobs <- x4, readers <- x5, used <- x6

Months == INSTANCE Settlements WITH
    Feed <- {b1, b2}, Patcher <- {a1, a2}, Ledgers <- 3, PerMonth <- 2, MaxPatches <- 2,
    settlements <- x1, ingested <- x2, feeds <- x3, patchers <- x4, eligible <- x5,
    announced <- x6, patches <- x7, overlap <- x8

Contracts == INSTANCE ContractLifecycle WITH
    Contract <- {c1}, TxHash <- {b1, b2}, Handler <- {a1, a2}, XrplEnabled <- TRUE,
    Overlap <- TRUE, MaxRequests <- 4,
    contracts <- x1, handlers <- x2, ledger <- x3, requests <- x4, trail <- x5

InTurn == INSTANCE ContractLifecycle WITH
    Contract <- {c1}, TxHash <- {b1, b2}, Handler <- {a1, a2}, XrplEnabled <- TRUE,
    Overlap <- FALSE, MaxRequests <- 6,
    contracts <- x1, handlers <- x2, ledger <- x3, requests <- x4, trail <- x5

Outbox == INSTANCE NotificationOutbox WITH
    Key <- {a1, a2}, Direct <- c1, Tick <- {b1, b2}, Operator <- {c2}, BatchSize <- 2,
    MaxDispatchAttempts <- 2, MaxNotes <- 6, MaxDirect <- 1, MaxFaults <- 2, MaxRetries <- 1,
    outbox <- x1, ticks <- x2, operators <- x3, notifications <- x4, used <- x5

Pages == INSTANCE Listing WITH
    Row <- {a1, a2, c1}, Limit <- 1, MaxClock <- 3, MaxWrites <- 3,
    store <- x1, list <- x2, rows <- x3, clock <- x4, reader <- x5, writes <- x6

Asked == {[tenant |-> "none", from |-> 0, to |-> 1], [tenant |-> "t1", from |-> 0, to |-> 0],
          [tenant |-> "t1", from |-> 2, to |-> 0]}

Figures == INSTANCE Reports WITH
    Contract <- {a1}, Dispute <- {b1}, Tx <- {c1}, Tenant <- {"t1", "t2"}, Params <- Asked,
    MaxClock <- 2, MaxWrites <- 3,
    contracts <- x1, disputes <- x2, txs <- x3, clock <- x4, report <- x5, writes <- x6

Simulated == INSTANCE DisputeExecution WITH
    Dispute <- {c1}, Hash <- {c2}, Synthetic <- {c2}, WrongType <- {}, Handler <- {a1, a2},
    Worker <- {}, Stream <- {}, Routes <- {"decision", "execution", "backfill", "track"},
    XrplEnabled <- FALSE, Overlap <- TRUE, MaxProbes <- 2, MaxRequests <- 4, MaxFaults <- 1,
    ledger <- x1, txs <- x2, aged <- x3, disputes <- x4, decisions <- x5, job <- x6,
    ingested <- x7, proc <- x8, requests <- x9, faults <- x10, requested <- x11,
    simulated <- x12, tried <- x13

-----------------------------------------------------------------------------
\* The cells from the sixth, seventh, ... on: what a part has no use for.
from9 == <<x9, x10, x11, x12, x13>>
from8 == <<x8, from9>>
from7 == <<x7, from8>>
from6 == <<x6, from7>>
cells == <<x1, x2, x3, x4, x5, from6>>

No9 == x9 = 0 /\ x10 = 0 /\ x11 = 0 /\ x12 = 0 /\ x13 = 0
No8 == x8 = 0 /\ No9
No7 == x7 = 0 /\ No8
No6 == x6 = 0 /\ No7

Init ==
    \/ desk = "clear" /\ Clear!Init /\ No8
    \/ desk = "sealed" /\ Sealed!Init /\ No8
    \/ desk = "review" /\ Review!Init /\ No7
    \/ desk = "reputation" /\ Reputation!Init /\ No6
    \/ desk = "trail" /\ Trail!Init /\ No7
    \/ desk = "months" /\ Months!Init /\ No9
    \/ desk = "contracts" /\ Contracts!Init /\ No6
    \/ desk = "inTurn" /\ InTurn!Init /\ No6
    \/ desk = "outbox" /\ Outbox!Init /\ No6
    \/ desk = "pages" /\ Pages!Init /\ No7
    \/ desk = "figures" /\ Figures!Init /\ No7
    \/ desk = "simulated" /\ Simulated!Init

Next ==
    \/ desk = "clear" /\ Clear!Next /\ UNCHANGED <<desk, from8>>
    \/ desk = "sealed" /\ Sealed!Next /\ UNCHANGED <<desk, from8>>
    \/ desk = "review" /\ Review!Next /\ UNCHANGED <<desk, from7>>
    \/ desk = "reputation" /\ Reputation!Next /\ UNCHANGED <<desk, from6>>
    \/ desk = "trail" /\ Trail!Next /\ UNCHANGED <<desk, from7>>
    \/ desk = "months" /\ Months!Next /\ UNCHANGED <<desk, from9>>
    \/ desk = "contracts" /\ Contracts!Next /\ UNCHANGED <<desk, from6>>
    \/ desk = "inTurn" /\ InTurn!Next /\ UNCHANGED <<desk, from6>>
    \/ desk = "outbox" /\ Outbox!Next /\ UNCHANGED <<desk, from6>>
    \/ desk = "pages" /\ Pages!Next /\ UNCHANGED <<desk, from7>>
    \/ desk = "figures" /\ Figures!Next /\ UNCHANGED <<desk, from7>>
    \/ desk = "simulated" /\ Simulated!Next /\ UNCHANGED desk

Spec == Init /\ [][Next]_<<desk, cells>>

\* Ids, keys and requests of one kind are interchangeable.
Interchangeable == Permutations({a1, a2}) \cup Permutations({b1, b2})
-----------------------------------------------------------------------------
(* The properties of the parts; their modules say more about each.         *)

\* Stored evidence whose bytes are unpinned, a version given twice and evidence that
\* is gone have their causes: the purge of the row or, in the clear, of its twin; an
\* overlapping upload; an audited purge or a restart (handlePostEvidence,
\* unpinIfPinata, POST .../retention-run).
VaultIsAccounted ==
    /\ desk = "clear" => Clear!VaultIsAccounted
    /\ desk = "sealed" => Sealed!VaultIsAccounted

\* K votes for a recommendation are the votes of K verifiers, and the registry id
\* that was answered is the one stored, unless requests of one verifier overlapped
\* (POST .../verifier-votes, POST /v1/operator/dispute-verifier-registry).
ReviewAnswersStand == desk = "review" => Review!ReviewAnswersStand

\* An accepted reputation event is on its way, delivered, a dead letter, evicted from
\* the full map or lost in a restart, and a dead letter for a delivered event has a
\* cause (deliverReputationOutboundWebhook, recordReputationOutboundDlq).
EventsAreAccounted == desk = "reputation" => Reputation!EventsAreAccounted

\* A walk over keyset pages returns what was there at its start, and nothing twice;
\* an export by offset does unless an entry was inserted below another meanwhile; a
\* running job is worked on, failures apart (listAuditsAfterCursor, runExportJobTick).
TrailIsReadWhole == desk = "trail" => Trail!TrailIsReadWhole

\* However often and in whatever order ledgers are reported, a month counts each of
\* its ledgers at most once, and a month announced as confirmed was confirmed unless
\* writes overlapped (handleLedgerClosed, PATCH /v1/settlements/:settlementId/status).
SettlementsAddUp == desk = "months" => Months!SettlementsAddUp

\* A status is backed: whatever overlaps, escrow_validated by an EscrowCreate on the
\* ledger or by a request that said so; an announced end by the status itself when
\* requests do not overlap; and, with XRPL disabled, a verdict by a recorded
\* execution (PATCH .../escrow-anchor, PATCH /v1/contracts/:contractId/status,
\* POST /v1/xrpl/backfill/account-tx).
StatusIsBacked ==
    /\ desk = "contracts" => Contracts!TypeOK /\ Contracts!ValidatedByLedger
    /\ desk = "inTurn" => InTurn!TypeOK /\ InTurn!AnnouncedStands
    /\ desk = "simulated" => Simulated!VerdictBackedByLedger

\* An item is queued more than once only after failures or retries
\* (recoverStaleNotificationOutboxProcessing).
DuplicateHasCause == desk = "outbox" => Outbox!TypeOK /\ Outbox!DuplicateHasCause

\* A walk over the pages of a list misses no row that stayed in it unwritten, and a
\* page holds no more rows than its total promises, unless rows left, came in between
\* two queries or carry one time (listContractsPage and its likes).
PagesAreWhole == desk = "pages" => Pages!PagesAreWhole

\* No scoped count of a report exceeds the global count of the same status, unless a
\* row was written while the report was made, and both repositories give the same
\* scoped counts (getOperatorStatsSummary, getReportsSummary).
ReportsAddUp == desk = "figures" => Figures!ReportsAddUp

\* What is closed stays as it is: held evidence is not purged, a decided dispute gains
\* no vote, a finished export, an archived settlement and the escrow of a validated
\* contract do not change.  Evidence and votes except what was read before the close,
\* settlements and contracts except overlapping writes (POST .../retention-run,
\* POST .../verifier-votes, claimExportJobsPending, touchSettlementsOnLedgerClose,
\* PATCH .../escrow-anchor).
ClosedStands ==
    [][/\ desk = "clear" => Clear!HeldIsPurgedUnseen
       /\ desk = "sealed" => Sealed!HeldIsPurgedUnseen
       /\ desk = "review" => Review!VotesWhileOpen
       /\ desk = "trail" => Trail!ResultKept
       /\ desk = "months" => Months!RowMoves
       /\ desk = "inTurn" => InTurn!EscrowKept]_cells
=============================================================================
