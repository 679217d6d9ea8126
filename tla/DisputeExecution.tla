-------------------------- MODULE DisputeExecution --------------------------
(***************************************************************************)
(* Dispute rows, tracked XRPL transactions and everything that writes them *)
(* in Backend2: the HTTP handlers, applyLiveTxStatus, the subscribe stream *)
(* callback and the transaction policy worker with its delayed jobs.       *)
(*                                                                         *)
(* Every handler, worker tick and stream callback is an asynchronous       *)
(* function of one Node process.  It loses control at each await, so each  *)
(* repository or rippled call is a step of its own, and a row that was     *)
(* read is a copy: the Postgres repository maps rows to fresh objects and  *)
(* every save is an upsert of the whole row.                               *)
(***************************************************************************)
EXTENDS Naturals, FiniteSets

CONSTANTS
    Dispute,        \* dispute ids
    Hash,           \* transaction hashes
    Synthetic,      \* placeholder hashes, which no ledger will ever hold
    WrongType,      \* hashes of transactions of another type than requested
    Handler,        \* HTTP requests that can be in flight at once
    Worker,         \* policy worker ticks that can be in flight at once
    Stream,         \* stream callbacks that can be in flight at once
    NoDispute, NoHash,
    Routes,         \* the routes that clients call
    XrplEnabled,    \* config.xrpl.enabled
    Overlap,        \* FALSE: a call starts only when no other is in flight
    MaxProbes,      \* config: maxNotFoundProbes
    MaxRequests,    \* bound on the HTTP requests of a behaviour
    MaxFaults       \* bound on failed calls, flaky answers and crashes

ASSUME ConstantsAssumption ==
    /\ Synthetic \subseteq Hash
    /\ WrongType \subseteq Hash
    /\ NoDispute \notin Dispute
    /\ NoHash \notin Hash
    /\ Routes \subseteq {"patch", "escalate", "sla", "decision", "execution",
                         "submission", "track", "refresh", "backfill"}
    /\ XrplEnabled \in BOOLEAN
    /\ Overlap \in BOOLEAN
    /\ MaxProbes \in Nat \ {0}
    /\ MaxRequests \in Nat
    /\ MaxFaults \in Nat

VARIABLES
    ledger,     \* external: the state of every hash on the XRP Ledger
    txs,        \* table xrpl_txs
    aged,       \* hashes whose last_checked_at is older than pendingTimeoutMs
    disputes,   \* table disputes
    decisions,  \* number of rows of table decisions, per dispute
    job,        \* table delayed_jobs: the policy job of every hash
    ingested,   \* table xrpl_ingestion_events, transaction source
    proc,       \* the local state of every asynchronous call
    requests,   \* HTTP requests accepted so far
    faults,     \* failures so far
    requested,  \* history: <<dispute, hash>> of the executions recorded
    simulated,  \* history: hashes whose result was made up by the backfill
    tried       \* history: look-ups that failed to settle a hash (capped)

vars == <<ledger, txs, aged, disputes, decisions, job, ingested, proc,
          requests, faults, requested, simulated, tried>>

-----------------------------------------------------------------------------
(* Data *)

ReviewStatus == {"filed", "under_review"}

DisputeStatus == ReviewStatus \cup
    {"none", "decided", "execution_pending", "executed", "rejected"}

DisputeRow == [status : DisputeStatus, escalated : BOOLEAN]

NoDisputeRow == [status |-> "none", escalated |-> FALSE]

Code == {"none", "tes", "tec", "ter", "tem"}

OutcomeClass == {"none", "success", "retryable", "final_fail", "manual_review"}

\* Mutant: codes outside the table get a class of their own.
classifyUnknown(code) ==
    CASE code = "tes" -> "success"
      [] code = "ter" -> "retryable"
      [] code = "tem" -> "final_fail"
      [] OTHER        -> "unknown"

classifyXrplResultCode(code) ==
    CASE code = "tes" -> "success"
      [] code = "ter" -> "retryable"
      [] code = "tem" -> "final_fail"
      [] OTHER        -> "manual_review"

TrackingStatus ==
    {"pending_validation", "retry_scheduled", "validated_success", "validated_fail"}

TxRow == [tracked : BOOLEAN, dispute : Dispute \cup {NoDispute},
          account : BOOLEAN, tracking : TrackingStatus, validated : BOOLEAN,
          outcome : OutcomeClass, retries : Nat]

NoTxRow == [tracked |-> FALSE, dispute |-> NoDispute, account |-> FALSE,
            tracking |-> "pending_validation", validated |-> FALSE,
            outcome |-> "none", retries |-> 0]

\* LiveTxStatus | null: what rippled says of a hash.
Live == [found : BOOLEAN, validated : BOOLEAN, code : Code]

NotFound == [found |-> FALSE, validated |-> FALSE, code |-> "none"]

Found(v, c) == [found |-> TRUE, validated |-> v, code |-> c]

Final == {"tes", "tec"}

\* Answers of the rippled tx method.  A transaction of an open ledger has no
\* metadata; one of a closed, not yet validated ledger has a provisional result.
TxAnswers(h) ==
    CASE ledger[h] \in Final -> {Found(TRUE, ledger[h])}
      [] ledger[h] = "open"  -> {Found(FALSE, "none"), Found(FALSE, "tes")}
      [] OTHER               -> {NotFound}

\* Answers of account_tx: validated transactions only, the latest 50.
AccountTxAnswers(h) ==
    {NotFound} \cup IF ledger[h] \in Final THEN {Found(TRUE, ledger[h])} ELSE {}

isPolicyCandidate(tx) ==
    /\ tx.tracked
    /\ ~tx.validated
    /\ tx.tracking \in {"pending_validation", "retry_scheduled"}
    /\ tx.outcome # "manual_review"

isDisputeReviewStatusAllowed(from, to) ==
    <<from, to>> \in {<<"filed", "under_review">>, <<"under_review", "filed">>}

Proc == Handler \cup Worker \cup Stream

\* The await at which a call has lost control.
Label ==
    {"idle", "saveDecision", "saveDispute", "submit", "status", "upsertRead",
     "upsertSave", "applyRead", "applySave", "verdictRead", "verdictSave",
     "accountTx", "liveNext", "simList", "simNext", "simSave", "ingest", "accounts",
     "accountRead", "accountSave", "jobs", "probe", "probeAccount", "reread",
     "policySave", "jobDelete", "bump"}

Operation ==
    {"none", "patch", "escalate", "sla", "decide", "execute", "track", "trackAccount",
     "refresh", "backfillLive", "backfillSim", "stream", "policy"}

\* The local variables of a call: its dispute and hash, the dispute row it will
\* save, the dispute row applyLiveTxStatus will save, the transaction row it
\* works on, rippled's answer, the result code of a backfill, the hashes left to
\* visit and the listed rows.
Local == [pc : Label, op : Operation, d : Dispute \cup {NoDispute},
          h : Hash \cup {NoHash}, ds : DisputeRow, es : DisputeRow, tx : TxRow,
          live : Live, code : Code, acct : SUBSET Hash, todo : SUBSET Hash,
          rows : [Hash -> TxRow]]

NoRows == [h \in Hash |-> NoTxRow]

Idle == [pc |-> "idle", op |-> "none", d |-> NoDispute, h |-> NoHash,
         ds |-> NoDisputeRow, es |-> NoDisputeRow, tx |-> NoTxRow,
         live |-> NotFound, code |-> "none", acct |-> {}, todo |-> {},
         rows |-> NoRows]

Init ==
    /\ ledger = [h \in Hash |-> "absent"]
    /\ txs = [h \in Hash |-> NoTxRow]
    /\ aged = {}
    /\ disputes = [d \in Dispute |-> NoDisputeRow]
    /\ decisions = [d \in Dispute |-> 0]
    /\ job = [h \in Hash |-> "none"]
    /\ ingested = {}
    /\ proc = [p \in Proc |-> Idle]
    /\ requests = 0
    /\ faults = 0
    /\ requested = {}
    /\ simulated = {}
    /\ tried = [h \in Hash |-> 0]

-----------------------------------------------------------------------------
(* Steps of a call *)

At(p, label) == proc[p].pc = label

CanStart(p) == At(p, "idle") /\ (Overlap \/ \A q \in Proc : At(q, "idle"))

Become(p, local) == proc' = [proc EXCEPT ![p] = local]

Fault == faults < MaxFaults /\ faults' = faults + 1

\* An HTTP request is accepted: the handler has made its first read.
Accept(p, local) ==
    /\ CanStart(p)
    /\ requests < MaxRequests
    /\ requests' = requests + 1
    /\ Become(p, local)
    /\ UNCHANGED <<ledger, txs, aged, disputes, decisions, job, ingested,
                   faults, requested, simulated, tried>>

\* A step that only reads, or that fails: tables and ledger stay as they are.
Continue(p, local) ==
    /\ Become(p, local)
    /\ UNCHANGED <<ledger, txs, aged, disputes, decisions, job, ingested,
                   requests, requested, simulated, tried>>

\* getTxStatus: a failed request is answered like an unknown hash.
GetTxStatus(h, live) ==
    \/ live \in TxAnswers(h) /\ UNCHANGED faults
    \/ live = NotFound /\ Fault

\* saveXrplTx: the whole row is replaced and last_checked_at is now.
SaveTx(h, row) ==
    /\ txs' = [txs EXCEPT ![h] = row]
    /\ aged' = aged \ {h}

-----------------------------------------------------------------------------
(* Dispute handlers *)

\* POST /v1/disputes
FileDispute(d) ==
    /\ disputes[d].status = "none"
    /\ disputes' = [disputes EXCEPT ![d].status = "filed"]
    /\ UNCHANGED <<ledger, txs, aged, decisions, job, ingested, proc, requests,
                   faults, requested, simulated, tried>>

\* PATCH /v1/disputes/:disputeId/status.  Going back to filed clears the review
\* deadline and the escalation mark.
PatchStatus(p, d, next) ==
    /\ isDisputeReviewStatusAllowed(disputes[d].status, next)
    /\ Accept(p, [Idle EXCEPT !.pc = "saveDispute", !.op = "patch", !.d = d,
                   !.ds = [status |-> next,
                           escalated |-> disputes[d].escalated /\ next # "filed"]])

\* POST /v1/disputes/:disputeId/escalate, whatever the status.
Escalate(p, d) ==
    /\ disputes[d].status # "none"
    /\ Accept(p, [Idle EXCEPT !.pc = "saveDispute", !.op = "escalate", !.d = d,
                   !.ds = [disputes[d] EXCEPT !.escalated = TRUE]])

\* POST /v1/operator/disputes/review-sla-scan with slaAutoEscalate, for one
\* dispute of the page whose deadline has passed.
SlaScan(p, d) ==
    /\ disputes[d].status = "under_review"
    /\ ~disputes[d].escalated
    /\ Accept(p, [Idle EXCEPT !.pc = "saveDispute", !.op = "sla", !.d = d,
                   !.ds = [disputes[d] EXCEPT !.escalated = TRUE]])

\* POST /v1/disputes/:disputeId/decision
Decide(p, d) ==
    /\ disputes[d].status \in ReviewStatus
    /\ Accept(p, [Idle EXCEPT !.pc = "saveDecision", !.op = "decide", !.d = d,
                   !.ds = [disputes[d] EXCEPT !.status = "decided"]])

SaveDecision(p) ==
    /\ At(p, "saveDecision")
    /\ decisions' = [decisions EXCEPT ![proc[p].d] = @ + 1]
    /\ Become(p, [proc[p] EXCEPT !.pc = "saveDispute"])
    /\ UNCHANGED <<ledger, txs, aged, disputes, job, ingested, requests, faults,
                   requested, simulated, tried>>

\* saveDispute: the last write of every dispute handler.
SaveDispute(p) ==
    /\ At(p, "saveDispute")
    /\ disputes' = [disputes EXCEPT ![proc[p].d] = proc[p].ds]
    /\ Become(p, Idle)
    /\ UNCHANGED <<ledger, txs, aged, decisions, job, ingested, requests, faults,
                   requested, simulated, tried>>

\* Mutant: the status of the dispute is not checked.
ExecuteAnyStatus(p, d, h, pc) ==
    /\ disputes[d].status # "none"
    /\ Accept(p, [Idle EXCEPT !.pc = pc, !.op = "execute", !.d = d, !.h = h,
                   !.ds = [disputes[d] EXCEPT !.status = "execution_pending"]])

\* POST /v1/disputes/:disputeId/execution.  The hash comes with the request, from
\* the backend's own submission, or is a placeholder.
Execute(p, d, h, pc) ==
    /\ disputes[d].status = "decided"
    /\ Accept(p, [Idle EXCEPT !.pc = pc, !.op = "execute", !.d = d, !.h = h,
                   !.ds = [disputes[d] EXCEPT !.status = "execution_pending"]])

ExecuteTracked(p, d, h) ==
    Execute(p, d, h, IF XrplEnabled THEN "status" ELSE "upsertRead")

\* The hash of a transaction that the backend will sign: nobody knows it yet.
FreshHash(h) ==
    /\ h \notin Synthetic \cup WrongType
    /\ ledger[h] = "absent"
    /\ ~txs[h].tracked
    /\ \A q \in Proc : proc[q].h # h

ExecuteSubmitting(p, d, h) ==
    XrplEnabled /\ FreshHash(h) /\ Execute(p, d, h, "submit")

\* trySubmitDisputeExecution: submitAndWait returns once the transaction is in a
\* validated ledger, with whatever result.
Submitted(p, result) ==
    /\ At(p, "submit")
    /\ ledger' = [ledger EXCEPT ![proc[p].h] = result]
    /\ Become(p, [proc[p] EXCEPT !.pc = "status"])
    /\ UNCHANGED <<txs, aged, disputes, decisions, job, ingested, requests, faults,
                   requested, simulated, tried>>

\* submitAndWait throws: 502, although the transaction may be on its way.
SubmitFails(p, state) ==
    /\ At(p, "submit")
    /\ Fault
    /\ ledger' = [ledger EXCEPT ![proc[p].h] = state]
    /\ Become(p, Idle)
    /\ UNCHANGED <<txs, aged, disputes, decisions, job, ingested, requests,
                   requested, simulated, tried>>

-----------------------------------------------------------------------------
(* Tracking: upsertTrackedTx, POST /v1/xrpl/track and the two refresh routes *)

Track(p, h, withAccount) ==
    Accept(p, [Idle EXCEPT !.pc = "upsertRead", !.h = h,
               !.op = IF withAccount THEN "trackAccount" ELSE "track"])

Refresh(p, h) ==
    /\ XrplEnabled
    /\ txs[h].tracked
    /\ Accept(p, [Idle EXCEPT !.pc = "status", !.op = "refresh", !.h = h])

\* The type check happens only when rippled already knows the transaction.
StatusOfExecution(p, live) ==
    /\ At(p, "status") /\ proc[p].op = "execute"
    /\ GetTxStatus(proc[p].h, live)
    /\ Continue(p, IF live.found /\ proc[p].h \in WrongType THEN Idle
                   ELSE [proc[p] EXCEPT !.pc = "upsertRead", !.live = live])

StatusOfRefresh(p, live) ==
    /\ At(p, "status") /\ proc[p].op # "execute"
    /\ GetTxStatus(proc[p].h, live)
    /\ Continue(p, IF live.found
                   THEN [proc[p] EXCEPT !.pc = "applyRead", !.live = live]
                   ELSE Idle)

\* getClient throws: the request ends with an error.
StatusThrows(p) == At(p, "status") /\ Fault /\ Continue(p, Idle)

UpsertRead(p) ==
    /\ At(p, "upsertRead")
    /\ UNCHANGED faults
    /\ Continue(p, [proc[p] EXCEPT !.pc = "upsertSave", !.tx = txs[proc[p].h]])

\* Mutant: the dispute of the existing record is not merged.
UpsertedUnlinked(l) ==
    [l.tx EXCEPT !.tracked = TRUE,
                 !.dispute = IF l.op = "execute" THEN l.d ELSE NoDispute,
                 !.account = @ \/ l.op \in {"execute", "trackAccount"}]

\* Mutant: the tracking state of the existing record starts again.
UpsertedAfresh(l) ==
    [NoTxRow EXCEPT !.tracked = TRUE,
                    !.dispute = IF l.op = "execute" THEN l.d ELSE l.tx.dispute,
                    !.account = l.op \in {"execute", "trackAccount"}]

\* The row saved by upsertTrackedTx over the row it has read.
UpsertedTx(l) ==
    [l.tx EXCEPT !.tracked = TRUE,
                 !.dispute = IF l.op = "execute" THEN l.d ELSE @,
                 !.account = @ \/ l.op \in {"execute", "trackAccount"}]

AfterUpsert(l) ==
    CASE l.op = "execute" /\ l.live.found -> [l EXCEPT !.pc = "applyRead", !.tx = NoTxRow]
      [] l.op = "execute"                 -> [l EXCEPT !.pc = "saveDispute", !.tx = NoTxRow]
      [] XrplEnabled                      -> [l EXCEPT !.pc = "status", !.tx = NoTxRow]
      [] OTHER                            -> Idle

UpsertSave(p) ==
    /\ At(p, "upsertSave")
    /\ SaveTx(proc[p].h, UpsertedTx(proc[p]))
    /\ requested' = requested \cup
          IF proc[p].op = "execute" THEN {<<proc[p].d, proc[p].h>>} ELSE {}
    /\ Become(p, AfterUpsert(proc[p]))
    /\ UNCHANGED <<ledger, disputes, decisions, job, ingested, requests, faults,
                   simulated, tried>>

-----------------------------------------------------------------------------
(* applyLiveTxStatus *)

\* What the caller does when applyLiveTxStatus returns.
Return(l) ==
    LET back == [l EXCEPT !.tx = NoTxRow, !.es = NoDisputeRow, !.live = NotFound]
    IN  CASE l.op = "execute"      -> [back EXCEPT !.pc = "saveDispute"]
          [] l.op = "policy"       -> [back EXCEPT !.pc = "jobDelete"]
          [] l.op = "backfillLive" -> [back EXCEPT !.pc = "liveNext", !.h = NoHash]
          [] l.op = "backfillSim"  -> [back EXCEPT !.pc = "simNext", !.h = NoHash]
          [] OTHER                 -> Idle

\* The row with the answer merged in; the simulated backfill names no account.
AppliedTx(tx, l) ==
    LET class == classifyXrplResultCode(l.live.code)
    IN  [tx EXCEPT !.account = @ \/ l.op # "backfillSim",
                   !.validated = l.live.validated,
                   !.outcome = class,
                   !.tracking = IF ~l.live.validated THEN "pending_validation"
                                ELSE IF class = "success" THEN "validated_success"
                                ELSE "validated_fail"]

ApplyRead(p) ==
    /\ At(p, "applyRead")
    /\ UNCHANGED faults
    /\ LET l == proc[p] IN
       Continue(p, IF txs[l.h].tracked
                   THEN [l EXCEPT !.pc = "applySave", !.tx = AppliedTx(txs[l.h], l)]
                   ELSE Return(l))

\* Mutant: a result that is not validated decides the dispute as well.
ApplySaveProvisional(p) ==
    /\ At(p, "applySave")
    /\ LET l == proc[p] IN
       /\ SaveTx(l.h, l.tx)
       /\ Become(p, IF l.tx.dispute # NoDispute
                    THEN [l EXCEPT !.pc = "verdictRead"] ELSE Return(l))
    /\ UNCHANGED <<ledger, disputes, decisions, job, ingested, requests, faults,
                   requested, simulated, tried>>

ApplySave(p) ==
    /\ At(p, "applySave")
    /\ LET l == proc[p] IN
       /\ SaveTx(l.h, l.tx)
       /\ Become(p, IF l.tx.dispute # NoDispute /\ l.tx.validated
                    THEN [l EXCEPT !.pc = "verdictRead"] ELSE Return(l))
    /\ UNCHANGED <<ledger, disputes, decisions, job, ingested, requests, faults,
                   requested, simulated, tried>>

\* Mutant: the verdict does not wait for execution_pending.
VerdictReadAnyStatus(p) ==
    /\ At(p, "verdictRead")
    /\ UNCHANGED faults
    /\ LET l   == proc[p]
           verdict == IF l.tx.outcome = "success" THEN "executed" ELSE "rejected"
       IN Continue(p, [l EXCEPT !.pc = "verdictSave",
                        !.es = [disputes[l.tx.dispute] EXCEPT !.status = verdict]])

VerdictRead(p) ==
    /\ At(p, "verdictRead")
    /\ UNCHANGED faults
    /\ LET l   == proc[p]
           row == disputes[l.tx.dispute]
           verdict == IF l.tx.outcome = "success" THEN "executed" ELSE "rejected"
       IN Continue(p, IF row.status = "execution_pending"
                      THEN [l EXCEPT !.pc = "verdictSave",
                                     !.es = [row EXCEPT !.status = verdict]]
                      ELSE Return(l))

VerdictSave(p) ==
    /\ At(p, "verdictSave")
    /\ disputes' = [disputes EXCEPT ![proc[p].tx.dispute] = proc[p].es]
    /\ Become(p, Return(proc[p]))
    /\ UNCHANGED <<ledger, txs, aged, decisions, job, ingested, requests, faults,
                   requested, simulated, tried>>

-----------------------------------------------------------------------------
(* POST /v1/xrpl/backfill/account-tx *)

Backfill(p, code) ==
    Accept(p, [Idle EXCEPT !.code = code,
                           !.op = IF XrplEnabled THEN "backfillLive" ELSE "backfillSim",
                           !.pc = IF XrplEnabled THEN "accountTx" ELSE "simList"])

\* Some of the tracked transactions that are validated belong to the account and
\* are among its latest.
BackfillLive(p, some) ==
    /\ At(p, "accountTx")
    /\ some \subseteq {h \in Hash : txs[h].tracked /\ ledger[h] \in Final}
    /\ UNCHANGED faults
    /\ Continue(p, [proc[p] EXCEPT !.pc = "liveNext", !.todo = some])

\* account_tx throws: the handler goes on with simulated results.
BackfillFallsBack(p) ==
    /\ At(p, "accountTx")
    /\ Fault
    /\ Continue(p, [proc[p] EXCEPT !.pc = "simList", !.op = "backfillSim"])

LiveNext(p, h) ==
    /\ At(p, "liveNext")
    /\ h \in proc[p].todo
    /\ UNCHANGED faults
    /\ Continue(p, [proc[p] EXCEPT !.pc = "applyRead", !.h = h, !.todo = @ \ {h},
                                   !.live = Found(TRUE, ledger[h])])

SimList(p) ==
    /\ At(p, "simList")
    /\ UNCHANGED faults
    /\ Continue(p, [proc[p] EXCEPT !.pc = "simNext", !.rows = txs,
                      !.todo = {h \in Hash : txs[h].tracked /\ ~txs[h].validated}])

\* The result made up for a row: queued the first time, then the code of the
\* request.
SimulatedCode(tx, code) == IF tx.retries + 1 >= 2 THEN code ELSE "ter"

SimulatedTx(tx, code) ==
    LET class == classifyXrplResultCode(SimulatedCode(tx, code))
    IN  [tx EXCEPT !.retries = @ + 1,
                   !.outcome = class,
                   !.validated = class # "retryable",
                   !.tracking = CASE class = "success" -> "validated_success"
                                  [] class = "retryable" /\ tx.retries + 1 < 3
                                       -> "retry_scheduled"
                                  [] OTHER -> "validated_fail"]

SimNext(p, h) ==
    /\ At(p, "simNext")
    /\ h \in proc[p].todo
    /\ UNCHANGED faults
    /\ LET l  == proc[p]
           tx == SimulatedTx(l.rows[h], l.code)
       IN Continue(p, [l EXCEPT !.pc = "simSave", !.h = h, !.todo = @ \ {h}, !.tx = tx])

CountTry(h) == tried' = [tried EXCEPT ![h] = IF @ < MaxProbes THEN @ + 1 ELSE @]

SimSave(p) ==
    /\ At(p, "simSave")
    /\ LET l == proc[p] IN
       /\ SaveTx(l.h, l.tx)
       /\ simulated' = simulated \cup IF l.tx.validated THEN {l.h} ELSE {}
       /\ CountTry(l.h)
       /\ Become(p, [l EXCEPT !.pc = "applyRead", !.tx = NoTxRow,
                     !.live = Found(l.tx.validated, SimulatedCode(l.rows[l.h], l.code))])
    /\ UNCHANGED <<ledger, disputes, decisions, job, ingested, requests, faults,
                   requested>>

BackfillDone(p) ==
    /\ proc[p].pc \in {"liveNext", "simNext"}
    /\ proc[p].todo = {}
    /\ UNCHANGED faults
    /\ Continue(p, Idle)

-----------------------------------------------------------------------------
(* Stream callback: handleTransaction.  Messages that are lost, throttled or   *)
(* about untracked hashes change nothing; reconnecting may repeat a message.   *)

Receive(p, h) ==
    /\ XrplEnabled
    /\ CanStart(p)
    /\ ledger[h] \in Final
    /\ txs[h].tracked
    /\ UNCHANGED faults
    /\ Continue(p, [Idle EXCEPT !.pc = "ingest", !.op = "stream", !.h = h])

\* tryRecordXrplIngestionEvent comes before applyLiveTxStatus.
Ingest(p) ==
    /\ At(p, "ingest")
    /\ LET l == proc[p] IN
       /\ ingested' = ingested \cup {l.h}
       /\ Become(p, IF l.h \in ingested THEN Idle
                    ELSE [l EXCEPT !.pc = "applyRead", !.live = Found(TRUE, ledger[l.h])])
    /\ UNCHANGED <<ledger, txs, aged, disputes, decisions, job, requests, faults,
                   requested, simulated, tried>>

-----------------------------------------------------------------------------
(* Policy worker: one tick of startXrplTxPolicyWorker.  A job is "waiting"     *)
(* until run_after, then "due", then "leased" until locked_until.              *)

\* listXrplTxs: the candidates without an account (at most
\* accountBackfillPerTick of them) and those over the pending timeout.
Tick(p, some) ==
    /\ XrplEnabled
    /\ CanStart(p)
    /\ some \subseteq {h \in Hash : isPolicyCandidate(txs[h]) /\ ~txs[h].account}
    /\ UNCHANGED faults
    /\ Continue(p, [Idle EXCEPT !.pc = "accounts", !.op = "policy", !.acct = some,
                      !.todo = {h \in aged : isPolicyCandidate(txs[h])}])

\* Account backfill: rippled names the account and the re-read row has none.
AccountStatus(p, h, live) ==
    /\ At(p, "accounts")
    /\ h \in proc[p].acct
    /\ GetTxStatus(h, live)
    /\ LET next == [proc[p] EXCEPT !.acct = @ \ {h}]
       IN Continue(p, IF live.found THEN [next EXCEPT !.pc = "accountRead", !.h = h]
                      ELSE next)

AccountRead(p) ==
    /\ At(p, "accountRead")
    /\ UNCHANGED faults
    /\ LET tx == txs[proc[p].h]
       IN Continue(p, IF tx.account
                      THEN [proc[p] EXCEPT !.pc = "accounts", !.h = NoHash]
                      ELSE [proc[p] EXCEPT !.pc = "accountSave",
                                           !.tx = [tx EXCEPT !.account = TRUE]])

AccountSave(p) ==
    /\ At(p, "accountSave")
    /\ SaveTx(proc[p].h, proc[p].tx)
    /\ Become(p, [proc[p] EXCEPT !.pc = "accounts", !.h = NoHash, !.tx = NoTxRow])
    /\ UNCHANGED <<ledger, disputes, decisions, job, ingested, requests, faults,
                   requested, simulated, tried>>

\* createDelayedJobIfAbsent
Enqueue(p, h) ==
    /\ At(p, "accounts")
    /\ proc[p].acct = {}
    /\ h \in proc[p].todo
    /\ job' = [job EXCEPT ![h] = IF @ = "none" THEN "due" ELSE @]
    /\ Become(p, [proc[p] EXCEPT !.todo = @ \ {h}])
    /\ UNCHANGED <<ledger, txs, aged, disputes, decisions, ingested, requests,
                   faults, requested, simulated, tried>>

\* claimDueDelayedJobs, with a batch size that no tick fills.
Claim(p) ==
    /\ At(p, "accounts")
    /\ proc[p].acct = {} /\ proc[p].todo = {}
    /\ LET due == {h \in Hash : job[h] = "due"} IN
       /\ job' = [h \in Hash |-> IF h \in due THEN "leased" ELSE job[h]]
       /\ Become(p, IF due = {} THEN Idle
                    ELSE [proc[p] EXCEPT !.pc = "jobs", !.todo = due])
    /\ UNCHANGED <<ledger, txs, aged, disputes, decisions, ingested, requests,
                   faults, requested, simulated, tried>>

JobRead(p, h) ==
    /\ At(p, "jobs")
    /\ h \in proc[p].todo
    /\ UNCHANGED faults
    /\ Continue(p, [proc[p] EXCEPT !.h = h, !.todo = @ \ {h}, !.tx = txs[h],
                      !.pc = IF isPolicyCandidate(txs[h]) THEN "probe" ELSE "jobDelete"])

Resolve(p, live) ==
    Continue(p, [proc[p] EXCEPT !.pc = "applyRead", !.live = live, !.tx = NoTxRow])

Probe(p, live) ==
    /\ At(p, "probe")
    /\ GetTxStatus(proc[p].h, live)
    /\ IF live.found THEN Resolve(p, live)
       ELSE Continue(p, [proc[p] EXCEPT
              !.pc = IF proc[p].tx.account THEN "probeAccount" ELSE "reread"])

ProbeAccount(p, live) ==
    /\ At(p, "probeAccount")
    /\ live \in AccountTxAnswers(proc[p].h)
    /\ UNCHANGED faults
    /\ IF live.found THEN Resolve(p, live)
       ELSE Continue(p, [proc[p] EXCEPT !.pc = "reread"])

\* A throwing look-up only postpones the job.
ProbeThrows(p) ==
    /\ proc[p].pc \in {"probe", "probeAccount"}
    /\ Fault
    /\ Continue(p, [proc[p] EXCEPT !.pc = "bump", !.tx = NoTxRow])

\* Mutant: the last probe of the budget is not made.
ProbedTxEarly(tx) ==
    IF tx.retries + 2 >= MaxProbes
    THEN [tx EXCEPT !.retries = @ + 1, !.outcome = "manual_review",
                    !.tracking = "validated_fail", !.validated = FALSE]
    ELSE [tx EXCEPT !.retries = @ + 1]

\* Mutant: the probe is not counted.
ProbedTxUncounted(tx) == tx

\* The row after one more unsuccessful probe.
ProbedTx(tx) ==
    IF tx.retries + 1 >= MaxProbes
    THEN [tx EXCEPT !.retries = @ + 1, !.outcome = "manual_review",
                    !.tracking = "validated_fail", !.validated = FALSE]
    ELSE [tx EXCEPT !.retries = @ + 1]

Exhausted(tx) ==
    tx.tracking = "validated_fail" /\ ~tx.validated /\ tx.outcome = "manual_review"

Reread(p) ==
    /\ At(p, "reread")
    /\ CountTry(proc[p].h)
    /\ Become(p, [proc[p] EXCEPT !.pc = "policySave", !.tx = ProbedTx(txs[proc[p].h])])
    /\ UNCHANGED <<ledger, txs, aged, disputes, decisions, job, ingested, requests,
                   faults, requested, simulated>>

PolicySave(p) ==
    /\ At(p, "policySave")
    /\ SaveTx(proc[p].h, proc[p].tx)
    /\ Become(p, [proc[p] EXCEPT !.tx = NoTxRow,
                   !.pc = IF proc[p].tx.retries >= MaxProbes THEN "jobDelete" ELSE "bump"])
    /\ UNCHANGED <<ledger, disputes, decisions, job, ingested, requests, faults,
                   requested, simulated, tried>>

\* deleteDelayedJob or bumpDelayedJob, and on to the next claimed job.
FinishJob(p, state) ==
    /\ job' = [job EXCEPT ![proc[p].h] = state]
    /\ Become(p, IF proc[p].todo = {} THEN Idle
                 ELSE [proc[p] EXCEPT !.pc = "jobs", !.h = NoHash, !.tx = NoTxRow])
    /\ UNCHANGED <<ledger, txs, aged, disputes, decisions, ingested, requests,
                   faults, requested, simulated, tried>>

\* Mutant: a finished job is put back instead of deleted.
JobRequeue(p) == At(p, "jobDelete") /\ FinishJob(p, "waiting")

JobDelete(p) == At(p, "jobDelete") /\ FinishJob(p, "none")

Bump(p) ==
    /\ At(p, "bump")
    /\ FinishJob(p, IF job[proc[p].h] = "none" THEN "none" ELSE "waiting")

-----------------------------------------------------------------------------
(* Environment: time, the ledger, crashes *)

\* last_checked_at gets older than pendingTimeoutMs.
Age(h) ==
    /\ isPolicyCandidate(txs[h])
    /\ h \notin aged
    /\ aged' = aged \cup {h}
    /\ UNCHANGED <<ledger, txs, disputes, decisions, job, ingested, proc, requests,
                   faults, requested, simulated, tried>>

\* run_after of a bumped job, or locked_until of a leased one, passes.
BecomeDue(h) ==
    /\ job[h] \in {"waiting", "leased"}
    /\ job' = [job EXCEPT ![h] = "due"]
    /\ UNCHANGED <<ledger, txs, aged, disputes, decisions, ingested, proc, requests,
                   faults, requested, simulated, tried>>

LedgerMoves(h, from, to) ==
    /\ ledger[h] = from
    /\ ledger' = [ledger EXCEPT ![h] = to]
    /\ UNCHANGED <<txs, aged, disputes, decisions, job, ingested, proc, requests,
                   faults, requested, simulated, tried>>

\* A wallet outside Backend2 submits the transaction.
LedgerSubmit(h) ==
    /\ h \notin Synthetic
    /\ \A p \in Proc : ~(At(p, "submit") /\ proc[p].h = h)
    /\ LedgerMoves(h, "absent", "open")

\* It ends in a validated ledger, or its LastLedgerSequence passes.
LedgerSettle(h) == \E to \in Final \cup {"dropped"} : LedgerMoves(h, "open", to)

\* The Node process dies: calls in flight are lost, the tables stay.
Crash ==
    /\ Fault
    /\ \E p \in Proc : ~At(p, "idle")
    /\ proc' = [p \in Proc |-> Idle]
    /\ UNCHANGED <<ledger, txs, aged, disputes, decisions, job, ingested, requests,
                   requested, simulated, tried>>

-----------------------------------------------------------------------------
(* Specification *)

Request(p) ==
    \/ \E d \in Dispute :
          \/ "patch" \in Routes /\ \E next \in ReviewStatus : PatchStatus(p, d, next)
          \/ "escalate" \in Routes /\ Escalate(p, d)
          \/ "sla" \in Routes /\ SlaScan(p, d)
          \/ "decision" \in Routes /\ Decide(p, d)
          \/ "execution" \in Routes /\ \E h \in Hash : ExecuteTracked(p, d, h)
          \/ "submission" \in Routes /\ \E h \in Hash : ExecuteSubmitting(p, d, h)
    \/ "track" \in Routes /\ \E h \in Hash, b \in BOOLEAN : Track(p, h, b)
    \/ "refresh" \in Routes /\ \E h \in Hash : Refresh(p, h)
    \/ "backfill" \in Routes /\ \E code \in Code \ {"none"} : Backfill(p, code)

ApplyStep(p) ==
    ApplyRead(p) \/ ApplySave(p) \/ VerdictRead(p) \/ VerdictSave(p)

HandlerStep(p) ==
    \/ SaveDecision(p) \/ SaveDispute(p) \/ UpsertRead(p) \/ UpsertSave(p)
    \/ ApplyStep(p) \/ SimList(p) \/ SimSave(p) \/ BackfillDone(p)
    \/ \E h \in Hash : LiveNext(p, h) \/ SimNext(p, h)
    \/ \E result \in Final : Submitted(p, result)
    \/ \E live \in Live : StatusOfExecution(p, live) \/ StatusOfRefresh(p, live)
    \/ \E some \in SUBSET Hash : BackfillLive(p, some)

HandlerFails(p) ==
    \/ \E state \in {"absent", "open"} \cup Final : SubmitFails(p, state)
    \/ StatusThrows(p)
    \/ BackfillFallsBack(p)

StreamStep(p) == Ingest(p) \/ ApplyStep(p)

WorkerStep(p) ==
    \/ \E some \in SUBSET Hash : Tick(p, some)
    \/ \E h \in Hash, live \in Live : AccountStatus(p, h, live)
    \/ \E h \in Hash : Enqueue(p, h) \/ JobRead(p, h)
    \/ AccountRead(p) \/ AccountSave(p) \/ Claim(p) \/ ApplyStep(p) \/ Reread(p) \/ PolicySave(p)
    \/ \E live \in Live : Probe(p, live) \/ ProbeAccount(p, live)
    \/ JobDelete(p) \/ Bump(p)

Next ==
    \/ \E d \in Dispute : FileDispute(d)
    \/ \E p \in Handler : Request(p) \/ HandlerStep(p) \/ HandlerFails(p)
    \/ \E p \in Stream : (\E h \in Hash : Receive(p, h)) \/ StreamStep(p)
    \/ \E p \in Worker : WorkerStep(p) \/ ProbeThrows(p)
    \/ \E h \in Hash : Age(h) \/ BecomeDue(h) \/ LedgerSubmit(h) \/ LedgerSettle(h)
    \/ Crash

Spec == Init /\ [][Next]_vars

\* Started calls go on, the interval timer of the worker keeps ticking, time
\* passes and an open ledger settles.  Nothing makes a request, a submission
\* or a stream message happen.
Fairness ==
    /\ \A p \in Handler : WF_vars(HandlerStep(p))
    /\ \A p \in Stream : WF_vars(StreamStep(p))
    /\ \A p \in Worker : WF_vars(WorkerStep(p))
    /\ \A h \in Hash : WF_vars(Age(h)) /\ WF_vars(BecomeDue(h)) /\ WF_vars(LedgerSettle(h))

FairSpec == Spec /\ Fairness

-----------------------------------------------------------------------------
(* Properties *)

\* Every table row and every local copy of one has the fields the code gives it.
TypeOK ==
    /\ ledger \in [Hash -> {"absent", "open", "dropped"} \cup Final]
    /\ txs \in [Hash -> TxRow]
    /\ aged \subseteq Hash
    /\ disputes \in [Dispute -> DisputeRow]
    /\ decisions \in [Dispute -> Nat]
    /\ job \in [Hash -> {"none", "waiting", "due", "leased"}]
    /\ ingested \subseteq Hash
    /\ proc \in [Proc -> Local]
    /\ requests \in 0..MaxRequests
    /\ faults \in 0..MaxFaults
    /\ requested \subseteq Dispute \X Hash
    /\ simulated \subseteq Hash
    /\ tried \in [Hash -> 0..MaxProbes]

\* The result of a hash is what the ledger says, or what a backfill made up.
Backed(h, result) == ledger[h] = result \/ h \in simulated

\* applyLiveTxStatus closes a dispute as executed only when a transaction that was
\* requested for this very dispute succeeded in a validated ledger, and as
\* rejected only when one failed there, whatever stale rows the handlers, the
\* stream and the worker write over each other.
VerdictBackedByLedger ==
    \A d \in Dispute :
        /\ disputes[d].status = "executed" =>
              \E h \in Hash : <<d, h>> \in requested /\ Backed(h, "tes")
        /\ disputes[d].status = "rejected" =>
              \E h \in Hash : <<d, h>> \in requested /\ Backed(h, "tec")

\* The decision handler stores the decision before the status and the execution
\* handler the tracked hash before the status, so a crash between two writes, or
\* a stale save, never leaves a status without the rows that justify it.
StatusHasItsRecords ==
    \A d \in Dispute :
        /\ disputes[d].status \in {"decided", "execution_pending", "executed", "rejected"}
              => decisions[d] > 0
        /\ disputes[d].status \in {"execution_pending", "executed", "rejected"}
              => \E h \in Hash : <<d, h>> \in requested

\* The policy worker gives a transaction up as not found only after
\* maxNotFoundProbes look-ups, although retries is read and saved in separate
\* steps and overlapping ticks overwrite each other's counts.
BudgetHonoured == \A h \in Hash : Exhausted(txs[h]) => tried[h] >= MaxProbes

\* While calls do not overlap, a dispute moves only along the edges the handlers
\* check, in spite of crashes between the steps of a call.
SerialDisputeEdges ==
    [][\A d \in Dispute :
         LET from == disputes[d].status
             to   == disputes'[d].status
         IN  from # to => <<from, to>> \in
               {<<"none", "filed">>, <<"filed", "under_review">>,
                <<"under_review", "filed">>, <<"filed", "decided">>,
                <<"under_review", "decided">>, <<"decided", "execution_pending">>,
                <<"execution_pending", "executed">>,
                <<"execution_pending", "rejected">>}]_vars

\* upsertTrackedTx merges with the existing record: a hash that was tracked for a
\* dispute stays linked to a dispute.
LinkKept ==
    [][\A h \in Hash : txs[h].dispute # NoDispute => txs'[h].dispute # NoDispute]_vars

\* A result that rippled reported from a validated ledger is final: no later write
\* of the tracked row changes it.
ValidatedIsFinal ==
    [][\A h \in Hash : txs[h].validated /\ h \notin simulated =>
          /\ txs'[h].validated
          /\ txs'[h].outcome = txs[h].outcome
          /\ txs'[h].tracking = txs[h].tracking]_vars

\* Every tracked transaction is settled: rippled's validated result is stored, or
\* the policy worker hands the transaction over to manual review.
EveryTxSettles ==
    \A h \in Hash : txs[h].tracked ~> txs[h].validated \/ txs[h].outcome = "manual_review"

\* Policy jobs do not leak: each one is deleted in the end.
JobsDrain == \A h \in Hash : job[h] # "none" ~> job[h] = "none"

\* When the tracked transaction of a pending execution has been validated, the
\* dispute becomes executed or rejected.
ExecutionResolves ==
    \A d \in Dispute, h \in Hash :
        disputes[d].status = "execution_pending" /\ txs[h].dispute = d
              /\ ledger[h] \in Final
          ~> disputes[d].status \in {"executed", "rejected"}

\* A transaction that waits for validation is looked up again, so a validated
\* result reaches its row.
PendingIsLookedUp ==
    \A h \in Hash :
        txs[h].tracked /\ txs[h].tracking = "pending_validation" /\ ledger[h] \in Final
          ~> txs[h].validated
=============================================================================
