----------------------------- MODULE Reconciler -----------------------------
(***************************************************************************)
(* The monthly reconciler of services/be1-xrpl: the cron, the manual run   *)
(* and the workers of the retry queue all call reconcileContract, which    *)
(* looks for a matched row, pays the landlord from the contract account    *)
(* and inserts a row.  Every await is a step of its own; a thrown error    *)
(* goes to whoever called.                                                 *)
(***************************************************************************)
EXTENDS Integers, FiniteSets

CONSTANTS
    Contract, Month,
    WithEmail,    \* contracts that have a tenantEmail
    Cron,         \* the cron's loop (waitForCompletion: it never overlaps itself)
    Handler,      \* requests of POST /reconciliations/run
    Worker,       \* workers of the retry queue
    Job,          \* places for retry jobs; a job that completes frees its place
    Attempts,     \* defaultJobOptions.attempts
    Overlap,      \* calls may run at the same time
    MaxManual,    \* manual runs
    MaxRejects,   \* calls that fail and leave nothing behind
    MaxLosses,    \* payments whose success the caller does not learn or record, and crashes
    MaxOutages    \* queries before the payment and retryQueue.add that throw

ASSUME ReconcilerAssumption ==
    /\ WithEmail \subseteq Contract /\ Attempts \in Nat \ {0} /\ Overlap \in BOOLEAN
    /\ {MaxManual, MaxRejects, MaxLosses, MaxOutages} \subseteq Nat
    /\ IsFiniteSet(Cron) /\ IsFiniteSet(Handler) /\ IsFiniteSet(Worker)

Proc == Cron \cup Handler \cup Worker
Key == Contract \X Month

VARIABLES
    status,    \* Contract.status; the reconciler only asks whether it is locked
    rows,      \* reconciliations: how many rows of each kind a key has
    paid,      \* ledger: the payments made for a key
    emails,    \* reports handed to the mail service
    jobs,      \* the retry queue
    local,     \* the calls
    fired,     \* months the cron has run for
    used       \* how much of each bound is used up

vars == <<status, rows, paid, emails, jobs, local, fired, used>>

Idle == [pc |-> "idle", kind |-> "none", c |-> CHOOSE c \in Contract : TRUE,
         m |-> CHOOSE m \in Month : TRUE, todo |-> {}, ok |-> FALSE,
         job |-> CHOOSE j \in Job : TRUE]

NoJob == [state |-> "unused", c |-> Idle.c, m |-> Idle.m, made |-> 0]

Pc == {"idle", "list", "loop", "matched", "contract", "usage", "pay", "save", "email",
       "report", "enqueue"}

\* The type of every variable.
TypeOK ==
    /\ status \in [Contract -> {"pending", "locked"}]
    /\ rows \in [Key -> [matched: Nat, failed: Nat, reported: Nat]]
    /\ paid \in [Key -> Nat] /\ emails \in [Key -> Nat]
    /\ jobs \in [Job -> [state: {"unused", "waiting", "active", "failed"},
                         c: Contract, m: Month, made: 0..Attempts]]
    /\ local \in [Proc -> [pc: Pc, kind: {"none", "month", "single", "job"}, c: Contract,
                           m: Month, todo: SUBSET Contract, ok: BOOLEAN, job: Job]]
    /\ fired \subseteq Month
    /\ used \in [{"manual", "rejects", "losses", "outages"} -> Nat]

Init ==
    /\ status = [c \in Contract |-> "pending"]
    /\ rows = [k \in Key |-> [matched |-> 0, failed |-> 0, reported |-> 0]]
    /\ paid = [k \in Key |-> 0] /\ emails = [k \in Key |-> 0]
    /\ jobs = [j \in Job |-> NoJob]
    /\ local = [p \in Proc |-> Idle]
    /\ fired = {}
    /\ used = [b \in {"manual", "rejects", "losses", "outages"} |-> 0]

\* lockTenantDeposit stores the status at its end, at any time.
lockTenantDeposit(c) ==
    /\ status[c] = "pending"
    /\ status' = [status EXCEPT ![c] = "locked"]
    /\ UNCHANGED <<rows, paid, emails, jobs, local, fired, used>>

Spend(bound, max) == used[bound] < max /\ used' = [used EXCEPT ![bound] = @ + 1]

-----------------------------------------------------------------------------
(* The entry points.                                                       *)

MayStart(p) == local[p] = Idle /\ (Overlap \/ \A q \in Proc : local[q] = Idle)

Start(p, l) == MayStart(p) /\ local' = [local EXCEPT ![p] = l]

monthlyCron(p, m) ==
    /\ m \notin fired /\ fired' = fired \cup {m}
    /\ Start(p, [Idle EXCEPT !.pc = "list", !.kind = "month", !.m = m])
    /\ UNCHANGED <<status, rows, paid, emails, jobs, used>>

runManualReconcile(p, m) ==
    /\ Spend("manual", MaxManual)
    /\ \/ Start(p, [Idle EXCEPT !.pc = "list", !.kind = "month", !.m = m])
       \/ \E c \in Contract :
            Start(p, [Idle EXCEPT !.pc = "matched", !.kind = "single", !.c = c, !.m = m])
    /\ UNCHANGED <<status, rows, paid, emails, jobs, fired>>

\* XrplTxRetryProcessor.process
process(p, j) ==
    /\ jobs[j].state = "waiting"
    /\ jobs' = [jobs EXCEPT ![j].state = "active"]
    /\ Start(p, [Idle EXCEPT !.pc = "matched", !.kind = "job", !.c = jobs[j].c,
                             !.m = jobs[j].m, !.job = j])
    /\ UNCHANGED <<status, rows, paid, emails, fired, used>>

-----------------------------------------------------------------------------
(* How reconcileContract ends, for each of its callers.                    *)

At(p, pc) == local[p].pc = pc
Key_(p) == <<local[p].c, local[p].m>>
Goto(p, pc) == local' = [local EXCEPT ![p].pc = pc]

Returns(p) ==
    LET l == local[p] IN
    /\ local' = [local EXCEPT ![p] = IF l.kind = "month" THEN [l EXCEPT !.pc = "loop"] ELSE Idle]
    /\ jobs' = IF l.kind = "job" THEN [jobs EXCEPT ![l.job] = NoJob] ELSE jobs

\* Mutant: an error of one contract is kept from the queue.
SwallowsError(p) ==
    LET l == local[p] IN
    /\ local' = [local EXCEPT ![p] = IF l.kind = "month" THEN [l EXCEPT !.pc = "loop"] ELSE Idle]
    /\ jobs' = IF l.kind = "job" THEN [jobs EXCEPT ![l.job].state = "waiting"] ELSE jobs

\* BullMQ tries a job again until it has used its attempts.
Throws(p) ==
    LET l == local[p]
        made == jobs[l.job].made + 1
    IN
    /\ local' = [local EXCEPT ![p] = IF l.kind = "month" THEN [l EXCEPT !.pc = "enqueue"] ELSE Idle]
    /\ jobs' = IF l.kind = "job"
               THEN [jobs EXCEPT ![l.job].made = made,
                                 ![l.job].state = IF made < Attempts THEN "waiting" ELSE "failed"]
               ELSE jobs

-----------------------------------------------------------------------------
(* runMonthlyReconcile.                                                    *)

findAllLocked(p) ==
    /\ At(p, "list")
    /\ local' = [local EXCEPT ![p].pc = "loop",
                              ![p].todo = {c \in Contract : status[c] = "locked"}]
    /\ UNCHANGED <<status, rows, paid, emails, jobs, fired, used>>

NextContract(p) ==
    /\ At(p, "loop")
    /\ \/ local[p].todo = {} /\ local' = [local EXCEPT ![p] = Idle]
       \/ \E c \in local[p].todo :
            local' = [local EXCEPT ![p].pc = "matched", ![p].c = c, ![p].todo = @ \ {c}]
    /\ UNCHANGED <<status, rows, paid, emails, jobs, fired, used>>

\* The catch block puts the contract on the retry queue.
EnqueueRetry(p) ==
    /\ At(p, "enqueue")
    /\ \E j \in Job :
         /\ jobs[j].state = "unused"
         /\ jobs' = [jobs EXCEPT ![j] = [state |-> "waiting", c |-> local[p].c,
                                         m |-> local[p].m, made |-> 0]]
    /\ Goto(p, "loop")
    /\ UNCHANGED <<status, rows, paid, emails, fired, used>>

\* An error inside the catch block leaves the loop.
EnqueueThrows(p) ==
    /\ At(p, "enqueue")
    /\ Spend("outages", MaxOutages)
    /\ local' = [local EXCEPT ![p] = Idle]
    /\ UNCHANGED <<status, rows, paid, emails, jobs, fired>>

-----------------------------------------------------------------------------
(* reconcileContract.                                                      *)

\* Mutant: an earlier matched row does not end the contract.
SkipsNothing(p) ==
    /\ At(p, "matched")
    /\ Goto(p, "contract")
    /\ UNCHANGED <<status, rows, paid, emails, jobs, fired, used>>

FindMatched(p) ==
    /\ At(p, "matched")
    /\ IF rows[Key_(p)].matched > 0 THEN Returns(p) ELSE Goto(p, "contract") /\ UNCHANGED jobs
    /\ UNCHANGED <<status, rows, paid, emails, fired, used>>

FindContract(p) ==
    /\ At(p, "contract")
    /\ IF status[local[p].c] = "locked" THEN Goto(p, "usage") /\ UNCHANGED jobs ELSE Throws(p)
    /\ UNCHANGED <<status, rows, paid, emails, fired, used>>

getMonthlyUsage(p) ==
    /\ At(p, "usage")
    /\ Goto(p, "pay")
    /\ UNCHANGED <<status, rows, paid, emails, jobs, fired, used>>

\* The KEPCO client throws outside of the try block: no row is written.
UsageThrows(p) ==
    /\ At(p, "usage")
    /\ Spend("rejects", MaxRejects)
    /\ Throws(p)
    /\ UNCHANGED <<status, rows, paid, emails, fired>>

\* One of the queries before it throws.
QueryThrows(p) ==
    /\ local[p].pc \in {"list", "matched", "contract"}
    /\ Spend("outages", MaxOutages)
    /\ IF At(p, "list") THEN local' = [local EXCEPT ![p] = Idle] /\ UNCHANGED jobs ELSE Throws(p)
    /\ UNCHANGED <<status, rows, paid, emails, fired>>

\* submitXrpPayment
Paid(p) ==
    /\ At(p, "pay")
    /\ paid' = [paid EXCEPT ![Key_(p)] = @ + 1]
    /\ local' = [local EXCEPT ![p].pc = "save", ![p].ok = TRUE]
    /\ UNCHANGED <<status, rows, emails, jobs, fired, used>>

\* It throws: the payment is refused, or made without the answer arriving.
PaymentThrows(p) ==
    /\ At(p, "pay")
    /\ \/ Spend("rejects", MaxRejects) /\ UNCHANGED paid
       \/ Spend("losses", MaxLosses) /\ paid' = [paid EXCEPT ![Key_(p)] = @ + 1]
    /\ local' = [local EXCEPT ![p].pc = "save", ![p].ok = FALSE]
    /\ UNCHANGED <<status, rows, emails, jobs, fired>>

\* Mutant: the row is saved as matched whatever the payment said.
SavesMatched(p) ==
    /\ At(p, "save")
    /\ rows' = [rows EXCEPT ![Key_(p)].matched = @ + 1]
    /\ IF ~local[p].ok THEN Throws(p) ELSE Goto(p, "email") /\ UNCHANGED jobs
    /\ UNCHANGED <<status, paid, emails, fired, used>>

\* Mutant: the report is sent for a failed payment too.
ReportsFailure(p) ==
    /\ At(p, "save")
    /\ rows' = [rows EXCEPT ![Key_(p)].matched = IF local[p].ok THEN @ + 1 ELSE @]
    /\ Goto(p, "email")
    /\ UNCHANGED <<status, paid, emails, jobs, fired, used>>

\* recordRepo.save, and the error of the payment thrown afterwards
SaveRecord(p) ==
    LET k == Key_(p) IN
    /\ At(p, "save")
    /\ rows' = [rows EXCEPT ![k].matched = IF local[p].ok THEN @ + 1 ELSE @,
                            ![k].failed = IF local[p].ok THEN @ ELSE @ + 1]
    /\ IF ~local[p].ok THEN Throws(p)
       ELSE IF local[p].c \in WithEmail THEN Goto(p, "email") /\ UNCHANGED jobs
       ELSE Returns(p)
    /\ UNCHANGED <<status, paid, emails, fired, used>>

SaveThrows(p) ==
    /\ At(p, "save")
    /\ IF local[p].ok THEN Spend("losses", MaxLosses) ELSE Spend("rejects", MaxRejects)
    /\ Throws(p)
    /\ UNCHANGED <<status, rows, paid, emails, fired>>

-----------------------------------------------------------------------------
(* sendMonthlyReportSafely: errors are swallowed.                          *)

SendReport(p) ==
    /\ At(p, "email")
    /\ emails' = [emails EXCEPT ![Key_(p)] = @ + 1]
    /\ Goto(p, "report")
    /\ UNCHANGED <<status, rows, paid, jobs, fired, used>>

StampReport(p) ==
    /\ At(p, "report")
    /\ rows' = [rows EXCEPT ![Key_(p)].reported = @ + 1]
    /\ Returns(p)
    /\ UNCHANGED <<status, paid, emails, fired, used>>

ReportThrows(p) ==
    /\ local[p].pc \in {"email", "report"}
    /\ Spend("rejects", MaxRejects)
    /\ Returns(p)
    /\ UNCHANGED <<status, rows, paid, emails, fired>>

-----------------------------------------------------------------------------
\* The process dies, and every call with it.  BullMQ finds the active jobs stalled and
\* puts them back on the queue (the first time; MaxLosses is 1 in every run).
Crash ==
    /\ \E p \in Proc : local[p] # Idle
    /\ Spend("losses", MaxLosses)
    /\ local' = [p \in Proc |-> Idle]
    /\ jobs' = [j \in Job |-> IF jobs[j].state = "active"
                              THEN [jobs[j] EXCEPT !.state = "waiting"] ELSE jobs[j]]
    /\ UNCHANGED <<status, rows, paid, emails, fired>>

Step(p) ==
    \/ findAllLocked(p) \/ NextContract(p) \/ EnqueueRetry(p) \/ EnqueueThrows(p)
    \/ FindMatched(p) \/ FindContract(p) \/ getMonthlyUsage(p) \/ UsageThrows(p)
    \/ QueryThrows(p)
    \/ Paid(p) \/ PaymentThrows(p) \/ SaveRecord(p) \/ SaveThrows(p)
    \/ SendReport(p) \/ StampReport(p) \/ ReportThrows(p)

Next ==
    \/ \E c \in Contract : lockTenantDeposit(c)
    \/ \E p \in Cron, m \in Month : monthlyCron(p, m)
    \/ \E p \in Handler, m \in Month : runManualReconcile(p, m)
    \/ \E p \in Worker, j \in Job : process(p, j)
    \/ \E p \in Proc : Step(p)
    \/ Crash

Spec == Init /\ [][Next]_vars

\* A running call goes on, and a free worker takes a waiting job: the event loop
\* and BullMQ see to that.  Nothing is assumed of requests, the cron or failures.
FairSpec ==
    /\ Spec
    /\ \A p \in Proc : WF_vars(Step(p))
    /\ \A p \in Worker : WF_vars(\E j \in Job : process(p, j))

-----------------------------------------------------------------------------
(* Properties.                                                             *)

\* Every matched row stands for a payment of its own: reconcileContract calls a
\* month matched only after its own payment, whatever overlaps or fails.
MatchedIsPaid ==
    \A k \in Key :
        rows[k].matched + Cardinality({p \in Proc : At(p, "save") /\ local[p].ok /\ Key_(p) = k})
          <= paid[k]

\* Calls that do not overlap pay a month once, and once more for each payment whose
\* success was lost on the way to the row: the look for a matched row makes cron,
\* manual runs and retries idempotent as far as the rows know.
PaidOncePerLoss == \A k \in Key : paid[k] <= 1 + used["losses"]

\* A report is mailed only for a matched row and at most once for each.
ReportsFollowMatches == \A k \in Key : rows[k].reported <= emails[k] /\ emails[k] <= rows[k].matched

Listed(c, m) == \E p \in Cron : c \in local[p].todo /\ local[p].m = m

Settled(c, m) ==
    \/ rows[<<c, m>>].matched > 0
    \/ \E j \in Job : jobs[j].state = "failed" /\ jobs[j].c = c /\ jobs[j].m = m

\* A contract that the cron has listed ends up matched or on a retry job that has
\* used its attempts, unless the process dies: a failure stops neither the loop nor
\* the retries (runMonthlyReconcile, XrplTxRetryProcessor).
ListedIsSettled ==
    \A c \in Contract, m \in Month : Listed(c, m) ~> Settled(c, m) \/ used["losses"] > 0

\* reconciler.service.ts:67: a contract that fails does not keep the others from being
\* reconciled.  The contracts left when one is caught are settled like any other.
FailureStopsNoOther ==
    \A c \in Contract, m \in Month :
        (\E p \in Cron : At(p, "enqueue") /\ c \in local[p].todo /\ local[p].m = m)
            ~> Settled(c, m)

\* reconciler.service.ts:113: a month that is already matched is skipped, which makes
\* retries safe: no month is paid twice.
PaidOnce == \A k \in Key : paid[k] <= 1

\* reconciliation-status.enum.ts:6: a reconciliation that fails, at KEPCO or on the
\* XRPL, has a failed row.  Every attempt of a retry job that failed left one.
FailuresAreRecorded ==
    \A j \in Job : jobs[j].made > 0 => rows[<<jobs[j].c, jobs[j].m>>].failed >= jobs[j].made

\* reconciliation.entity.ts:49: reportSentAt is null as long as no report was sent.  When
\* no call is working, every mail that went out is stamped on its row.
ReportIsStamped ==
    (\A p \in Proc : local[p] = Idle) => \A k \in Key : emails[k] = rows[k].reported
=============================================================================
