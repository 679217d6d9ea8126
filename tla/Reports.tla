------------------------------- MODULE Reports -------------------------------
(***************************************************************************)
(* GET /v1/reports/summary: counts by status over everything ("global"),   *)
(* then counts scoped to a tenant or a landlord and a time window          *)
(* ("scoped").  On Postgres every count is a query of its own, so writes   *)
(* fall between them.  MemoryRepository computes the scoped counts by      *)
(* loops over its maps; both are translated here.                          *)
(***************************************************************************)
EXTENDS Naturals, FiniteSets

CONSTANTS
  Contract, Dispute, Tx,   \* ids
  Tenant,                  \* tenants; landlords are scoped in the same way
  Params,                  \* what is asked for: tenant (or "none"), from and to (0: open)
  MaxClock,                \* the clock's last tick
  MaxWrites                \* bound on the writes

VARIABLES
  contracts, disputes, txs,  \* the tables
  clock,
  report,   \* the report being made: counts, and whether a part exceeded its whole
  writes    \* writes so far, and how many when the report began

vars == <<contracts, disputes, txs, clock, report, writes>>

None == "none"
NoRow == [status |-> "absent"]
Status == {"open", "closed"}
Bucket == {"contracts", "disputes", "xrpl"}

Init ==
  /\ contracts = [c \in Contract |-> NoRow]
  /\ disputes = [d \in Dispute |-> NoRow]
  /\ txs = [x \in Tx |-> NoRow]
  /\ clock = 1
  /\ report = [pc |-> "idle"]
  /\ writes = [all |-> 0, before |-> 0]

Rows(t) == {i \in DOMAIN t : t[i] # NoRow}

Tick ==
  /\ clock < MaxClock /\ clock' = clock + 1
  /\ UNCHANGED <<contracts, disputes, txs, report, writes>>

\* saveContract, saveDispute, saveXrplTx; the party, the contract and the
\* dispute a row belongs to stay what they were.
Counted == writes.all < MaxWrites /\ writes' = [writes EXCEPT !.all = @ + 1]

saveContract(c) ==
  /\ Counted
  /\ \E s \in Status, t \in IF contracts[c] = NoRow THEN Tenant ELSE {contracts[c].tenant} :
       contracts' = [contracts EXCEPT ![c] = [status |-> s, tenant |-> t, at |-> clock]]
  /\ UNCHANGED <<disputes, txs, clock, report>>

saveDispute(d) ==
  /\ Counted
  /\ \E s \in Status, c \in IF disputes[d] = NoRow THEN Rows(contracts) ELSE {disputes[d].contract} :
       disputes' = [disputes EXCEPT ![d] = [status |-> s, contract |-> c, at |-> clock]]
  /\ UNCHANGED <<contracts, txs, clock, report>>

saveXrplTx(x) ==
  /\ Counted
  /\ \E s \in Status, d \in IF txs[x] = NoRow THEN Rows(disputes) \cup {None} ELSE {txs[x].dispute} :
       txs' = [txs EXCEPT ![x] = [status |-> s, dispute |-> d, at |-> clock]]
  /\ UNCHANGED <<contracts, disputes, clock, report>>

-----------------------------------------------------------------------------
\* getOperatorStatsSummary: GROUP BY status.
CountBy(t, S) == [s \in Status |-> Cardinality({i \in S : t[i].status = s})]

stats(b) ==
  CASE b = "contracts" -> CountBy(contracts, Rows(contracts))
    [] b = "disputes" -> CountBy(disputes, Rows(disputes))
    [] b = "xrpl" -> CountBy(txs, Rows(txs))

\* getReportsSummary on Postgres: joins, and EXISTS for the transactions.
Within(at, p) == (p.from = 0 \/ at >= p.from) /\ (p.to = 0 \/ at <= p.to)
Scope(c, p) == p.tenant = None \/ contracts[c].tenant = p.tenant

scopedContracts(p) ==
  CountBy(contracts, {c \in Rows(contracts) : Within(contracts[c].at, p) /\ Scope(c, p)})

scopedDisputes(p) ==
  CountBy(disputes, {d \in Rows(disputes) :
    \E c \in Rows(contracts) : c = disputes[d].contract /\ Within(disputes[d].at, p) /\ Scope(c, p)})

\* Mutant: the scope is not applied to the transactions.
UnscopedXrpl(p) == CountBy(txs, {x \in Rows(txs) : Within(txs[x].at, p)})

scopedXrpl(p) ==
  CountBy(txs, {x \in Rows(txs) :
    /\ Within(txs[x].at, p)
    /\ \/ p.tenant = None
       \/ \E d \in Rows(disputes), c \in Rows(contracts) :
            d = txs[x].dispute /\ c = disputes[d].contract /\ Scope(c, p)})

scoped(b, p) ==
  CASE b = "contracts" -> scopedContracts(p)
    [] b = "disputes" -> scopedDisputes(p)
    [] b = "xrpl" -> scopedXrpl(p)

\* getReportsSummary in memory: one pass per map, rows skipped one by one.
memoryScoped(b, p) ==
  LET skips(at) == (p.from # 0 /\ at < p.from) \/ (p.to # 0 /\ at > p.to)
      outside(c) == p.tenant # None /\ contracts[c].tenant # p.tenant
      dead(d) == d = None \/ disputes[d] = NoRow
  IN CASE b = "contracts" ->
            CountBy(contracts, {c \in Rows(contracts) : ~outside(c) /\ ~skips(contracts[c].at)})
       [] b = "disputes" ->
            CountBy(disputes, {d \in Rows(disputes) :
              ~outside(disputes[d].contract) /\ ~skips(disputes[d].at)})
       [] b = "xrpl" ->
            CountBy(txs, {x \in Rows(txs) :
              /\ ~skips(txs[x].at)
              /\ p.tenant # None =>
                   (~dead(txs[x].dispute) /\ ~outside(disputes[txs[x].dispute].contract))})

-----------------------------------------------------------------------------

Request ==
  /\ report.pc = "idle"
  /\ \E p \in Params : report' = [pc |-> "global", params |-> p, global |-> << >>, scoped |-> {}, larger |-> FALSE]
  /\ writes' = [writes EXCEPT !.before = writes.all]
  /\ UNCHANGED <<contracts, disputes, txs, clock>>

\* Promise.all: the queries of a phase answer in any order.
Answered(f, b, v) == [k \in DOMAIN f \cup {b} |-> IF k = b THEN v ELSE f[k]]

QueryGlobal(b) ==
  /\ report.pc = "global" /\ b \notin DOMAIN report.global
  /\ LET g == Answered(report.global, b, stats(b)) IN
     report' = [report EXCEPT !.global = g, !.pc = IF DOMAIN g = Bucket THEN "scoped" ELSE @]
  /\ UNCHANGED <<contracts, disputes, txs, clock, writes>>

QueryScoped(b) ==
  /\ report.pc = "scoped" /\ b \notin report.scoped
  /\ LET part == scoped(b, report.params) IN
     report' = [report EXCEPT
       !.scoped = @ \cup {b},
       !.larger = @ \/ \E s \in Status : part[s] > report.global[b][s],
       !.pc = IF report.scoped \cup {b} = Bucket THEN "done" ELSE @]
  /\ UNCHANGED <<contracts, disputes, txs, clock, writes>>

Next ==
  \/ Tick \/ Request
  \/ \E c \in Contract : saveContract(c)
  \/ \E d \in Dispute : saveDispute(d)
  \/ \E x \in Tx : saveXrplTx(x)
  \/ \E b \in Bucket : QueryGlobal(b) \/ QueryScoped(b)

Spec == Init /\ [][Next]_vars

-----------------------------------------------------------------------------
(***************************************************************************)
(* A part is not larger than the whole: in a finished report no scoped     *)
(* count exceeds the global count of the same status, unless a row was     *)
(* written while the report was being made                                 *)
(* (postgres-repository.ts:510-525 and 547-607).                           *)
(***************************************************************************)
PartWithinWhole ==
  (report.pc = "done" /\ report.larger) => writes.all > writes.before

(***************************************************************************)
(* The two repositories give the same scoped counts on the same rows, for  *)
(* every tenant and window (memory-repository.ts:491-552 and               *)
(* postgres-repository.ts:546-623).                                        *)
(***************************************************************************)
StoresCountAlike == \A p \in Params, b \in Bucket : scoped(b, p) = memoryScoped(b, p)

\* The counts of a report agree: parts with wholes, and one repository with the
\* other (getReportsSummary).
ReportsAddUp ==
  /\ PartWithinWhole
  /\ StoresCountAlike
=============================================================================
