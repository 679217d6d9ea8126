----------------------- MODULE DisputeExecutionProofs -----------------------
(***************************************************************************)
(* Proofs about DisputeExecution, for every set of disputes, hashes and    *)
(* calls, every probe budget and any number of requests and faults.        *)
(***************************************************************************)
EXTENDS DisputeExecution, TLAPS

-----------------------------------------------------------------------------
(* Type correctness *)

\* Labels at which a call works on a hash.
HashPc == {"status", "submit", "upsertRead", "upsertSave", "applyRead", "applySave",
           "verdictRead", "verdictSave", "simSave", "ingest", "accountRead",
           "accountSave", "probe", "probeAccount", "reread", "policySave",
           "jobDelete", "bump"}

\* The variables that a call dereferences next are set.
Wellformed(l) ==
    /\ l.pc \in HashPc => l.h \in Hash
    /\ l.pc \in {"saveDecision", "saveDispute"} => l.d \in Dispute
    /\ l.op = "execute" => l.d \in Dispute
    /\ l.pc \in {"verdictRead", "verdictSave"} => l.tx.dispute \in Dispute
    /\ l.pc = "submit" => l.op = "execute"
    /\ l.pc \in {"accountTx", "liveNext"} => l.op = "backfillLive"
    /\ l.pc \in {"simList", "simNext", "simSave"} => l.op = "backfillSim"
    /\ l.pc = "ingest" => l.op = "stream"
    /\ l.pc \in {"accounts", "accountRead", "accountSave", "jobs", "probe", "probeAccount",
                "reread", "policySave", "jobDelete", "bump"} => l.op = "policy"

\* What a call knows of the ledger: a submission has not happened yet, and the
\* results that the stream and account_tx have reported are final.
Knows(l) ==
    /\ l.pc = "submit" => ledger[l.h] = "absent"
    /\ l.pc = "ingest" => ledger[l.h] \in Final
    /\ l.op = "backfillLive" => \A h \in l.todo : ledger[h] \in Final

\* The backend never submits the same transaction twice.
OneSubmitter ==
    \A p, q \in Proc : At(p, "submit") /\ At(q, "submit") /\ proc[p].h = proc[q].h => p = q

Calls == (\A p \in Proc : Wellformed(proc[p]) /\ Knows(proc[p])) /\ OneSubmitter

TypeInv == TypeOK /\ Calls

\* The empty batch that a backfill starts from holds rows only.
LEMMA EmptyRows ==
    NoDisputeRow \in DisputeRow /\ NoTxRow \in TxRow /\ NotFound \in Live
  BY Zenon DEF NoDisputeRow, DisputeRow, DisputeStatus, ReviewStatus, NoTxRow, TxRow,
     TrackingStatus, OutcomeClass, NotFound, Live, Code

\* A call that is not running satisfies all that the invariant asks of one.
LEMMA IdleIsLocal == Idle \in Local /\ Wellformed(Idle) /\ Knows(Idle) /\ Knows(Idle)'
  <1>1. NoRows \in [Hash -> TxRow] /\ "none" \in Code \cap Operation /\ "idle" \in Label
    BY EmptyRows, Zenon DEF NoRows, Code, Operation, Label
  <1>2. Idle \in Local
    BY <1>1, EmptyRows, Zenon DEF Idle, Local
  <1>3. Wellformed(Idle)
    BY Zenon DEF Idle, Wellformed, HashPc
  <1>4. Knows(Idle) /\ Knows(Idle)'
    BY Zenon DEF Idle, Knows
  <1> QED BY <1>2, <1>3, <1>4, Zenon

\* Empty tables and idle calls satisfy the invariant.
LEMMA InitTypeInv == Init => TypeInv
  <1> SUFFICES ASSUME Init PROVE TypeInv
    BY Zenon
  <1>1. TypeOK
    BY IdleIsLocal, EmptyRows, ConstantsAssumption DEF Init, TypeOK
  <1>2. \A p \in Proc : proc[p] = Idle
    BY Zenon DEF Init
  <1>3. Calls
    BY <1>2, IdleIsLocal DEF Calls, OneSubmitter, At, Idle
  <1> QED BY <1>1, <1>3, Zenon DEF TypeInv

\* A step of call p: the next local state is well formed and no other call moves.
Proceeds(p) ==
    /\ proc' = [proc EXCEPT ![p] = proc'[p]]
    /\ proc'[p] \in Local
    /\ Wellformed(proc[p])'
    /\ Knows(proc[p])'
    /\ proc'[p].pc = "submit" =>
          \A q \in Proc \ {p} : ~(At(q, "submit") /\ proc[q].h = proc'[p].h)

\* The ledger forgets no result and leaves the submissions of other calls alone.
LedgerKeeps(p) ==
    /\ \A h \in Hash : ledger[h] \in Final => ledger'[h] = ledger[h]
    /\ \A q \in Proc \ {p} : At(q, "submit") => ledger'[proc[q].h] = ledger[proc[q].h]

\* A step of one call that keeps what the other calls know keeps every call well formed.
LEMMA CallStep ==
    ASSUME TypeInv, NEW p \in Proc, Proceeds(p), LedgerKeeps(p)
    PROVE  proc' \in [Proc -> Local] /\ Calls'
  <1>1. proc' \in [Proc -> Local]
    BY Zenon DEF TypeInv, TypeOK, Proceeds
  <1>2. ASSUME NEW q \in Proc PROVE Wellformed(proc[q])' /\ Knows(proc[q])'
    <2>1. CASE q = p
      BY <2>1, Zenon DEF Proceeds
    <2>2. CASE q # p
      <3>1. proc'[q] = proc[q] /\ proc[q] \in Local /\ Wellformed(proc[q]) /\ Knows(proc[q])
        BY <2>2, Zenon DEF TypeInv, TypeOK, Calls, Proceeds
      <3>2. proc[q].todo \subseteq Hash
        BY <3>1, Zenon DEF Local
      <3>3. Wellformed(proc[q])'
        BY <3>1, Zenon DEF Wellformed
      <3>4. proc[q].pc = "submit" => ledger'[proc[q].h] = "absent"
        BY <3>1, <2>2, Zenon DEF LedgerKeeps, Knows, At
      <3>5. proc[q].pc = "ingest" => ledger'[proc[q].h] \in Final
        BY <3>1, Zenon DEF LedgerKeeps, Knows, Wellformed, HashPc
      <3>6. proc[q].op = "backfillLive" => \A h \in proc[q].todo : ledger'[h] \in Final
        BY <3>1, <3>2, Zenon DEF LedgerKeeps, Knows
      <3> QED BY <3>1, <3>3, <3>4, <3>5, <3>6, Zenon DEF Knows
    <2> QED BY <2>1, <2>2, Zenon
  <1>3. OneSubmitter'
    BY DEF TypeInv, TypeOK, Calls, OneSubmitter, Proceeds, At
  <1> QED BY <1>1, <1>2, <1>3, Zenon DEF Calls

\* A step that does not touch the ledger keeps what the other calls know of it.
LEMMA LedgerUnchanged == ASSUME NEW p, UNCHANGED ledger PROVE LedgerKeeps(p)
  BY Zenon DEF LedgerKeeps

\* A request enters the system with a well formed local state.
LEMMA AcceptType ==
    ASSUME TypeInv, NEW p \in Proc, NEW l \in Local, Accept(p, l),
           Wellformed(l), l.pc # "ingest", l.todo = {},
           l.pc = "submit" => FreshHash(l.h)
    PROVE  TypeInv'
  <1>1. proc' = [proc EXCEPT ![p] = l] /\ proc \in [Proc -> Local]
    BY Zenon DEF Accept, Become, TypeInv, TypeOK
  <1>2. proc'[p] = l
    BY <1>1, Zenon
  <1>3. Knows(proc[p])'
    BY <1>2, Zenon DEF Accept, Knows, FreshHash
  <1>4. Proceeds(p)
    BY <1>1, <1>2, <1>3, Zenon DEF Proceeds, Wellformed, FreshHash
  <1>5. proc' \in [Proc -> Local] /\ Calls'
    BY <1>4, CallStep, LedgerUnchanged, Zenon DEF Accept
  <1> QED BY <1>5, ConstantsAssumption DEF TypeInv, TypeOK, Accept

\* A step that only moves one call to a well-formed state keeps the invariant.
LEMMA BecomeType ==
    ASSUME TypeInv, NEW p \in Proc, NEW l \in Local, Become(p, l), UNCHANGED ledger,
           Wellformed(l), Knows(l), l.pc # "submit"
    PROVE  proc' \in [Proc -> Local] /\ Calls'
  <1>1. proc' = [proc EXCEPT ![p] = l] /\ proc \in [Proc -> Local]
    BY Zenon DEF Become, TypeInv, TypeOK
  <1>2. proc'[p] = l
    BY <1>1, Zenon
  <1>3. Knows(proc[p])'
    BY <1>2, Zenon DEF Knows
  <1>4. Proceeds(p)
    BY <1>1, <1>2, <1>3, Zenon DEF Proceeds, Wellformed
  <1> QED BY <1>4, CallStep, LedgerUnchanged, Zenon

\* The same, for a call that goes on from one await to the next.
LEMMA ContinueType ==
    ASSUME TypeInv, NEW p \in Proc, NEW l \in Local, Continue(p, l),
           UNCHANGED faults \/ Fault,
           Wellformed(l), Knows(l), l.pc # "submit"
    PROVE  TypeInv'
  <1>1. proc' \in [Proc -> Local] /\ Calls'
    BY BecomeType, Zenon DEF Continue
  <1>2. faults' \in 0 .. MaxFaults
    BY ConstantsAssumption DEF TypeInv, TypeOK, Fault
  <1> QED BY <1>1, <1>2, Zenon DEF TypeInv, TypeOK, Continue

\* Starting a route handler keeps the invariant: the guard of each route gives
\* the call the fields that its first await needs.
LEMMA RequestType ==
    ASSUME TypeInv, NEW p \in Proc, Request(p) PROVE TypeInv'
  <1> USE IdleIsLocal
  <1>1. ASSUME NEW d \in Dispute, NEW next \in ReviewStatus, PatchStatus(p, d, next)
        PROVE  TypeInv'
    <2> DEFINE ds == [status |-> next,
                      escalated |-> disputes[d].escalated /\ next # "filed"]
               l  == [Idle EXCEPT !.pc = "saveDispute", !.op = "patch", !.d = d, !.ds = ds]
    <2>0. ds \in DisputeRow
      BY Zenon DEF DisputeRow, DisputeStatus
    <2>1. l \in Local
      <3> HIDE DEF ds
      <3> QED BY <2>0, Zenon DEF Local, Label, Operation
    <2>2. Wellformed(l) /\ l.pc = "saveDispute" /\ l.todo = {}
      BY DEF Wellformed, HashPc, Idle
    <2> QED BY <1>1, <2>1, <2>2, AcceptType, Zenon DEF PatchStatus
  <1>2. ASSUME NEW d \in Dispute, Escalate(p, d) \/ SlaScan(p, d) PROVE TypeInv'
    <2> DEFINE ds == [disputes[d] EXCEPT !.escalated = TRUE]
               l(op) == [Idle EXCEPT !.pc = "saveDispute", !.op = op, !.d = d, !.ds = ds]
    <2>1. ds \in DisputeRow
      BY Zenon DEF DisputeRow, TypeInv, TypeOK
    <2>2. ASSUME NEW op \in {"escalate", "sla"}
          PROVE  l(op) \in Local /\ Wellformed(l(op)) /\ l(op).pc = "saveDispute" /\ l(op).todo = {}
      <3> HIDE DEF ds
      <3>1. l(op) \in Local
        BY <2>1, Zenon DEF Local, Label, Operation
      <3> QED BY <3>1, <2>1 DEF Wellformed, HashPc, Idle
    <2>3. \E op \in {"escalate", "sla"} : Accept(p, l(op))
      BY <1>2, Zenon DEF Escalate, SlaScan
    <2> QED BY <2>2, <2>3, AcceptType, Zenon
  <1>3. ASSUME NEW d \in Dispute, Decide(p, d) PROVE TypeInv'
    <2> DEFINE ds == [disputes[d] EXCEPT !.status = "decided"]
               l  == [Idle EXCEPT !.pc = "saveDecision", !.op = "decide", !.d = d, !.ds = ds]
    <2>1. ds \in DisputeRow
      BY Zenon DEF DisputeRow, DisputeStatus, TypeInv, TypeOK
    <2>2. l \in Local
      <3> HIDE DEF ds
      <3> QED BY <2>1, Zenon DEF Local, Label, Operation
    <2>3. Wellformed(l) /\ l.pc = "saveDecision" /\ l.todo = {}
      BY DEF Wellformed, HashPc, Idle
    <2> QED BY <1>3, <2>2, <2>3, AcceptType, Zenon DEF Decide
  <1>4. ASSUME NEW d \in Dispute, NEW h \in Hash, NEW pc \in {"submit", "status", "upsertRead"},
               Execute(p, d, h, pc), pc = "submit" => FreshHash(h)
        PROVE  TypeInv'
    <2> DEFINE ds == [disputes[d] EXCEPT !.status = "execution_pending"]
               l  == [Idle EXCEPT !.pc = pc, !.op = "execute", !.d = d, !.h = h, !.ds = ds]
    <2>1. ds \in DisputeRow
      BY Zenon DEF DisputeRow, DisputeStatus, TypeInv, TypeOK
    <2>2. l \in Local
      <3> HIDE DEF ds
      <3> QED BY <2>1, Zenon DEF Local, Label, Operation
    <2>3. Wellformed(l) /\ l.pc = pc /\ l.todo = {} /\ l.h = h
      BY Zenon DEF Wellformed, HashPc, Idle
    <2> QED BY <1>4, <2>2, <2>3, AcceptType, Zenon DEF Execute
  <1>5. ASSUME NEW h \in Hash, NEW b \in BOOLEAN, Track(p, h, b) PROVE TypeInv'
    <2> DEFINE op == IF b THEN "trackAccount" ELSE "track"
               l  == [Idle EXCEPT !.pc = "upsertRead", !.h = h, !.op = op]
    <2>1. l \in Local
      BY ZenonT(40) DEF Local, Label, Operation
    <2>2. Wellformed(l) /\ l.pc = "upsertRead" /\ l.todo = {}
      BY DEF Wellformed, HashPc, Idle
    <2> QED BY <1>5, <2>1, <2>2, AcceptType, Zenon DEF Track
  <1>6. ASSUME NEW h \in Hash, Refresh(p, h) PROVE TypeInv'
    <2> DEFINE l == [Idle EXCEPT !.pc = "status", !.op = "refresh", !.h = h]
    <2>1. l \in Local
      BY Zenon DEF Local, Label, Operation
    <2>2. Wellformed(l) /\ l.pc = "status" /\ l.todo = {}
      BY DEF Wellformed, HashPc, Idle
    <2> QED BY <1>6, <2>1, <2>2, AcceptType, Zenon DEF Refresh
  <1>7. ASSUME NEW code \in Code, Backfill(p, code) PROVE TypeInv'
    <2> DEFINE op == IF XrplEnabled THEN "backfillLive" ELSE "backfillSim"
               pc == IF XrplEnabled THEN "accountTx" ELSE "simList"
               l  == [Idle EXCEPT !.code = code, !.op = op, !.pc = pc]
    <2>1. l \in Local
      BY ZenonT(40) DEF Local, Label, Operation
    <2>2. Wellformed(l) /\ l.pc \notin {"submit", "ingest"} /\ l.todo = {}
      BY DEF Wellformed, HashPc, Idle
    <2> QED BY <1>7, <2>1, <2>2, AcceptType, Zenon DEF Backfill
  <1> QED BY <1>1, <1>2, <1>3, <1>4, <1>5, <1>6, <1>7, Zenon
          DEF Request, ExecuteTracked, ExecuteSubmitting

\* upsertTrackedTx builds a row of the transaction table.
LEMMA UpsertedType == ASSUME NEW l \in Local, Wellformed(l) PROVE UpsertedTx(l) \in TxRow
  BY Zenon DEF UpsertedTx, Local, TxRow, Wellformed

\* The merge in applyLiveTxStatus builds a row of the transaction table.
LEMMA AppliedType ==
    ASSUME NEW tx \in TxRow, NEW l \in Local
    PROVE  AppliedTx(tx, l) \in TxRow /\ AppliedTx(tx, l).dispute = tx.dispute
  <1>1. classifyXrplResultCode(l.live.code) \in OutcomeClass
    BY Zenon DEF classifyXrplResultCode, OutcomeClass
  <1>2. l.live.validated \in BOOLEAN
    BY Zenon DEF Local, Live
  <1> QED BY <1>1, <1>2, Zenon DEF AppliedTx, TxRow, TrackingStatus

\* The simulated backfill builds a row of the transaction table.
LEMMA SimulatedType == ASSUME NEW tx \in TxRow, NEW code PROVE SimulatedTx(tx, code) \in TxRow
  <1> DEFINE class == classifyXrplResultCode(SimulatedCode(tx, code))
             tracking == CASE class = "success" -> "validated_success"
                           [] class = "retryable" /\ tx.retries + 1 < 3 -> "retry_scheduled"
                           [] OTHER -> "validated_fail"
             validated == class # "retryable"
  <1>1. class \in OutcomeClass
    BY Zenon DEF classifyXrplResultCode, OutcomeClass
  <1>2. tracking \in TrackingStatus
    BY Zenon DEF TrackingStatus
  <1>3. validated \in BOOLEAN
    BY Zenon
  <1>4. tx.retries + 1 \in Nat
    BY DEF TxRow
  <1>5. SimulatedTx(tx, code) = [tx EXCEPT !.retries = tx.retries + 1, !.outcome = class,
                                           !.validated = validated, !.tracking = tracking]
    BY Zenon DEF SimulatedTx, TxRow
  <1> HIDE DEF class, tracking, validated
  <1> QED BY <1>1, <1>2, <1>3, <1>4, <1>5, Zenon DEF TxRow

\* A missed look-up of the policy worker builds a row of the transaction table.
LEMMA ProbedType == ASSUME NEW tx \in TxRow PROVE ProbedTx(tx) \in TxRow
  <1>1. tx.retries + 1 \in Nat
    BY DEF TxRow
  <1>2. [tx EXCEPT !.retries = tx.retries + 1] \in TxRow
    BY <1>1, Zenon DEF TxRow
  <1>3. [tx EXCEPT !.retries = tx.retries + 1, !.outcome = "manual_review",
                   !.tracking = "validated_fail", !.validated = FALSE] \in TxRow
    BY <1>1, Zenon DEF TxRow, OutcomeClass, TrackingStatus
  <1>4. ProbedTx(tx) \in {[tx EXCEPT !.retries = tx.retries + 1],
          [tx EXCEPT !.retries = tx.retries + 1, !.outcome = "manual_review",
                     !.tracking = "validated_fail", !.validated = FALSE]}
    BY Zenon DEF ProbedTx, TxRow
  <1> QED BY <1>2, <1>3, <1>4, Zenon

\* Returning from applyLiveTxStatus to any of its callers keeps the invariant.
LEMMA ReturnType ==
    ASSUME NEW l \in Local, Wellformed(l), Knows(l), l.h \in Hash
    PROVE  Return(l) \in Local /\ Wellformed(Return(l)) /\ Knows(Return(l))
           /\ Return(l).pc \in {"idle", "saveDispute", "jobDelete", "liveNext", "simNext"}
  <1> DEFINE back == [l EXCEPT !.tx = NoTxRow, !.es = NoDisputeRow, !.live = NotFound]
  <1>1. back \in Local /\ back.op = l.op /\ back.h = l.h /\ back.d = l.d /\ back.todo = l.todo
    BY EmptyRows, Zenon DEF Local
  <1>2. CASE l.op = "execute"
    <2> HIDE DEF back
    <2>1. Return(l) = [back EXCEPT !.pc = "saveDispute"]
      BY <1>2, Zenon DEF Return, back
    <2>2. Return(l) \in Local
      BY <1>1, <2>1, Zenon DEF Local, Label
    <2>3. /\ Return(l).pc = "saveDispute" /\ Return(l).op = l.op /\ Return(l).h = l.h
          /\ Return(l).d = l.d /\ Return(l).todo = l.todo
      BY <1>1, <2>1, Zenon DEF Local
    <2> QED BY <1>2, <2>2, <2>3, Zenon DEF Wellformed, Knows, HashPc
  <1>3. CASE l.op = "policy"
    <2> HIDE DEF back
    <2>1. Return(l) = [back EXCEPT !.pc = "jobDelete"]
      BY <1>3, Zenon DEF Return, back
    <2>2. Return(l) \in Local
      BY <1>1, <2>1, Zenon DEF Local, Label
    <2>3. /\ Return(l).pc = "jobDelete" /\ Return(l).op = l.op /\ Return(l).h = l.h
          /\ Return(l).d = l.d /\ Return(l).todo = l.todo
      BY <1>1, <2>1, Zenon DEF Local
    <2> QED BY <1>3, <2>2, <2>3, Zenon DEF Wellformed, Knows, HashPc
  <1>4. CASE l.op = "backfillLive"
    <2> HIDE DEF back
    <2>1. Return(l) = [back EXCEPT !.pc = "liveNext", !.h = NoHash]
      BY <1>4, Zenon DEF Return, back
    <2>2. Return(l) \in Local
      BY <1>1, <2>1, Zenon DEF Local, Label
    <2>3. /\ Return(l).pc = "liveNext" /\ Return(l).op = l.op /\ Return(l).h = NoHash
          /\ Return(l).d = l.d /\ Return(l).todo = l.todo
      BY <1>1, <2>1, Zenon DEF Local
    <2> QED BY <1>4, <2>2, <2>3, Zenon DEF Wellformed, Knows, HashPc
  <1>5. CASE l.op = "backfillSim"
    <2> HIDE DEF back
    <2>1. Return(l) = [back EXCEPT !.pc = "simNext", !.h = NoHash]
      BY <1>5, Zenon DEF Return, back
    <2>2. Return(l) \in Local
      BY <1>1, <2>1, Zenon DEF Local, Label
    <2>3. /\ Return(l).pc = "simNext" /\ Return(l).op = l.op /\ Return(l).h = NoHash
          /\ Return(l).d = l.d /\ Return(l).todo = l.todo
      BY <1>1, <2>1, Zenon DEF Local
    <2> QED BY <1>5, <2>2, <2>3, Zenon DEF Wellformed, Knows, HashPc
  <1>6. CASE l.op \notin {"execute", "policy", "backfillLive", "backfillSim"}
    <2>1. Return(l) = Idle
      BY <1>6, Zenon DEF Return
    <2> QED BY <2>1, IdleIsLocal DEF Idle
  <1> QED BY <1>2, <1>3, <1>4, <1>5, <1>6, Zenon

\* What is known of a call about to take a step.
LEMMA CallType ==
    ASSUME TypeInv, NEW p \in Proc
    PROVE  /\ proc[p] \in Local /\ Wellformed(proc[p]) /\ Knows(proc[p])
           /\ proc[p].todo \in SUBSET Hash /\ proc[p].tx \in TxRow
           /\ proc[p].rows \in [Hash -> TxRow]
           /\ proc[p].ds \in DisputeRow /\ proc[p].es \in DisputeRow
           /\ \A h \in Hash : txs[h] \in TxRow
           /\ \A d \in Dispute : disputes[d] \in DisputeRow
  BY Zenon DEF TypeInv, TypeOK, Calls, Local

\* Saving a row of the transaction table keeps the table typed.
LEMMA SaveTxType ==
    ASSUME TypeInv, NEW h, NEW row \in TxRow, SaveTx(h, row)
    PROVE  txs' \in [Hash -> TxRow] /\ aged' \subseteq Hash
  BY Zenon DEF TypeInv, TypeOK, SaveTx

\* What rippled answers about a hash is a live status.
LEMMA AnswerType ==
    ASSUME TypeInv, NEW h, NEW live, GetTxStatus(h, live)
    PROVE  (UNCHANGED faults \/ Fault) /\ live \in Live
  <1>1. \A v \in BOOLEAN, c \in Code : Found(v, c) \in Live
    BY Zenon DEF Found, Live
  <1>2. TxAnswers(h) \subseteq Live
    <2>1. CASE ledger[h] \in Final
      BY <1>1, <2>1, Zenon DEF TxAnswers, Final, Code
    <2>2. CASE ledger[h] \notin Final /\ ledger[h] = "open"
      BY <1>1, <2>2, Zenon DEF TxAnswers, Code
    <2>3. CASE ledger[h] \notin Final /\ ledger[h] # "open"
      BY EmptyRows, <2>3, Zenon DEF TxAnswers
    <2> QED BY <2>1, <2>2, <2>3, Zenon
  <1> QED BY <1>2, EmptyRows, Zenon DEF GetTxStatus

\* Every await of applyLiveTxStatus keeps the invariant.
LEMMA ApplyType ==
    ASSUME TypeInv, NEW p \in Proc, ApplyStep(p) PROVE TypeInv'
  <1> DEFINE l == proc[p]
  <1>0. /\ l \in Local /\ Wellformed(l) /\ Knows(l) /\ l.tx \in TxRow /\ l.es \in DisputeRow
        /\ \A h \in Hash : txs[h] \in TxRow
        /\ \A d \in Dispute : disputes[d] \in DisputeRow
    BY CallType, Zenon
  <1>1. CASE ApplyRead(p)
    <2>1. l.h \in Hash /\ l.pc = "applyRead"
      BY <1>0, <1>1, Zenon DEF ApplyRead, At, Wellformed, HashPc
    <2> DEFINE tx == AppliedTx(txs[l.h], l)
               next == [l EXCEPT !.pc = "applySave", !.tx = tx]
    <2>2. tx \in TxRow
      BY <1>0, <2>1, AppliedType, Zenon
    <2>3. next \in Local /\ Wellformed(next) /\ Knows(next) /\ next.pc = "applySave"
      <3> HIDE DEF tx
      <3>1. next \in Local
        BY <1>0, <2>2, Zenon DEF Local, Label
      <3> QED BY <1>0, <2>1, <3>1, Zenon DEF Local, Wellformed, Knows, HashPc
    <2>4. Continue(p, next) \/ Continue(p, Return(l))
      BY <1>0, <1>1, Zenon DEF ApplyRead
    <2> HIDE DEF next
    <2> QED BY <1>0, <1>1, <2>1, <2>3, <2>4, ReturnType, ContinueType, Zenon DEF ApplyRead
  <1>2. CASE ApplySave(p)
    <2>1. l.h \in Hash /\ l.pc = "applySave"
      BY <1>0, <1>2, Zenon DEF ApplySave, At, Wellformed, HashPc
    <2> DEFINE next == [l EXCEPT !.pc = "verdictRead"]
    <2>2. next \in Local /\ Knows(next) /\ next.pc = "verdictRead"
      BY <1>0, <2>1, Zenon DEF Local, Label, Knows
    <2>3. l.tx.dispute # NoDispute => Wellformed(next)
      BY <1>0, <2>1, Zenon DEF Local, TxRow, Wellformed, HashPc
    <2>4. \/ Become(p, next) /\ l.tx.dispute # NoDispute
          \/ Become(p, Return(l))
      BY <1>0, <1>2, Zenon DEF ApplySave
    <2>5. proc' \in [Proc -> Local] /\ Calls'
      <3> HIDE DEF next
      <3> QED BY <1>0, <1>2, <2>1, <2>2, <2>3, <2>4, ReturnType, BecomeType, Zenon DEF ApplySave
    <2>6. txs' \in [Hash -> TxRow] /\ aged' \subseteq Hash
      BY <1>0, <1>2, SaveTxType, Zenon DEF ApplySave
    <2> QED BY <1>0, <1>2, <2>5, <2>6, Zenon DEF ApplySave, TypeInv, TypeOK
  <1>3. CASE VerdictRead(p)
    <2>1. l.h \in Hash /\ l.pc = "verdictRead" /\ l.tx.dispute \in Dispute
      BY <1>0, <1>3, Zenon DEF VerdictRead, At, Wellformed, HashPc
    <2> DEFINE row == disputes[l.tx.dispute]
               es == [row EXCEPT !.status =
                         IF l.tx.outcome = "success" THEN "executed" ELSE "rejected"]
               next == [l EXCEPT !.pc = "verdictSave", !.es = es]
    <2>2. es \in DisputeRow
      BY <1>0, <2>1, Zenon DEF DisputeRow, DisputeStatus
    <2>3. next \in Local /\ Wellformed(next) /\ Knows(next) /\ next.pc = "verdictSave"
      <3> HIDE DEF es
      <3>1. next \in Local
        BY <1>0, <2>2, Zenon DEF Local, Label
      <3> QED BY <1>0, <2>1, <3>1, Zenon DEF Local, Wellformed, Knows, HashPc
    <2>4. Continue(p, next) \/ Continue(p, Return(l))
      BY <1>0, <1>3, Zenon DEF VerdictRead
    <2> HIDE DEF next
    <2> QED BY <1>0, <1>3, <2>1, <2>3, <2>4, ReturnType, ContinueType, Zenon DEF VerdictRead
  <1>4. CASE VerdictSave(p)
    <2>1. l.h \in Hash /\ l.pc = "verdictSave"
      BY <1>0, <1>4, Zenon DEF VerdictSave, At, Wellformed, HashPc
    <2>2. proc' \in [Proc -> Local] /\ Calls'
      BY <1>0, <1>4, <2>1, ReturnType, BecomeType, Zenon DEF VerdictSave
    <2>3. disputes' \in [Dispute -> DisputeRow]
      BY <1>0, <1>4, Zenon DEF VerdictSave, TypeInv, TypeOK
    <2> QED BY <1>0, <1>4, <2>2, <2>3, Zenon DEF VerdictSave, TypeInv, TypeOK
  <1> QED BY <1>0, <1>1, <1>2, <1>3, <1>4, Zenon DEF ApplyStep

\* The end of a submission: its hash leaves "absent", which no other call relies on.
LEMMA SubmitType ==
    ASSUME TypeInv, NEW p \in Proc, NEW l \in Local, NEW state \in {"absent", "open"} \cup Final,
           At(p, "submit"), ledger' = [ledger EXCEPT ![proc[p].h] = state], Become(p, l),
           UNCHANGED faults \/ Fault, Wellformed(l), l.pc \in {"status", "idle"},
           l.op = "backfillLive" => l.todo = {},
           UNCHANGED <<txs, aged, disputes, decisions, job, ingested, requests,
                       requested, simulated, tried>>
    PROVE  TypeInv'
  <1>1. proc[p] \in Local /\ Wellformed(proc[p]) /\ Knows(proc[p])
    BY CallType, Zenon
  <1>2. proc[p].h \in Hash /\ ledger[proc[p].h] = "absent"
    BY <1>1, Zenon DEF At, Wellformed, Knows, HashPc
  <1>3. LedgerKeeps(p)
    <2>1. \A h \in Hash : h # proc[p].h => ledger'[h] = ledger[h]
      BY <1>2, Zenon DEF TypeInv, TypeOK
    <2>2. \A q \in Proc : At(q, "submit") /\ proc[q].h = proc[p].h => q = p
      BY Zenon DEF TypeInv, Calls, OneSubmitter
    <2>3. \A q \in Proc : At(q, "submit") => proc[q].h \in Hash
      BY CallType, Zenon DEF At, Wellformed, HashPc
    <2>4. \A h \in Hash : ledger[h] \in Final => ledger'[h] = ledger[h]
      BY <1>2, <2>1, Zenon DEF Final
    <2>5. \A q \in Proc \ {p} : At(q, "submit") => ledger'[proc[q].h] = ledger[proc[q].h]
      BY <2>1, <2>2, <2>3, Zenon
    <2> QED BY <2>4, <2>5, Zenon DEF LedgerKeeps
  <1>4. proc' = [proc EXCEPT ![p] = l] /\ proc'[p] = l
    BY Zenon DEF Become, TypeInv, TypeOK
  <1>5. Proceeds(p)
    BY <1>4, Zenon DEF Proceeds, Wellformed, Knows
  <1>6. proc' \in [Proc -> Local] /\ Calls'
    BY <1>3, <1>5, CallStep, Zenon
  <1>7. faults' \in 0 .. MaxFaults
    BY ConstantsAssumption DEF TypeInv, TypeOK, Fault
  <1> QED BY <1>6, <1>7, Zenon DEF TypeInv, TypeOK

\* Every await of every route handler keeps the invariant.
LEMMA HandlerType ==
    ASSUME TypeInv, NEW p \in Proc, HandlerStep(p) PROVE TypeInv'
  <1> DEFINE l == proc[p]
  <1>0. /\ l \in Local /\ Wellformed(l) /\ Knows(l) /\ l.tx \in TxRow /\ l.ds \in DisputeRow
        /\ l.rows \in [Hash -> TxRow] /\ l.todo \subseteq Hash
        /\ \A h \in Hash : txs[h] \in TxRow
    BY CallType, Zenon
  <1>1. CASE SaveDecision(p)
    <2> DEFINE next == [l EXCEPT !.pc = "saveDispute"]
    <2>1. next \in Local /\ Wellformed(next) /\ Knows(next) /\ next.pc = "saveDispute"
      BY <1>0, <1>1 DEF SaveDecision, At, Local, Label, Wellformed, Knows, HashPc
    <2>2. proc' \in [Proc -> Local] /\ Calls'
      BY <1>1, <2>1, BecomeType, Zenon DEF SaveDecision
    <2>3. decisions' \in [Dispute -> Nat]
      <3>1. l.d \in Dispute
        BY <1>0, <1>1, Zenon DEF SaveDecision, At, Wellformed
      <3>2. decisions[l.d] + 1 \in Nat
        BY <3>1 DEF TypeInv, TypeOK
      <3> QED BY <1>1, <3>1, <3>2, Zenon DEF SaveDecision, TypeInv, TypeOK
    <2> QED BY <1>1, <2>2, <2>3, Zenon DEF SaveDecision, TypeInv, TypeOK
  <1>2. CASE SaveDispute(p)
    <2>1. proc' \in [Proc -> Local] /\ Calls'
      BY <1>2, IdleIsLocal, BecomeType, Zenon DEF SaveDispute, Idle
    <2>2. disputes' \in [Dispute -> DisputeRow]
      BY <1>0, <1>2, Zenon DEF SaveDispute, TypeInv, TypeOK
    <2> QED BY <1>2, <2>1, <2>2, Zenon DEF SaveDispute, TypeInv, TypeOK
  <1>3. CASE UpsertRead(p)
    <2>1. l.h \in Hash
      BY <1>0, <1>3, Zenon DEF UpsertRead, At, Wellformed, HashPc
    <2> DEFINE next == [l EXCEPT !.pc = "upsertSave", !.tx = txs[l.h]]
    <2>2. next \in Local
      BY <1>0, <2>1, Zenon DEF Local, Label
    <2>3. Wellformed(next) /\ Knows(next) /\ next.pc = "upsertSave"
      BY <1>0, <2>1, <2>2, Zenon DEF Local, Wellformed, Knows, HashPc
    <2> QED BY <1>3, <2>2, <2>3, ContinueType, Zenon DEF UpsertRead
  <1>4. CASE UpsertSave(p)
    <2>1. l.h \in Hash /\ l.pc = "upsertSave"
      BY <1>0, <1>4, Zenon DEF UpsertSave, At, Wellformed, HashPc
    <2>2. txs' \in [Hash -> TxRow] /\ aged' \subseteq Hash
      BY <1>0, <1>4, UpsertedType, SaveTxType, Zenon DEF UpsertSave
    <2>3. ASSUME NEW pc \in {"applyRead", "saveDispute", "status"},
                 pc = "saveDispute" => l.op = "execute",
                 AfterUpsert(l) = [l EXCEPT !.pc = pc, !.tx = NoTxRow]
          PROVE  /\ AfterUpsert(l) \in Local /\ Wellformed(AfterUpsert(l))
                 /\ Knows(AfterUpsert(l)) /\ AfterUpsert(l).pc # "submit"
      <3>1. AfterUpsert(l) \in Local
        BY <1>0, <2>3, EmptyRows, ZenonT(40) DEF Local, Label
      <3>2. /\ AfterUpsert(l).pc = pc /\ AfterUpsert(l).op = l.op /\ AfterUpsert(l).h = l.h
            /\ AfterUpsert(l).d = l.d /\ AfterUpsert(l).todo = l.todo
        BY <1>0, <2>3, Zenon DEF Local
      <3> QED BY <1>0, <2>1, <2>3, <3>1, <3>2, Zenon DEF Wellformed, Knows, HashPc
    <2>4. \/ AfterUpsert(l) = Idle
          \/ \E pc \in {"applyRead", "saveDispute", "status"} :
                /\ AfterUpsert(l) = [l EXCEPT !.pc = pc, !.tx = NoTxRow]
                /\ pc = "saveDispute" => l.op = "execute"
      BY DEF AfterUpsert
    <2>5. AfterUpsert(l) \in Local /\ Wellformed(AfterUpsert(l)) /\ Knows(AfterUpsert(l))
          /\ AfterUpsert(l).pc # "submit"
      <3>1. CASE AfterUpsert(l) = Idle
        <4>1. Idle.pc # "submit"
          BY Zenon DEF Idle
        <4> QED BY <3>1, <4>1, IdleIsLocal, Zenon
      <3> QED BY <2>3, <2>4, <3>1, Zenon
    <2>6. proc' \in [Proc -> Local] /\ Calls'
      BY <1>4, <2>5, BecomeType, Zenon DEF UpsertSave
    <2>7. requested' \subseteq Dispute \X Hash
      <3>1. l.op = "execute" => l.d \in Dispute
        BY <1>0, Zenon DEF Wellformed
      <3>2. requested' = requested \cup IF l.op = "execute" THEN {<<l.d, l.h>>} ELSE {}
        BY <1>4, Zenon DEF UpsertSave
      <3>3. requested \subseteq Dispute \X Hash
        BY Zenon DEF TypeInv, TypeOK
      <3> QED BY <2>1, <3>1, <3>2, <3>3
    <2> QED BY <1>4, <2>2, <2>6, <2>7, Zenon DEF UpsertSave, TypeInv, TypeOK
  <1>5. CASE SimList(p)
    <2> DEFINE some == {h \in Hash : txs[h].tracked /\ ~txs[h].validated}
               next == [l EXCEPT !.pc = "simNext", !.rows = txs, !.todo = some]
    <2>1. txs \in [Hash -> TxRow] /\ some \subseteq Hash
      BY Zenon DEF TypeInv, TypeOK
    <2>2. l.op = "backfillSim"
      BY <1>0, <1>5, Zenon DEF SimList, At, Wellformed
    <2>3. next \in Local
      <3> HIDE DEF some
      <3> QED BY <1>0, <2>1, Zenon DEF Local, Label
    <2>4. Wellformed(next) /\ Knows(next) /\ next.pc = "simNext"
      BY <1>0, <2>2, Zenon DEF Local, Wellformed, Knows, HashPc
    <2> QED BY <1>5, <2>3, <2>4, ContinueType, Zenon DEF SimList
  <1>6. CASE SimSave(p)
    <2>1. l.h \in Hash /\ l.op = "backfillSim"
      BY <1>0, <1>6, Zenon DEF SimSave, At, Wellformed, HashPc
    <2> DEFINE live == Found(l.tx.validated, SimulatedCode(l.rows[l.h], l.code))
               next == [l EXCEPT !.pc = "applyRead", !.tx = NoTxRow, !.live = live]
    <2>2. live \in Live
      BY <1>0, Zenon DEF Found, Live, SimulatedCode, Local, TxRow, Code
    <2>3. next \in Local
      <3> HIDE DEF live
      <3> QED BY <1>0, <2>2, EmptyRows, Zenon DEF Local, Label
    <2>4. Wellformed(next) /\ Knows(next) /\ next.pc = "applyRead"
      BY <1>0, <2>1, Zenon DEF Local, Wellformed, Knows, HashPc
    <2>5. proc' \in [Proc -> Local] /\ Calls'
      BY <1>6, <2>3, <2>4, BecomeType, Zenon DEF SimSave
    <2>6. txs' \in [Hash -> TxRow] /\ aged' \subseteq Hash
      BY <1>0, <1>6, SaveTxType, Zenon DEF SimSave
    <2>7. simulated' \subseteq Hash
      BY <1>6, <2>1, Zenon DEF SimSave, TypeInv, TypeOK
    <2>8. tried' \in [Hash -> 0 .. MaxProbes]
      BY <1>6, <2>1, ConstantsAssumption DEF SimSave, CountTry, TypeInv, TypeOK
    <2> QED BY <1>6, <2>5, <2>6, <2>7, <2>8, Zenon DEF SimSave, TypeInv, TypeOK
  <1>7. CASE BackfillDone(p)
    BY <1>7, IdleIsLocal, ContinueType, Zenon DEF BackfillDone, Idle
  <1>8. ASSUME NEW h \in Hash, LiveNext(p, h) PROVE TypeInv'
    <2>1. l.op = "backfillLive" /\ h \in l.todo /\ ledger[h] \in Final
      BY <1>0, <1>8, Zenon DEF LiveNext, At, Wellformed, Knows
    <2> DEFINE live == Found(TRUE, ledger[h])
               next == [l EXCEPT !.pc = "applyRead", !.h = h, !.todo = @ \ {h}, !.live = live]
    <2>2. live \in Live
      BY <2>1, Zenon DEF Found, Live, Final, Code
    <2>3. next \in Local
      <3> HIDE DEF live
      <3> QED BY <1>0, <2>2, Zenon DEF Local, Label
    <2>4. Wellformed(next) /\ Knows(next) /\ next.pc = "applyRead"
      BY <1>0, <2>1, Zenon DEF Local, Wellformed, Knows, HashPc
    <2> QED BY <1>8, <2>3, <2>4, ContinueType, Zenon DEF LiveNext
  <1>9. ASSUME NEW h \in Hash, SimNext(p, h) PROVE TypeInv'
    <2>1. l.op = "backfillSim"
      BY <1>0, <1>9, Zenon DEF SimNext, At, Wellformed
    <2> DEFINE tx == SimulatedTx(l.rows[h], l.code)
               next == [l EXCEPT !.pc = "simSave", !.h = h, !.todo = @ \ {h}, !.tx = tx]
    <2>2. tx \in TxRow
      BY <1>0, SimulatedType, Zenon
    <2>3. next \in Local
      <3> HIDE DEF tx
      <3> QED BY <1>0, <2>2, Zenon DEF Local, Label
    <2>4. Wellformed(next) /\ Knows(next) /\ next.pc = "simSave"
      BY <1>0, <2>1, Zenon DEF Local, Wellformed, Knows, HashPc
    <2> QED BY <1>9, <2>3, <2>4, ContinueType, Zenon DEF SimNext
  <1>10. ASSUME NEW result \in Final, Submitted(p, result) PROVE TypeInv'
    <2> DEFINE next == [l EXCEPT !.pc = "status"]
    <2>1. next \in Local /\ Wellformed(next) /\ next.pc = "status" /\ next.op = "execute"
      BY <1>0, <1>10, Zenon DEF Submitted, At, Local, Label, Wellformed, HashPc
    <2> QED BY <1>10, <2>1, SubmitType, Zenon DEF Submitted, Final
  <1>11. ASSUME NEW live \in Live, StatusOfExecution(p, live) PROVE TypeInv'
    <2> DEFINE next == [l EXCEPT !.pc = "upsertRead", !.live = live]
    <2>1. next \in Local
      BY <1>0, Zenon DEF Local, Label
    <2>2. Wellformed(next) /\ Knows(next) /\ next.pc = "upsertRead"
      BY <1>0, <1>11, Zenon DEF StatusOfExecution, At, Local, Wellformed, Knows, HashPc
    <2>3. Continue(p, next) \/ Continue(p, Idle)
      BY <1>11, Zenon DEF StatusOfExecution
    <2>4. UNCHANGED faults \/ Fault
      BY <1>11, AnswerType, Zenon DEF StatusOfExecution
    <2> HIDE DEF next
    <2> QED BY <2>1, <2>2, <2>3, <2>4, IdleIsLocal, ContinueType, Zenon DEF Idle
  <1>12. ASSUME NEW live \in Live, StatusOfRefresh(p, live) PROVE TypeInv'
    <2> DEFINE next == [l EXCEPT !.pc = "applyRead", !.live = live]
    <2>1. next \in Local
      BY <1>0, Zenon DEF Local, Label
    <2>2. Wellformed(next) /\ Knows(next) /\ next.pc = "applyRead"
      BY <1>0, <1>12, Zenon DEF StatusOfRefresh, At, Local, Wellformed, Knows, HashPc
    <2>3. Continue(p, next) \/ Continue(p, Idle)
      BY <1>12, Zenon DEF StatusOfRefresh
    <2>4. UNCHANGED faults \/ Fault
      BY <1>12, AnswerType, Zenon DEF StatusOfRefresh
    <2> HIDE DEF next
    <2> QED BY <2>1, <2>2, <2>3, <2>4, IdleIsLocal, ContinueType, Zenon DEF Idle
  <1>13. ASSUME NEW some \in SUBSET Hash, BackfillLive(p, some) PROVE TypeInv'
    <2> DEFINE next == [l EXCEPT !.pc = "liveNext", !.todo = some]
    <2>1. next \in Local
      BY <1>0, Zenon DEF Local, Label
    <2>2. Wellformed(next) /\ Knows(next) /\ next.pc = "liveNext"
      BY <1>0, <1>13, Zenon DEF BackfillLive, At, Local, Wellformed, Knows, HashPc
    <2> QED BY <1>13, <2>1, <2>2, ContinueType, Zenon DEF BackfillLive
  <1>14. CASE ApplyStep(p)
    BY <1>14, ApplyType, Zenon
  <1> QED BY <1>1, <1>2, <1>3, <1>4, <1>5, <1>6, <1>7, <1>8, <1>9, <1>10, <1>11, <1>12,
             <1>13, <1>14, Zenon DEF HandlerStep

\* A handler that throws, or falls back after a live backfill fails, keeps it.
LEMMA HandlerFailsType ==
    ASSUME TypeInv, NEW p \in Proc, HandlerFails(p) PROVE TypeInv'
  <1> DEFINE l == proc[p]
  <1>0. l \in Local /\ Wellformed(l) /\ Knows(l)
    BY CallType, Zenon
  <1>1. ASSUME NEW state \in {"absent", "open"} \cup Final, SubmitFails(p, state)
        PROVE  TypeInv'
    BY <1>1, IdleIsLocal, SubmitType, Zenon DEF SubmitFails, Idle
  <1>2. CASE StatusThrows(p)
    BY <1>2, IdleIsLocal, ContinueType, Zenon DEF StatusThrows, Idle
  <1>3. CASE BackfillFallsBack(p)
    <2> DEFINE next == [l EXCEPT !.pc = "simList", !.op = "backfillSim"]
    <2>1. next \in Local
      BY <1>0, Zenon DEF Local, Label, Operation
    <2>2. Wellformed(next) /\ Knows(next) /\ next.pc = "simList"
      BY <1>0, <1>3, Zenon DEF BackfillFallsBack, At, Local, Wellformed, Knows, HashPc
    <2> QED BY <1>3, <2>1, <2>2, ContinueType, Zenon DEF BackfillFallsBack
  <1> QED BY <1>1, <1>2, <1>3, Zenon DEF HandlerFails

\* Taking a message from the transaction stream keeps the invariant.
LEMMA ReceiveType ==
    ASSUME TypeInv, NEW p \in Proc, NEW h \in Hash, Receive(p, h) PROVE TypeInv'
  <1> DEFINE next == [Idle EXCEPT !.pc = "ingest", !.op = "stream", !.h = h]
  <1>1. next \in Local
    BY IdleIsLocal, Zenon DEF Local, Label, Operation
  <1>2. Wellformed(next) /\ Knows(next) /\ next.pc = "ingest"
    BY Zenon DEF Receive, Idle, Wellformed, Knows, HashPc
  <1> QED BY <1>1, <1>2, ContinueType, Zenon DEF Receive

\* Every await of the stream handler keeps the invariant.
LEMMA StreamType ==
    ASSUME TypeInv, NEW p \in Proc, StreamStep(p) PROVE TypeInv'
  <1> DEFINE l == proc[p]
  <1>0. l \in Local /\ Wellformed(l) /\ Knows(l)
    BY CallType, Zenon
  <1>1. CASE Ingest(p)
    <2>1. l.h \in Hash /\ ledger[l.h] \in Final
      BY <1>0, <1>1, Zenon DEF Ingest, At, Wellformed, Knows, HashPc
    <2> DEFINE live == Found(TRUE, ledger[l.h])
               next == [l EXCEPT !.pc = "applyRead", !.live = live]
    <2>2. live \in Live
      BY <2>1, Zenon DEF Found, Live, Final, Code
    <2>3. next \in Local
      <3> HIDE DEF live
      <3> QED BY <1>0, <2>2, Zenon DEF Local, Label
    <2>4. Wellformed(next) /\ Knows(next) /\ next.pc = "applyRead"
      BY <1>0, <1>1, <2>1, Zenon DEF Ingest, At, Local, Wellformed, Knows, HashPc
    <2>5. Become(p, next) \/ Become(p, Idle)
      BY <1>1, Zenon DEF Ingest
    <2>6. proc' \in [Proc -> Local] /\ Calls'
      <3> HIDE DEF next
      <3> QED BY <1>1, <2>3, <2>4, <2>5, IdleIsLocal, BecomeType, Zenon DEF Ingest, Idle
    <2> QED BY <1>1, <2>1, <2>6, Zenon DEF Ingest, TypeInv, TypeOK
  <1>2. CASE ApplyStep(p)
    BY <1>2, ApplyType, Zenon
  <1> QED BY <1>1, <1>2, Zenon DEF StreamStep

\* Every await of the policy worker's tick keeps the invariant.
LEMMA WorkerType ==
    ASSUME TypeInv, NEW p \in Proc, WorkerStep(p) \/ ProbeThrows(p) PROVE TypeInv'
  <1> DEFINE l == proc[p]
  <1>0. /\ l \in Local /\ Wellformed(l) /\ Knows(l) /\ l.tx \in TxRow /\ l.todo \subseteq Hash
        /\ \A h \in Hash : txs[h] \in TxRow
    BY CallType, Zenon
  <1>1. ASSUME NEW some \in SUBSET Hash, Tick(p, some) PROVE TypeInv'
    <2> DEFINE old == {h \in aged : isPolicyCandidate(txs[h])}
               next == [Idle EXCEPT !.pc = "accounts", !.op = "policy", !.acct = some,
                                    !.todo = old]
    <2>1. old \subseteq Hash
      BY Zenon DEF TypeInv, TypeOK
    <2>2. next \in Local
      <3> HIDE DEF old
      <3> QED BY <2>1, IdleIsLocal, Zenon DEF Local, Label, Operation
    <2>3. Wellformed(next) /\ Knows(next) /\ next.pc = "accounts"
      BY Zenon DEF Idle, Wellformed, Knows, HashPc
    <2> QED BY <1>1, <2>2, <2>3, ContinueType, Zenon DEF Tick
  <1>2. ASSUME NEW h \in Hash, NEW live \in Live, AccountStatus(p, h, live) PROVE TypeInv'
    <2> DEFINE skip == [l EXCEPT !.acct = @ \ {h}]
               next == [skip EXCEPT !.pc = "accountRead", !.h = h]
    <2>1. l.pc = "accounts" /\ l.op = "policy"
      BY <1>0, <1>2, Zenon DEF AccountStatus, At, Wellformed
    <2>2. skip \in Local /\ next \in Local
      BY <1>0, Zenon DEF Local, Label
    <2>3. Wellformed(skip) /\ Knows(skip) /\ skip.pc = "accounts"
      BY <1>0, <2>1, Zenon DEF Local, Wellformed, Knows, HashPc
    <2>4. Wellformed(next) /\ Knows(next) /\ next.pc = "accountRead"
      BY <1>0, <2>1, Zenon DEF Local, Wellformed, Knows, HashPc
    <2>5. Continue(p, next) \/ Continue(p, skip)
      BY <1>2, Zenon DEF AccountStatus
    <2>6. UNCHANGED faults \/ Fault
      BY <1>2, AnswerType, Zenon DEF AccountStatus
    <2> HIDE DEF skip, next
    <2> QED BY <2>2, <2>3, <2>4, <2>5, <2>6, ContinueType, Zenon
  <1>3. CASE AccountRead(p)
    <2>1. l.h \in Hash /\ l.op = "policy"
      BY <1>0, <1>3, Zenon DEF AccountRead, At, Wellformed, HashPc
    <2> DEFINE tx == [txs[l.h] EXCEPT !.account = TRUE]
               skip == [l EXCEPT !.pc = "accounts", !.h = NoHash]
               next == [l EXCEPT !.pc = "accountSave", !.tx = tx]
    <2>2. tx \in TxRow
      BY <1>0, <2>1, Zenon DEF TxRow
    <2>3. skip \in Local
      BY <1>0, Zenon DEF Local, Label
    <2>4. next \in Local
      <3> HIDE DEF tx
      <3> QED BY <1>0, <2>2, Zenon DEF Local, Label
    <2>5. Wellformed(skip) /\ Knows(skip) /\ skip.pc = "accounts"
      BY <1>0, <2>1, Zenon DEF Local, Wellformed, Knows, HashPc
    <2>6. Wellformed(next) /\ Knows(next) /\ next.pc = "accountSave"
      BY <1>0, <2>1, Zenon DEF Local, Wellformed, Knows, HashPc
    <2>7. Continue(p, next) \/ Continue(p, skip)
      BY <1>3, Zenon DEF AccountRead
    <2> HIDE DEF skip, next
    <2> QED BY <1>3, <2>3, <2>4, <2>5, <2>6, <2>7, ContinueType, Zenon DEF AccountRead
  <1>4. CASE AccountSave(p)
    <2> DEFINE next == [l EXCEPT !.pc = "accounts", !.h = NoHash, !.tx = NoTxRow]
    <2>1. next \in Local
      BY <1>0, EmptyRows, Zenon DEF Local, Label
    <2>2. Wellformed(next) /\ Knows(next) /\ next.pc = "accounts"
      BY <1>0, <1>4, Zenon DEF AccountSave, At, Local, Wellformed, Knows, HashPc
    <2>3. proc' \in [Proc -> Local] /\ Calls'
      BY <1>4, <2>1, <2>2, BecomeType, Zenon DEF AccountSave
    <2>4. txs' \in [Hash -> TxRow] /\ aged' \subseteq Hash
      BY <1>0, <1>4, SaveTxType, Zenon DEF AccountSave
    <2> QED BY <1>4, <2>3, <2>4, Zenon DEF AccountSave, TypeInv, TypeOK
  <1>5. ASSUME NEW h \in Hash, Enqueue(p, h) PROVE TypeInv'
    <2> DEFINE next == [l EXCEPT !.todo = @ \ {h}]
    <2>1. next \in Local
      BY <1>0, Zenon DEF Local
    <2>2. Wellformed(next) /\ Knows(next) /\ next.pc = "accounts"
      BY <1>0, <1>5, Zenon DEF Enqueue, At, Local, Wellformed, Knows, HashPc
    <2>3. proc' \in [Proc -> Local] /\ Calls'
      BY <1>5, <2>1, <2>2, BecomeType, Zenon DEF Enqueue
    <2>4. job' \in [Hash -> {"none", "waiting", "due", "leased"}]
      BY <1>5, Zenon DEF Enqueue, TypeInv, TypeOK
    <2> QED BY <1>5, <2>3, <2>4, Zenon DEF Enqueue, TypeInv, TypeOK
  <1>6. CASE Claim(p)
    <2> DEFINE due == {h \in Hash : job[h] = "due"}
               next == [l EXCEPT !.pc = "jobs", !.todo = due]
    <2>1. next \in Local
      BY <1>0, Zenon DEF Local, Label
    <2>2. Wellformed(next) /\ Knows(next) /\ next.pc = "jobs"
      BY <1>0, <1>6, Zenon DEF Claim, At, Local, Wellformed, Knows, HashPc
    <2>3. Become(p, next) \/ Become(p, Idle)
      BY <1>6, Zenon DEF Claim
    <2>4. proc' \in [Proc -> Local] /\ Calls'
      <3> HIDE DEF next
      <3> QED BY <1>6, <2>1, <2>2, <2>3, IdleIsLocal, BecomeType, Zenon DEF Claim, Idle
    <2>5. job' \in [Hash -> {"none", "waiting", "due", "leased"}]
      BY <1>6, Zenon DEF Claim, TypeInv, TypeOK
    <2> QED BY <1>6, <2>4, <2>5, Zenon DEF Claim, TypeInv, TypeOK
  <1>7. ASSUME NEW h \in Hash, JobRead(p, h) PROVE TypeInv'
    <2> DEFINE pc == IF isPolicyCandidate(txs[h]) THEN "probe" ELSE "jobDelete"
               next == [l EXCEPT !.h = h, !.todo = @ \ {h}, !.tx = txs[h], !.pc = pc]
    <2>1. pc \in {"probe", "jobDelete"}
      BY Zenon
    <2>2. next \in Local
      <3> HIDE DEF pc
      <3> QED BY <1>0, <2>1, Zenon DEF Local, Label
    <2>3. Wellformed(next) /\ Knows(next) /\ next.pc \in {"probe", "jobDelete"}
      <3> HIDE DEF pc
      <3> QED BY <1>0, <1>7, <2>1, Zenon DEF JobRead, At, Local, Wellformed, Knows, HashPc
    <2>4. Continue(p, next) /\ UNCHANGED faults
      BY <1>7, Zenon DEF JobRead
    <2> HIDE DEF next
    <2> QED BY <2>2, <2>3, <2>4, ContinueType, Zenon
  <1>8. ASSUME NEW live \in Live, Resolve(p, live), l.h \in Hash, UNCHANGED faults \/ Fault
        PROVE  TypeInv'
    <2> DEFINE next == [l EXCEPT !.pc = "applyRead", !.live = live, !.tx = NoTxRow]
    <2>1. next \in Local
      BY <1>0, EmptyRows, Zenon DEF Local, Label
    <2>2. Wellformed(next) /\ Knows(next) /\ next.pc = "applyRead"
      BY <1>0, <1>8, Zenon DEF Local, Wellformed, Knows, HashPc
    <2> QED BY <1>8, <2>1, <2>2, ContinueType, Zenon DEF Resolve
  <1>9. ASSUME NEW pc \in {"probeAccount", "reread"}, Continue(p, [l EXCEPT !.pc = pc]),
               l.h \in Hash, l.op = "policy", UNCHANGED faults \/ Fault
        PROVE  TypeInv'
    <2> DEFINE next == [l EXCEPT !.pc = pc]
    <2>1. next \in Local
      BY <1>0, Zenon DEF Local, Label
    <2>2. Wellformed(next) /\ Knows(next) /\ next.pc = pc
      BY <1>0, <1>9, Zenon DEF Local, Wellformed, Knows, HashPc
    <2> QED BY <1>9, <2>1, <2>2, ContinueType, Zenon
  <1>10. ASSUME NEW live \in Live, Probe(p, live) PROVE TypeInv'
    <2>1. l.h \in Hash /\ l.op = "policy"
      BY <1>0, <1>10, Zenon DEF Probe, At, Wellformed, HashPc
    <2>2. UNCHANGED faults \/ Fault
      BY <1>10, AnswerType, Zenon DEF Probe
    <2>3. \/ Resolve(p, live)
          \/ \E pc \in {"probeAccount", "reread"} : Continue(p, [l EXCEPT !.pc = pc])
      BY <1>10, Zenon DEF Probe
    <2> QED BY <1>8, <1>9, <2>1, <2>2, <2>3, Zenon
  <1>11. ASSUME NEW live \in Live, ProbeAccount(p, live) PROVE TypeInv'
    <2>1. l.h \in Hash /\ l.op = "policy"
      BY <1>0, <1>11, Zenon DEF ProbeAccount, At, Wellformed, HashPc
    <2>2. Resolve(p, live) \/ Continue(p, [l EXCEPT !.pc = "reread"])
      BY <1>11, Zenon DEF ProbeAccount
    <2> QED BY <1>8, <1>9, <1>11, <2>1, <2>2, Zenon DEF ProbeAccount
  <1>12. CASE ProbeThrows(p)
    <2> DEFINE next == [l EXCEPT !.pc = "bump", !.tx = NoTxRow]
    <2>1. next \in Local
      BY <1>0, EmptyRows, Zenon DEF Local, Label
    <2>2. Wellformed(next) /\ Knows(next) /\ next.pc = "bump"
      BY <1>0, <1>12, Zenon DEF ProbeThrows, Local, Wellformed, Knows, HashPc
    <2> QED BY <1>12, <2>1, <2>2, ContinueType, Zenon DEF ProbeThrows
  <1>13. CASE Reread(p)
    <2>1. l.h \in Hash /\ l.op = "policy"
      BY <1>0, <1>13, Zenon DEF Reread, At, Wellformed, HashPc
    <2> DEFINE tx == ProbedTx(txs[l.h])
               next == [l EXCEPT !.pc = "policySave", !.tx = tx]
    <2>2. tx \in TxRow
      BY <1>0, <2>1, ProbedType, Zenon
    <2>3. next \in Local
      <3> HIDE DEF tx
      <3> QED BY <1>0, <2>2, Zenon DEF Local, Label
    <2>4. Wellformed(next) /\ Knows(next) /\ next.pc = "policySave"
      BY <1>0, <2>1, Zenon DEF Local, Wellformed, Knows, HashPc
    <2>5. proc' \in [Proc -> Local] /\ Calls'
      BY <1>13, <2>3, <2>4, BecomeType, Zenon DEF Reread
    <2>6. tried' \in [Hash -> 0 .. MaxProbes]
      BY <1>13, <2>1, ConstantsAssumption DEF Reread, CountTry, TypeInv, TypeOK
    <2> QED BY <1>13, <2>5, <2>6, Zenon DEF Reread, TypeInv, TypeOK
  <1>14. CASE PolicySave(p)
    <2> DEFINE pc == IF l.tx.retries >= MaxProbes THEN "jobDelete" ELSE "bump"
               next == [l EXCEPT !.tx = NoTxRow, !.pc = pc]
    <2>1. pc \in {"jobDelete", "bump"}
      BY Zenon
    <2>2. next \in Local
      <3> HIDE DEF pc
      <3> QED BY <1>0, <2>1, EmptyRows, Zenon DEF Local, Label
    <2>3. Wellformed(next) /\ Knows(next) /\ next.pc \in {"jobDelete", "bump"}
      <3> HIDE DEF pc
      <3> QED BY <1>0, <1>14, <2>1, Zenon DEF PolicySave, At, Local, Wellformed, Knows, HashPc
    <2>4. proc' \in [Proc -> Local] /\ Calls'
      <3>1. Become(p, next) /\ UNCHANGED ledger
        BY <1>14, Zenon DEF PolicySave
      <3> HIDE DEF next
      <3> QED BY <2>2, <2>3, <3>1, BecomeType, Zenon
    <2>5. txs' \in [Hash -> TxRow] /\ aged' \subseteq Hash
      BY <1>0, <1>14, SaveTxType, Zenon DEF PolicySave
    <2> QED BY <1>14, <2>4, <2>5, Zenon DEF PolicySave, TypeInv, TypeOK
  <1>15. ASSUME NEW state \in {"none", "waiting"}, FinishJob(p, state), l.op = "policy"
         PROVE  TypeInv'
    <2> DEFINE next == [l EXCEPT !.pc = "jobs", !.h = NoHash, !.tx = NoTxRow]
    <2>1. next \in Local
      BY <1>0, EmptyRows, Zenon DEF Local, Label
    <2>2. Wellformed(next) /\ Knows(next) /\ next.pc = "jobs"
      BY <1>0, <1>15, Zenon DEF Local, Wellformed, Knows, HashPc
    <2>3. Become(p, next) \/ Become(p, Idle)
      BY <1>15, Zenon DEF FinishJob
    <2>4. proc' \in [Proc -> Local] /\ Calls'
      <3> HIDE DEF next
      <3> QED BY <1>15, <2>1, <2>2, <2>3, IdleIsLocal, BecomeType, Zenon DEF FinishJob, Idle
    <2>5. job' \in [Hash -> {"none", "waiting", "due", "leased"}]
      BY <1>15, Zenon DEF FinishJob, TypeInv, TypeOK
    <2> QED BY <1>15, <2>4, <2>5, Zenon DEF FinishJob, TypeInv, TypeOK
  <1>16. CASE JobDelete(p) \/ Bump(p)
    <2>1. l.op = "policy"
      BY <1>0, <1>16, Zenon DEF JobDelete, Bump, At, Wellformed
    <2> QED BY <1>15, <1>16, <2>1, Zenon DEF JobDelete, Bump
  <1>17. CASE ApplyStep(p)
    BY <1>17, ApplyType, Zenon
  <1> QED BY <1>1, <1>2, <1>3, <1>4, <1>5, <1>6, <1>7, <1>10, <1>11, <1>12, <1>13,
             <1>14, <1>16, <1>17, Zenon DEF WorkerStep

\* What the calls rely on is in the calls and the ledger alone.
LEMMA CallsUnchanged == ASSUME Calls, UNCHANGED <<proc, ledger>> PROVE Calls'
  BY Zenon DEF Calls, Wellformed, Knows, OneSubmitter, At

\* Filing, the passage of time, the ledger and a crash keep the invariant.
LEMMA EnvironmentType ==
    ASSUME TypeInv,
           \/ \E d \in Dispute : FileDispute(d)
           \/ \E h \in Hash : Age(h) \/ BecomeDue(h) \/ LedgerSubmit(h) \/ LedgerSettle(h)
           \/ Crash
    PROVE  TypeInv'
  <1>1. ASSUME NEW d \in Dispute, FileDispute(d) PROVE TypeInv'
    <2>1. disputes' \in [Dispute -> DisputeRow]
      BY <1>1, Zenon DEF FileDispute, TypeInv, TypeOK, DisputeRow, DisputeStatus, ReviewStatus
    <2>2. Calls'
      BY <1>1, CallsUnchanged, Zenon DEF FileDispute, TypeInv
    <2> QED BY <1>1, <2>1, <2>2, Zenon DEF FileDispute, TypeInv, TypeOK
  <1>2. ASSUME NEW h \in Hash, Age(h) \/ BecomeDue(h) PROVE TypeInv'
    <2>1. Calls'
      BY <1>2, CallsUnchanged, Zenon DEF Age, BecomeDue, TypeInv
    <2>2. TypeOK'
      BY <1>2, Zenon DEF Age, BecomeDue, TypeInv, TypeOK
    <2> QED BY <2>1, <2>2, Zenon DEF TypeInv
  <1>3. ASSUME NEW h \in Hash, LedgerSubmit(h) \/ LedgerSettle(h) PROVE TypeInv'
    <2>1. UNCHANGED <<txs, aged, disputes, decisions, job, ingested, proc, requests,
                      faults, requested, simulated, tried>>
      BY <1>3, Zenon DEF LedgerSubmit, LedgerSettle, LedgerMoves
    <2>2. TypeOK'
      BY <1>3, <2>1, Zenon DEF LedgerSubmit, LedgerSettle, LedgerMoves, TypeInv, TypeOK
    <2>3. ledger[h] \notin Final /\ \A g \in Hash \ {h} : ledger'[g] = ledger[g]
      BY <1>3, Zenon DEF LedgerSubmit, LedgerSettle, LedgerMoves, Final, TypeInv, TypeOK
    <2>4. \A p \in Proc : At(p, "submit") => proc[p].h \in Hash \ {h}
      BY <1>3, CallType, Zenon DEF LedgerSubmit, LedgerSettle, LedgerMoves, Wellformed, Knows,
         HashPc, At
    <2>5. ASSUME NEW p \in Proc PROVE Knows(proc[p])'
      <3>1. proc[p] \in Local /\ Wellformed(proc[p]) /\ Knows(proc[p])
            /\ proc[p].todo \in SUBSET Hash
        BY CallType, Zenon
      <3> QED BY <2>1, <2>3, <2>4, <3>1, Zenon DEF Knows, Wellformed, HashPc, At
    <2>6. Calls'
      BY <2>1, <2>5, Zenon DEF TypeInv, Calls, Wellformed, OneSubmitter, At
    <2> QED BY <2>2, <2>6, Zenon DEF TypeInv
  <1>4. CASE Crash
    <2>1. \A p \in Proc : proc'[p] = Idle
      BY <1>4, Zenon DEF Crash
    <2>2. Calls'
      BY <2>1, IdleIsLocal DEF Calls, OneSubmitter, At, Idle, Wellformed, Knows
    <2>3. proc' \in [Proc -> Local] /\ faults' \in 0 .. MaxFaults
      BY <1>4, IdleIsLocal, ConstantsAssumption DEF Crash, Fault, TypeInv, TypeOK
    <2> QED BY <1>4, <2>2, <2>3, Zenon DEF Crash, TypeInv, TypeOK
  <1> QED BY <1>1, <1>2, <1>3, <1>4, Zenon

\* The invariant is inductive.
LEMMA NextTypeInv == TypeInv /\ [Next]_vars => TypeInv'
  <1> SUFFICES ASSUME TypeInv, [Next]_vars PROVE TypeInv'
    BY Zenon
  <1> USE DEF Proc
  <1>1. ASSUME NEW p \in Handler, Request(p) \/ HandlerStep(p) \/ HandlerFails(p)
        PROVE  TypeInv'
    BY <1>1, RequestType, HandlerType, HandlerFailsType, Zenon
  <1>2. ASSUME NEW p \in Stream, (\E h \in Hash : Receive(p, h)) \/ StreamStep(p)
        PROVE  TypeInv'
    BY <1>2, ReceiveType, StreamType, Zenon
  <1>3. ASSUME NEW p \in Worker, WorkerStep(p) \/ ProbeThrows(p) PROVE TypeInv'
    BY <1>3, WorkerType, Zenon
  <1>4. CASE UNCHANGED vars
    BY <1>4, Zenon DEF vars, TypeInv, TypeOK, Calls, Wellformed, Knows, OneSubmitter, At
  <1> QED BY <1>1, <1>2, <1>3, <1>4, EnvironmentType, Zenon DEF Next

\* Every row that the handlers, the stream and the worker save, and every copy they
\* hold across an await, has the shape the code gives it, for any number of calls.
THEOREM TypeCorrect == Spec => []TypeOK
  <1>1. TypeInv => TypeOK
    BY Zenon DEF TypeInv
  <1> QED BY <1>1, InitTypeInv, NextTypeInv, PTL DEF Spec

-----------------------------------------------------------------------------
(* The safety invariants.  The argument: the facts that justify a row      *)
(* (results of validated ledgers, recorded executions, decisions, failed   *)
(* look-ups) only accumulate, so a row that was justified when a call read *)
(* it is justified when the call saves it, however stale it is by then.    *)

Facts == [ledger |-> ledger, requested |-> requested, simulated |-> simulated,
          decisions |-> decisions, tried |-> tried]

Justifies(f, h, result) == f.ledger[h] = result \/ h \in f.simulated

Result(success) == IF success THEN "tes" ELSE "tec"

\* A row of xrpl_txs, in the table or in the hands of a call.
RowSound(f, h, row) ==
    /\ row.dispute # NoDispute => <<row.dispute, h>> \in f.requested
    /\ row.validated => Justifies(f, h, Result(row.outcome = "success"))
    /\ row.retries <= f.tried[h] \/ MaxProbes <= f.tried[h]
    /\ Exhausted(row) => MaxProbes <= f.tried[h]

LiveSound(f, h, live) == live.validated => Justifies(f, h, Result(live.code = "tes"))

\* A row of disputes, in the table or in the hands of a call.
StatusSound(f, d, row) ==
    /\ row.status \in {"decided", "execution_pending", "executed", "rejected"}
          => f.decisions[d] > 0
    /\ row.status \in {"execution_pending", "executed", "rejected"}
          => \E h \in Hash : <<d, h>> \in f.requested
    /\ row.status = "executed" => \E h \in Hash : <<d, h>> \in f.requested /\ Justifies(f, h, "tes")
    /\ row.status = "rejected" => \E h \in Hash : <<d, h>> \in f.requested /\ Justifies(f, h, "tec")

LivePc == {"upsertRead", "upsertSave", "applyRead"}
TxPc == {"upsertSave", "applySave", "verdictRead", "verdictSave", "accountSave", "policySave"}
ApplyPc == {"applyRead", "applySave", "verdictRead", "verdictSave"}

ExecuteSound(f, l) ==
    /\ l.ds.status = "execution_pending"
    /\ f.decisions[l.d] > 0
    /\ l.pc \in ApplyPc => <<l.d, l.h>> \in f.requested

SimulatedSound(l) ==
    /\ l.tx.dispute = l.rows[l.h].dispute
    /\ l.tx.retries = l.rows[l.h].retries + 1
    /\ ~Exhausted(l.tx)

CallSound(f, l) ==
    /\ l.pc \in LivePc => LiveSound(f, l.h, l.live)
    /\ l.pc \in TxPc => RowSound(f, l.h, l.tx)
    /\ l.pc \in {"verdictRead", "verdictSave"} => l.tx.validated
    /\ l.pc = "simSave" => SimulatedSound(l)
    /\ l.pc = "verdictSave" => StatusSound(f, l.tx.dispute, l.es)
    /\ l.pc = "saveDispute" => StatusSound(f, l.d, l.ds)
    /\ l.pc = "saveDecision" => l.ds.status = "decided"
    /\ l.op = "execute" => ExecuteSound(f, l)
    /\ \A h \in Hash : RowSound(f, h, l.rows[h])

Sound ==
    /\ \A h \in Hash : RowSound(Facts, h, txs[h])
    /\ \A d \in Dispute : StatusSound(Facts, d, disputes[d])
    /\ \A p \in Proc : CallSound(Facts, proc[p])

SafetyInv == TypeInv /\ Sound

-----------------------------------------------------------------------------
(* Facts only accumulate *)

Grows(f, g) ==
    /\ f.requested \subseteq g.requested
    /\ f.simulated \subseteq g.simulated
    /\ \A h \in Hash : f.ledger[h] \in Final => g.ledger[h] = f.ledger[h]
    /\ \A d \in Dispute : f.decisions[d] > 0 => g.decisions[d] > 0
    /\ \A h \in Hash : f.tried[h] \in Nat /\ g.tried[h] \in Nat /\ f.tried[h] <= g.tried[h]

\* What a saved row claims stays true as the facts grow.
LEMMA RowGrows ==
    ASSUME NEW f, NEW g, Grows(f, g), NEW h \in Hash, NEW row \in TxRow, RowSound(f, h, row)
    PROVE  RowSound(g, h, row)
  <1>1. \A s \in BOOLEAN : Justifies(f, h, Result(s)) => Justifies(g, h, Result(s))
    BY Zenon DEF Grows, Justifies, Result, Final
  <1>2. row.validated => Justifies(g, h, Result(row.outcome = "success"))
    BY <1>1, Zenon DEF RowSound
  <1>3. row.retries \in Nat /\ MaxProbes \in Nat
    BY ConstantsAssumption, Zenon DEF TxRow
  <1> QED BY <1>2, <1>3 DEF RowSound, Grows

\* What a dispute's status claims stays true as the facts grow.
LEMMA StatusGrows ==
    ASSUME NEW f, NEW g, Grows(f, g), NEW d \in Dispute, NEW row, StatusSound(f, d, row)
    PROVE  StatusSound(g, d, row)
  <1>1. \A h \in Hash, r \in Final : Justifies(f, h, r) => Justifies(g, h, r)
    BY Zenon DEF Grows, Justifies
  <1>2. "tes" \in Final /\ "tec" \in Final
    BY Zenon DEF Final
  <1> QED BY <1>1, <1>2, Zenon DEF StatusSound, Grows

\* What a call holds across an await stays true as the facts grow under it.
LEMMA CallGrows ==
    ASSUME NEW f, NEW g, Grows(f, g), NEW l \in Local, Wellformed(l), CallSound(f, l)
    PROVE  CallSound(g, l)
  <1>1. l.tx \in TxRow /\ l.rows \in [Hash -> TxRow]
    BY Zenon DEF Local
  <1>2. l.pc \in LivePc => LiveSound(g, l.h, l.live)
    <2>1. l.pc \in LivePc => l.h \in Hash
      BY Zenon DEF Wellformed, LivePc, HashPc
    <2> QED BY <2>1, Zenon DEF CallSound, LiveSound, Justifies, Result, Grows, Final
  <1>3. l.pc \in TxPc => RowSound(g, l.h, l.tx)
    <2>1. l.pc \in TxPc => l.h \in Hash
      BY Zenon DEF Wellformed, TxPc, HashPc
    <2> QED BY <1>1, <2>1, RowGrows, Zenon DEF CallSound
  <1>4. l.pc = "verdictSave" => StatusSound(g, l.tx.dispute, l.es)
    BY StatusGrows, Zenon DEF CallSound, Wellformed
  <1>5. l.pc = "saveDispute" => StatusSound(g, l.d, l.ds)
    BY StatusGrows, Zenon DEF CallSound, Wellformed
  <1>6. l.op = "execute" => ExecuteSound(g, l)
    BY Zenon DEF CallSound, ExecuteSound, Wellformed, Grows
  <1>7. \A h \in Hash : RowSound(g, h, l.rows[h])
    BY <1>1, RowGrows, Zenon DEF CallSound
  <1> QED BY <1>2, <1>3, <1>4, <1>5, <1>6, <1>7, Zenon DEF CallSound

\* A step of one call that only adds facts keeps the invariant if the rows it saves
\* and the call's own next state are sound.
LEMMA SoundStep ==
    ASSUME SafetyInv, NEW p \in Proc, NEW l, Become(p, l), Grows(Facts, Facts'),
           CallSound(Facts', l),
           \A h \in Hash : txs'[h] = txs[h] \/ RowSound(Facts', h, txs'[h]),
           \A d \in Dispute : disputes'[d] = disputes[d] \/ StatusSound(Facts', d, disputes'[d])
    PROVE  Sound'
  <1>1. \A h \in Hash : RowSound(Facts', h, txs'[h])
    BY RowGrows, Zenon DEF SafetyInv, TypeInv, TypeOK, Sound
  <1>2. \A d \in Dispute : StatusSound(Facts', d, disputes'[d])
    BY StatusGrows, Zenon DEF SafetyInv, Sound
  <1>3. ASSUME NEW q \in Proc PROVE CallSound(Facts', proc'[q])
    <2>1. proc[q] \in Local /\ Wellformed(proc[q]) /\ CallSound(Facts, proc[q])
      BY CallType, Zenon DEF SafetyInv, Sound
    <2>2. proc'[q] = IF q = p THEN l ELSE proc[q]
      BY Zenon DEF Become, SafetyInv, TypeInv, TypeOK
    <2> QED BY <2>1, <2>2, CallGrows, Zenon
  <1> QED BY <1>1, <1>2, <1>3, Zenon DEF Sound

-----------------------------------------------------------------------------
(* Building blocks of the steps *)

Counted(f) == \A h \in Hash : f.tried[h] \in Nat

\* The facts of a typed state are functions with the expected ranges.
LEMMA FactsCounted == ASSUME TypeInv PROVE Counted(Facts) /\ MaxProbes \in Nat
  BY ConstantsAssumption DEF TypeInv, TypeOK, Counted, Facts

\* Counting a look-up adds one to the count of that hash, up to the budget.
LEMMA CountTryGrows ==
    ASSUME TypeInv, NEW h \in Hash, CountTry(h)
    PROVE  /\ tried'[h] = IF tried[h] < MaxProbes THEN tried[h] + 1 ELSE tried[h]
           /\ \A g \in Hash : tried[g] \in Nat /\ tried'[g] \in Nat /\ tried[g] <= tried'[g]
  <1>1. tried \in [Hash -> 0 .. MaxProbes] /\ MaxProbes \in Nat
    BY ConstantsAssumption, Zenon DEF TypeInv, TypeOK
  <1>2. \A g \in Hash : tried[g] \in Nat
    BY <1>1
  <1>3. \A g \in Hash : tried'[g] = IF g = h /\ tried[g] < MaxProbes THEN tried[g] + 1 ELSE tried[g]
    BY <1>1, Zenon DEF CountTry
  <1> QED BY <1>1, <1>2, <1>3

\* A count of retries that lags behind the look-ups still does after one more of each.
LEMMA LagKept ==
    ASSUME NEW r \in Nat, NEW t \in Nat, NEW m \in Nat, NEW u,
           u = IF t < m THEN t + 1 ELSE t, r <= t \/ m <= t
    PROVE  r + 1 <= u \/ m <= u
  OBVIOUS

\* Facts that do not change have grown.
LEMMA GrowsRefl == ASSUME NEW f, Counted(f) PROVE Grows(f, f)
  BY DEF Counted, Grows

\* A call that has read nothing yet but its dispute.
LEMMA StartSound ==
    ASSUME NEW f, Counted(f), NEW l, l.rows = NoRows, l.live = NotFound,
           l.pc \notin TxPc \cup {"simSave"},
           l.pc = "saveDispute" => StatusSound(f, l.d, l.ds),
           l.pc = "saveDecision" => l.ds.status = "decided",
           l.op = "execute" => ExecuteSound(f, l)
    PROVE  CallSound(f, l)
  <1>1. \A h \in Hash : RowSound(f, h, l.rows[h])
    <2> SUFFICES ASSUME NEW h \in Hash PROVE RowSound(f, h, l.rows[h])
      BY Zenon
    <2>1. l.rows[h] = NoTxRow
      BY Zenon DEF NoRows
    <2>2. /\ NoTxRow.dispute = NoDispute /\ ~NoTxRow.validated /\ NoTxRow.retries = 0
          /\ ~Exhausted(NoTxRow)
      BY Zenon DEF NoTxRow, Exhausted
    <2>3. 0 <= f.tried[h]
      BY DEF Counted
    <2> QED BY <2>1, <2>2, <2>3, Zenon DEF RowSound
  <1>2. LiveSound(f, l.h, l.live)
    BY DEF LiveSound, NotFound
  <1> QED BY <1>1, <1>2, Zenon DEF CallSound, TxPc

\* A call that is not running claims nothing.
LEMMA IdleSound == ASSUME NEW f, Counted(f) PROVE CallSound(f, Idle)
  BY StartSound DEF Idle, TxPc

\* A caller that applyLiveTxStatus returns to holds only sound rows.
LEMMA ReturnSound ==
    ASSUME NEW f, Counted(f), NEW l \in Local, l.h \in Hash, CallSound(f, l), l.pc \in ApplyPc
    PROVE  CallSound(f, Return(l))
  <1> DEFINE back == [l EXCEPT !.tx = NoTxRow, !.es = NoDisputeRow, !.live = NotFound]
  <1>1. back.op = l.op /\ back.h = l.h /\ back.d = l.d /\ back.ds = l.ds /\ back.rows = l.rows
        /\ back \in Local
    BY EmptyRows, Zenon DEF Local
  <1>2. \A h \in Hash : RowSound(f, h, l.rows[h])
    BY Zenon DEF CallSound
  <1>3. CASE l.op = "execute"
    <2> HIDE DEF back
    <2> DEFINE next == [back EXCEPT !.pc = "saveDispute"]
    <2>1. Return(l) = next
      BY <1>3, Zenon DEF Return, back
    <2>2. next.pc = "saveDispute" /\ next.op = l.op /\ next.d = l.d /\ next.ds = l.ds
          /\ next.rows = l.rows
      BY <1>1, Zenon DEF Local
    <2>3. StatusSound(f, l.d, l.ds)
      BY <1>3, Zenon DEF CallSound, ExecuteSound, StatusSound
    <2>4. ExecuteSound(f, l)
      BY <1>3, Zenon DEF CallSound
    <2> HIDE DEF next
    <2> QED BY <1>2, <1>3, <2>1, <2>2, <2>3, <2>4, Zenon
            DEF CallSound, ExecuteSound, LivePc, TxPc, ApplyPc
  <1>4. ASSUME NEW next, next.rows = l.rows, next.op = l.op, l.op # "execute",
               next.pc \in {"jobDelete", "liveNext", "simNext"}
        PROVE  CallSound(f, next)
    BY <1>2, <1>4, Zenon DEF CallSound, LivePc, TxPc
  <1>5. CASE l.op \in {"policy", "backfillLive", "backfillSim"}
    <2> HIDE DEF back
    <2>1. \/ Return(l) = [back EXCEPT !.pc = "jobDelete"]
          \/ Return(l) = [back EXCEPT !.pc = "liveNext", !.h = NoHash]
          \/ Return(l) = [back EXCEPT !.pc = "simNext", !.h = NoHash]
      BY <1>5, Zenon DEF Return, back
    <2>2. Return(l).rows = l.rows /\ Return(l).op = l.op
          /\ Return(l).pc \in {"jobDelete", "liveNext", "simNext"}
      BY <1>1, <2>1, Zenon DEF Local
    <2> QED BY <1>4, <1>5, <2>2, Zenon
  <1>6. CASE l.op \notin {"execute", "policy", "backfillLive", "backfillSim"}
    <2>1. Return(l) = Idle
      BY <1>6, Zenon DEF Return
    <2> QED BY <2>1, IdleSound, Zenon
  <1> QED BY <1>3, <1>5, <1>6, Zenon

\* A step that saves nothing.
LEMMA QuietSound ==
    ASSUME SafetyInv, NEW p \in Proc, NEW l, Become(p, l), CallSound(Facts, l),
           UNCHANGED <<ledger, txs, disputes, decisions, requested, simulated, tried>>
    PROVE  Sound'
  <1>1. Facts' = Facts
    BY Zenon DEF Facts
  <1>2. Grows(Facts, Facts')
    BY <1>1, FactsCounted, GrowsRefl, Zenon DEF SafetyInv
  <1> QED BY <1>1, <1>2, SoundStep, Zenon

\* A step that saves a row of xrpl_txs.
LEMMA SaveSound ==
    ASSUME SafetyInv, NEW p \in Proc, NEW l, Become(p, l), Grows(Facts, Facts'),
           CallSound(Facts', l), NEW h \in Hash, NEW row, SaveTx(h, row),
           RowSound(Facts', h, row), UNCHANGED disputes
    PROVE  Sound'
  <1>1. \A g \in Hash : txs'[g] = txs[g] \/ RowSound(Facts', g, txs'[g])
    BY Zenon DEF SaveTx, SafetyInv, TypeInv, TypeOK
  <1> QED BY <1>1, SoundStep, Zenon

-----------------------------------------------------------------------------
(* The rows that the code computes are justified *)

\* upsertTrackedTx never invents a validation: it keeps the row's own, or has none.
LEMMA UpsertedSound ==
    ASSUME NEW f, NEW l \in Local, RowSound(f, l.h, l.tx),
           l.op = "execute" => <<l.d, l.h>> \in f.requested
    PROVE  RowSound(f, l.h, UpsertedTx(l))
  <1> DEFINE row == UpsertedTx(l)
  <1>1. l.tx \in TxRow
    BY Zenon DEF Local
  <1>2. /\ row.validated = l.tx.validated /\ row.outcome = l.tx.outcome
        /\ row.tracking = l.tx.tracking /\ row.retries = l.tx.retries
        /\ row.dispute = IF l.op = "execute" THEN l.d ELSE l.tx.dispute
    BY <1>1, Zenon DEF UpsertedTx, TxRow
  <1> HIDE DEF row
  <1>3. RowSound(f, l.h, row)
    BY <1>2, Zenon DEF RowSound, Exhausted
  <1> QED BY <1>3, Zenon DEF row

\* Merging a sound live status into a sound row gives a sound row.
LEMMA AppliedSound ==
    ASSUME NEW f, NEW h, NEW tx \in TxRow, NEW l \in Local, RowSound(f, h, tx), LiveSound(f, h, l.live)
    PROVE  /\ RowSound(f, h, AppliedTx(tx, l))
           /\ AppliedTx(tx, l).validated = l.live.validated
  <1> DEFINE row == AppliedTx(tx, l)
             class == classifyXrplResultCode(l.live.code)
  <1>1. (class = "success") = (l.live.code = "tes")
    BY Zenon DEF classifyXrplResultCode
  <1>2. /\ row.validated = l.live.validated /\ row.outcome = class
        /\ row.retries = tx.retries /\ row.dispute = tx.dispute
        /\ ~l.live.validated => row.tracking = "pending_validation"
    BY Zenon DEF AppliedTx, TxRow
  <1> HIDE DEF row, class
  <1>3. ~Exhausted(row)
    BY <1>2, Zenon DEF Exhausted
  <1>4. RowSound(f, h, row)
    BY <1>1, <1>2, <1>3, Zenon DEF RowSound, LiveSound
  <1> QED BY <1>2, <1>4, Zenon DEF row

\* The fields that the simulated backfill writes.
LEMMA SimulatedFields ==
    ASSUME NEW tx \in TxRow, NEW code
    PROVE  LET row == SimulatedTx(tx, code) IN
           row.dispute = tx.dispute /\ row.retries = tx.retries + 1 /\ ~Exhausted(row)
  <1> DEFINE row == SimulatedTx(tx, code)
             class == classifyXrplResultCode(SimulatedCode(tx, code))
  <1>1. /\ row.dispute = tx.dispute /\ row.retries = tx.retries + 1
        /\ row.outcome = class /\ row.validated = (class # "retryable")
    BY Zenon DEF SimulatedTx, TxRow
  <1>2. ~Exhausted(row)
    <2> HIDE DEF row, class
    <2> QED BY <1>1, Zenon DEF Exhausted
  <1> QED BY <1>1, <1>2, Zenon

\* One more look-up has failed: the row counts it, and so does the history.
LEMMA ProbedSound ==
    ASSUME NEW f, NEW g, NEW h \in Hash, NEW tx \in TxRow, Grows(f, g), RowSound(f, h, tx),
           g.tried[h] = IF f.tried[h] < MaxProbes THEN f.tried[h] + 1 ELSE f.tried[h]
    PROVE  RowSound(g, h, ProbedTx(tx))
  <1> DEFINE row == ProbedTx(tx)
  <1>1. RowSound(g, h, tx)
    BY RowGrows, Zenon
  <1>2. tx.retries \in Nat /\ MaxProbes \in Nat /\ f.tried[h] \in Nat
    BY ConstantsAssumption, Zenon DEF TxRow, Grows
  <1>3. row.dispute = tx.dispute /\ row.retries = tx.retries + 1
    BY Zenon DEF ProbedTx, TxRow
  <1>4. \/ tx.retries + 1 >= MaxProbes /\ row.validated = FALSE
        \/ /\ row.validated = tx.validated /\ row.outcome = tx.outcome
           /\ row.tracking = tx.tracking
    BY Zenon DEF ProbedTx, TxRow
  <1> HIDE DEF row
  <1>5. row.retries <= g.tried[h] \/ MaxProbes <= g.tried[h]
    <2>1. tx.retries <= f.tried[h] \/ MaxProbes <= f.tried[h]
      BY Zenon DEF RowSound
    <2>2. tx.retries + 1 <= g.tried[h] \/ MaxProbes <= g.tried[h]
      BY <1>2, <2>1, LagKept, Zenon
    <2> QED BY <1>3, <2>2, Zenon
  <1>6. Exhausted(row) => MaxProbes <= g.tried[h]
    BY <1>1, <1>2, <1>4 DEF RowSound, Exhausted
  <1>7. row.validated => Justifies(g, h, Result(row.outcome = "success"))
    BY <1>1, <1>4, Zenon DEF RowSound
  <1>8. RowSound(g, h, row)
    BY <1>1, <1>3, <1>5, <1>6, <1>7, Zenon DEF RowSound
  <1> QED BY <1>8, Zenon DEF row

\* rippled reports a validated result only of a validated ledger.
LEMMA AnswerSound ==
    ASSUME NEW h, NEW live, GetTxStatus(h, live) \/ live \in AccountTxAnswers(h)
    PROVE  LiveSound(Facts, h, live)
  <1>1. CASE ledger[h] \in Final
    BY <1>1 DEF GetTxStatus, TxAnswers, AccountTxAnswers, Found, NotFound, LiveSound, Justifies,
       Result, Facts, Final
  <1>2. CASE ledger[h] \notin Final
    <2>1. TxAnswers(h) \subseteq {Found(FALSE, "none"), Found(FALSE, "tes"), NotFound}
      <3>1. CASE ledger[h] = "open"
        BY <1>2, <3>1, Zenon DEF TxAnswers
      <3>2. CASE ledger[h] # "open"
        BY <1>2, <3>2, Zenon DEF TxAnswers
      <3> QED BY <3>1, <3>2, Zenon
    <2>2. live \in {Found(FALSE, "none"), Found(FALSE, "tes"), NotFound}
      BY <1>2, <2>1, Zenon DEF GetTxStatus, AccountTxAnswers
    <2>3. live.validated = FALSE
      BY <2>2 DEF Found, NotFound
    <2> QED BY <2>3, Zenon DEF LiveSound
  <1> QED BY <1>1, <1>2, Zenon

-----------------------------------------------------------------------------
(* One lemma per group of actions *)

\* Starting a route handler keeps the invariant.
LEMMA RequestSound ==
    ASSUME SafetyInv, NEW p \in Proc, Request(p) PROVE Sound'
  <1>0. /\ Counted(Facts)
        /\ \A d \in Dispute : StatusSound(Facts, d, disputes[d]) /\ disputes[d] \in DisputeRow
    BY FactsCounted, CallType, Zenon DEF SafetyInv, Sound
  <1>1. ASSUME NEW l, Accept(p, l), CallSound(Facts, l) PROVE Sound'
    BY <1>1, QuietSound, Zenon DEF Accept
  <1>2. ASSUME NEW d \in Dispute, NEW op \in {"patch", "escalate", "sla"}, NEW ds,
               ds.status \in ReviewStatus \/ ds.status = disputes[d].status,
               Accept(p, [Idle EXCEPT !.pc = "saveDispute", !.op = op, !.d = d, !.ds = ds])
        PROVE  Sound'
    <2> DEFINE l == [Idle EXCEPT !.pc = "saveDispute", !.op = op, !.d = d, !.ds = ds]
    <2>1. /\ l.pc = "saveDispute" /\ l.op = op /\ l.d = d /\ l.ds = ds
          /\ l.rows = NoRows /\ l.live = NotFound
      BY Zenon DEF Idle
    <2>2. StatusSound(Facts, d, ds)
      BY <1>0, <1>2, Zenon DEF StatusSound, ReviewStatus
    <2> HIDE DEF l
    <2>3. CallSound(Facts, l)
      BY <1>0, <2>1, <2>2, StartSound, Zenon DEF TxPc
    <2> QED BY <1>1, <1>2, <2>3, Zenon DEF l
  <1>3. ASSUME NEW d \in Dispute, NEW next \in ReviewStatus, PatchStatus(p, d, next)
        PROVE  Sound'
    <2> DEFINE ds == [status |-> next,
                      escalated |-> disputes[d].escalated /\ next # "filed"]
    <2>1. ds.status \in ReviewStatus
      BY Zenon
    <2>2. Accept(p, [Idle EXCEPT !.pc = "saveDispute", !.op = "patch", !.d = d, !.ds = ds])
      BY <1>3, Zenon DEF PatchStatus
    <2> HIDE DEF ds
    <2> QED BY <1>2, <2>1, <2>2, Zenon
  <1>4. ASSUME NEW d \in Dispute, Escalate(p, d) \/ SlaScan(p, d) PROVE Sound'
    <2>1. [disputes[d] EXCEPT !.escalated = TRUE].status = disputes[d].status
      BY <1>0, Zenon DEF DisputeRow
    <2> QED BY <1>2, <1>4, <2>1, Zenon DEF Escalate, SlaScan
  <1>5. ASSUME NEW d \in Dispute, Decide(p, d) PROVE Sound'
    <2> DEFINE ds == [disputes[d] EXCEPT !.status = "decided"]
               l  == [Idle EXCEPT !.pc = "saveDecision", !.op = "decide", !.d = d, !.ds = ds]
    <2>1. ds.status = "decided"
      BY <1>0, Zenon DEF DisputeRow
    <2>2. /\ l.pc = "saveDecision" /\ l.op = "decide" /\ l.ds = ds
          /\ l.rows = NoRows /\ l.live = NotFound
      BY Zenon DEF Idle
    <2>3. Accept(p, l)
      BY <1>5, Zenon DEF Decide
    <2> HIDE DEF l, ds
    <2>4. CallSound(Facts, l)
      BY <1>0, <2>1, <2>2, StartSound, Zenon DEF TxPc
    <2> QED BY <1>1, <2>3, <2>4, Zenon
  <1>6. ASSUME NEW d \in Dispute, NEW h \in Hash, NEW pc \in {"submit", "status", "upsertRead"},
               Execute(p, d, h, pc)
        PROVE  Sound'
    <2> DEFINE ds == [disputes[d] EXCEPT !.status = "execution_pending"]
               l  == [Idle EXCEPT !.pc = pc, !.op = "execute", !.d = d, !.h = h, !.ds = ds]
    <2>1. ds.status = "execution_pending" /\ Facts.decisions[d] > 0
      BY <1>0, <1>6, Zenon DEF Execute, DisputeRow, StatusSound
    <2>2. /\ l.pc = pc /\ l.op = "execute" /\ l.d = d /\ l.ds = ds
          /\ l.rows = NoRows /\ l.live = NotFound
      BY Zenon DEF Idle
    <2> HIDE DEF l, ds
    <2>3. CallSound(Facts, l)
      BY <1>0, <2>1, <2>2, StartSound, Zenon DEF ExecuteSound, TxPc, ApplyPc
    <2> QED BY <1>1, <1>6, <2>3, Zenon DEF Execute, l, ds
  <1>7. ASSUME NEW h \in Hash, NEW b \in BOOLEAN, Track(p, h, b) PROVE Sound'
    <2> DEFINE op == IF b THEN "trackAccount" ELSE "track"
               l  == [Idle EXCEPT !.pc = "upsertRead", !.h = h, !.op = op]
    <2>1. l.pc = "upsertRead" /\ l.op \in {"track", "trackAccount"} /\ l.rows = NoRows /\ l.live = NotFound
      BY Zenon DEF Idle
    <2>2. Accept(p, l)
      BY <1>7, Zenon DEF Track
    <2> HIDE DEF l
    <2>3. CallSound(Facts, l)
      BY <1>0, <2>1, StartSound, Zenon DEF TxPc
    <2> QED BY <1>1, <2>2, <2>3, Zenon
  <1>8. ASSUME NEW h \in Hash, Refresh(p, h) PROVE Sound'
    <2> DEFINE l == [Idle EXCEPT !.pc = "status", !.op = "refresh", !.h = h]
    <2>1. l.pc = "status" /\ l.op = "refresh" /\ l.rows = NoRows /\ l.live = NotFound
      BY Zenon DEF Idle
    <2>2. Accept(p, l)
      BY <1>8, Zenon DEF Refresh
    <2> HIDE DEF l
    <2>3. CallSound(Facts, l)
      BY <1>0, <2>1, StartSound, Zenon DEF TxPc
    <2> QED BY <1>1, <2>2, <2>3, Zenon
  <1>9. ASSUME NEW code \in Code, Backfill(p, code) PROVE Sound'
    <2> DEFINE op == IF XrplEnabled THEN "backfillLive" ELSE "backfillSim"
               pc == IF XrplEnabled THEN "accountTx" ELSE "simList"
               l  == [Idle EXCEPT !.code = code, !.op = op, !.pc = pc]
    <2>1. /\ l.pc \in {"accountTx", "simList"} /\ l.op \in {"backfillLive", "backfillSim"}
          /\ l.rows = NoRows /\ l.live = NotFound
      BY Zenon DEF Idle
    <2>2. Accept(p, l)
      BY <1>9, Zenon DEF Backfill
    <2> HIDE DEF l
    <2>3. CallSound(Facts, l)
      BY <1>0, <2>1, StartSound, Zenon DEF TxPc
    <2> QED BY <1>1, <2>2, <2>3, Zenon
  <1> QED BY <1>3, <1>4, <1>5, <1>6, <1>7, <1>8, <1>9, Zenon
          DEF Request, ExecuteTracked, ExecuteSubmitting

\* applyLiveTxStatus keeps the invariant: the verdict it saves follows the row that
\* it has just saved.
LEMMA ApplySound ==
    ASSUME SafetyInv, NEW p \in Proc, ApplyStep(p) PROVE Sound'
  <1> DEFINE l == proc[p]
  <1>0. /\ l \in Local /\ Wellformed(l) /\ l.tx \in TxRow
        /\ CallSound(Facts, l) /\ Counted(Facts)
        /\ \A h \in Hash : txs[h] \in TxRow /\ RowSound(Facts, h, txs[h])
        /\ \A d \in Dispute : disputes[d] \in DisputeRow /\ StatusSound(Facts, d, disputes[d])
    BY FactsCounted, CallType, Zenon DEF SafetyInv, Sound
  <1>1. CASE ApplyRead(p)
    <2>1. l.h \in Hash /\ l.pc = "applyRead"
      BY <1>0, <1>1, Zenon DEF ApplyRead, At, Wellformed, HashPc
    <2> DEFINE tx == AppliedTx(txs[l.h], l)
               next == [l EXCEPT !.pc = "applySave", !.tx = tx]
    <2>2. RowSound(Facts, l.h, tx)
      BY <1>0, <2>1, AppliedSound, Zenon DEF CallSound, LivePc
    <2>3. /\ next.pc = "applySave" /\ next.op = l.op /\ next.d = l.d /\ next.h = l.h
          /\ next.ds = l.ds /\ next.rows = l.rows /\ next.tx = tx
      BY <1>0, Zenon DEF Local
    <2> HIDE DEF tx, next
    <2>4. CallSound(Facts, next)
      BY <1>0, <2>1, <2>2, <2>3, Zenon DEF CallSound, ExecuteSound, LivePc, TxPc, ApplyPc
    <2>5. CallSound(Facts, Return(l))
      BY <1>0, <2>1, ReturnSound, Zenon DEF ApplyPc
    <2>6. Become(p, next) \/ Become(p, Return(l))
      BY <1>1, Zenon DEF ApplyRead, Continue, next, tx
    <2> QED BY <1>1, <2>4, <2>5, <2>6, QuietSound, Zenon DEF ApplyRead, Continue
  <1>2. CASE ApplySave(p)
    <2>1. l.h \in Hash /\ l.pc = "applySave" /\ RowSound(Facts, l.h, l.tx)
      BY <1>0, <1>2, Zenon DEF ApplySave, At, Wellformed, HashPc, CallSound, TxPc
    <2> DEFINE next == [l EXCEPT !.pc = "verdictRead"]
    <2>2. /\ next.pc = "verdictRead" /\ next.op = l.op /\ next.d = l.d /\ next.h = l.h
          /\ next.ds = l.ds /\ next.rows = l.rows /\ next.tx = l.tx
      BY <1>0, Zenon DEF Local
    <2> HIDE DEF next
    <2>3. l.tx.validated => CallSound(Facts, next)
      BY <1>0, <2>1, <2>2, Zenon DEF CallSound, ExecuteSound, LivePc, TxPc, ApplyPc
    <2>4. CallSound(Facts, Return(l))
      BY <1>0, <2>1, ReturnSound, Zenon DEF ApplyPc
    <2>5. (Become(p, next) /\ l.tx.validated) \/ Become(p, Return(l))
      BY <1>2, Zenon DEF ApplySave, next
    <2>6. Facts' = Facts
      BY <1>2, Zenon DEF ApplySave, Facts
    <2>7. SaveTx(l.h, l.tx) /\ UNCHANGED disputes
      BY <1>2, Zenon DEF ApplySave
    <2> QED BY <1>0, <2>1, <2>3, <2>4, <2>5, <2>6, <2>7, SaveSound, GrowsRefl, Zenon
  <1>3. CASE VerdictRead(p)
    <2>1. l.h \in Hash /\ l.pc = "verdictRead" /\ l.tx.dispute \in Dispute
          /\ RowSound(Facts, l.h, l.tx) /\ l.tx.validated
      BY <1>0, <1>3, Zenon DEF VerdictRead, At, Wellformed, HashPc, CallSound, TxPc
    <2> DEFINE row == disputes[l.tx.dispute]
               es == [row EXCEPT !.status =
                         IF l.tx.outcome = "success" THEN "executed" ELSE "rejected"]
               next == [l EXCEPT !.pc = "verdictSave", !.es = es]
    <2>2. es.status = IF l.tx.outcome = "success" THEN "executed" ELSE "rejected"
      BY <1>0, <2>1, Zenon DEF DisputeRow
    <2>3. <<l.tx.dispute, l.h>> \in Facts.requested
          /\ Justifies(Facts, l.h, Result(l.tx.outcome = "success"))
      BY <2>1, ConstantsAssumption, Zenon DEF RowSound
    <2>4. row.status = "execution_pending" => Facts.decisions[l.tx.dispute] > 0
      BY <1>0, <2>1, Zenon DEF StatusSound
    <2>5. /\ next.pc = "verdictSave" /\ next.op = l.op /\ next.d = l.d /\ next.h = l.h
          /\ next.ds = l.ds /\ next.rows = l.rows /\ next.tx = l.tx /\ next.es = es
      BY <1>0, Zenon DEF Local
    <2> HIDE DEF es
    <2>6. row.status = "execution_pending" => StatusSound(Facts, l.tx.dispute, es)
      BY <2>1, <2>2, <2>3, <2>4, Zenon DEF StatusSound, Result
    <2> HIDE DEF next
    <2>7. row.status = "execution_pending" => CallSound(Facts, next)
      BY <1>0, <2>1, <2>5, <2>6, Zenon DEF CallSound, ExecuteSound, LivePc, TxPc, ApplyPc
    <2>8. CallSound(Facts, Return(l))
      BY <1>0, <2>1, ReturnSound, Zenon DEF ApplyPc
    <2>9. (Become(p, next) /\ row.status = "execution_pending") \/ Become(p, Return(l))
      BY <1>3, Zenon DEF VerdictRead, Continue, next, es
    <2> QED BY <1>3, <2>7, <2>8, <2>9, QuietSound, Zenon DEF VerdictRead, Continue
  <1>4. CASE VerdictSave(p)
    <2>1. l.h \in Hash /\ l.pc = "verdictSave" /\ StatusSound(Facts, l.tx.dispute, l.es)
      BY <1>0, <1>4, Zenon DEF VerdictSave, At, Wellformed, HashPc, CallSound
    <2>2. CallSound(Facts, Return(l))
      BY <1>0, <2>1, ReturnSound, Zenon DEF ApplyPc
    <2>3. Facts' = Facts /\ txs' = txs /\ Become(p, Return(l))
      BY <1>4, Zenon DEF VerdictSave, Facts
    <2>4. \A d \in Dispute : disputes'[d] = disputes[d] \/ StatusSound(Facts', d, disputes'[d])
      BY <1>4, <2>1, <2>3, Zenon DEF VerdictSave, SafetyInv, TypeInv, TypeOK
    <2> QED BY <1>0, <2>2, <2>3, <2>4, SoundStep, GrowsRefl, Zenon
  <1> QED BY <1>1, <1>2, <1>3, <1>4, Zenon DEF ApplyStep

\* A call goes on to a label at which it holds no row to be saved.
LEMMA CarrySound ==
    ASSUME NEW f, NEW l, CallSound(f, l), NEW next,
           next.rows = l.rows, next.op = l.op, next.d = l.d, next.ds = l.ds,
           next.pc \notin LivePc \cup TxPc \cup {"simSave", "saveDispute", "saveDecision"}
    PROVE  CallSound(f, next)
  BY Zenon DEF CallSound, ExecuteSound, LivePc, TxPc, ApplyPc

\* submitAndWait only adds to the ledger.
LEMMA SubmitGrows ==
    ASSUME TypeInv, NEW p \in Proc, NEW state, At(p, "submit"),
           ledger' = [ledger EXCEPT ![proc[p].h] = state],
           UNCHANGED <<decisions, requested, simulated, tried>>
    PROVE  Grows(Facts, Facts')
  <1>1. Wellformed(proc[p]) /\ Knows(proc[p])
    BY CallType, Zenon
  <1>2. proc[p].h \in Hash /\ ledger[proc[p].h] \notin Final
    BY <1>1, Zenon DEF At, Wellformed, Knows, HashPc, Final
  <1>3. \A h \in Hash : tried[h] \in Nat
    BY DEF TypeInv, TypeOK
  <1> QED BY <1>2, <1>3 DEF Grows, Facts, TypeInv, TypeOK

\* Every await of every route handler keeps the invariant.
LEMMA HandlerSound ==
    ASSUME SafetyInv, NEW p \in Proc, HandlerStep(p) PROVE Sound'
  <1> DEFINE l == proc[p]
  <1>0. /\ l \in Local /\ Wellformed(l) /\ Knows(l) /\ l.tx \in TxRow
        /\ l.rows \in [Hash -> TxRow] /\ l.todo \subseteq Hash
        /\ CallSound(Facts, l) /\ Counted(Facts) /\ TypeInv
        /\ \A h \in Hash : txs[h] \in TxRow /\ RowSound(Facts, h, txs[h])
    BY FactsCounted, CallType, Zenon DEF SafetyInv, Sound
  <1>1. CASE SaveDecision(p)
    <2>1. l.pc = "saveDecision" /\ l.d \in Dispute /\ l.ds.status = "decided"
      BY <1>0, <1>1, Zenon DEF SaveDecision, At, Wellformed, CallSound
    <2>2. Grows(Facts, Facts') /\ Facts'.decisions[l.d] > 0
      BY <1>0, <1>1, <2>1 DEF SaveDecision, Grows, Facts, Counted, TypeInv, TypeOK
    <2>3. CallSound(Facts', l)
      BY <1>0, <2>2, CallGrows, Zenon
    <2> DEFINE next == [l EXCEPT !.pc = "saveDispute"]
    <2>4. /\ next.pc = "saveDispute" /\ next.op = l.op /\ next.d = l.d
          /\ next.ds = l.ds /\ next.rows = l.rows
      BY <1>0, Zenon DEF Local
    <2>5. StatusSound(Facts', l.d, l.ds)
      BY <2>1, <2>2, Zenon DEF StatusSound
    <2>6. Become(p, next) /\ UNCHANGED <<txs, disputes>>
      BY <1>1, Zenon DEF SaveDecision
    <2> HIDE DEF next
    <2>7. CallSound(Facts', next)
      BY <2>3, <2>4, <2>5, Zenon DEF CallSound, ExecuteSound, LivePc, TxPc, ApplyPc
    <2> QED BY <2>2, <2>6, <2>7, SoundStep, Zenon
  <1>2. CASE SaveDispute(p)
    <2>1. l.pc = "saveDispute" /\ StatusSound(Facts, l.d, l.ds)
      BY <1>0, <1>2, Zenon DEF SaveDispute, At, CallSound
    <2>2. Facts' = Facts /\ txs' = txs /\ Become(p, Idle)
      BY <1>2, Zenon DEF SaveDispute, Facts
    <2>3. \A d \in Dispute : disputes'[d] = disputes[d] \/ StatusSound(Facts', d, disputes'[d])
      BY <1>2, <2>1, <2>2, Zenon DEF SaveDispute, SafetyInv, TypeInv, TypeOK
    <2> QED BY <1>0, <2>2, <2>3, SoundStep, GrowsRefl, IdleSound, Zenon
  <1>3. CASE UpsertRead(p)
    <2>1. l.h \in Hash /\ l.pc = "upsertRead"
      BY <1>0, <1>3, Zenon DEF UpsertRead, At, Wellformed, HashPc
    <2> DEFINE next == [l EXCEPT !.pc = "upsertSave", !.tx = txs[l.h]]
    <2>2. /\ next.pc = "upsertSave" /\ next.op = l.op /\ next.d = l.d /\ next.h = l.h
          /\ next.ds = l.ds /\ next.rows = l.rows /\ next.tx = txs[l.h] /\ next.live = l.live
      BY <1>0, Zenon DEF Local
    <2>3. Become(p, next)
      BY <1>3, Zenon DEF UpsertRead, Continue
    <2> HIDE DEF next
    <2>4. CallSound(Facts, next)
      BY <1>0, <2>1, <2>2, Zenon DEF CallSound, ExecuteSound, LivePc, TxPc, ApplyPc
    <2> QED BY <1>3, <2>3, <2>4, QuietSound, Zenon DEF UpsertRead, Continue
  <1>4. CASE UpsertSave(p)
    <2>1. l.h \in Hash /\ l.pc = "upsertSave"
      BY <1>0, <1>4, Zenon DEF UpsertSave, At, Wellformed, HashPc
    <2>0. /\ UNCHANGED <<ledger, simulated, decisions, tried>>
          /\ requested \subseteq requested'
      BY <1>4, Zenon DEF UpsertSave
    <2>2. Grows(Facts, Facts')
      <3>1. /\ Facts'.ledger = Facts.ledger /\ Facts'.simulated = Facts.simulated
            /\ Facts'.decisions = Facts.decisions /\ Facts'.tried = Facts.tried
            /\ Facts.requested \subseteq Facts'.requested
        BY <2>0, Zenon DEF Facts
      <3>2. Counted(Facts)
        BY <1>0, Zenon
      <3> HIDE DEF Facts
      <3>3. \A h \in Hash : Facts.tried[h] \in Nat /\ Facts.tried[h] <= Facts.tried[h]
        BY <3>2 DEF Counted
      <3> QED BY <3>1, <3>3, Zenon DEF Grows
    <2>3. l.op = "execute" => <<l.d, l.h>> \in Facts'.requested
      BY <1>4, Zenon DEF UpsertSave, Facts
    <2>4. CallSound(Facts', l) /\ Counted(Facts')
      BY <1>0, <2>2, CallGrows, Zenon DEF Grows, Counted
    <2>5. RowSound(Facts', l.h, UpsertedTx(l))
      BY <1>0, <2>1, <2>3, <2>4, UpsertedSound, Zenon DEF CallSound, TxPc
    <2> DEFINE next(pc) == [l EXCEPT !.pc = pc, !.tx = NoTxRow]
    <2>6. ASSUME NEW pc PROVE
             /\ next(pc).pc = pc /\ next(pc).op = l.op /\ next(pc).d = l.d /\ next(pc).h = l.h
             /\ next(pc).ds = l.ds /\ next(pc).rows = l.rows /\ next(pc).live = l.live
      BY <1>0, Zenon DEF Local
    <2>7. \/ AfterUpsert(l) = Idle
          \/ AfterUpsert(l) = next("status")
          \/ AfterUpsert(l) = next("applyRead") /\ l.op = "execute"
          \/ AfterUpsert(l) = next("saveDispute") /\ l.op = "execute"
      BY DEF AfterUpsert
    <2> HIDE DEF next
    <2>8. CallSound(Facts', next("status"))
      BY <2>4, <2>6, CarrySound DEF LivePc, TxPc
    <2>9. l.op = "execute" => CallSound(Facts', next("applyRead"))
      <3>1. l.op = "execute" => ExecuteSound(Facts', next("applyRead"))
        BY <2>3, <2>4, <2>6, Zenon DEF CallSound, ExecuteSound
      <3>2. LiveSound(Facts', l.h, l.live) /\ \A h \in Hash : RowSound(Facts', h, l.rows[h])
        BY <2>1, <2>4, Zenon DEF CallSound, LivePc
      <3> QED BY <2>6, <3>1, <3>2, Zenon DEF CallSound, TxPc
    <2>10. l.op = "execute" => StatusSound(Facts', l.d, l.ds)
      BY <2>1, <2>3, <2>4, Zenon DEF CallSound, ExecuteSound, StatusSound
    <2>11. l.op = "execute" => CallSound(Facts', next("saveDispute"))
      BY <2>4, <2>6, <2>10 DEF CallSound, ExecuteSound, LivePc, TxPc, ApplyPc
    <2>12. CallSound(Facts', AfterUpsert(l))
      BY <2>4, <2>7, <2>8, <2>9, <2>11, IdleSound, Zenon
    <2>13. Become(p, AfterUpsert(l)) /\ SaveTx(l.h, UpsertedTx(l)) /\ UNCHANGED disputes
      BY <1>4, Zenon DEF UpsertSave
    <2> QED BY <2>1, <2>2, <2>5, <2>12, <2>13, SaveSound, Zenon
  <1>5. CASE SimList(p)
    <2> DEFINE some == {h \in Hash : txs[h].tracked /\ ~txs[h].validated}
               next == [l EXCEPT !.pc = "simNext", !.rows = txs, !.todo = some]
    <2>1. next.pc = "simNext" /\ next.op = l.op /\ next.d = l.d /\ next.ds = l.ds /\ next.rows = txs
      BY <1>0, Zenon DEF Local
    <2>2. Become(p, next)
      BY <1>5, Zenon DEF SimList, Continue
    <2> HIDE DEF next
    <2>3. CallSound(Facts, next)
      BY <1>0, <2>1, Zenon DEF CallSound, ExecuteSound, LivePc, TxPc, ApplyPc
    <2> QED BY <1>5, <2>2, <2>3, QuietSound, Zenon DEF SimList, Continue
  <1>6. CASE SimSave(p)
    <2>1. l.h \in Hash /\ l.pc = "simSave" /\ l.op = "backfillSim" /\ SimulatedSound(l)
          /\ RowSound(Facts, l.h, l.rows[l.h]) /\ l.rows[l.h] \in TxRow
      BY <1>0, <1>6, Zenon DEF SimSave, At, Wellformed, HashPc, CallSound
    <2>2. CountTry(l.h) /\ MaxProbes \in Nat
      BY <1>0, <1>6, FactsCounted, Zenon DEF SimSave
    <2>3. tried'[l.h] = IF tried[l.h] < MaxProbes THEN tried[l.h] + 1 ELSE tried[l.h]
      BY <1>0, <2>1, <2>2, CountTryGrows, Zenon
    <2>4. \A h \in Hash : tried[h] \in Nat /\ tried'[h] \in Nat /\ tried[h] <= tried'[h]
      BY <1>0, <2>1, <2>2, CountTryGrows, Zenon
    <2>5. Grows(Facts, Facts')
      BY <1>6, <2>4, Zenon DEF SimSave, Grows, Facts
    <2>6. l.tx.validated => l.h \in Facts'.simulated
      BY <1>6, Zenon DEF SimSave, Facts
    <2>7. CallSound(Facts', l) /\ Counted(Facts')
      BY <1>0, <2>5, CallGrows, Zenon DEF Grows, Counted
    <2>8. l.tx.retries <= tried'[l.h] \/ MaxProbes <= tried'[l.h]
      <3>1. l.rows[l.h].retries \in Nat /\ tried[l.h] \in Nat
        BY <2>1, <2>4, Zenon DEF TxRow
      <3>2. l.rows[l.h].retries <= tried[l.h] \/ MaxProbes <= tried[l.h]
        BY <2>1, Zenon DEF RowSound, Facts
      <3>3. l.tx.retries = l.rows[l.h].retries + 1 /\ MaxProbes \in Nat
        BY <2>1, <2>2, Zenon DEF SimulatedSound
      <3>4. l.rows[l.h].retries + 1 <= tried'[l.h] \/ MaxProbes <= tried'[l.h]
        <4> DEFINE r == l.rows[l.h].retries
                   t == tried[l.h]
                   u == tried'[l.h]
        <4>1. /\ r \in Nat /\ t \in Nat /\ MaxProbes \in Nat
              /\ u = IF t < MaxProbes THEN t + 1 ELSE t
              /\ r <= t \/ MaxProbes <= t
          BY <2>3, <3>1, <3>2, <3>3, Zenon
        <4> HIDE DEF r, t, u
        <4>2. r + 1 <= u \/ MaxProbes <= u
          BY <4>1, LagKept, Zenon
        <4> QED BY <4>2, Zenon DEF r, t, u
      <3> QED BY <3>3, <3>4, Zenon
    <2>9. RowSound(Facts', l.h, l.tx)
      <3>1. l.tx.dispute # NoDispute => <<l.tx.dispute, l.h>> \in Facts'.requested
        BY <2>1, <2>5, Zenon DEF SimulatedSound, RowSound, Grows
      <3>2. l.tx.validated => Justifies(Facts', l.h, Result(l.tx.outcome = "success"))
        BY <2>6, Zenon DEF Justifies
      <3> QED BY <2>1, <2>8, <3>1, <3>2, Zenon DEF RowSound, SimulatedSound, Facts
    <2> DEFINE live == Found(l.tx.validated, SimulatedCode(l.rows[l.h], l.code))
               next == [l EXCEPT !.pc = "applyRead", !.tx = NoTxRow, !.live = live]
    <2>10. LiveSound(Facts', l.h, live)
      BY <2>6, Zenon DEF LiveSound, Justifies, Found
    <2>11. Become(p, next) /\ SaveTx(l.h, l.tx) /\ UNCHANGED disputes
      BY <1>6, Zenon DEF SimSave
    <2> HIDE DEF live
    <2>12. /\ next.pc = "applyRead" /\ next.op = l.op /\ next.d = l.d /\ next.h = l.h
           /\ next.ds = l.ds /\ next.rows = l.rows /\ next.live = live
      BY <1>0, Zenon DEF Local
    <2> HIDE DEF next
    <2>13. CallSound(Facts', next)
      <3>1. LiveSound(Facts', next.h, next.live)
        BY <2>10, <2>12, Zenon
      <3>2. \A h \in Hash : RowSound(Facts', h, next.rows[h])
        BY <2>7, <2>12, Zenon DEF CallSound
      <3>3. next.op # "execute" /\ next.pc \notin TxPc
        BY <2>1, <2>12, Zenon DEF TxPc
      <3> QED BY <2>12, <3>1, <3>2, <3>3, Zenon DEF CallSound
    <2> QED BY <2>1, <2>5, <2>9, <2>11, <2>13, SaveSound, Zenon
  <1>7. CASE BackfillDone(p)
    BY <1>0, <1>7, IdleSound, QuietSound, Zenon DEF BackfillDone, Continue
  <1>8. ASSUME NEW h \in Hash, LiveNext(p, h) PROVE Sound'
    <2>1. l.op = "backfillLive" /\ ledger[h] \in Final
      BY <1>0, <1>8, Zenon DEF LiveNext, At, Wellformed, Knows
    <2> DEFINE live == Found(TRUE, ledger[h])
               next == [l EXCEPT !.pc = "applyRead", !.h = h, !.todo = @ \ {h}, !.live = live]
    <2>2. LiveSound(Facts, h, live)
      BY <2>1, Zenon DEF LiveSound, Justifies, Found, Result, Facts, Final
    <2>3. Become(p, next)
      BY <1>8, Zenon DEF LiveNext, Continue
    <2> HIDE DEF live
    <2>4. /\ next.pc = "applyRead" /\ next.op = l.op /\ next.h = h /\ next.rows = l.rows
          /\ next.live = live
      BY <1>0, Zenon DEF Local
    <2> HIDE DEF next
    <2>5. CallSound(Facts, next)
      BY <1>0, <2>1, <2>2, <2>4, Zenon DEF CallSound, LivePc, TxPc
    <2> QED BY <1>8, <2>3, <2>5, QuietSound, Zenon DEF LiveNext, Continue
  <1>9. ASSUME NEW h \in Hash, SimNext(p, h) PROVE Sound'
    <2>1. l.op = "backfillSim" /\ l.rows[h] \in TxRow
      BY <1>0, <1>9, Zenon DEF SimNext, At, Wellformed
    <2> DEFINE tx == SimulatedTx(l.rows[h], l.code)
               next == [l EXCEPT !.pc = "simSave", !.h = h, !.todo = @ \ {h}, !.tx = tx]
    <2>2. tx.dispute = l.rows[h].dispute /\ tx.retries = l.rows[h].retries + 1 /\ ~Exhausted(tx)
      BY <2>1, SimulatedFields, Zenon
    <2>3. Become(p, next)
      BY <1>9, Zenon DEF SimNext, Continue
    <2> HIDE DEF tx
    <2>4. /\ next.pc = "simSave" /\ next.op = l.op /\ next.h = h /\ next.rows = l.rows
          /\ next.tx = tx
      BY <1>0, Zenon DEF Local
    <2> HIDE DEF next
    <2>5. CallSound(Facts, next)
      BY <1>0, <2>1, <2>2, <2>4, Zenon DEF CallSound, SimulatedSound, LivePc, TxPc
    <2> QED BY <1>9, <2>3, <2>5, QuietSound, Zenon DEF SimNext, Continue
  <1>10. ASSUME NEW result \in Final, Submitted(p, result) PROVE Sound'
    <2>1. Grows(Facts, Facts')
      BY <1>0, <1>10, SubmitGrows, Zenon DEF Submitted
    <2>2. CallSound(Facts', l)
      BY <1>0, <2>1, CallGrows, Zenon
    <2> DEFINE next == [l EXCEPT !.pc = "status"]
    <2>3. next.pc = "status" /\ next.op = l.op /\ next.d = l.d /\ next.ds = l.ds /\ next.rows = l.rows
      BY <1>0, Zenon DEF Local
    <2>4. Become(p, next) /\ UNCHANGED <<txs, disputes>>
      BY <1>10, Zenon DEF Submitted
    <2> HIDE DEF next
    <2>5. CallSound(Facts', next)
      BY <2>2, <2>3, CarrySound, Zenon DEF LivePc, TxPc
    <2> QED BY <2>1, <2>4, <2>5, SoundStep, Zenon
  <1>11. ASSUME NEW live \in Live, NEW pc \in LivePc \ {"upsertSave"}, LiveSound(Facts, l.h, live),
                pc = "applyRead" => l.op # "execute",
                Continue(p, [l EXCEPT !.pc = pc, !.live = live])
         PROVE  Sound'
    <2> DEFINE next == [l EXCEPT !.pc = pc, !.live = live]
    <2>1. /\ next.pc = pc /\ next.op = l.op /\ next.d = l.d /\ next.h = l.h
          /\ next.ds = l.ds /\ next.rows = l.rows /\ next.live = live
      BY <1>0, Zenon DEF Local
    <2> HIDE DEF next
    <2>2. CallSound(Facts, next)
      BY <1>0, <1>11, <2>1, Zenon DEF CallSound, ExecuteSound, LivePc, TxPc, ApplyPc
    <2> QED BY <1>11, <2>2, QuietSound, Zenon DEF Continue, next
  <1>12. CASE Continue(p, Idle)
    BY <1>0, <1>12, IdleSound, QuietSound, Zenon DEF Continue
  <1>13. ASSUME NEW live \in Live, StatusOfExecution(p, live) \/ StatusOfRefresh(p, live)
         PROVE  Sound'
    <2>1. LiveSound(Facts, l.h, live)
      BY <1>13, AnswerSound, Zenon DEF StatusOfExecution, StatusOfRefresh
    <2>2. \/ Continue(p, Idle)
          \/ Continue(p, [l EXCEPT !.pc = "upsertRead", !.live = live])
          \/ Continue(p, [l EXCEPT !.pc = "applyRead", !.live = live]) /\ l.op # "execute"
      BY <1>13, Zenon DEF StatusOfExecution, StatusOfRefresh
    <2> QED BY <1>11, <1>12, <2>1, <2>2, Zenon DEF LivePc
  <1>14. ASSUME NEW some \in SUBSET Hash, BackfillLive(p, some) PROVE Sound'
    <2> DEFINE next == [l EXCEPT !.pc = "liveNext", !.todo = some]
    <2>1. next.pc = "liveNext" /\ next.op = l.op /\ next.d = l.d /\ next.ds = l.ds
          /\ next.rows = l.rows
      BY <1>0, Zenon DEF Local
    <2>2. Become(p, next)
      BY <1>14, Zenon DEF BackfillLive, Continue
    <2> HIDE DEF next
    <2>3. CallSound(Facts, next)
      BY <1>0, <2>1, CarrySound, Zenon DEF LivePc, TxPc
    <2> QED BY <1>14, <2>2, <2>3, QuietSound, Zenon DEF BackfillLive, Continue
  <1>15. CASE ApplyStep(p)
    BY <1>15, ApplySound, Zenon
  <1> QED BY <1>1, <1>2, <1>3, <1>4, <1>5, <1>6, <1>7, <1>8, <1>9, <1>10, <1>13, <1>14,
             <1>15, Zenon DEF HandlerStep

\* A handler that throws, or falls back to simulation, keeps the invariant.
LEMMA HandlerFailsSound ==
    ASSUME SafetyInv, NEW p \in Proc, HandlerFails(p) PROVE Sound'
  <1> DEFINE l == proc[p]
  <1>0. l \in Local /\ Wellformed(l) /\ CallSound(Facts, l) /\ Counted(Facts) /\ TypeInv
    BY FactsCounted, CallType, Zenon DEF SafetyInv, Sound
  <1>1. ASSUME NEW state, SubmitFails(p, state) PROVE Sound'
    <2>1. Grows(Facts, Facts')
      BY <1>0, <1>1, SubmitGrows, Zenon DEF SubmitFails
    <2>2. CallSound(Facts', Idle)
      BY <2>1, IdleSound, Zenon DEF Grows, Counted
    <2> QED BY <1>1, <2>1, <2>2, SoundStep, Zenon DEF SubmitFails
  <1>2. CASE StatusThrows(p)
    BY <1>0, <1>2, IdleSound, QuietSound, Zenon DEF StatusThrows, Continue
  <1>3. CASE BackfillFallsBack(p)
    <2> DEFINE next == [l EXCEPT !.pc = "simList", !.op = "backfillSim"]
    <2>1. next.pc = "simList" /\ next.op = "backfillSim" /\ next.rows = l.rows
      BY <1>0, Zenon DEF Local
    <2>2. Become(p, next)
      BY <1>3, Zenon DEF BackfillFallsBack, Continue
    <2> HIDE DEF next
    <2>3. CallSound(Facts, next)
      BY <1>0, <2>1, Zenon DEF CallSound, LivePc, TxPc
    <2> QED BY <1>3, <2>2, <2>3, QuietSound, Zenon DEF BackfillFallsBack, Continue
  <1> QED BY <1>1, <1>2, <1>3, Zenon DEF HandlerFails

\* Every await of the stream handler keeps the invariant.
LEMMA StreamSound ==
    ASSUME SafetyInv, NEW p \in Proc, (\E h \in Hash : Receive(p, h)) \/ StreamStep(p)
    PROVE  Sound'
  <1> DEFINE l == proc[p]
  <1>0. /\ l \in Local /\ Wellformed(l) /\ Knows(l)
        /\ CallSound(Facts, l) /\ Counted(Facts)
    BY FactsCounted, CallType, Zenon DEF SafetyInv, Sound
  <1>1. ASSUME NEW h \in Hash, Receive(p, h) PROVE Sound'
    <2> DEFINE next == [Idle EXCEPT !.pc = "ingest", !.op = "stream", !.h = h]
    <2>1. next.pc = "ingest" /\ next.op = "stream" /\ next.rows = NoRows /\ next.live = NotFound
      BY Zenon DEF Idle
    <2>2. Become(p, next)
      BY <1>1, Zenon DEF Receive, Continue
    <2> HIDE DEF next
    <2>3. CallSound(Facts, next)
      BY <1>0, <2>1, StartSound, Zenon DEF TxPc
    <2> QED BY <1>1, <2>2, <2>3, QuietSound, Zenon DEF Receive, Continue
  <1>2. CASE Ingest(p)
    <2>1. ledger[l.h] \in Final /\ l.pc = "ingest"
      BY <1>0, <1>2, Zenon DEF Ingest, At, Knows
    <2> DEFINE live == Found(TRUE, ledger[l.h])
               next == [l EXCEPT !.pc = "applyRead", !.live = live]
    <2>2. LiveSound(Facts, l.h, live)
      BY <2>1, Zenon DEF LiveSound, Justifies, Found, Result, Facts, Final
    <2>3. Become(p, next) \/ Become(p, Idle)
      BY <1>2, Zenon DEF Ingest
    <2> HIDE DEF live
    <2>4. /\ next.pc = "applyRead" /\ next.op = l.op /\ next.h = l.h /\ next.rows = l.rows
          /\ next.live = live
      BY <1>0, Zenon DEF Local
    <2>5. l.op # "execute"
      BY <1>0, <2>1, Zenon DEF Wellformed
    <2> HIDE DEF next
    <2>6. CallSound(Facts, next)
      BY <1>0, <2>2, <2>4, <2>5, Zenon DEF CallSound, LivePc, TxPc
    <2> QED BY <1>0, <1>2, <2>3, <2>6, IdleSound, QuietSound, Zenon DEF Ingest
  <1>3. CASE ApplyStep(p)
    BY <1>3, ApplySound, Zenon
  <1> QED BY <1>1, <1>2, <1>3, Zenon DEF StreamStep

\* Every await of the policy worker's tick keeps the invariant; only Reread adds a
\* fact, one more look-up, together with the retry it counts in the row.
LEMMA WorkerSound ==
    ASSUME SafetyInv, NEW p \in Proc, WorkerStep(p) \/ ProbeThrows(p) PROVE Sound'
  <1> DEFINE l == proc[p]
  <1>0. /\ l \in Local /\ Wellformed(l) /\ l.tx \in TxRow
        /\ CallSound(Facts, l) /\ Counted(Facts) /\ TypeInv
        /\ \A h \in Hash : txs[h] \in TxRow /\ RowSound(Facts, h, txs[h])
    BY FactsCounted, CallType, Zenon DEF SafetyInv, Sound
  <1>1. ASSUME NEW some, Tick(p, some) PROVE Sound'
    <2> DEFINE old == {h \in aged : isPolicyCandidate(txs[h])}
               next == [Idle EXCEPT !.pc = "accounts", !.op = "policy", !.acct = some,
                                    !.todo = old]
    <2>1. next.pc = "accounts" /\ next.op = "policy" /\ next.rows = NoRows /\ next.live = NotFound
      BY Zenon DEF Idle
    <2>2. Become(p, next)
      BY <1>1, Zenon DEF Tick, Continue
    <2> HIDE DEF next
    <2>3. CallSound(Facts, next)
      BY <1>0, <2>1, StartSound, Zenon DEF TxPc
    <2> QED BY <1>1, <2>2, <2>3, QuietSound, Zenon DEF Tick, Continue
  \* Steps to a label at which the worker holds no row to be saved.
  <1>2. ASSUME NEW next, Become(p, next), next.rows = l.rows, next.op = l.op, next.d = l.d,
               next.ds = l.ds,
               next.pc \in {"accounts", "accountRead", "jobs", "probe", "probeAccount", "reread",
                           "jobDelete", "bump"},
               UNCHANGED <<ledger, txs, disputes, decisions, requested, simulated, tried>>
        PROVE  Sound'
    <2>1. CallSound(Facts, next)
      BY <1>0, <1>2, CarrySound, Zenon DEF LivePc, TxPc
    <2> QED BY <1>2, <2>1, QuietSound, Zenon
  <1>3. ASSUME NEW h \in Hash, NEW live \in Live, AccountStatus(p, h, live) PROVE Sound'
    <2> DEFINE skip == [l EXCEPT !.acct = @ \ {h}]
               next == [skip EXCEPT !.pc = "accountRead", !.h = h]
    <2>1. skip.pc = "accounts" /\ next.pc = "accountRead"
          /\ \A s \in {skip, next} : s.rows = l.rows /\ s.op = l.op /\ s.d = l.d /\ s.ds = l.ds
      BY <1>0, <1>3 DEF AccountStatus, At, Local
    <2>2. Become(p, next) \/ Become(p, skip)
      BY <1>3, Zenon DEF AccountStatus, Continue
    <2> HIDE DEF skip, next
    <2> QED BY <1>2, <1>3, <2>1, <2>2, Zenon DEF AccountStatus, Continue
  <1>4. CASE AccountRead(p)
    <2>1. l.h \in Hash /\ l.op = "policy"
      BY <1>0, <1>4, Zenon DEF AccountRead, At, Wellformed, HashPc
    <2> DEFINE tx == [txs[l.h] EXCEPT !.account = TRUE]
               skip == [l EXCEPT !.pc = "accounts", !.h = NoHash]
               next == [l EXCEPT !.pc = "accountSave", !.tx = tx]
    <2>2. /\ tx.dispute = txs[l.h].dispute /\ tx.validated = txs[l.h].validated
          /\ tx.outcome = txs[l.h].outcome /\ tx.retries = txs[l.h].retries
          /\ tx.tracking = txs[l.h].tracking
      BY <1>0, <2>1, Zenon DEF TxRow
    <2>3. skip.pc = "accounts" /\ skip.rows = l.rows /\ skip.op = l.op /\ skip.d = l.d
          /\ skip.ds = l.ds
      BY <1>0, Zenon DEF Local
    <2>4. Become(p, next) \/ Become(p, skip)
      BY <1>4, Zenon DEF AccountRead, Continue
    <2> HIDE DEF tx, skip
    <2>5. RowSound(Facts, l.h, tx)
      BY <1>0, <2>1, <2>2, Zenon DEF RowSound, Exhausted
    <2>6. next.pc = "accountSave" /\ next.h = l.h /\ next.rows = l.rows /\ next.op = l.op
          /\ next.tx = tx
      BY <1>0, Zenon DEF Local
    <2> HIDE DEF next
    <2>7. CallSound(Facts, next)
      BY <1>0, <2>1, <2>5, <2>6, Zenon DEF CallSound, LivePc, TxPc
    <2> QED BY <1>2, <1>4, <2>3, <2>4, <2>7, QuietSound, Zenon DEF AccountRead, Continue
  <1>5. CASE AccountSave(p)
    <2>1. l.h \in Hash /\ RowSound(Facts, l.h, l.tx)
      BY <1>0, <1>5, Zenon DEF AccountSave, At, Wellformed, HashPc, CallSound, TxPc
    <2> DEFINE next == [l EXCEPT !.pc = "accounts", !.h = NoHash, !.tx = NoTxRow]
    <2>2. next.pc = "accounts" /\ next.rows = l.rows /\ next.op = l.op /\ next.d = l.d
          /\ next.ds = l.ds
      BY <1>0, Zenon DEF Local
    <2>3. Become(p, next) /\ SaveTx(l.h, l.tx) /\ UNCHANGED disputes /\ Facts' = Facts
      BY <1>5, Zenon DEF AccountSave, Facts
    <2> HIDE DEF next
    <2>4. CallSound(Facts, next)
      BY <1>0, <2>2, CarrySound, Zenon DEF LivePc, TxPc
    <2> QED BY <1>0, <2>1, <2>3, <2>4, SaveSound, GrowsRefl, Zenon
  <1>6. ASSUME NEW h \in Hash, Enqueue(p, h) PROVE Sound'
    <2> DEFINE next == [l EXCEPT !.todo = @ \ {h}]
    <2>1. next.pc = "accounts" /\ next.rows = l.rows /\ next.op = l.op /\ next.d = l.d
          /\ next.ds = l.ds
      BY <1>0, <1>6, Zenon DEF Enqueue, At, Local
    <2>2. Become(p, next)
      BY <1>6, Zenon DEF Enqueue
    <2> HIDE DEF next
    <2> QED BY <1>2, <1>6, <2>1, <2>2, Zenon DEF Enqueue
  <1>7. CASE Claim(p)
    <2> DEFINE next == [l EXCEPT !.pc = "jobs", !.todo = {h \in Hash : job[h] = "due"}]
    <2>1. next.pc = "jobs" /\ next.rows = l.rows /\ next.op = l.op /\ next.d = l.d
          /\ next.ds = l.ds
      BY <1>0, Zenon DEF Local
    <2>2. Become(p, next) \/ Become(p, Idle)
      BY <1>7, Zenon DEF Claim
    <2> HIDE DEF next
    <2> QED BY <1>0, <1>2, <1>7, <2>1, <2>2, IdleSound, QuietSound, Zenon DEF Claim
  <1>8. ASSUME NEW h \in Hash, JobRead(p, h) PROVE Sound'
    <2> DEFINE pc == IF isPolicyCandidate(txs[h]) THEN "probe" ELSE "jobDelete"
               next == [l EXCEPT !.h = h, !.todo = @ \ {h}, !.tx = txs[h], !.pc = pc]
    <2>1. next.pc \in {"probe", "jobDelete"} /\ next.rows = l.rows /\ next.op = l.op
          /\ next.d = l.d /\ next.ds = l.ds
      BY <1>0, Zenon DEF Local
    <2>2. Become(p, next)
      BY <1>8, Zenon DEF JobRead, Continue
    <2> HIDE DEF next
    <2> QED BY <1>2, <1>8, <2>1, <2>2, Zenon DEF JobRead, Continue
  <1>9. ASSUME NEW live \in Live, Resolve(p, live), LiveSound(Facts, l.h, live), l.op = "policy"
        PROVE  Sound'
    <2> DEFINE next == [l EXCEPT !.pc = "applyRead", !.live = live, !.tx = NoTxRow]
    <2>1. next.pc = "applyRead" /\ next.h = l.h /\ next.rows = l.rows /\ next.op = l.op
          /\ next.live = live
      BY <1>0, Zenon DEF Local
    <2>2. Become(p, next)
      BY <1>9, Zenon DEF Resolve, Continue
    <2> HIDE DEF next
    <2>3. CallSound(Facts, next)
      BY <1>0, <1>9, <2>1, Zenon DEF CallSound, LivePc, TxPc
    <2> QED BY <1>9, <2>2, <2>3, QuietSound, Zenon DEF Resolve, Continue
  <1>10. ASSUME NEW pc \in {"probeAccount", "reread"}, Continue(p, [l EXCEPT !.pc = pc])
         PROVE  Sound'
    <2> DEFINE next == [l EXCEPT !.pc = pc]
    <2>1. next.pc = pc /\ next.rows = l.rows /\ next.op = l.op /\ next.d = l.d /\ next.ds = l.ds
      BY <1>0, Zenon DEF Local
    <2>2. Become(p, next)
      BY <1>10, Zenon DEF Continue
    <2> HIDE DEF next
    <2> QED BY <1>2, <1>10, <2>1, <2>2, Zenon DEF Continue
  <1>11. ASSUME NEW live \in Live, Probe(p, live) \/ ProbeAccount(p, live) PROVE Sound'
    <2>1. LiveSound(Facts, l.h, live) /\ l.op = "policy"
      BY <1>0, <1>11, AnswerSound, Zenon DEF Probe, ProbeAccount, At, Wellformed
    <2>2. \/ Resolve(p, live)
          \/ \E pc \in {"probeAccount", "reread"} : Continue(p, [l EXCEPT !.pc = pc])
      BY <1>11, Zenon DEF Probe, ProbeAccount
    <2> QED BY <1>9, <1>10, <2>1, <2>2, Zenon
  <1>12. CASE ProbeThrows(p)
    <2> DEFINE next == [l EXCEPT !.pc = "bump", !.tx = NoTxRow]
    <2>1. next.pc = "bump" /\ next.rows = l.rows /\ next.op = l.op /\ next.d = l.d
          /\ next.ds = l.ds
      BY <1>0, Zenon DEF Local
    <2>2. Become(p, next)
      BY <1>12, Zenon DEF ProbeThrows, Continue
    <2> HIDE DEF next
    <2> QED BY <1>2, <1>12, <2>1, <2>2, Zenon DEF ProbeThrows, Continue
  <1>13. CASE Reread(p)
    <2>1. l.h \in Hash /\ l.op = "policy"
      BY <1>0, <1>13, Zenon DEF Reread, At, Wellformed, HashPc
    <2>2. CountTry(l.h)
      BY <1>13, Zenon DEF Reread
    <2>3. tried'[l.h] = IF tried[l.h] < MaxProbes THEN tried[l.h] + 1 ELSE tried[l.h]
      BY <1>0, <2>1, <2>2, CountTryGrows, Zenon
    <2>4. \A h \in Hash : tried[h] \in Nat /\ tried'[h] \in Nat /\ tried[h] <= tried'[h]
      BY <1>0, <2>1, <2>2, CountTryGrows, Zenon
    <2>5. Grows(Facts, Facts')
      BY <1>13, <2>4, Zenon DEF Reread, Grows, Facts
    <2>6. CallSound(Facts', l)
      BY <1>0, <2>5, CallGrows, Zenon
    <2> DEFINE tx == ProbedTx(txs[l.h])
               next == [l EXCEPT !.pc = "policySave", !.tx = tx]
    <2>7. RowSound(Facts', l.h, tx)
      <3>1. Facts'.tried[l.h] =
               IF Facts.tried[l.h] < MaxProbes THEN Facts.tried[l.h] + 1 ELSE Facts.tried[l.h]
        BY <2>3, Zenon DEF Facts
      <3> QED BY <1>0, <2>1, <2>5, <3>1, ProbedSound, Zenon
    <2>8. Become(p, next) /\ UNCHANGED <<txs, disputes>>
      BY <1>13, Zenon DEF Reread
    <2> HIDE DEF tx
    <2>9. next.pc = "policySave" /\ next.h = l.h /\ next.rows = l.rows /\ next.op = l.op
          /\ next.tx = tx
      BY <1>0, Zenon DEF Local
    <2> HIDE DEF next
    <2>10. CallSound(Facts', next)
      BY <2>1, <2>6, <2>7, <2>9, Zenon DEF CallSound, LivePc, TxPc
    <2> QED BY <2>5, <2>8, <2>10, SoundStep, Zenon
  <1>14. CASE PolicySave(p)
    <2>1. l.h \in Hash /\ RowSound(Facts, l.h, l.tx)
      BY <1>0, <1>14, Zenon DEF PolicySave, At, Wellformed, HashPc, CallSound, TxPc
    <2> DEFINE pc == IF l.tx.retries >= MaxProbes THEN "jobDelete" ELSE "bump"
               next == [l EXCEPT !.tx = NoTxRow, !.pc = pc]
    <2>2. next.pc \in {"jobDelete", "bump"} /\ next.rows = l.rows /\ next.op = l.op
          /\ next.d = l.d /\ next.ds = l.ds
      BY <1>0, Zenon DEF Local
    <2>3. Become(p, next) /\ SaveTx(l.h, l.tx) /\ UNCHANGED disputes /\ Facts' = Facts
      BY <1>14, Zenon DEF PolicySave, Facts
    <2> HIDE DEF next
    <2>4. CallSound(Facts, next)
      BY <1>0, <2>2, CarrySound, Zenon DEF LivePc, TxPc
    <2> QED BY <1>0, <2>1, <2>3, <2>4, SaveSound, GrowsRefl, Zenon
  <1>15. ASSUME NEW state, FinishJob(p, state) PROVE Sound'
    <2> DEFINE next == [l EXCEPT !.pc = "jobs", !.h = NoHash, !.tx = NoTxRow]
    <2>1. next.pc = "jobs" /\ next.rows = l.rows /\ next.op = l.op /\ next.d = l.d
          /\ next.ds = l.ds
      BY <1>0, Zenon DEF Local
    <2>2. Become(p, next) \/ Become(p, Idle)
      BY <1>15, Zenon DEF FinishJob
    <2> HIDE DEF next
    <2> QED BY <1>0, <1>2, <1>15, <2>1, <2>2, IdleSound, QuietSound, Zenon DEF FinishJob
  <1>16. CASE JobDelete(p) \/ Bump(p)
    BY <1>15, <1>16, Zenon DEF JobDelete, Bump
  <1>17. CASE ApplyStep(p)
    BY <1>17, ApplySound, Zenon
  <1> QED BY <1>1, <1>3, <1>4, <1>5, <1>6, <1>7, <1>8, <1>11, <1>12, <1>13, <1>14, <1>16,
             <1>17, Zenon DEF WorkerStep

\* Steps of the environment move no call, except that a crash ends them all.
LEMMA EnvironmentSound ==
    ASSUME SafetyInv,
           \/ \E d \in Dispute : FileDispute(d)
           \/ \E h \in Hash : Age(h) \/ BecomeDue(h) \/ LedgerSubmit(h) \/ LedgerSettle(h)
           \/ Crash
    PROVE  Sound'
  <1>0. /\ Counted(Facts) /\ TypeInv
        /\ \A h \in Hash : txs[h] \in TxRow /\ RowSound(Facts, h, txs[h])
        /\ \A d \in Dispute : StatusSound(Facts, d, disputes[d])
        /\ \A p \in Proc : proc[p] \in Local /\ Wellformed(proc[p]) /\ CallSound(Facts, proc[p])
    BY FactsCounted, CallType, Zenon DEF SafetyInv, Sound, TypeInv, TypeOK
  <1>1. ASSUME NEW d \in Dispute, FileDispute(d) PROVE Sound'
    <2>1. Facts' = Facts /\ txs' = txs /\ proc' = proc
      BY <1>1, Zenon DEF FileDispute, Facts
    <2>2. disputes'[d].status = "filed" /\ \A e \in Dispute \ {d} : disputes'[e] = disputes[e]
      BY <1>0, <1>1, Zenon DEF FileDispute, TypeInv, TypeOK, DisputeRow
    <2>3. \A e \in Dispute : StatusSound(Facts, e, disputes'[e])
      BY <1>0, <2>2, Zenon DEF StatusSound
    <2> QED BY <1>0, <2>1, <2>3, Zenon DEF Sound
  <1>2. ASSUME NEW h \in Hash, Age(h) \/ BecomeDue(h) PROVE Sound'
    <2>1. Facts' = Facts /\ txs' = txs /\ proc' = proc /\ disputes' = disputes
      BY <1>2, Zenon DEF Age, BecomeDue, Facts
    <2> QED BY <1>0, <2>1, Zenon DEF Sound
  <1>3. ASSUME NEW h \in Hash, LedgerSubmit(h) \/ LedgerSettle(h) PROVE Sound'
    <2>1. txs' = txs /\ proc' = proc /\ disputes' = disputes
      BY <1>3, Zenon DEF LedgerSubmit, LedgerSettle, LedgerMoves
    <2>2. Grows(Facts, Facts')
      <3>1. \A g \in Hash : ledger[g] \in Final => ledger'[g] = ledger[g]
        BY <1>0, <1>3, Zenon DEF LedgerSubmit, LedgerSettle, LedgerMoves, Final, TypeInv, TypeOK
      <3>2. /\ Facts.ledger = ledger /\ Facts'.ledger = ledger'
            /\ Facts'.requested = Facts.requested /\ Facts'.simulated = Facts.simulated
            /\ Facts'.decisions = Facts.decisions /\ Facts'.tried = Facts.tried
        BY <1>3, Zenon DEF LedgerSubmit, LedgerSettle, LedgerMoves, Facts
      <3> HIDE DEF Facts
      <3>3. Counted(Facts)
        BY <1>0, Zenon
      <3>4. \A g \in Hash : Facts.ledger[g] \in Final => Facts'.ledger[g] = Facts.ledger[g]
        BY <3>1, <3>2, Zenon
      <3>5. \A g \in Hash : /\ Facts.tried[g] \in Nat /\ Facts'.tried[g] \in Nat
                            /\ Facts.tried[g] <= Facts'.tried[g]
        <4>1. \A g \in Hash : Facts.tried[g] \in Nat /\ Facts'.tried[g] = Facts.tried[g]
          BY <3>2, <3>3, Zenon DEF Counted
        <4> QED BY <4>1
      <3>6. /\ Facts.requested \subseteq Facts'.requested
            /\ Facts.simulated \subseteq Facts'.simulated
            /\ \A d \in Dispute : Facts.decisions[d] > 0 => Facts'.decisions[d] > 0
        BY <3>2, Zenon
      <3> QED BY <3>4, <3>5, <3>6, Zenon DEF Grows
    <2>3. \A g \in Hash : RowSound(Facts', g, txs[g])
      BY <1>0, <2>2, RowGrows, Zenon
    <2>4. \A d \in Dispute : StatusSound(Facts', d, disputes[d])
      BY <1>0, <2>2, StatusGrows, Zenon
    <2>5. \A p \in Proc : CallSound(Facts', proc[p])
      BY <1>0, <2>2, CallGrows, Zenon
    <2> QED BY <2>1, <2>3, <2>4, <2>5, Zenon DEF Sound
  <1>4. CASE Crash
    <2>1. Facts' = Facts /\ txs' = txs /\ disputes' = disputes /\ \A p \in Proc : proc'[p] = Idle
      BY <1>4, Zenon DEF Crash, Facts
    <2> QED BY <1>0, <2>1, IdleSound, Zenon DEF Sound
  <1> QED BY <1>1, <1>2, <1>3, <1>4, Zenon

-----------------------------------------------------------------------------
(* The theorems *)

\* Empty tables and idle calls satisfy the invariant.
LEMMA InitSafetyInv == Init => SafetyInv
  <1> SUFFICES ASSUME Init PROVE SafetyInv
    BY Zenon
  <1>1. TypeInv
    BY InitTypeInv, Zenon
  <1>2. Counted(Facts)
    BY <1>1, FactsCounted, Zenon
  <1>3. \A h \in Hash : RowSound(Facts, h, txs[h])
    <2> SUFFICES ASSUME NEW h \in Hash PROVE RowSound(Facts, h, txs[h])
      BY Zenon
    <2>1. txs[h] = NoTxRow /\ Facts.tried[h] \in Nat
      BY <1>2, Zenon DEF Init, Counted
    <2>2. /\ NoTxRow.dispute = NoDispute /\ ~NoTxRow.validated /\ NoTxRow.retries = 0
          /\ ~Exhausted(NoTxRow)
      BY Zenon DEF NoTxRow, Exhausted
    <2>3. txs[h].retries <= Facts.tried[h]
      <3> HIDE DEF Facts
      <3>1. txs[h].retries = 0 /\ Facts.tried[h] \in Nat
        BY <2>1, <2>2, Zenon
      <3> QED BY <3>1
    <2> QED BY <2>1, <2>2, <2>3, Zenon DEF RowSound
  <1>4. \A d \in Dispute : StatusSound(Facts, d, disputes[d])
    BY Zenon DEF Init, StatusSound, NoDisputeRow
  <1>5. \A p \in Proc : CallSound(Facts, proc[p])
    BY <1>2, IdleSound, Zenon DEF Init
  <1> QED BY <1>1, <1>3, <1>4, <1>5, Zenon DEF SafetyInv, Sound

\* The invariant is inductive.
LEMMA NextSafetyInv == SafetyInv /\ [Next]_vars => SafetyInv'
  <1> SUFFICES ASSUME SafetyInv, [Next]_vars PROVE SafetyInv'
    BY Zenon
  <1> USE DEF Proc
  <1>1. ASSUME NEW p \in Handler, Request(p) \/ HandlerStep(p) \/ HandlerFails(p)
        PROVE  Sound'
    BY <1>1, RequestSound, HandlerSound, HandlerFailsSound, Zenon
  <1>2. ASSUME NEW p \in Stream, (\E h \in Hash : Receive(p, h)) \/ StreamStep(p)
        PROVE  Sound'
    BY <1>2, StreamSound, Zenon
  <1>3. ASSUME NEW p \in Worker, WorkerStep(p) \/ ProbeThrows(p) PROVE Sound'
    BY <1>3, WorkerSound, Zenon
  <1>4. ASSUME UNCHANGED vars PROVE Sound'
    <2>1. Facts' = Facts /\ txs' = txs /\ disputes' = disputes /\ proc' = proc
      BY <1>4, Zenon DEF vars, Facts
    <2> QED BY <2>1, Zenon DEF SafetyInv, Sound
  <1>5. ASSUME \/ \E d \in Dispute : FileDispute(d)
               \/ \E h \in Hash : Age(h) \/ BecomeDue(h) \/ LedgerSubmit(h) \/ LedgerSettle(h)
               \/ Crash
        PROVE  Sound'
    BY <1>5, EnvironmentSound, Zenon
  <1>6. Sound'
    BY <1>1, <1>2, <1>3, <1>4, <1>5, Zenon DEF Next
  <1> QED BY <1>6, NextTypeInv, Zenon DEF SafetyInv

\* Every reachable state satisfies the invariant.
LEMMA SafetyInvariant == Spec => []SafetyInv
  BY InitSafetyInv, NextSafetyInv, PTL DEF Spec

\* applyLiveTxStatus closes a dispute as executed or rejected only on the result of
\* a transaction that the execution route recorded for it, for any number of
\* overlapping calls, crashes and repeated or lost stream messages.
THEOREM VerdictsBacked == Spec => []VerdictBackedByLedger
  <1>1. SafetyInv => VerdictBackedByLedger
    BY Zenon DEF SafetyInv, Sound, StatusSound, VerdictBackedByLedger, Backed, Justifies, Facts
  <1> QED BY <1>1, SafetyInvariant, PTL

\* The decision and execution routes write the rows that justify a status before
\* the status, and no stale save of a dispute undoes that order.
THEOREM StatusesRecorded == Spec => []StatusHasItsRecords
  <1>1. SafetyInv => StatusHasItsRecords
    BY Zenon DEF SafetyInv, Sound, StatusSound, StatusHasItsRecords, Facts
  <1> QED BY <1>1, SafetyInvariant, PTL

\* The policy worker makes maxNotFoundProbes look-ups before it gives a transaction
\* up, for every budget and any number of overlapping ticks.
THEOREM BudgetKept == Spec => []BudgetHonoured
  <1>1. SafetyInv => BudgetHonoured
    <2> SUFFICES ASSUME SafetyInv, NEW h \in Hash, Exhausted(txs[h]) PROVE tried[h] >= MaxProbes
      BY Zenon DEF BudgetHonoured
    <2>1. tried[h] \in Nat /\ MaxProbes \in Nat
      BY ConstantsAssumption DEF SafetyInv, TypeInv, TypeOK
    <2> QED BY <2>1, Zenon DEF SafetyInv, Sound, RowSound, Facts
  <1> QED BY <1>1, SafetyInvariant, PTL
=============================================================================
