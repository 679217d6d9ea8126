--------------------------- MODULE LeaseTheorems ---------------------------
(***************************************************************************)
(* What holds of a lock and of a lease.  LeaseProofs has their invariants; *)
(* here a lease keeps its deposits tracked and drives be2-ops as           *)
(* ContractLifecycle says, and the theorems follow.                        *)
(***************************************************************************)
EXTENDS LeaseProofs

-----------------------------------------------------------------------------
(* Orphans: in calm, a deposit without its contract has a cause.           *)

ContractFor(c) == contracts'[c] = contracts[c] \/ ForContract(c)'
HandlerFor(h) == handlers'[h] = handlers[h] \/ ForHandler(h)'
TaskFor(t) == tasks'[t] = tasks[t] \/ ForTask(t)'
Unstarted == \A l \in Lock : locks[l].pc = "idle" => locks'[l].pc = "idle"

\* Every step but the deposit's button leaves what locks are for.
LEMMA ForKept ==
    ASSUME LeaseInv, ForInv, [Next]_vars, lockedFor' = lockedFor, Unstarted,
           \A c \in Contract : ContractFor(c), \A h \in Task \cup Desk : HandlerFor(h),
           \A t \in Task : TaskFor(t)
    PROVE  ForInv'
<1>1. \A l \in Lock : locks'[l].pc = "idle" <=> lockedFor'[l] = NoTx
  BY LockSteady, Zenon DEF LeaseInv, ForInv, Steady, Unstarted
<1>2. ASSUME NEW c \in Contract PROVE ForContract(c)'
  BY Zenon DEF ForInv, ContractFor, ForContract
<1>3. ASSUME NEW h \in Task \cup Desk PROVE ForHandler(h)'
  <2>1. HandlerFor(h) /\ ForHandler(h)
    BY Zenon DEF ForInv
  <2> QED BY <2>1, Zenon DEF HandlerFor, ForHandler
<1>4. ASSUME NEW t \in Task PROVE ForTask(t)'
  <2>1. TaskFor(t) /\ ForTask(t)
    BY Zenon DEF ForInv
  <2> QED BY <2>1, Zenon DEF TaskFor, ForTask
<1> QED BY <1>1, <1>2, <1>3, <1>4, Zenon DEF ForInv

\* When be1-xrpl does nothing, no request starts.
LEMMA QuietUnstarted ==
    ASSUME UNCHANGED vars
    PROVE  Unstarted
  BY Zenon DEF Unstarted, vars

\* A task that is not waiting for be1-xrpl, before and after.
TaskTracked(t) ==
    \/ tasks'[t] = tasks[t]
    \/ /\ tasks[t].pc # "sent" \/ tasks[t].kind # "lock"
       /\ tasks'[t].pc = "idle" \/ tasks'[t].kind # "lock"

\* A step of the app or of be1-xrpl that has no part in anchoring.
LEMMA OrphanKept ==
    ASSUME LeaseInv, OrphanInv, [Next]_vars,
           UNCHANGED <<contracts, handlers, lockedFor>>, Unstarted,
           \A t \in Task : TaskTracked(t), Calm' => Calm
    PROVE  OrphanInv'
<1>1. ForInv'
  <2>1. \A c \in Contract : ContractFor(c)
    BY Zenon DEF ContractFor
  <2>2. \A h \in Task \cup Desk : HandlerFor(h)
    BY Zenon DEF HandlerFor
  <2>3. ASSUME NEW t \in Task PROVE TaskFor(t)
    BY Zenon DEF TaskTracked, TaskFor, ForTask
  <2> QED BY <2>1, <2>2, <2>3, ForKept, Zenon DEF OrphanInv
<1>2. ASSUME Calm' PROVE FreshInv'
  <2>1. FreshInv
    BY <1>2, Zenon DEF OrphanInv
  <2> QED BY <2>1, Zenon DEF FreshInv, FreshRow
<1>3. ASSUME Calm', NEW l \in Lock, locks'[l].pc \notin {"idle", "failed"} PROVE Tracked(l)'
  <2>1. locks[l].pc \notin {"idle", "failed"}
    BY <1>3, LockSteady, Zenon DEF LeaseInv, Steady, Unstarted
  <2>2. Tracked(l)
    BY <1>3, <2>1, Zenon DEF OrphanInv, TrackedInv
  <2>3. (\E t \in Task : tasks[t].kind = "lock" /\ tasks[t].lock = l /\ tasks[t].pc = "sent")
        => (\E t \in Task : tasks'[t].kind = "lock" /\ tasks'[t].lock = l /\ tasks'[t].pc = "sent")
    BY Zenon DEF TaskTracked
  <2> QED BY <2>2, <2>3, Zenon DEF Tracked
<1> QED BY <1>1, <1>2, <1>3, Zenon DEF OrphanInv, TrackedInv

\* Two counters that grow and add up to nothing added up to nothing.
LEMMA NoneBefore ==
    ASSUME NEW m \in Nat, NEW n \in Nat, NEW p \in Nat, NEW q \in Nat,
           p >= m, q >= n, p + q = 0
    PROVE  m + n = 0
  OBVIOUS

\* Calm was calm before, where taps are all that is counted.
LEMMA CalmBefore ==
    ASSUME LeaseInv, LeaseInv', lockFaults' >= lockFaults, past'.mishaps >= past.mishaps,
           past.overlapped => past'.overlapped
    PROVE  Calm' => Calm
<1>1. /\ lockFaults \in Nat /\ lockFaults' \in Nat /\ past.mishaps \in Nat
      /\ past'.mishaps \in Nat
  BY Zenon DEF LeaseInv, LockInv, TypeOK, LeaseTypes, PastType
<1>2. past'.mishaps + lockFaults' = 0 => past.mishaps + lockFaults = 0
  BY <1>1, NoneBefore, Zenon
<1> QED BY <1>2, Zenon DEF Calm

\* After something was lost there is no calm.
LEMMA NoCalm ==
    ASSUME LeaseInv, LeaseInv', past'.mishaps = past.mishaps + 1
    PROVE  ~Calm'
<1>1. lockFaults' \in Nat /\ past.mishaps \in Nat
  BY Zenon DEF LeaseInv, LockInv, TypeOK, LeaseTypes, PastType
<1> QED BY <1>1 DEF Calm

\* Something is lost: what locks are for stays.
LEMMA LostOrphan ==
    ASSUME LeaseInv, LeaseInv', OrphanInv,
           Reload \/ (\E t \in Task : AnswerLost(t)) \/ \E h \in Task \cup Desk : Be2Dies(h)
    PROVE  OrphanInv'
<1>1. UNCHANGED <<vars, contracts, lockedFor>> /\ Mishap /\ LeaseTypes /\ ForInv
  BY Zenon DEF Reload, AnswerLost, Be2Dies, Be2!HandlerDies, be2Vars, LeaseInv, OrphanInv
<1>2. ~Calm'
  BY <1>1, MishapTypes, NoCalm, Zenon
<1>3. ASSUME NEW t \in Task PROVE tasks'[t] \in {tasks[t], Rest}
  BY <1>1, Zenon DEF Reload, AnswerLost, Be2Dies, End, LeaseTypes
<1>4. ASSUME NEW h \in Task \cup Desk PROVE handlers'[h] \in {handlers[h], Be2!Free}
  BY <1>1, Zenon DEF Reload, AnswerLost, Be2Dies, Be2!HandlerDies, be2Vars, LeaseTypes
<1>5. \A t \in Task : TaskFor(t)
  BY <1>3, RestFields, Zenon DEF TaskFor, ForTask
<1>6. \A h \in Task \cup Desk : HandlerFor(h)
  BY <1>4, FreeFields, Zenon DEF HandlerFor, ForHandler
<1>7. \A c \in Contract : ContractFor(c)
  BY <1>1, Zenon DEF ContractFor
<1>8. ForInv'
  BY <1>1, <1>5, <1>6, <1>7, ForKept, QuietUnstarted, Zenon
<1> QED BY <1>2, <1>8, Zenon DEF OrphanInv

\* A request is taken up: in calm it is the only one.
LEMMA TakenFresh ==
    ASSUME LeaseInv, LeaseInv', OrphanInv, Ask, NEW h \in Task \cup Desk,
           UNCHANGED <<vars, contracts, lockedFor>>,
           \A g \in (Task \cup Desk) \ {h} : handlers'[g] = handlers[g],
           handlers'[h].pc \in {"look", "save"} => FreshRow(h)'
    PROVE  Calm' => FreshInv' /\ Calm /\ \A g \in Task \cup Desk : handlers[g].pc = "free"
<1> SUFFICES ASSUME Calm'
             PROVE  FreshInv' /\ Calm /\ \A g \in Task \cup Desk : handlers[g].pc = "free"
  BY Zenon
<1>1. /\ past'.mishaps = past.mishaps
      /\ past'.overlapped = (past.overlapped \/ \E g \in Task \cup Desk : handlers[g].pc # "free")
  BY AskTypes, Zenon DEF LeaseInv
<1>2. ~past'.overlapped
  BY Zenon DEF Calm
<1>3. ~past.overlapped /\ \A g \in Task \cup Desk : handlers[g].pc = "free"
  BY <1>1, <1>2, Zenon
<1>4. Calm
  BY <1>1, <1>3, Zenon DEF Calm, vars
<1>5. FreshInv'
  BY <1>3, Zenon DEF FreshInv
<1> QED BY <1>3, <1>4, <1>5, Zenon

\* A tracked lock stays tracked when a request is taken up by someone who is
\* not its task.
LEMMA TakenTracked ==
    ASSUME LeaseInv, OrphanInv, Calm, NEW h \in Task \cup Desk, NEW l \in Lock,
           UNCHANGED <<vars, contracts, lockedFor>>, handlers[h].pc = "free",
           \A g \in (Task \cup Desk) \ {h} : handlers'[g] = handlers[g],
           \A t \in Task : tasks[t].kind = "lock" /\ tasks[t].lock = l /\ tasks[t].pc = "sent"
               => tasks'[t] = tasks[t],
           locks[l].pc \notin {"idle", "failed"}
    PROVE  Tracked(l)'
<1>1. Tracked(l)
  BY Zenon DEF OrphanInv, TrackedInv
<1>2. (\E t \in Task : tasks[t].kind = "lock" /\ tasks[t].lock = l /\ tasks[t].pc = "sent")
      => (\E t \in Task : tasks'[t].kind = "lock" /\ tasks'[t].lock = l /\ tasks'[t].pc = "sent")
  BY Zenon
<1>3. (\E t \in Task : handlers[t].tx = l /\ handlers[t].pc \in {"look", "save"})
      => (\E t \in Task : handlers'[t].tx = l /\ handlers'[t].pc \in {"look", "save"})
  BY Zenon
<1> QED BY <1>1, <1>2, <1>3, Zenon DEF Tracked

\* A status request.
LEMMA PatchOrphan ==
    ASSUME LeaseInv, LeaseInv', OrphanInv, NEW h \in Task \cup Desk, NEW c \in Contract,
           NEW to \in Be2!Status, Be2!PatchStatus(h, c, to), Ask, UNCHANGED <<vars, lockedFor>>,
           \A t \in Task : TaskTracked(t)
    PROVE  OrphanInv'
<1>1. /\ contracts' = contracts /\ handlers[h].pc = "free"
      /\ handlers'[h] = [pc |-> "save", id |-> c,
                         row |-> [contracts[c] EXCEPT !.status = to], tx |-> NoTx]
      /\ \A g \in (Task \cup Desk) \ {h} : handlers'[g] = handlers[g]
  BY PatchTaken, Zenon
<1>2. /\ handlers'[h].pc = "save" /\ handlers'[h].id = c /\ handlers'[h].tx = NoTx
      /\ handlers'[h].row.hash = contracts[c].hash /\ handlers'[h].row.status = to
  <2>1. contracts[c] \in Be2!Row
    BY Zenon DEF LeaseInv, LeaseTypes
  <2> QED BY <1>1, <2>1 DEF Be2!Row
<1>3. to \in Be2!Allowed[contracts[c].status]
  BY Zenon DEF Be2!PatchStatus, Be2!IsContractStatusTransitionAllowed
<1>4. FreshRow(h)'
  BY <1>1, <1>2, <1>3, Zenon DEF FreshRow
<1>5. Calm' => FreshInv' /\ Calm
  BY <1>1, <1>4, TakenFresh, Zenon
<1>6. ForInv'
  <2>1. ForHandler(h)'
    BY <1>2, Zenon DEF ForHandler, OrphanInv, ForInv, ForContract
  <2>2. \A g \in Task \cup Desk : HandlerFor(g)
    BY <1>1, <2>1, Zenon DEF HandlerFor
  <2>3. \A t \in Task : TaskFor(t)
    BY Zenon DEF TaskTracked, TaskFor, ForTask
  <2>4. \A d \in Contract : ContractFor(d)
    BY <1>1, Zenon DEF ContractFor
  <2> QED BY <2>2, <2>3, <2>4, ForKept, QuietUnstarted, Zenon DEF OrphanInv
<1>7. ASSUME Calm', NEW l \in Lock, locks'[l].pc \notin {"idle", "failed"} PROVE Tracked(l)'
  <2>1. Calm /\ locks[l].pc \notin {"idle", "failed"}
    BY <1>5, <1>7, Zenon DEF vars
  <2>2. \A t \in Task : tasks[t].kind = "lock" /\ tasks[t].lock = l /\ tasks[t].pc = "sent"
               => tasks'[t] = tasks[t]
    BY Zenon DEF TaskTracked
  <2> QED BY <1>1, <2>1, <2>2, TakenTracked, Zenon
<1> QED BY <1>5, <1>6, <1>7, Zenon DEF OrphanInv, TrackedInv

\* The anchor: the deposit goes from the task to the request, or what refuses
\* it is the contract's end or another deposit.
LEMMA AnchorOrphan ==
    ASSUME LeaseInv, LeaseInv', OrphanInv, NEW t \in Task, Anchor(t)
    PROVE  OrphanInv'
<1> DEFINE k == tasks[t].lock
           c == tasks[t].id
<1>1. /\ tasks[t].pc = "sent" /\ tasks[t].kind = "lock" /\ c \in Contract /\ k \in Lock
      /\ UNCHANGED <<vars, app, parties, lockedFor>> /\ LeaseTypes /\ lockedFor[k] = c
      /\ k # NoTx
  BY LeaseAssumption, Zenon
     DEF Anchor, Waiting, LeaseInv, Knowing, TaskKnows, OrphanInv, ForInv, ForTask
<1>2. CASE /\ At(k, "done") /\ Be2!AnchorEscrow(t, c, k)
           /\ tasks' = [tasks EXCEPT ![t].pc = "asked"] /\ Ask
  <2>1. rows[k] = "locked"
    BY <1>1, <1>2, Zenon DEF LeaseInv, LockInv, RequestInv, RowInv, At
  <2>2. /\ contracts' = contracts /\ handlers[t].pc = "free"
        /\ handlers'[t] = [pc |-> "look", id |-> c, row |-> Be2!Anchored(contracts[c], k), tx |-> k]
        /\ \A g \in (Task \cup Desk) \ {t} : handlers'[g] = handlers[g]
    BY <1>1, <1>2, <2>1, AnchorTaken
  <2>3. /\ handlers'[t].pc = "look" /\ handlers'[t].id = c /\ handlers'[t].tx = k
        /\ handlers'[t].row.hash = k
    BY <2>2 DEF Be2!Anchored
  <2>4. contracts[c].status \notin Ended
    BY <1>2, Zenon DEF Be2!AnchorEscrow, Be2!AnchorRefused, Ended
  <2>5. FreshRow(t)'
    BY <1>1, <2>2, <2>3, <2>4, Zenon DEF FreshRow
  <2>6. Calm' => FreshInv' /\ Calm
    <3>1. t \in Task \cup Desk
      BY Zenon
    <3> QED BY <1>1, <1>2, <2>2, <2>5, <3>1, TakenFresh, Zenon
  <2>7. /\ tasks'[t].kind = "lock" /\ tasks'[t].lock = k /\ tasks'[t].id = c
        /\ \A u \in Task \ {t} : tasks'[u] = tasks[u]
    BY <1>1, <1>2, <2>1, AskedKept, Zenon
  <2>8. ForInv'
    <3>1. ForHandler(t)' /\ ForTask(t)'
      BY <1>1, <2>3, <2>7, Zenon DEF ForHandler, ForTask
    <3>2. \A g \in Task \cup Desk : HandlerFor(g)
      BY <2>2, <3>1, Zenon DEF HandlerFor
    <3>3. \A u \in Task : TaskFor(u)
      BY <2>7, <3>1, Zenon DEF TaskFor
    <3>4. \A d \in Contract : ContractFor(d)
      BY <2>2, Zenon DEF ContractFor
    <3> QED BY <1>1, <3>2, <3>3, <3>4, ForKept, QuietUnstarted, Zenon DEF OrphanInv
  <2>9. ASSUME Calm', NEW l \in Lock, locks'[l].pc \notin {"idle", "failed"} PROVE Tracked(l)'
    <3>1. CASE l = k
      BY <2>3, <3>1, Zenon DEF Tracked
    <3>2. CASE l # k
      <4>1. Calm /\ locks[l].pc \notin {"idle", "failed"} /\ t \in Task \cup Desk
        BY <1>1, <2>6, <2>9, Zenon DEF vars
      <4>2. \A u \in Task : tasks[u].kind = "lock" /\ tasks[u].lock = l /\ tasks[u].pc = "sent"
                 => tasks'[u] = tasks[u]
        BY <2>7, <3>2, Zenon
      <4> QED BY <1>1, <2>2, <4>1, <4>2, TakenTracked, Zenon
    <3> QED BY <3>1, <3>2, Zenon
  <2> QED BY <2>6, <2>8, <2>9, Zenon DEF OrphanInv, TrackedInv
<1>3. CASE /\ At(k, "failed") \/ (At(k, "done") /\ Be2!AnchorRefused(contracts[c], k))
           /\ End(t) /\ UNCHANGED <<be2Vars, past>>
  <2>1. UNCHANGED <<contracts, handlers, past, lockedFor, locks, lockFaults>>
    BY <1>1, <1>3, Zenon DEF be2Vars, vars
  <2>2. tasks'[t] = Rest /\ \A u \in Task \ {t} : tasks'[u] = tasks[u]
    BY <1>1, <1>3, EndTypes, Zenon
  <2>3. ForInv'
    <3>1. \A u \in Task : TaskFor(u)
      BY <2>2, RestFields, Zenon DEF TaskFor, ForTask
    <3>2. \A g \in Task \cup Desk : HandlerFor(g)
      BY <2>1, Zenon DEF HandlerFor
    <3>3. \A d \in Contract : ContractFor(d)
      BY <2>1, Zenon DEF ContractFor
    <3> QED BY <1>1, <2>1, <3>1, <3>2, <3>3, ForKept, QuietUnstarted DEF OrphanInv
  <2>4. Calm' <=> Calm
    BY <2>1, Zenon DEF Calm
  <2>5. ASSUME Calm PROVE FreshInv'
    BY <2>1, <2>5, Zenon DEF OrphanInv, FreshInv, FreshRow
  <2>6. ASSUME Calm, NEW l \in Lock, locks[l].pc \notin {"idle", "failed"} PROVE Tracked(l)'
    <3>1. CASE l = k
      <4>1. Be2!AnchorRefused(contracts[c], k)
        BY <1>3, <2>6, <3>1, Zenon DEF At
      <4>2. CASE contracts[c].status \in Ended
        BY <1>1, <2>1, <3>1, <4>2, Zenon DEF Tracked
      <4>3. CASE contracts[c].status \notin Ended
        <5>1. contracts[c].hash \notin {NoTx, k}
          BY <4>1, <4>3, Zenon DEF Be2!AnchorRefused, Ended
        <5>2. contracts[c].hash \in Lock /\ lockedFor[contracts[c].hash] = c
          BY <1>1, <5>1, Zenon DEF LeaseTypes, Be2!Row, OrphanInv, ForInv, ForContract
        <5> QED BY <1>1, <3>1, <5>1, <5>2, Zenon DEF Tracked
      <4> QED BY <4>2, <4>3, Zenon
    <3>2. CASE l # k
      <4>1. Tracked(l)
        BY <2>6, Zenon DEF OrphanInv, TrackedInv
      <4>2. (\E u \in Task : tasks[u].kind = "lock" /\ tasks[u].lock = l /\ tasks[u].pc = "sent")
            => (\E u \in Task : tasks'[u].kind = "lock" /\ tasks'[u].lock = l /\ tasks'[u].pc = "sent")
        BY <2>2, <3>2, Zenon
      <4> QED BY <1>1, <2>1, <4>1, <4>2, Zenon DEF Tracked
    <3> QED BY <3>1, <3>2, Zenon
  <2> QED BY <2>1, <2>3, <2>4, <2>5, <2>6, Zenon DEF OrphanInv, TrackedInv
<1> QED BY <1>2, <1>3, Zenon DEF Anchor

\* be2-ops looks the deposit up, or announces: the request keeps its deposit.
LEMMA Be2StepOrphan ==
    ASSUME LeaseInv, LeaseInv', OrphanInv, NEW h \in Task \cup Desk, Be2Step(h)
    PROVE  OrphanInv'
<1>1. /\ UNCHANGED <<vars, contracts, tasks, lockedFor, past>> /\ LeaseTypes
  BY Zenon DEF Be2Step, LeaseInv, Be2!LookUp, Be2!Announce, appVars
<1>2. /\ \A g \in (Task \cup Desk) \ {h} : handlers'[g] = handlers[g]
      /\ \/ /\ handlers[h].pc = "look" /\ handlers'[h].pc = "save"
            /\ handlers'[h].tx = handlers[h].tx /\ handlers'[h].id = handlers[h].id
            /\ handlers'[h].row.hash = handlers[h].row.hash
         \/ /\ handlers[h].pc = "announce" /\ handlers'[h] = Be2!Free
  <2>1. handlers \in [Task \cup Desk -> HandlerType] /\ handlers[h] \in HandlerType
    BY <1>1, Zenon DEF LeaseTypes
  <2>2. CASE Be2!LookUp(h)
    <3>1. PICK s : handlers' = [handlers EXCEPT ![h].pc = "save", ![h].row.status = s]
      BY <2>2, Zenon DEF Be2!LookUp
    <3>2. handlers[h].pc = "look"
      BY <2>2, Zenon DEF Be2!LookUp
    <3> QED BY <2>1, <3>1, <3>2, Zenon DEF HandlerType, Be2!Row
  <2>3. CASE Be2!Announce(h)
    BY <2>1, <2>3, Zenon DEF Be2!Announce
  <2> QED BY <2>2, <2>3, Zenon DEF Be2Step
<1>3. ForInv'
  <2>1. ForHandler(h)'
    BY <1>1, <1>2, FreeFields, Zenon DEF ForHandler, OrphanInv, ForInv
  <2>2. \A g \in Task \cup Desk : HandlerFor(g)
    BY <1>2, <2>1, Zenon DEF HandlerFor
  <2>3. \A t \in Task : TaskFor(t)
    BY <1>1, Zenon DEF TaskFor
  <2>4. \A c \in Contract : ContractFor(c)
    BY <1>1, Zenon DEF ContractFor
  <2> QED BY <1>1, <2>2, <2>3, <2>4, ForKept, QuietUnstarted, Zenon DEF OrphanInv
<1>4. Calm' <=> Calm
  BY <1>1, Zenon DEF Calm, vars
<1>5. ASSUME Calm PROVE FreshInv'
  <2>1. FreshInv
    BY <1>5, Zenon DEF OrphanInv
  <2>2. ASSUME NEW g \in Task \cup Desk PROVE handlers'[g].pc # "free" => handlers[g].pc # "free"
    BY <1>2, FreeFields, Zenon
  <2>3. handlers'[h].pc = "save" => FreshRow(h)'
    <3> SUFFICES ASSUME handlers'[h].pc = "save" PROVE FreshRow(h)'
      BY Zenon
    <3>1. handlers[h].pc = "look" /\ FreshRow(h)
      BY <1>2, <2>1, FreeFields, Zenon DEF FreshInv
    <3> QED BY <1>1, <1>2, <3>1, FreeFields, Zenon DEF FreshRow
  <2>4. ASSUME NEW g \in Task \cup Desk, handlers'[g].pc \in {"look", "save"} PROVE FreshRow(g)'
    <3>1. CASE g = h
      BY <1>2, <2>3, <2>4, <3>1, FreeFields, Zenon
    <3>2. CASE g # h
      BY <1>1, <1>2, <2>1, <2>4, <3>2, Zenon DEF FreshInv, FreshRow
    <3> QED BY <3>1, <3>2, Zenon
  <2> QED BY <2>1, <2>2, <2>4, Zenon DEF FreshInv
<1>6. ASSUME Calm, NEW l \in Lock, locks[l].pc \notin {"idle", "failed"} PROVE Tracked(l)'
  <2>1. Tracked(l)
    BY <1>6, Zenon DEF OrphanInv, TrackedInv
  <2>2. (\E t \in Task : handlers[t].tx = l /\ handlers[t].pc \in {"look", "save"})
        => (\E t \in Task : handlers'[t].tx = l /\ handlers'[t].pc \in {"look", "save"})
    BY <1>2, Zenon
  <2> QED BY <1>1, <2>1, <2>2, Zenon DEF Tracked
<1> QED BY <1>1, <1>3, <1>4, <1>5, <1>6, Zenon DEF OrphanInv, TrackedInv, vars

\* An ended contract is patched to an end.
LEMMA EndedStays ==
    ASSUME NEW s \in Ended
    PROVE  Be2!Allowed[s] \subseteq Ended
  BY DEF Ended, Be2!Allowed

\* be2-ops saves: the deposit is the contract's, or another one took its place.
LEMMA SavesOrphan ==
    ASSUME LeaseInv, LeaseInv', OrphanInv, NEW h \in Task \cup Desk, Be2Saves(h)
    PROVE  OrphanInv'
<1>0. PICK c : c = handlers[h].id
  BY Zenon
<1>1. UNCHANGED <<vars, lockedFor, past>> /\ LeaseTypes /\ ForInv
  BY Zenon DEF Be2Saves, LeaseInv, OrphanInv
<1>2. /\ handlers[h].pc = "save" /\ c \in Contract /\ contracts'[c] = handlers[h].row
      /\ \A d \in Contract \ {c} : contracts'[d] = contracts[d]
      /\ handlers'[h].pc \in {"free", "announce"}
      /\ handlers'[h].pc = "announce" =>
             handlers'[h].row = handlers[h].row /\ handlers'[h].id = handlers[h].id
      /\ handlers'[h].pc = "free" => handlers'[h].row.hash = NoTx
      /\ \A g \in (Task \cup Desk) \ {h} : handlers'[g] = handlers[g]
  BY <1>0, SaveFields, Zenon
<1>3. \A t \in Task :
         \/ tasks'[t] = tasks[t]
         \/ /\ tasks[t].pc = "asked" /\ tasks'[t].pc = "answered"
            /\ \A f \in {"kind", "lock", "id", "pair", "role"} : tasks'[t][f] = tasks[t][f]
  BY SaveFields, Zenon
<1>4. ForInv'
  <2>1. ForContract(c)' /\ ForHandler(h)'
    BY <1>0, <1>1, <1>2, Zenon DEF ForInv, ForHandler, ForContract
  <2>2. \A g \in Task \cup Desk : HandlerFor(g)
    BY <1>2, <2>1, Zenon DEF HandlerFor
  <2>3. ASSUME NEW t \in Task PROVE TaskFor(t)
    BY <1>1, <1>3 DEF TaskFor, ForTask, ForInv
  <2>4. \A d \in Contract : ContractFor(d)
    BY <1>2, <2>1, Zenon DEF ContractFor
  <2> QED BY <1>1, <2>2, <2>3, <2>4, ForKept, QuietUnstarted, Zenon
<1>5. Calm' <=> Calm
  BY <1>1, Zenon DEF Calm, vars
<1>6. ASSUME Calm PROVE FreshInv /\ FreshRow(h) /\ \A g \in (Task \cup Desk) \ {h} : handlers[g].pc = "free"
  BY <1>2, <1>6, Zenon DEF OrphanInv, FreshInv
<1>7. ASSUME Calm PROVE FreshInv'
  BY <1>2, <1>6, <1>7 DEF FreshInv
<1>8. ASSUME Calm, NEW l \in Lock, locks[l].pc \notin {"idle", "failed"} PROVE Tracked(l)'
  <2>1. Tracked(l) /\ FreshRow(h)
    BY <1>6, <1>8, Zenon DEF OrphanInv, TrackedInv
  <2>2. lockedFor[l] \in Contract /\ l # NoTx
    BY <1>1, <1>8, LeaseAssumption, Zenon DEF ForInv, LeaseTypes, Id
  <2>3. CASE \E t \in Task : tasks[t].kind = "lock" /\ tasks[t].lock = l /\ tasks[t].pc = "sent"
    BY <1>3, <2>3, Zenon DEF Tracked
  <2>4. CASE \E t \in Task : handlers[t].tx = l /\ handlers[t].pc \in {"look", "save"}
    <3>1. handlers[h].tx = l
      BY <1>6, <1>8, <2>4, Zenon
    <3>2. handlers[h].row.hash = l /\ lockedFor[l] = c
      BY <1>0, <1>1, <2>1, <2>2, <3>1, Zenon DEF FreshRow, ForInv, ForHandler
    <3> QED BY <1>1, <1>2, <3>2, Zenon DEF Tracked
  <2>5. CASE contracts[lockedFor[l]].hash = l
    <3>1. CASE lockedFor[l] # c
      BY <1>1, <1>2, <2>2, <2>5, <3>1, Zenon DEF Tracked
    <3>2. CASE lockedFor[l] = c /\ handlers[h].tx = NoTx
      BY <1>0, <1>1, <1>2, <2>1, <2>5, <3>2, ZenonT(40) DEF Tracked, FreshRow
    <3>3. CASE lockedFor[l] = c /\ handlers[h].tx # NoTx
      <4>1. handlers[h].row.hash = handlers[h].tx /\ handlers[h].tx \in Lock
        BY <1>1, <2>1, <3>3, Zenon DEF FreshRow, LeaseTypes, HandlerType, Hash
      <4>2. lockedFor[handlers[h].tx] = c
        BY <1>0, <1>1, <3>3, <4>1, Zenon DEF ForInv, ForHandler
      <4> QED BY <1>1, <1>2, <3>3, <4>1, <4>2, Zenon DEF Tracked
    <3> QED BY <3>1, <3>2, <3>3, Zenon
  <2>6. CASE \E k \in Lock \ {l} : lockedFor[k] = lockedFor[l]
    BY <1>1, <2>6, Zenon DEF Tracked
  <2>7. CASE contracts[lockedFor[l]].status \in Ended
    <3>1. CASE lockedFor[l] # c
      BY <1>1, <1>2, <2>2, <2>7, <3>1, Zenon DEF Tracked
    <3>2. CASE lockedFor[l] = c
      <4>1. handlers[h].row.status \in Be2!Allowed[contracts[c].status]
        BY <1>0, <2>1, <2>7, <3>2, Zenon DEF FreshRow
      <4>2. handlers[h].row.status \in Ended
        BY <2>7, <3>2, <4>1, EndedStays, Zenon
      <4> QED BY <1>1, <1>2, <3>2, <4>2, Zenon DEF Tracked
    <3> QED BY <3>1, <3>2, Zenon
  <2> QED BY <2>1, <2>3, <2>4, <2>5, <2>6, <2>7, Zenon DEF Tracked
<1> QED BY <1>1, <1>4, <1>5, <1>7, <1>8, Zenon DEF OrphanInv, TrackedInv, vars

\* A draft changes no contract that anything was locked for.
LEMMA DraftOrphan ==
    ASSUME LeaseInv, LeaseInv', OrphanInv, NEW t \in Task, DraftCreated(t)
    PROVE  OrphanInv'
<1>1. /\ UNCHANGED <<vars, handlers, lockedFor, past>> /\ LeaseTypes /\ Knowing /\ Made
      /\ tasks[t].pc = "sent" /\ tasks[t].kind \in {"create", "sign"} /\ ForInv
  BY Zenon DEF DraftCreated, LeaseInv, Be2!CreateContract, Waiting, OrphanInv
<1>2. PICK c \in Contract :
        /\ Be2!CreateContract(c)
        /\ IF tasks[t].kind = "create" THEN End(t)
           ELSE tasks' = [tasks EXCEPT ![t].id = c, ![t].row.status = "draft"]
  BY Zenon DEF DraftCreated
<1>3. /\ contracts[c].status = "none" /\ contracts'[c].status = "draft"
      /\ contracts'[c].hash = contracts[c].hash
      /\ \A d \in Contract \ {c} : contracts'[d] = contracts[d]
  BY <1>1, <1>2 DEF Be2!CreateContract, LeaseTypes, Be2!Row
<1>4. /\ \A u \in Task \ {t} : tasks'[u] = tasks[u]
      /\ tasks'[t].pc = "idle" \/ tasks'[t].kind # "lock"
  <2>1. CASE tasks[t].kind = "create"
    BY <1>1, <1>2, <2>1, EndTypes, RestFields, Zenon
  <2>2. CASE tasks[t].kind # "create"
    <3>1. tasks \in [Task -> TaskType] /\ tasks[t] \in TaskType
      BY <1>1, Zenon DEF LeaseTypes
    <3>2. PICK task : task = [tasks[t] EXCEPT !.id = c, !.row = [tasks[t].row EXCEPT !.status = "draft"]]
      BY Zenon
    <3>3. tasks' = [tasks EXCEPT ![t] = task]
      BY <1>1, <1>2, <2>2, <3>1, <3>2, Zenon DEF TaskType
    <3>4. task.kind = tasks[t].kind
      BY <3>1, <3>2, Zenon DEF TaskType
    <3> QED BY <1>1, <3>1, <3>3, <3>4, Zenon
  <2> QED BY <2>1, <2>2, Zenon
<1>5. ForInv'
  <2>1. \A u \in Task : TaskFor(u)
    BY <1>4, Zenon DEF TaskFor, ForTask
  <2>2. \A h \in Task \cup Desk : HandlerFor(h)
    BY <1>1, Zenon DEF HandlerFor
  <2>3. \A d \in Contract : ContractFor(d)
    BY <1>1, <1>3 DEF ContractFor, ForContract, ForInv
  <2> QED BY <1>1, <2>1, <2>2, <2>3, ForKept, QuietUnstarted, Zenon
<1>6. Calm' <=> Calm
  BY <1>1, Zenon DEF Calm, vars
<1>7. ASSUME Calm PROVE FreshInv'
  <2>1. FreshInv
    BY <1>7, Zenon DEF OrphanInv
  <2>2. ASSUME NEW h \in Task \cup Desk, handlers[h].pc \in {"look", "save"} PROVE FreshRow(h)'
    <3>1. handlers[h].id \in Contract /\ contracts[handlers[h].id].status # "none" /\ FreshRow(h)
      BY <1>1, <2>1, <2>2, Zenon DEF Knowing, HandlerKnows, Made, FreshInv
    <3>2. contracts'[handlers[h].id] = contracts[handlers[h].id]
      BY <1>3, <3>1, Zenon
    <3> QED BY <1>1, <3>1, <3>2, Zenon DEF FreshRow
  <2> QED BY <1>1, <2>1, <2>2, Zenon DEF FreshInv
<1>8. ASSUME Calm, NEW l \in Lock, locks[l].pc \notin {"idle", "failed"} PROVE Tracked(l)'
  <2>1. Tracked(l) /\ lockedFor[l] \in Contract /\ l # NoTx
    BY <1>1, <1>8, LeaseAssumption, Zenon DEF OrphanInv, TrackedInv, ForInv, LeaseTypes, Id
  <2>2. (\E u \in Task : tasks[u].kind = "lock" /\ tasks[u].lock = l /\ tasks[u].pc = "sent")
        => (\E u \in Task : tasks'[u].kind = "lock" /\ tasks'[u].lock = l /\ tasks'[u].pc = "sent")
    BY <1>1, <1>4, Zenon
  <2>3. contracts[lockedFor[l]].status \in Ended => contracts'[lockedFor[l]].status \in Ended
    BY <1>3, <2>1, Zenon DEF Ended
  <2>4. contracts'[lockedFor[l]].hash = contracts[lockedFor[l]].hash
    BY <1>3, <2>1, Zenon
  <2> QED BY <1>1, <2>1, <2>2, <2>3, <2>4, Zenon DEF Tracked
<1> QED BY <1>1, <1>5, <1>6, <1>7, <1>8, Zenon DEF OrphanInv, TrackedInv, vars

\* The deposit's button: the new lock is its task's, and no other lock was it.
LEMMA DepositOrphan ==
    ASSUME LeaseInv, LeaseInv', OrphanInv, NEW t \in Task, LockDepositTapped(t)
    PROVE  OrphanInv'
<1>1. /\ UNCHANGED <<contracts, handlers, app>> /\ app.contract # NoTx
      /\ LeaseTypes /\ Knowing /\ LockInv /\ ForInv
  BY Zenon DEF LockDepositTapped, LeaseInv, be2Vars, OrphanInv
<1>2. PICK l \in Lock : /\ Create(l, "XRP", app.tenant, app.landlord, TRUE)
                       /\ Tap(t, [Sent("lock") EXCEPT !.lock = l])
                       /\ lockedFor' = [lockedFor EXCEPT ![l] = app.contract]
  BY Zenon DEF LockDepositTapped
<1>3. PICK task : task = [Sent("lock") EXCEPT !.lock = l]
  BY Zenon
<1>4. /\ task \in TaskType /\ task.kind = "lock" /\ task.lock = l /\ task.pc = "sent"
      /\ task.id = app.contract
  <2>1. "lock" \in Kind
    BY Zenon DEF Kind
  <2> QED BY <1>1, <1>3, <2>1, SentFields DEF TaskType, Hash
<1>5. /\ tasks'[t] = task /\ \A u \in Task \ {t} : tasks'[u] = tasks[u]
      /\ tasks[t].pc = "idle" /\ past'.mishaps = past.mishaps
      /\ past'.overlapped = past.overlapped
  BY <1>1, <1>2, <1>3, <1>4, TapTypes, Zenon
<1>6. /\ locks[l].pc = "idle" /\ locks'[l].pc = "wallet" /\ lockFaults' = lockFaults
      /\ \A k \in Lock \ {l} : locks'[k] = locks[k]
  BY <1>1, <1>2, Zenon DEF Create, At, LockInv, TypeOK
<1>7. /\ lockedFor'[l] = app.contract /\ lockedFor[l] = NoTx
      /\ \A k \in Lock \ {l} : lockedFor'[k] = lockedFor[k]
  BY <1>1, <1>2, <1>6, Zenon DEF LeaseTypes, ForInv
<1>8. ForInv'
  <2>1. \A k \in Lock : locks'[k].pc = "idle" <=> lockedFor'[k] = NoTx
    BY <1>1, <1>6, <1>7, Zenon DEF ForInv
  <2>2. ASSUME NEW c \in Contract PROVE ForContract(c)'
    <3>1. lockedFor[contracts[c].hash] = c /\ c # NoTx => contracts[c].hash # l
      BY <1>7, Zenon
    <3>2. contracts[c].hash \in Lock \cup {NoTx} /\ c # NoTx
      BY <1>1, LeaseAssumption, Zenon DEF LeaseTypes, Be2!Row
    <3> QED BY <1>1, <1>7, <3>1, <3>2, Zenon DEF ForInv, ForContract
  <2>3. ASSUME NEW h \in Task \cup Desk PROVE ForHandler(h)'
    <3>1. handlers[h].row.hash \in Lock \cup {NoTx}
      BY <1>1, Zenon DEF LeaseTypes, HandlerType, Be2!Row
    <3>2. handlers[h].row.hash = l => rows[l] = "locked"
      BY <1>1, LeaseAssumption, Zenon DEF Knowing, HandlerKnows, Locked
    <3>3. handlers[h].row.hash # l
      BY <1>1, <1>6, <3>2, Zenon DEF LockInv, RequestInv, RowInv
    <3> QED BY <1>1, <1>7, <3>1, <3>3, Zenon DEF ForInv, ForHandler
  <2>4. ASSUME NEW u \in Task PROVE ForTask(u)'
    <3>1. CASE u = t
      BY <1>4, <1>5, <1>7, <3>1, Zenon DEF ForTask
    <3>2. CASE u # t
      <4>1. tasks[u].pc # "idle" /\ tasks[u].kind = "lock" =>
               /\ tasks[u].lock \in Lock /\ tasks[u].id \in Contract
               /\ lockedFor[tasks[u].lock] = tasks[u].id
        BY <1>1, Zenon DEF Knowing, TaskKnows, ForInv, ForTask
      <4>2. tasks'[u] = tasks[u]
        BY <1>5, <3>2, Zenon
      <4>3. tasks[u].pc # "idle" /\ tasks[u].kind = "lock" => tasks[u].lock # l
        BY <1>7, <4>1, LeaseAssumption, Zenon
      <4>4. tasks[u].pc # "idle" /\ tasks[u].kind = "lock" =>
              lockedFor'[tasks[u].lock] = lockedFor[tasks[u].lock]
        BY <1>7, <4>1, <4>3, Zenon
      <4> QED BY <4>1, <4>2, <4>4, Zenon DEF ForTask
    <3> QED BY <3>1, <3>2, Zenon
  <2> QED BY <2>1, <2>2, <2>3, <2>4, Zenon DEF ForInv
<1>9. Calm' <=> Calm
  <2>1. past'.mishaps + lockFaults' = past.mishaps + lockFaults
    BY <1>5, <1>6, Zenon
  <2> QED BY <1>5, <2>1, Zenon DEF Calm
<1>10. ASSUME Calm PROVE FreshInv'
  BY <1>1, <1>10, Zenon DEF OrphanInv, FreshInv, FreshRow
<1>11. ASSUME Calm, NEW k \in Lock, locks'[k].pc \notin {"idle", "failed"} PROVE Tracked(k)'
  <2>1. CASE k = l
    BY <1>4, <1>5, <2>1, Zenon DEF Tracked
  <2>2. CASE k # l
    <3>1. Tracked(k) /\ lockedFor[k] # NoTx
      BY <1>1, <1>6, <1>11, <2>2, Zenon DEF OrphanInv, TrackedInv, ForInv
    <3>2. (\E u \in Task : tasks[u].kind = "lock" /\ tasks[u].lock = k /\ tasks[u].pc = "sent")
          => (\E u \in Task : tasks'[u].kind = "lock" /\ tasks'[u].lock = k /\ tasks'[u].pc = "sent")
      BY <1>5, Zenon
    <3>3. (\E j \in Lock \ {k} : lockedFor[j] = lockedFor[k])
          => \E j \in Lock \ {k} : lockedFor'[j] = lockedFor'[k]
      BY <1>7, <2>2, <3>1, Zenon
    <3> QED BY <1>1, <1>7, <2>2, <3>1, <3>2, <3>3, Zenon DEF Tracked
  <2> QED BY <2>1, <2>2, Zenon
<1> QED BY <1>8, <1>9, <1>10, <1>11, Zenon DEF OrphanInv, TrackedInv

\* A step that ends or starts a task without a deposit, or only the role.
LEMMA AppOrphan ==
    ASSUME LeaseInv, LeaseInv', OrphanInv,
           UNCHANGED <<vars, contracts, handlers, lockedFor>>,
           \A t \in Task : TaskTracked(t), past'.mishaps = past.mishaps,
           past'.overlapped = past.overlapped
    PROVE  OrphanInv'
<1>1. Calm' => Calm
  <2>1. lockFaults' = lockFaults
    BY Zenon DEF vars
  <2>2. past'.mishaps + lockFaults' = past.mishaps + lockFaults
    BY <2>1, Zenon
  <2> QED BY <2>2, Zenon DEF Calm
<1> QED BY <1>1, OrphanKept, QuietUnstarted, Zenon

\* A task that is not the deposit's ends.
LEMMA EndOrphan ==
    ASSUME LeaseInv, LeaseInv', OrphanInv, NEW t \in Task, End(t),
           tasks[t].kind # "lock" \/ tasks[t].pc # "sent",
           UNCHANGED <<vars, contracts, handlers, lockedFor, past>>
    PROVE  OrphanInv'
<1>1. tasks'[t] = Rest /\ \A u \in Task \ {t} : tasks'[u] = tasks[u]
  BY EndTypes, Zenon DEF LeaseInv
<1>2. \A u \in Task : TaskTracked(u)
  BY <1>1, RestFields, Zenon DEF TaskTracked
<1> QED BY <1>2, AppOrphan, Zenon

\* A button other than the deposit's.
LEMMA TapOrphan ==
    ASSUME LeaseInv, LeaseInv', OrphanInv, NEW t \in Task, NEW task \in TaskType, Tap(t, task),
           task.kind # "lock", UNCHANGED <<vars, contracts, handlers, lockedFor>>
    PROVE  OrphanInv'
<1>1. /\ tasks'[t] = task /\ \A u \in Task \ {t} : tasks'[u] = tasks[u]
      /\ past'.mishaps = past.mishaps /\ past'.overlapped = past.overlapped
      /\ tasks[t].pc = "idle"
  BY TapTypes, Zenon DEF LeaseInv
<1>2. \A u \in Task : TaskTracked(u)
  BY <1>1, Zenon DEF TaskTracked
<1> QED BY <1>1, <1>2, AppOrphan, Zenon

\* The app's buttons.
LEMMA UserOrphan ==
    ASSUME LeaseInv, LeaseInv', OrphanInv, NEW t \in Task, UserStep(t)
    PROVE  OrphanInv'
<1>1. CASE LockDepositTapped(t)
  BY <1>1, DepositOrphan, Zenon
<1>2. ASSUME NEW kind \in Kind \ {"lock"}, Tap(t, Sent(kind)),
             UNCHANGED <<vars, contracts, handlers, lockedFor>>
      PROVE  OrphanInv'
  <2>1. PICK task : task = Sent(kind)
    BY Zenon
  <2>2. task \in TaskType /\ task.kind # "lock" /\ Tap(t, task)
    BY <1>2, <2>1, SentFields, Zenon DEF LeaseInv
  <2> QED BY <1>2, <2>2, TapOrphan, Zenon
<1>3. CASE ConnectCounterpartyWallet(t)
  <2>1. PICK task : task = [Sent("counterparty") EXCEPT !.role = Other(app.role)]
    BY Zenon
  <2>2. Sent("counterparty") \in TaskType /\ Sent("counterparty").kind = "counterparty"
    BY SentFields, Zenon DEF Kind, LeaseInv
  <2>3. task \in TaskType /\ task.kind # "lock"
    BY <2>1, <2>2, Zenon DEF TaskType, Other
  <2>4. Tap(t, task) /\ UNCHANGED <<vars, contracts, handlers, lockedFor>>
    BY <1>3, <2>1, Zenon DEF ConnectCounterpartyWallet, be2Vars
  <2> QED BY <2>3, <2>4, TapOrphan, Zenon
<1>4. CASE ConnectWallet(t)
  <2>1. Tap(t, Sent("connect")) /\ UNCHANGED <<vars, contracts, handlers, lockedFor>>
    BY <1>4, Zenon DEF ConnectWallet, be2Vars
  <2> QED BY <1>2, <2>1, Zenon DEF Kind
<1>5. ASSUME NEW kind \in {"create", "sign"}, CreateDraftContract(t, kind) PROVE OrphanInv'
  <2>1. Tap(t, Sent(kind)) /\ UNCHANGED <<vars, contracts, handlers, lockedFor>>
    BY <1>5, Zenon DEF CreateDraftContract, be2Vars
  <2> QED BY <1>2, <1>5, <2>1, Zenon DEF Kind
<1>6. CASE LandlordSignContract(t)
  <2>1. Tap(t, Sent("sign")) /\ UNCHANGED <<vars, contracts, handlers, lockedFor>>
    BY <1>6, Zenon DEF LandlordSignContract, be2Vars
  <2> QED BY <1>2, <2>1, Zenon DEF Kind
<1>7. CASE LoadSettlements(t)
  <2>1. Tap(t, Sent("load")) /\ UNCHANGED <<vars, contracts, handlers, lockedFor>>
    BY <1>7, Zenon DEF LoadSettlements, be2Vars
  <2> QED BY <1>2, <2>1, Zenon DEF Kind
<1> QED BY <1>1, <1>3, <1>4, <1>5, <1>6, <1>7, Zenon DEF UserStep

\* The signature is sent, or the task ends with be2-ops' refusal.
LEMMA SignatureOrphan ==
    ASSUME LeaseInv, LeaseInv', OrphanInv, NEW t \in Task, SendSignature(t)
    PROVE  OrphanInv'
<1>1. /\ tasks[t].pc = "sent" /\ tasks[t].kind = "sign" /\ tasks[t].id \in Contract
      /\ UNCHANGED <<vars, lockedFor>> /\ LeaseTypes
  BY Zenon DEF SendSignature, Waiting, LeaseInv, LeaseTypes, TaskType, Id
<1>2. CASE /\ Be2!PatchStatus(t, tasks[t].id, "escrow_pending")
           /\ tasks' = [tasks EXCEPT ![t].pc = "asked"] /\ Ask
  <2>1. t \in Task \cup Desk /\ "escrow_pending" \in Be2!Status
    BY Zenon DEF Be2!Status
  <2>2. tasks'[t].kind = "sign" /\ \A u \in Task \ {t} : tasks'[u] = tasks[u]
    BY <1>1, <1>2, Zenon DEF LeaseTypes, TaskType
  <2>3. \A u \in Task : TaskTracked(u)
    BY <1>1, <2>2, Zenon DEF TaskTracked
  <2> QED BY <1>1, <1>2, <2>1, <2>3, PatchOrphan, Zenon
<1>3. CASE End(t) /\ UNCHANGED <<be2Vars, past>>
  <2>1. UNCHANGED <<contracts, handlers, past>>
    BY <1>3, Zenon DEF be2Vars
  <2> QED BY <1>1, <1>3, <2>1, EndOrphan, Zenon
<1> QED BY <1>2, <1>3, Zenon DEF SendSignature

\* be1-xrpl goes on: whatever it does, locks stay where they are tracked.
LEMMA Be1Orphan ==
    ASSUME LeaseInv, LeaseInv', OrphanInv, Be1Step
    PROVE  OrphanInv'
<1>1. UNCHANGED <<contracts, handlers, tasks, lockedFor, past>> /\ LockInv /\ [Next]_vars
  BY Zenon DEF Be1Step, LeaseInv, be2Vars, appVars, Next
<1>2. Unstarted
  BY <1>1, StartedByTap, Zenon DEF Unstarted
<1>3. lockFaults' >= lockFaults
  BY <1>1, LockSteady, Zenon
<1>4. past'.mishaps >= past.mishaps
  <2>1. past.mishaps \in Nat
    BY Zenon DEF LeaseInv, LeaseTypes, PastType
  <2> QED BY <1>1, <2>1
<1>5. Calm' => Calm
  BY <1>1, <1>3, <1>4, CalmBefore, Zenon
<1>6. \A t \in Task : TaskTracked(t)
  BY <1>1, Zenon DEF TaskTracked
<1> QED BY <1>1, <1>2, <1>5, <1>6, OrphanKept, Zenon

\* Nothing is locked at first.
LEMMA OrphanStart == LeaseInit => OrphanInv
<1> SUFFICES ASSUME LeaseInit PROVE OrphanInv
  BY Zenon
<1>1. \A l \in Lock : locks[l].pc = "idle" /\ lockedFor[l] = NoTx
  BY Zenon DEF LeaseInit, Init
<1>2. /\ \A c \in Contract : contracts[c] = Be2!Absent
      /\ \A h \in Task \cup Desk : handlers[h] = Be2!Free
      /\ \A t \in Task : tasks[t] = Rest
  BY Zenon DEF LeaseInit, Be2!Init
<1>3. ForInv
  <2>1. Be2!Absent.hash = NoTx
    BY Zenon DEF Be2!Absent
  <2>2. \A c \in Contract : ForContract(c)
    BY <1>2, <2>1, Zenon DEF ForContract
  <2>3. \A h \in Task \cup Desk : ForHandler(h)
    BY <1>2, FreeFields, Zenon DEF ForHandler
  <2>4. \A t \in Task : ForTask(t)
    BY <1>2, RestFields, Zenon DEF ForTask
  <2> QED BY <1>1, <2>2, <2>3, <2>4, Zenon DEF ForInv
<1> QED BY <1>1, <1>2, <1>3, FreeFields, Zenon DEF OrphanInv, FreshInv, TrackedInv

\* Every step of the lease keeps deposits tracked.
LEMMA OrphanStep ==
    ASSUME LeaseInv, LeaseInv', OrphanInv, [LeaseNext]_leaseVars
    PROVE  OrphanInv'
<1>1. CASE UNCHANGED leaseVars
  <2>1. UNCHANGED <<vars, contracts, handlers, lockedFor, tasks, past>>
    BY <1>1, Zenon DEF leaseVars, be2Vars, appVars
  <2>2. \A t \in Task : TaskTracked(t)
    BY <2>1, Zenon DEF TaskTracked
  <2> QED BY <2>1, <2>2, AppOrphan, Zenon
<1>2. ASSUME NEW role \in {"tenant", "landlord"}, SelectRole(role) PROVE OrphanInv'
  <2>1. /\ UNCHANGED <<vars, contracts, handlers, lockedFor, tasks>>
        /\ past'.mishaps = past.mishaps /\ past'.overlapped = past.overlapped
    BY <1>2, Zenon DEF SelectRole, be2Vars, LeaseInv, LeaseTypes, PastType
  <2>2. \A t \in Task : TaskTracked(t)
    BY <2>1, Zenon DEF TaskTracked
  <2> QED BY <2>1, <2>2, AppOrphan, Zenon
<1>3. ASSUME NEW t \in Task, TaskStep(t) PROVE OrphanInv'
  <2>1. CASE WalletConnected(t) \/ CounterpartyConnected(t) \/ Answer(t) \/ SettlementsLoaded(t)
    <3>1. End(t) /\ UNCHANGED <<vars, contracts, handlers, lockedFor, past>>
      BY <2>1, Zenon DEF WalletConnected, CounterpartyConnected, Answer, SettlementsLoaded, be2Vars
    <3>2. tasks[t].kind # "lock" \/ tasks[t].pc # "sent"
      BY <2>1, Zenon DEF WalletConnected, CounterpartyConnected, Answer, SettlementsLoaded, Waiting
    <3> QED BY <3>1, <3>2, EndOrphan, Zenon
  <2>2. CASE DraftCreated(t) \/ SendSignature(t) \/ Anchor(t)
    BY <2>2, DraftOrphan, SignatureOrphan, AnchorOrphan, Zenon
  <2> QED BY <1>3, <2>1, <2>2, Zenon DEF TaskStep
<1>4. ASSUME NEW h \in Desk, DeskPatches(h) PROVE OrphanInv'
  <2>1. PICK c \in Contract, to \in Be2!Status : Be2!PatchStatus(h, c, to)
    BY <1>4, Zenon DEF DeskPatches
  <2>2. UNCHANGED <<vars, lockedFor, tasks>> /\ Ask /\ h \in Task \cup Desk
    BY <1>4, Zenon DEF DeskPatches
  <2>3. \A t \in Task : TaskTracked(t)
    BY <2>2, Zenon DEF TaskTracked
  <2> QED BY <2>1, <2>2, <2>3, PatchOrphan, Zenon
<1>5. ASSUME NEW h \in Task \cup Desk, Be2Saves(h) \/ Be2Step(h) PROVE OrphanInv'
  BY <1>5, SavesOrphan, Be2StepOrphan, Zenon
<1>6. CASE \/ Reload \/ \E t \in Task : AnswerLost(t)
           \/ \E h \in Task \cup Desk : Be2Dies(h)
  BY <1>6, LostOrphan, Zenon
<1>7. ASSUME NEW t \in Task, UserStep(t) PROVE OrphanInv'
  BY <1>7, UserOrphan, Zenon
<1>8. CASE Be1Step
  BY <1>8, Be1Orphan, Zenon
<1> QED BY <1>1, <1>2, <1>3, <1>4, <1>5, <1>6, <1>7, <1>8, Zenon DEF LeaseNext

-----------------------------------------------------------------------------
(* be2-ops in a lease is ContractLifecycle, with be1-xrpl's accounts for a *)
(* ledger.                                                                 *)

\* A step of be1-xrpl adds objects to at most one account.
LEMMA ObjectsGrow ==
    ASSUME LockInv, [Next]_vars
    PROVE  \/ accounts' = accounts
           \/ \E l \in Lock : \E x : \A k \in Lock :
                 accounts'[k].objects = IF k = l THEN accounts[k].objects \cup x
                                        ELSE accounts[k].objects
<1>1. accounts \in [Lock -> Account] /\ \A l \in Lock : accounts[l] \in Account
  BY Zenon DEF LockInv, TypeOK, Account
<1> DEFINE Grown(l, x) == \A k \in Lock :
             accounts'[k].objects = IF k = l THEN accounts[k].objects \cup x
                                    ELSE accounts[k].objects
<1>2. CASE UNCHANGED vars \/ Stop
  BY <1>2, Zenon DEF vars, Stop
<1>3. ASSUME NEW l \in Lock, NEW mode, NEW tenant, NEW landlord, NEW ordered,
             Create(l, mode, tenant, landlord, ordered)
      PROVE  accounts' = accounts
  BY <1>3, Zenon DEF Create
<1>4. ASSUME NEW l \in Lock, LockStep(l) PROVE accounts' = accounts \/ \E x : Grown(l, x)
  <2>1. ASSUME NEW x, accounts' = [accounts EXCEPT ![l].objects = @ \cup {x}]
        PROVE  Grown(l, {x})
    BY <1>1, <2>1, Zenon DEF Account
  <2>2. ASSUME NEW x, NEW amount, NEW next, CreateEscrow(l, x, amount, next)
        PROVE  accounts' = accounts \/ Grown(l, {x})
    <3>1. CASE UNCHANGED accounts
      BY <3>1, Zenon
    <3>2. ASSUME NEW iou, accounts' = [accounts EXCEPT ![l] =
                                         [iou |-> iou, objects |-> @.objects \cup {x}]]
          PROVE  Grown(l, {x})
      BY <1>1, <3>2, Zenon
    <3> QED BY <2>2, <3>1, <3>2, Zenon DEF CreateEscrow, Refused
  <2>3. CASE LockDeposit(l) \/ LockStake(l)
    BY <2>2, <2>3, Zenon DEF LockDeposit, LockStake
  <2>4. CASE SubmitTrustSet(l)
    BY <2>1, <2>4, Zenon DEF SubmitTrustSet, Refused
  <2>5. CASE SetSignerList(l)
    BY <2>1, <2>5, Zenon DEF SetSignerList, Refused
  <2>6. CASE FundFromOperator(l)
    <3>1. CASE UNCHANGED accounts
      BY <3>1, Zenon
    <3>2. CASE accounts' = [accounts EXCEPT ![l].iou = Total]
      <4>1. Grown(l, {})
        BY <1>1, <3>2, Zenon DEF Account
      <4> QED BY <4>1, Zenon
    <3> QED BY <2>6, <3>1, <3>2, Zenon DEF FundFromOperator, Refused
  <2>7. CASE \/ AssertCounterpartyTrustLines(l) \/ GenerateAndFundWallet(l)
             \/ CheckOperatorBalance(l) \/ CreateRow(l) \/ SaveLocked(l)
    BY <2>7, Zenon DEF AssertCounterpartyTrustLines, GenerateAndFundWallet, CheckOperatorBalance,
                CreateRow, SaveLocked
  <2> QED BY <1>4, <2>3, <2>4, <2>5, <2>6, <2>7, Zenon DEF LockStep
<1> QED BY <1>2, <1>3, <1>4, Zenon DEF Next

\* What be2-ops sees of it is the validation of one deposit, or nothing.
LEMMA DepositsSeen ==
    ASSUME LockInv, [Next]_vars
    PROVE  Seen' = Seen \/ \E l \in Lock : Seen[l] = "unseen" /\ Seen' = [Seen EXCEPT ![l] = "escrow"]
<1>1. CASE accounts' = accounts
  BY <1>1, Zenon DEF Seen
<1>2. ASSUME NEW l \in Lock, NEW x, \A k \in Lock :
                 accounts'[k].objects = IF k = l THEN accounts[k].objects \cup x
                                        ELSE accounts[k].objects
      PROVE  Seen' = Seen \/ (Seen[l] = "unseen" /\ Seen' = [Seen EXCEPT ![l] = "escrow"])
  <2>1. Seen' = [k \in Lock |-> IF "deposit" \in accounts'[k].objects THEN "escrow" ELSE "unseen"]
    BY Zenon DEF Seen
  <2>2. CASE "deposit" \in accounts[l].objects \/ "deposit" \notin x
    <3>1. \A k \in Lock : "deposit" \in accounts'[k].objects <=> "deposit" \in accounts[k].objects
      BY <1>2, <2>2, Zenon
    <3> QED BY <2>1, <3>1, Zenon DEF Seen
  <2>3. CASE "deposit" \notin accounts[l].objects /\ "deposit" \in x
    <3>1. /\ "deposit" \in accounts'[l].objects
          /\ \A k \in Lock \ {l} :
                "deposit" \in accounts'[k].objects <=> "deposit" \in accounts[k].objects
      BY <1>2, <2>3, Zenon
    <3> QED BY <2>1, <2>3, <3>1, Zenon DEF Seen
  <2> QED BY <2>2, <2>3, Zenon
<1> QED BY <1>1, <1>2, ObjectsGrow, Zenon

\* Every step of the lease is one of be2-ops, or none of its business.
LEMMA Be2Next ==
    ASSUME LeaseInv, [LeaseNext]_leaseVars
    PROVE  [Be2!Next]_(Be2!vars)
<1>1. CASE UNCHANGED vars
  <2>1. Seen' = Seen
    BY <1>1, Zenon DEF vars, Seen
  <2>2. CASE UNCHANGED be2Vars
    BY <2>1, <2>2, Zenon DEF be2Vars, Be2!vars
  <2>3. ASSUME NEW t \in Task, DraftCreated(t) PROVE Be2!Next
    BY <2>3, Zenon DEF DraftCreated, Be2!Next
  <2>4. ASSUME NEW h \in Task \cup Desk, Be2Saves(h) \/ Be2Dies(h) \/ Be2Step(h) PROVE Be2!Next
    BY <2>4, Zenon DEF Be2Saves, Be2Dies, Be2Step, Be2!Next, Be2!Serve
  <2>5. ASSUME NEW h \in Desk, DeskPatches(h) PROVE Be2!Next
    BY <2>5, Zenon DEF DeskPatches, Be2!Next, Be2!Serve
  <2>6. ASSUME NEW t \in Task, SendSignature(t) PROVE Be2!Next \/ UNCHANGED be2Vars
    <3>1. tasks[t].id \in Contract
      BY <2>6, Zenon DEF SendSignature, LeaseInv, LeaseTypes, TaskType, Id
    <3> QED BY <2>6, <3>1, Zenon DEF SendSignature, Be2!Next, Be2!Serve, Be2!Status
  <2>7. ASSUME NEW t \in Task, Anchor(t) PROVE Be2!Next \/ UNCHANGED be2Vars
    <3>1. tasks[t].id \in Contract /\ tasks[t].lock \in Lock
      BY <2>7, Zenon DEF Anchor, Waiting, LeaseInv, Knowing, TaskKnows
    <3> QED BY <2>7, <3>1, Zenon DEF Anchor, Be2!Next, Be2!Serve
  <2>8. ASSUME NEW t \in Task, UserStep(t) PROVE UNCHANGED be2Vars
    BY <2>8, Zenon DEF UserStep, ConnectWallet, ConnectCounterpartyWallet, CreateDraftContract,
                LandlordSignContract, LockDepositTapped, LoadSettlements
  <2>9. CASE \/ UNCHANGED leaseVars \/ \E role \in {"tenant", "landlord"} : SelectRole(role)
             \/ \E t \in Task : \/ WalletConnected(t) \/ CounterpartyConnected(t) \/ Answer(t)
                                \/ SettlementsLoaded(t) \/ AnswerLost(t)
             \/ Be1Step \/ Reload
    <3>1. UNCHANGED be2Vars
      BY <2>9, Zenon DEF leaseVars, SelectRole, WalletConnected, CounterpartyConnected, Answer,
                  SettlementsLoaded, AnswerLost, Be1Step, Reload
    <3> QED BY <2>2, <3>1, Zenon
  <2> QED BY <2>2, <2>3, <2>4, <2>5, <2>6, <2>7, <2>8, <2>9, Zenon DEF LeaseNext, TaskStep
<1>2. CASE ~UNCHANGED vars
  <2>1. UNCHANGED be2Vars
    BY <1>2, Zenon DEF LeaseNext, leaseVars, SelectRole, UserStep, TaskStep, ConnectWallet,
                ConnectCounterpartyWallet, CreateDraftContract, LandlordSignContract,
                LockDepositTapped, LoadSettlements, WalletConnected, CounterpartyConnected,
                DraftCreated, SendSignature, Anchor, Answer, SettlementsLoaded, AnswerLost,
                Be2Saves, Be2Dies, Be2Step, DeskPatches, Be1Step, Reload
  <2>2. Seen' = Seen \/ \E l \in Lock : Seen[l] = "unseen" /\ Seen' = [Seen EXCEPT ![l] = "escrow"]
    BY LeaseStep, DepositsSeen, Zenon DEF LeaseInv
  <2> QED BY <2>1, <2>2, Zenon DEF be2Vars, Be2!vars, Be2!Next, Be2!Validate
<1> QED BY <1>1, <1>2, Zenon

-----------------------------------------------------------------------------
(* What holds of every behaviour.                                          *)

INSTANCE FiniteSetTheorems

\* Requests are finitely many, so that sets of them can be counted.
LEMMA CountsHold == Counting
<1>1. \A S \in SUBSET Lock : IsFiniteSet(S) /\ Cardinality(S) \in Nat
  BY LockAssumption, FS_Subset, FS_CardinalityType, Zenon
<1>2. \A S \in SUBSET Lock : \A l \in Lock \ S : Cardinality(S \cup {l}) = Cardinality(S) + 1
  BY <1>1, FS_AddElement, Zenon
<1> QED BY <1>1, <1>2, FS_EmptySet, Zenon DEF Counting

\* A lock is all or nothing for every set of requests and parties and all amounts.
THEOREM LocksAreWhole == Spec => []LockIsWhole
<1>1. LockInv => LockIsWhole
  <2> SUFFICES ASSUME LockInv PROVE LockIsWhole
    BY Zenon
  <2>1. LockedIsBacked
    BY Zenon DEF LockInv, RequestInv, RowInv, Whole, LockedIsBacked
  <2>2. ASSUME NEW l \in Stranded PROVE lockFaults > 0 \/ Cardinality(Signers(l)) < 3
    <3>1. /\ l \in Lock /\ "deposit" \in accounts[l].objects /\ rows[l] # "locked"
          /\ locks[l].pc \in {"idle", "done", "failed"} /\ RequestInv(l)
      BY Zenon DEF Stranded, InFlight, LockInv
    <3>2. locks[l].pc = "failed"
      BY <3>1, Zenon DEF RequestInv, ObjectsInv, RowInv, Unescrowed, Whole
    <3> QED BY <3>1, <3>2, Zenon DEF RequestInv, RowInv
  <2> QED BY <2>1, <2>2, Zenon DEF LockInv, LockIsWhole, StrandedHasCause
<1> QED BY <1>1, LockInit, LockNext, CountsHold, PTL DEF Spec

\* The tokens of an account are there whole or not at all, and came off the
\* operator's balance, however the requests interleave.
THEOREM TokensConserved == Spec => []IouConserved
<1>1. LockInv => IouConserved
  <2> SUFFICES ASSUME LockInv PROVE IouConserved
    BY Zenon
  <2>1. ASSUME NEW l \in Lock \ Paid PROVE Held(l) = 0
    <3>1. RequestInv(l) /\ locks[l].mode \in {"XRP", "IOU"} /\ Held(l) # Total
      BY Zenon DEF LockInv, TypeOK, Paid, Held
    <3>2. locks[l].mode = "XRP" => Held(l) = 0
      BY <3>1 DEF RequestInv, IouInv, Held, Escrowed
    <3> QED BY <3>1, <3>2, Zenon DEF RequestInv, IouInv
  <2> QED BY <2>1, Zenon DEF LockInv, OperatorInv, IouConserved, Held
<1> QED BY <1>1, LockInit, LockNext, CountsHold, PTL DEF Spec

\* The lease drives be1-xrpl as ContractLock says: what is proved of a lock
\* holds of the locks of a lease.
THEOREM LeaseLocks == LeaseSpec => Spec
<1>1. LeaseInit => Init
  BY Zenon DEF LeaseInit
<1> QED BY <1>1, LeaseStart, LeaseStep, CountsHold, PTL DEF LeaseSpec, Spec

\* be2-ops and the app only know deposits with everything behind them on the
\* ledger, whatever is tapped, lost, reloaded or patched meanwhile.
THEOREM KnownDepositsAreLocked == LeaseSpec => []KnownIsLocked
<1>1. LeaseInv => KnownIsLocked
  <2> SUFFICES ASSUME LeaseInv, NEW l \in Lock,
                      app.escrow = l \/ (\E c \in Contract : contracts[c].hash = l)
               PROVE  rows[l] = "locked" /\ {"deposit", "stake", "signers"} \subseteq accounts[l].objects
    BY Zenon DEF KnownIsLocked
  <2>1. l # NoTx
    BY LeaseAssumption, Zenon
  <2>2. rows[l] = "locked"
    BY <2>1 DEF LeaseInv, Knowing, AppKnows, ContractKnows, Locked
  <2> QED BY <2>2, Zenon DEF LeaseInv, LockInv, RequestInv, RowInv, Whole
<1> QED BY <1>1, LeaseStart, LeaseStep, CountsHold, PTL DEF LeaseSpec

\* The escrow of a contract pays the parties it was made for.
THEOREM EscrowsPayTheParties == LeaseSpec => []EscrowPaysTheParties
<1>1. LeaseInv => EscrowPaysTheParties
  <2> SUFFICES ASSUME LeaseInv, NEW c \in Contract, contracts[c].hash # NoTx, ~past.switched
               PROVE  <<locks[contracts[c].hash].tenant, locks[contracts[c].hash].landlord>> = parties[c]
    BY Zenon DEF EscrowPaysTheParties
  <2>1. contracts[c].hash \in Lock
    BY Zenon DEF LeaseInv, LeaseTypes, Be2!Row
  <2>2. rows[contracts[c].hash] = "locked"
    BY Zenon DEF LeaseInv, Knowing, ContractKnows, Locked
  <2>3. locks[contracts[c].hash].pc # "idle"
    BY <2>1, <2>2, Zenon DEF LeaseInv, LockInv, RequestInv, RowInv
  <2>4. contracts[c].status # "none"
    BY Zenon DEF LeaseInv, Made
  <2> QED BY <2>1, <2>3, <2>4, Zenon DEF LeaseInv, Paired
<1> QED BY <1>1, LeaseStart, LeaseStep, CountsHold, PTL DEF LeaseSpec

\* A deposit on the ledger that no contract names has a cause the app or an
\* operator can find: nothing simply drops it between the two back ends.
THEOREM OrphansHaveCause == LeaseSpec => []OrphanHasCause
<1>1. LeaseInv /\ OrphanInv => OrphanHasCause
  <2> SUFFICES ASSUME LeaseInv, OrphanInv, NEW l \in Lock, rows[l] = "locked",
                      \A c \in Contract : contracts[c].hash # l,
                      ~(past.mishaps + lockFaults > 0), ~past.overlapped
               PROVE  \/ \E t \in Task : tasks[t].lock = l \/ handlers[t].tx = l
                      \/ \E k \in Lock \ {l} : lockedFor[k] = lockedFor[l]
                      \/ contracts[lockedFor[l]].status \in Ended
    BY Zenon DEF OrphanHasCause, Ended
  <2>1. lockFaults \in Nat /\ past.mishaps \in Nat
    BY Zenon DEF LeaseInv, LockInv, TypeOK, LeaseTypes, PastType
  <2>2. lockFaults = 0 /\ past.mishaps = 0
    BY <2>1
  <2>3. Calm
    BY <2>2 DEF Calm
  <2>4. locks[l].pc \notin {"idle", "failed"}
    BY <2>1, <2>2 DEF LeaseInv, LockInv, RequestInv, RowInv
  <2>5. Tracked(l)
    BY <2>3, <2>4, Zenon DEF OrphanInv, TrackedInv
  <2>6. lockedFor[l] \in Contract
    BY <2>4, Zenon DEF OrphanInv, ForInv, LeaseInv, LeaseTypes, Id
  <2> QED BY <2>5, <2>6, Zenon DEF Tracked
<1>2. LeaseInv /\ OrphanInv /\ [LeaseNext]_leaseVars => LeaseInv' /\ OrphanInv'
  BY LeaseStep, OrphanStep, Zenon
<1>3. LeaseInit => LeaseInv /\ OrphanInv
  BY LeaseStart, OrphanStart, CountsHold, Zenon
<1> QED BY <1>1, <1>2, <1>3, PTL DEF LeaseSpec

\* be2-ops in a lease behaves as ContractLifecycle says: what is proved of it
\* with overlapping requests holds of the contracts of a lease.
THEOREM LeaseContracts == LeaseSpec => Be2!Spec
<1>1. LeaseInit => Be2!Init
  BY Zenon DEF LeaseInit
<1>2. LeaseInv /\ [LeaseNext]_leaseVars => [Be2!Next]_(Be2!vars)
  BY Be2Next, Zenon
<1> QED BY <1>1, <1>2, LeaseStart, LeaseStep, CountsHold, PTL DEF LeaseSpec, Be2!Spec

=============================================================================
