-------------------------- MODULE ReconcilerProofs --------------------------
(***************************************************************************)
(* What the rows and the mails of the reconciler stand for, for any finite *)
(* number of overlapping calls and any contracts, months, jobs and bounds; *)
(* and what is paid when calls do not overlap.                             *)
(***************************************************************************)
EXTENDS Reconciler, FiniteSetTheorems, TLAPS

\* The calls that have paid and not yet saved, that have saved and not yet
\* mailed, and that have mailed and not yet stamped the row.
Saving(k) == {p \in Proc : At(p, "save") /\ local[p].ok /\ Key_(p) = k}
Mailing(k) == {p \in Proc : At(p, "email") /\ Key_(p) = k}
Stamping(k) == {p \in Proc : At(p, "report") /\ Key_(p) = k}

Counters ==
    /\ rows \in [Key -> [matched : Nat, failed : Nat, reported : Nat]]
    /\ paid \in [Key -> Nat]
    /\ emails \in [Key -> Nat]

Calls ==
    /\ DOMAIN local = Proc
    /\ \A p \in Proc : DOMAIN local[p] = {"pc", "kind", "c", "m", "todo", "ok", "job"}

\* The inductive invariant: each counter is ahead of the next one by at least
\* the calls that are on their way from the one to the other.
Balance(k) ==
    /\ rows[k].matched + Cardinality(Saving(k)) <= paid[k]
    /\ emails[k] + Cardinality(Mailing(k)) <= rows[k].matched
    /\ rows[k].reported + Cardinality(Stamping(k)) <= emails[k]

BooksInv == Counters /\ Calls /\ \A k \in Key : Balance(k)

-----------------------------------------------------------------------------
(* Counting calls.                                                         *)

\* The calls of a stage are finitely many.
LEMMA StageFinite ==
    ASSUME NEW S \in SUBSET Proc
    PROVE  IsFiniteSet(S) /\ Cardinality(S) \in Nat
<1>1. IsFiniteSet(Cron \cup Handler)
  BY ReconcilerAssumption, FS_Union, Zenon
<1>2. IsFiniteSet(Proc)
  BY <1>1, ReconcilerAssumption, FS_Union, Zenon DEF Proc
<1>3. IsFiniteSet(S)
  BY <1>2, FS_Subset, Zenon
<1> QED BY <1>3, FS_CardinalityType, Zenon

\* A stage that nobody enters does not grow.
LEMMA StageShrinks ==
    ASSUME NEW S \in SUBSET Proc, NEW T \in SUBSET S
    PROVE  Cardinality(T) <= Cardinality(S)
  BY StageFinite, FS_Subset, Zenon

\* A stage that one call enters grows by at most one.
LEMMA StageEntered ==
    ASSUME NEW S \in SUBSET Proc, NEW p \in Proc, NEW T \in SUBSET (S \cup {p})
    PROVE  Cardinality(T) <= Cardinality(S) + 1
<1>1. S \cup {p} \in SUBSET Proc
  BY Zenon
<1>2. Cardinality(T) <= Cardinality(S \cup {p})
  BY <1>1, StageShrinks, Zenon
<1>3. Cardinality(S \cup {p}) <= Cardinality(S) + 1
  BY StageFinite, FS_AddElement
<1>4. Cardinality(T) \in Nat /\ Cardinality(S \cup {p}) \in Nat /\ Cardinality(S) \in Nat
  BY <1>1, StageFinite, Zenon
<1> QED BY <1>2, <1>3, <1>4

\* A stage that one call leaves shrinks by one.
LEMMA StageLeft ==
    ASSUME NEW S \in SUBSET Proc, NEW p \in S, NEW T \in SUBSET (S \ {p})
    PROVE  Cardinality(T) + 1 <= Cardinality(S)
<1>1. S \ {p} \in SUBSET Proc
  BY Zenon
<1>2. Cardinality(T) <= Cardinality(S \ {p})
  BY <1>1, StageShrinks, Zenon
<1>3. Cardinality(S \ {p}) = Cardinality(S) - 1
  BY StageFinite, FS_RemoveElement, Zenon
<1>4. Cardinality(T) \in Nat /\ Cardinality(S \ {p}) \in Nat /\ Cardinality(S) \in Nat
  BY <1>1, StageFinite, Zenon
<1> QED BY <1>2, <1>3, <1>4

-----------------------------------------------------------------------------
(* Steps that enter no stage.                                              *)

\* A call that is not on its way from one counter to the next.
Outside(l) ==
    \/ l.pc \notin {"save", "email", "report"}
    \/ l.pc = "save" /\ ~l.ok

\* No counter but the payments moves, and calls only leave their stages.
LEMMA QuietInv ==
    ASSUME BooksInv, Counters', Calls',
           \A k \in Key : /\ paid'[k] >= paid[k] /\ emails'[k] = emails[k]
                          /\ rows'[k].matched = rows[k].matched
                          /\ rows'[k].reported = rows[k].reported,
           \A q \in Proc : local'[q] = local[q] \/ Outside(local'[q])
    PROVE  BooksInv'
<1> SUFFICES ASSUME NEW k \in Key PROVE Balance(k)'
  BY Zenon DEF BooksInv
<1>1. /\ Saving(k)' \subseteq Saving(k)
      /\ Mailing(k)' \subseteq Mailing(k)
      /\ Stamping(k)' \subseteq Stamping(k)
  BY Zenon DEF Saving, Mailing, Stamping, Outside, At, Key_
<1>2. Saving(k) \in SUBSET Proc /\ Mailing(k) \in SUBSET Proc /\ Stamping(k) \in SUBSET Proc
  BY Zenon DEF Saving, Mailing, Stamping
<1>3. /\ Cardinality(Saving(k)') <= Cardinality(Saving(k))
      /\ Cardinality(Mailing(k)') <= Cardinality(Mailing(k))
      /\ Cardinality(Stamping(k)') <= Cardinality(Stamping(k))
  BY <1>1, <1>2, StageShrinks, Zenon
<1>4. /\ Cardinality(Saving(k)) \in Nat /\ Cardinality(Saving(k)') \in Nat
      /\ Cardinality(Mailing(k)) \in Nat /\ Cardinality(Mailing(k)') \in Nat
      /\ Cardinality(Stamping(k)) \in Nat /\ Cardinality(Stamping(k)') \in Nat
  BY <1>1, <1>2, StageFinite, Zenon
<1>5. /\ rows[k].matched \in Nat /\ rows[k].reported \in Nat
      /\ paid[k] \in Nat /\ paid'[k] \in Nat /\ emails[k] \in Nat
  BY Zenon DEF BooksInv, Counters
<1>6. Balance(k)
  BY Zenon DEF BooksInv
<1>7. /\ rows'[k].matched + Cardinality(Saving(k)') <= paid'[k]
      /\ emails'[k] + Cardinality(Mailing(k)') <= rows'[k].matched
      /\ rows'[k].reported + Cardinality(Stamping(k)') <= emails'[k]
  BY <1>3, <1>4, <1>5, <1>6 DEF Balance
<1> QED BY <1>7, Zenon DEF Balance

\* The special case in which no counter moves at all.
LEMMA SilentInv ==
    ASSUME BooksInv, UNCHANGED <<rows, paid, emails>>, Calls',
           \A q \in Proc : local'[q] = local[q] \/ Outside(local'[q])
    PROVE  BooksInv'
<1>1. Counters'
  BY Zenon DEF BooksInv, Counters
<1>2. \A k \in Key : paid[k] \in Nat
  BY Zenon DEF BooksInv, Counters
<1>3. \A k \in Key : /\ paid'[k] >= paid[k] /\ emails'[k] = emails[k]
                     /\ rows'[k].matched = rows[k].matched
                     /\ rows'[k].reported = rows[k].reported
  BY <1>2
<1> QED BY <1>1, <1>3, QuietInv, Zenon

\* One call moves.
LEMMA OneMoves ==
    ASSUME Calls, NEW p \in Proc, NEW l,
           DOMAIN l = {"pc", "kind", "c", "m", "todo", "ok", "job"},
           local' = [local EXCEPT ![p] = l]
    PROVE  Calls' /\ local'[p] = l /\ \A q \in Proc : q # p => local'[q] = local[q]
  BY Zenon DEF Calls

\* One call moves and is then outside the stages.
LEMMA OneSilent ==
    ASSUME BooksInv, UNCHANGED <<rows, paid, emails>>, NEW p \in Proc, NEW l,
           DOMAIN l = {"pc", "kind", "c", "m", "todo", "ok", "job"}, Outside(l),
           local' = [local EXCEPT ![p] = l]
    PROVE  BooksInv'
<1>1. Calls
  BY Zenon DEF BooksInv
<1>2. Calls' /\ local'[p] = l /\ \A q \in Proc : q # p => local'[q] = local[q]
  BY <1>1, OneMoves, Zenon
<1> QED BY <1>2, SilentInv, Zenon

\* A call that only goes to another place outside the stages.
LEMMA GoesOutside ==
    ASSUME BooksInv, UNCHANGED <<rows, paid, emails>>, NEW p \in Proc, NEW pc,
           pc \notin {"save", "email", "report"}, Goto(p, pc)
    PROVE  BooksInv'
<1>1. Calls /\ DOMAIN local[p] = {"pc", "kind", "c", "m", "todo", "ok", "job"}
  BY Zenon DEF BooksInv, Calls
<1>2. local' = [local EXCEPT ![p] = [local[p] EXCEPT !.pc = pc]]
  BY Zenon DEF Goto
<1>3. /\ DOMAIN [local[p] EXCEPT !.pc = pc] = {"pc", "kind", "c", "m", "todo", "ok", "job"}
      /\ Outside([local[p] EXCEPT !.pc = pc])
  BY <1>1, Zenon DEF Outside
<1> QED BY <1>2, <1>3, OneSilent, Zenon

\* The idle call is a call, outside the stages.
LEMMA IdleOutside ==
    /\ DOMAIN Idle = {"pc", "kind", "c", "m", "todo", "ok", "job"}
    /\ Outside(Idle)
  BY Zenon DEF Idle, Outside

\* However reconcileContract ends, the call is outside the stages.
LEMMA EndsOutside ==
    ASSUME Calls, NEW p \in Proc, Returns(p) \/ Throws(p)
    PROVE  /\ Calls'
           /\ \A q \in Proc : q # p => local'[q] = local[q]
           /\ Outside(local'[p])
<1> DEFINE l(pc) == IF local[p].kind = "month" THEN [local[p] EXCEPT !.pc = pc] ELSE Idle
<1>1. DOMAIN local[p] = {"pc", "kind", "c", "m", "todo", "ok", "job"}
  BY Zenon DEF Calls
<1>2. ASSUME NEW pc \in {"loop", "enqueue"}
      PROVE  DOMAIN l(pc) = {"pc", "kind", "c", "m", "todo", "ok", "job"} /\ Outside(l(pc))
  <2>1. CASE local[p].kind = "month"
    BY <1>1, <2>1, Zenon DEF Outside
  <2>2. CASE local[p].kind # "month"
    BY <2>2, IdleOutside, Zenon
  <2> QED BY <2>1, <2>2, Zenon
<1>3. \/ local' = [local EXCEPT ![p] = l("loop")]
      \/ local' = [local EXCEPT ![p] = l("enqueue")]
  BY Zenon DEF Returns, Throws
<1> HIDE DEF l
<1> QED BY <1>2, <1>3, OneMoves, Zenon

\* The end of a call that has no counter to move.
LEMMA EndsInv ==
    ASSUME BooksInv, UNCHANGED <<rows, paid, emails>>, NEW p \in Proc, Returns(p) \/ Throws(p)
    PROVE  BooksInv'
<1>1. Calls
  BY Zenon DEF BooksInv
<1> QED BY <1>1, EndsOutside, SilentInv, Zenon

-----------------------------------------------------------------------------
(* The actions.                                                            *)

\* The entry points: a call starts outside the stages.
LEMMA StartInv ==
    ASSUME BooksInv, UNCHANGED <<rows, paid, emails>>, NEW p \in Proc, NEW l,
           DOMAIN l = {"pc", "kind", "c", "m", "todo", "ok", "job"},
           l.pc \in {"list", "matched"}, Start(p, l)
    PROVE  BooksInv'
<1>1. Outside(l) /\ local' = [local EXCEPT ![p] = l]
  BY Zenon DEF Outside, Start
<1> QED BY <1>1, OneSilent, Zenon

\* A cron run, a manual run or a retry job begins.
LEMMA EntryInv ==
    ASSUME BooksInv,
           \/ \E p \in Cron, m \in Month : monthlyCron(p, m)
           \/ \E p \in Handler, m \in Month : runManualReconcile(p, m)
           \/ \E p \in Worker, j \in Job : process(p, j)
    PROVE  BooksInv'
<1>1. Cron \subseteq Proc /\ Handler \subseteq Proc /\ Worker \subseteq Proc
  BY Zenon DEF Proc
<1> DEFINE month(m) == [Idle EXCEPT !.pc = "list", !.kind = "month", !.m = m]
           single(c, m) == [Idle EXCEPT !.pc = "matched", !.kind = "single", !.c = c, !.m = m]
           again(c, m, j) == [Idle EXCEPT !.pc = "matched", !.kind = "job", !.c = c,
                                          !.m = m, !.job = j]
<1>2. \A m : /\ DOMAIN month(m) = {"pc", "kind", "c", "m", "todo", "ok", "job"}
             /\ month(m).pc \in {"list", "matched"}
  BY Zenon DEF Idle
<1>3. \A c, m : /\ DOMAIN single(c, m) = {"pc", "kind", "c", "m", "todo", "ok", "job"}
                /\ single(c, m).pc \in {"list", "matched"}
  BY Zenon DEF Idle
<1>4. \A c, m, j : /\ DOMAIN again(c, m, j) = {"pc", "kind", "c", "m", "todo", "ok", "job"}
                   /\ again(c, m, j).pc \in {"list", "matched"}
  BY Zenon DEF Idle
<1>5. ASSUME NEW p \in Cron, NEW m \in Month, monthlyCron(p, m) PROVE BooksInv'
  <2>1. Start(p, month(m)) /\ UNCHANGED <<rows, paid, emails>>
    BY <1>5, Zenon DEF monthlyCron
  <2> HIDE DEF month
  <2> QED BY <2>1, <1>1, <1>2, StartInv, Zenon
<1>6. ASSUME NEW p \in Handler, NEW m \in Month, runManualReconcile(p, m) PROVE BooksInv'
  <2>1. Start(p, month(m)) \/ \E c \in Contract : Start(p, single(c, m))
    BY <1>6, Zenon DEF runManualReconcile
  <2>2. UNCHANGED <<rows, paid, emails>>
    BY <1>6, Zenon DEF runManualReconcile
  <2> HIDE DEF month, single
  <2> QED BY <2>1, <2>2, <1>1, <1>2, <1>3, StartInv, Zenon
<1>7. ASSUME NEW p \in Worker, NEW j \in Job, process(p, j) PROVE BooksInv'
  <2>1. Start(p, again(jobs[j].c, jobs[j].m, j)) /\ UNCHANGED <<rows, paid, emails>>
    BY <1>7, Zenon DEF process
  <2> HIDE DEF again
  <2> QED BY <2>1, <1>1, <1>4, StartInv, Zenon
<1> QED BY <1>5, <1>6, <1>7, Zenon

\* The loop over the contracts.
LEMMA LoopInv ==
    ASSUME BooksInv, NEW p \in Proc,
           findAllLocked(p) \/ NextContract(p) \/ EnqueueRetry(p) \/ EnqueueThrows(p)
    PROVE  BooksInv'
<1>1. DOMAIN local[p] = {"pc", "kind", "c", "m", "todo", "ok", "job"}
  BY Zenon DEF BooksInv, Calls
<1>2. UNCHANGED <<rows, paid, emails>>
  BY Zenon DEF findAllLocked, NextContract, EnqueueRetry, EnqueueThrows
<1>3. CASE local' = [local EXCEPT ![p] = Idle]
  BY <1>2, <1>3, IdleOutside, OneSilent, Zenon
<1>4. CASE findAllLocked(p)
  <2> DEFINE l == [local[p] EXCEPT !.pc = "loop",
                                   !.todo = {c \in Contract : status[c] = "locked"}]
  <2>1. local' = [local EXCEPT ![p] = l]
    BY <1>4, Zenon DEF findAllLocked
  <2>2. DOMAIN l = {"pc", "kind", "c", "m", "todo", "ok", "job"} /\ Outside(l)
    BY <1>1, Zenon DEF Outside
  <2> HIDE DEF l
  <2> QED BY <2>1, <2>2, <1>2, OneSilent, Zenon
<1>5. ASSUME NEW c \in local[p].todo,
             local' = [local EXCEPT ![p].pc = "matched", ![p].c = c, ![p].todo = @ \ {c}]
      PROVE  BooksInv'
  <2> DEFINE l == [local[p] EXCEPT !.pc = "matched", !.c = c, !.todo = @ \ {c}]
  <2>1. local' = [local EXCEPT ![p] = l]
    BY <1>5, Zenon
  <2>2. DOMAIN l = {"pc", "kind", "c", "m", "todo", "ok", "job"} /\ Outside(l)
    BY <1>1, Zenon DEF Outside
  <2> HIDE DEF l
  <2> QED BY <2>1, <2>2, <1>2, OneSilent, Zenon
<1>6. CASE NextContract(p)
  BY <1>3, <1>5, <1>6, Zenon DEF NextContract
<1>7. CASE EnqueueRetry(p)
  BY <1>2, <1>7, GoesOutside, Zenon DEF EnqueueRetry
<1>8. CASE EnqueueThrows(p)
  BY <1>3, <1>8, Zenon DEF EnqueueThrows
<1> QED BY <1>4, <1>6, <1>7, <1>8, Zenon

\* What comes before the payment, and what goes wrong without a trace.
LEMMA BeforeInv ==
    ASSUME BooksInv, NEW p \in Proc,
           \/ FindMatched(p) \/ FindContract(p) \/ getMonthlyUsage(p) \/ UsageThrows(p)
           \/ QueryThrows(p) \/ SaveThrows(p) \/ ReportThrows(p)
    PROVE  BooksInv'
<1>1. UNCHANGED <<rows, paid, emails>>
  BY Zenon DEF FindMatched, FindContract, getMonthlyUsage, UsageThrows, QueryThrows, SaveThrows,
         ReportThrows
<1>2. \/ Returns(p) \/ Throws(p)
      \/ Goto(p, "contract") \/ Goto(p, "usage") \/ Goto(p, "pay")
      \/ local' = [local EXCEPT ![p] = Idle]
  BY Zenon DEF FindMatched, FindContract, getMonthlyUsage, UsageThrows, QueryThrows, SaveThrows,
         ReportThrows
<1>3. CASE Returns(p) \/ Throws(p)
  BY <1>1, <1>3, EndsInv, Zenon
<1>4. CASE Goto(p, "contract") \/ Goto(p, "usage") \/ Goto(p, "pay")
  BY <1>1, <1>4, GoesOutside, Zenon
<1>5. CASE local' = [local EXCEPT ![p] = Idle]
  BY <1>1, <1>5, IdleOutside, OneSilent, Zenon
<1> QED BY <1>2, <1>3, <1>4, <1>5, Zenon

\* A key that no counter moves for and whose stages nobody enters keeps its balance.
LEMMA KeptBalance ==
    ASSUME BooksInv, NEW k \in Key,
           Saving(k)' \subseteq Saving(k), Mailing(k)' \subseteq Mailing(k),
           Stamping(k)' \subseteq Stamping(k),
           paid'[k] = paid[k], emails'[k] = emails[k], rows'[k] = rows[k]
    PROVE  Balance(k)'
<1>1. Saving(k) \in SUBSET Proc /\ Mailing(k) \in SUBSET Proc /\ Stamping(k) \in SUBSET Proc
  BY Zenon DEF Saving, Mailing, Stamping
<1>2. /\ Cardinality(Saving(k)') <= Cardinality(Saving(k))
      /\ Cardinality(Mailing(k)') <= Cardinality(Mailing(k))
      /\ Cardinality(Stamping(k)') <= Cardinality(Stamping(k))
  BY <1>1, StageShrinks, Zenon
<1>3. /\ Cardinality(Saving(k)) \in Nat /\ Cardinality(Saving(k)') \in Nat
      /\ Cardinality(Mailing(k)) \in Nat /\ Cardinality(Mailing(k)') \in Nat
      /\ Cardinality(Stamping(k)) \in Nat /\ Cardinality(Stamping(k)') \in Nat
  BY <1>1, StageFinite, Zenon
<1>4. /\ rows[k].matched \in Nat /\ rows[k].reported \in Nat
      /\ paid[k] \in Nat /\ emails[k] \in Nat /\ Balance(k)
  BY Zenon DEF BooksInv, Counters
<1>5. /\ rows'[k].matched + Cardinality(Saving(k)') <= paid'[k]
      /\ emails'[k] + Cardinality(Mailing(k)') <= rows'[k].matched
      /\ rows'[k].reported + Cardinality(Stamping(k)') <= emails'[k]
  BY <1>2, <1>3, <1>4 DEF Balance
<1> QED BY <1>5, Zenon DEF Balance

\* A call that moves on for its own key enters no stage of another one.
LEMMA OtherKeys ==
    ASSUME NEW p \in Proc, \A q \in Proc : q # p => local'[q] = local[q],
           Key_(p)' = Key_(p) \/ Outside(local'[p]), NEW k, k # Key_(p)
    PROVE  /\ Saving(k)' \subseteq Saving(k)
           /\ Mailing(k)' \subseteq Mailing(k)
           /\ Stamping(k)' \subseteq Stamping(k)
  BY Zenon DEF Saving, Mailing, Stamping, Outside, At, Key_

\* Adding one to a counter, at a key it has or at none.
LEMMA Bumped ==
    ASSUME NEW f \in [Key -> Nat], NEW x, NEW g, g = [f EXCEPT ![x] = @ + 1]
    PROVE  g \in [Key -> Nat] /\ \A k \in Key : g[k] = IF k = x THEN f[k] + 1 ELSE f[k]
<1>1. DOMAIN g = Key /\ \A k \in Key : g[k] = IF k = x THEN f[k] + 1 ELSE f[k]
  BY Zenon
<1>2. \A k \in Key : g[k] \in Nat
  BY <1>1
<1>3. g = [k \in Key |-> g[k]]
  BY <1>1, Zenon
<1> QED BY <1>1, <1>2, <1>3, Zenon

\* A payment that is answered puts its call on the way to the row.
LEMMA PaidInv ==
    ASSUME BooksInv, NEW p \in Proc, Paid(p)
    PROVE  BooksInv'
<1> DEFINE l == [local[p] EXCEPT !.pc = "save", !.ok = TRUE]
<1>1. Calls /\ DOMAIN local[p] = {"pc", "kind", "c", "m", "todo", "ok", "job"}
  BY Zenon DEF BooksInv, Calls
<1>2. local' = [local EXCEPT ![p] = l]
  BY Zenon DEF Paid
<1>3. /\ DOMAIN l = {"pc", "kind", "c", "m", "todo", "ok", "job"}
      /\ l.pc = "save" /\ l.c = local[p].c /\ l.m = local[p].m
  BY <1>1, Zenon
<1> HIDE DEF l
<1>4. Calls' /\ local'[p] = l /\ \A q \in Proc : q # p => local'[q] = local[q]
  BY <1>1, <1>2, <1>3, OneMoves, Zenon
<1>5. Key_(p)' = Key_(p) /\ local[p].pc = "pay"
  BY <1>3, <1>4, Zenon DEF Key_, Paid, At
<1>6. /\ UNCHANGED <<rows, emails>> /\ paid' \in [Key -> Nat]
      /\ \A k \in Key : paid'[k] = IF k = Key_(p) THEN paid[k] + 1 ELSE paid[k]
  <2>1. paid \in [Key -> Nat]
    BY Zenon DEF BooksInv, Counters
  <2>2. UNCHANGED <<rows, emails>> /\ paid' = [paid EXCEPT ![Key_(p)] = @ + 1]
    BY Zenon DEF Paid
  <2> QED BY <2>1, <2>2, Bumped, Zenon
<1>7. Counters'
  BY <1>6, Zenon DEF BooksInv, Counters
<1>8. ASSUME NEW k \in Key PROVE Balance(k)'
  <2>1. CASE k # Key_(p)
    BY <2>1, <1>4, <1>5, <1>6, OtherKeys, KeptBalance, Zenon
  <2>2. CASE k = Key_(p)
    <3>1. /\ Saving(k)' \subseteq Saving(k) \cup {p}
          /\ Mailing(k)' \subseteq Mailing(k)
          /\ Stamping(k)' \subseteq Stamping(k)
      BY <1>3, <1>4, Zenon DEF Saving, Mailing, Stamping, At, Key_
    <3>2. /\ Saving(k) \in SUBSET Proc /\ Saving(k)' \in SUBSET Proc
          /\ Mailing(k) \in SUBSET Proc /\ Mailing(k)' \in SUBSET Proc
          /\ Stamping(k) \in SUBSET Proc /\ Stamping(k)' \in SUBSET Proc
      BY Zenon DEF Saving, Mailing, Stamping, Proc
    <3>3. /\ Cardinality(Saving(k)') <= Cardinality(Saving(k)) + 1
          /\ Cardinality(Mailing(k)') <= Cardinality(Mailing(k))
          /\ Cardinality(Stamping(k)') <= Cardinality(Stamping(k))
      BY <3>1, <3>2, StageEntered, StageShrinks, Zenon
    <3>4. /\ Cardinality(Saving(k)) \in Nat /\ Cardinality(Saving(k)') \in Nat
          /\ Cardinality(Mailing(k)) \in Nat /\ Cardinality(Mailing(k)') \in Nat
          /\ Cardinality(Stamping(k)) \in Nat /\ Cardinality(Stamping(k)') \in Nat
      BY <3>2, StageFinite, Zenon
    <3>5. /\ rows[k].matched \in Nat /\ rows[k].reported \in Nat
          /\ paid[k] \in Nat /\ emails[k] \in Nat /\ Balance(k)
      BY Zenon DEF BooksInv, Counters
    <3>6. /\ rows'[k].matched + Cardinality(Saving(k)') <= paid'[k]
          /\ emails'[k] + Cardinality(Mailing(k)') <= rows'[k].matched
          /\ rows'[k].reported + Cardinality(Stamping(k)') <= emails'[k]
      BY <2>2, <3>3, <3>4, <3>5, <1>6 DEF Balance
    <3> QED BY <3>6, Zenon DEF Balance
  <2> QED BY <2>1, <2>2, Zenon
<1> QED BY <1>4, <1>7, <1>8, Zenon DEF BooksInv

\* A payment that throws is on no way to a matched row, made or not.
LEMMA PaymentThrowsInv ==
    ASSUME BooksInv, NEW p \in Proc, PaymentThrows(p)
    PROVE  BooksInv'
<1> DEFINE l == [local[p] EXCEPT !.pc = "save", !.ok = FALSE]
<1>1. Calls /\ DOMAIN local[p] = {"pc", "kind", "c", "m", "todo", "ok", "job"}
  BY Zenon DEF BooksInv, Calls
<1>2. local' = [local EXCEPT ![p] = l]
  BY Zenon DEF PaymentThrows
<1>3. DOMAIN l = {"pc", "kind", "c", "m", "todo", "ok", "job"} /\ Outside(l)
  BY <1>1, Zenon DEF Outside
<1> HIDE DEF l
<1>4. Calls' /\ local'[p] = l /\ \A q \in Proc : q # p => local'[q] = local[q]
  BY <1>1, <1>2, <1>3, OneMoves, Zenon
<1>5. /\ UNCHANGED <<rows, emails>> /\ paid' \in [Key -> Nat]
      /\ \A k \in Key : paid'[k] >= paid[k]
  <2>1. paid \in [Key -> Nat]
    BY Zenon DEF BooksInv, Counters
  <2>2. paid' = paid \/ paid' = [paid EXCEPT ![Key_(p)] = @ + 1]
    BY Zenon DEF PaymentThrows
  <2> QED BY <2>1, <2>2 DEF PaymentThrows
<1>6. Counters'
  BY <1>5, Zenon DEF BooksInv, Counters
<1> QED BY <1>3, <1>4, <1>5, <1>6, QuietInv, Zenon

\* Counting a row of a key leaves the count of its reports.
LEMMA RowCounts ==
    ASSUME NEW r \in [matched : Nat, failed : Nat, reported : Nat], NEW a \in Nat, NEW b \in Nat
    PROVE  /\ [r EXCEPT !.matched = a, !.failed = b]
                  \in [matched : Nat, failed : Nat, reported : Nat]
           /\ [r EXCEPT !.matched = a, !.failed = b].reported = r.reported
           /\ [r EXCEPT !.matched = a, !.failed = b].matched = a
           /\ r.matched + 1 \in Nat /\ r.failed + 1 \in Nat
           /\ r.matched \in Nat /\ r.failed \in Nat
<1>1. PICK s : s = [r EXCEPT !.matched = a]
  BY Zenon
<1>2. /\ s \in [matched : Nat, failed : Nat, reported : Nat]
      /\ s.matched = a /\ s.reported = r.reported
  BY <1>1, Zenon
<1>3. PICK t : t = [s EXCEPT !.failed = b]
  BY Zenon
<1>4. /\ t \in [matched : Nat, failed : Nat, reported : Nat]
      /\ t.matched = a /\ t.reported = r.reported
  BY <1>2, <1>3, Zenon
<1>5. t = [r EXCEPT !.matched = a, !.failed = b]
  BY <1>1, <1>3, Zenon
<1>6. /\ r.matched + 1 \in Nat /\ r.failed + 1 \in Nat
      /\ r.matched \in Nat /\ r.failed \in Nat
  OBVIOUS
<1> QED BY <1>4, <1>5, <1>6, Zenon

\* A matched row takes its call off the way from the payment; a failed one
\* moves no counter.
LEMMA SaveRecordInv ==
    ASSUME BooksInv, NEW p \in Proc, SaveRecord(p)
    PROVE  BooksInv'
<1>1. Calls /\ DOMAIN local[p] = {"pc", "kind", "c", "m", "todo", "ok", "job"}
  BY Zenon DEF BooksInv, Calls
<1>2. /\ UNCHANGED <<paid, emails>> /\ local[p].pc = "save"
      /\ rows' = [rows EXCEPT ![Key_(p)].matched = IF local[p].ok THEN @ + 1 ELSE @,
                              ![Key_(p)].failed = IF local[p].ok THEN @ ELSE @ + 1]
  BY Zenon DEF SaveRecord, At
<1>3. rows \in [Key -> [matched : Nat, failed : Nat, reported : Nat]]
  BY Zenon DEF BooksInv, Counters
<1>4. /\ rows' \in [Key -> [matched : Nat, failed : Nat, reported : Nat]]
      /\ \A k \in Key : k # Key_(p) => rows'[k] = rows[k]
      /\ \A k \in Key : rows'[k].reported = rows[k].reported
      /\ \A k \in Key : rows'[k].matched =
             IF k = Key_(p) /\ local[p].ok THEN rows[k].matched + 1 ELSE rows[k].matched
  <2> DEFINE row(k) == [rows[k] EXCEPT !.matched = IF local[p].ok THEN @ + 1 ELSE @,
                                       !.failed = IF local[p].ok THEN @ ELSE @ + 1]
  <2>1. /\ DOMAIN rows' = Key /\ rows' = [k \in Key |-> rows'[k]]
        /\ \A k \in Key : rows'[k] = IF k = Key_(p) THEN row(k) ELSE rows[k]
    BY <1>2, <1>3, Zenon
  <2>2. ASSUME NEW k \in Key
        PROVE  /\ row(k) \in [matched : Nat, failed : Nat, reported : Nat]
               /\ row(k).reported = rows[k].reported
               /\ row(k).matched = IF local[p].ok THEN rows[k].matched + 1 ELSE rows[k].matched
    <3>1. rows[k] \in [matched : Nat, failed : Nat, reported : Nat]
      BY <1>3, Zenon
    <3>2. CASE local[p].ok
      <4>1. row(k) = [rows[k] EXCEPT !.matched = rows[k].matched + 1, !.failed = rows[k].failed]
        BY <3>2, Zenon
      <4> HIDE DEF row
      <4>2. /\ row(k) \in [matched : Nat, failed : Nat, reported : Nat]
            /\ row(k).reported = rows[k].reported /\ row(k).matched = rows[k].matched + 1
        BY <3>1, <4>1, RowCounts, ZenonT(40)
      <4> QED BY <3>2, <4>2, Zenon
    <3>3. CASE ~local[p].ok
      <4>1. row(k) = [rows[k] EXCEPT !.matched = rows[k].matched, !.failed = rows[k].failed + 1]
        BY <3>3, Zenon
      <4> HIDE DEF row
      <4>2. /\ row(k) \in [matched : Nat, failed : Nat, reported : Nat]
            /\ row(k).reported = rows[k].reported /\ row(k).matched = rows[k].matched
        BY <3>1, <4>1, RowCounts, Zenon
      <4> QED BY <3>3, <4>2, Zenon
    <3> QED BY <3>2, <3>3, Zenon
  <2> HIDE DEF row
  <2>3. \A k \in Key : rows'[k] \in [matched : Nat, failed : Nat, reported : Nat]
    BY <2>1, <2>2, <1>3
  <2> QED BY <2>1, <2>2, <2>3
<1>5. Counters'
  BY <1>2, <1>4, Zenon DEF BooksInv, Counters
<1>6. CASE ~local[p].ok
  <2>1. Throws(p)
    BY <1>6, Zenon DEF SaveRecord
  <2>2. /\ Calls' /\ Outside(local'[p])
        /\ \A q \in Proc : q # p => local'[q] = local[q]
    BY <2>1, <1>1, EndsOutside, Zenon
  <2>3. \A k \in Key : paid[k] \in Nat
    BY Zenon DEF BooksInv, Counters
  <2>4. \A k \in Key : /\ paid'[k] >= paid[k] /\ emails'[k] = emails[k]
                       /\ rows'[k].matched = rows[k].matched
                       /\ rows'[k].reported = rows[k].reported
    BY <2>3, <1>2, <1>4, <1>6
  <2> QED BY <2>2, <2>4, <1>5, QuietInv, Zenon
<1>7. CASE local[p].ok
  <2>1. /\ Calls' /\ \A q \in Proc : q # p => local'[q] = local[q]
        /\ Key_(p)' = Key_(p) \/ Outside(local'[p])
        /\ local'[p].pc # "save" \/ ~local'[p].ok
        /\ local'[p].pc # "report"
    <3>1. CASE Returns(p)
      <4>1. /\ Calls' /\ \A q \in Proc : q # p => local'[q] = local[q]
            /\ Outside(local'[p])
        BY <3>1, <1>1, EndsOutside, Zenon
      <4> QED BY <4>1, Zenon DEF Outside
    <3>2. CASE Goto(p, "email")
      <4> DEFINE l == [local[p] EXCEPT !.pc = "email"]
      <4>1. /\ DOMAIN l = {"pc", "kind", "c", "m", "todo", "ok", "job"}
            /\ l.pc = "email" /\ l.c = local[p].c /\ l.m = local[p].m
        BY <1>1, Zenon
      <4>2. local' = [local EXCEPT ![p] = l]
        BY <3>2, Zenon DEF Goto
      <4> HIDE DEF l
      <4>3. Calls' /\ local'[p] = l /\ \A q \in Proc : q # p => local'[q] = local[q]
        BY <4>1, <4>2, <1>1, OneMoves, Zenon
      <4> QED BY <4>1, <4>3, Zenon DEF Key_
    <3> QED BY <3>1, <3>2, <1>7, Zenon DEF SaveRecord
  <2>2. ASSUME NEW k \in Key PROVE Balance(k)'
    <3>1. CASE k # Key_(p)
      BY <3>1, <2>1, <1>2, <1>4, OtherKeys, KeptBalance, Zenon
    <3>2. CASE k = Key_(p)
      <4>1. p \in Saving(k)
        BY <3>2, <1>2, <1>7, Zenon DEF Saving, At
      <4>2. /\ Saving(k)' \subseteq Saving(k) \ {p}
            /\ Mailing(k)' \subseteq Mailing(k) \cup {p}
            /\ Stamping(k)' \subseteq Stamping(k)
        BY <2>1, Zenon DEF Saving, Mailing, Stamping, At, Key_
      <4>3. /\ Saving(k) \in SUBSET Proc /\ Saving(k)' \in SUBSET Proc
            /\ Mailing(k) \in SUBSET Proc /\ Mailing(k)' \in SUBSET Proc
            /\ Stamping(k) \in SUBSET Proc /\ Stamping(k)' \in SUBSET Proc
        BY Zenon DEF Saving, Mailing, Stamping, Proc
      <4>4. /\ Cardinality(Saving(k)') + 1 <= Cardinality(Saving(k))
            /\ Cardinality(Mailing(k)') <= Cardinality(Mailing(k)) + 1
            /\ Cardinality(Stamping(k)') <= Cardinality(Stamping(k))
        BY <4>1, <4>2, <4>3, StageLeft, StageEntered, StageShrinks, Zenon
      <4>5. /\ Cardinality(Saving(k)) \in Nat /\ Cardinality(Saving(k)') \in Nat
            /\ Cardinality(Mailing(k)) \in Nat /\ Cardinality(Mailing(k)') \in Nat
            /\ Cardinality(Stamping(k)) \in Nat /\ Cardinality(Stamping(k)') \in Nat
        BY <4>3, StageFinite, Zenon
      <4>6. /\ rows[k].matched \in Nat /\ rows[k].reported \in Nat
            /\ paid[k] \in Nat /\ emails[k] \in Nat /\ Balance(k)
        BY Zenon DEF BooksInv, Counters
      <4>7. /\ rows'[k].matched = rows[k].matched + 1 /\ rows'[k].reported = rows[k].reported
            /\ paid'[k] = paid[k] /\ emails'[k] = emails[k]
        BY <3>2, <1>2, <1>4, <1>7, Zenon
      <4>8. /\ rows'[k].matched + Cardinality(Saving(k)') <= paid'[k]
            /\ emails'[k] + Cardinality(Mailing(k)') <= rows'[k].matched
            /\ rows'[k].reported + Cardinality(Stamping(k)') <= emails'[k]
        BY <4>4, <4>5, <4>6, <4>7 DEF Balance
      <4> QED BY <4>8, Zenon DEF Balance
    <3> QED BY <3>1, <3>2, Zenon
  <2> QED BY <2>1, <2>2, <1>5, Zenon DEF BooksInv
<1> QED BY <1>6, <1>7, Zenon

\* A mail takes its call from the row to the stamp.
LEMMA SendReportInv ==
    ASSUME BooksInv, NEW p \in Proc, SendReport(p)
    PROVE  BooksInv'
<1> DEFINE l == [local[p] EXCEPT !.pc = "report"]
<1>1. Calls /\ DOMAIN local[p] = {"pc", "kind", "c", "m", "todo", "ok", "job"}
  BY Zenon DEF BooksInv, Calls
<1>2. local' = [local EXCEPT ![p] = l]
  BY Zenon DEF SendReport, Goto
<1>3. /\ DOMAIN l = {"pc", "kind", "c", "m", "todo", "ok", "job"}
      /\ l.pc = "report" /\ l.c = local[p].c /\ l.m = local[p].m
  BY <1>1, Zenon
<1> HIDE DEF l
<1>4. Calls' /\ local'[p] = l /\ \A q \in Proc : q # p => local'[q] = local[q]
  BY <1>1, <1>2, <1>3, OneMoves, Zenon
<1>5. Key_(p)' = Key_(p) /\ local[p].pc = "email"
  BY <1>3, <1>4, Zenon DEF Key_, SendReport, At
<1>6. /\ UNCHANGED <<rows, paid>> /\ emails' \in [Key -> Nat]
      /\ \A k \in Key : emails'[k] = IF k = Key_(p) THEN emails[k] + 1 ELSE emails[k]
  <2>1. emails \in [Key -> Nat]
    BY Zenon DEF BooksInv, Counters
  <2>2. UNCHANGED <<rows, paid>> /\ emails' = [emails EXCEPT ![Key_(p)] = @ + 1]
    BY Zenon DEF SendReport
  <2> QED BY <2>1, <2>2, Bumped, Zenon
<1>7. Counters'
  BY <1>6, Zenon DEF BooksInv, Counters
<1>8. ASSUME NEW k \in Key PROVE Balance(k)'
  <2>1. CASE k # Key_(p)
    BY <2>1, <1>4, <1>5, <1>6, OtherKeys, KeptBalance, Zenon
  <2>2. CASE k = Key_(p)
    <3>1. p \in Mailing(k)
      BY <2>2, <1>5, Zenon DEF Mailing, At
    <3>2. /\ Saving(k)' \subseteq Saving(k)
          /\ Mailing(k)' \subseteq Mailing(k) \ {p}
          /\ Stamping(k)' \subseteq Stamping(k) \cup {p}
      BY <1>3, <1>4, Zenon DEF Saving, Mailing, Stamping, At, Key_
    <3>3. /\ Saving(k) \in SUBSET Proc /\ Saving(k)' \in SUBSET Proc
          /\ Mailing(k) \in SUBSET Proc /\ Mailing(k)' \in SUBSET Proc
          /\ Stamping(k) \in SUBSET Proc /\ Stamping(k)' \in SUBSET Proc
      BY Zenon DEF Saving, Mailing, Stamping, Proc
    <3>4. /\ Cardinality(Saving(k)') <= Cardinality(Saving(k))
          /\ Cardinality(Mailing(k)') + 1 <= Cardinality(Mailing(k))
          /\ Cardinality(Stamping(k)') <= Cardinality(Stamping(k)) + 1
      BY <3>1, <3>2, <3>3, StageLeft, StageEntered, StageShrinks, Zenon
    <3>5. /\ Cardinality(Saving(k)) \in Nat /\ Cardinality(Saving(k)') \in Nat
          /\ Cardinality(Mailing(k)) \in Nat /\ Cardinality(Mailing(k)') \in Nat
          /\ Cardinality(Stamping(k)) \in Nat /\ Cardinality(Stamping(k)') \in Nat
      BY <3>3, StageFinite, Zenon
    <3>6. /\ rows[k].matched \in Nat /\ rows[k].reported \in Nat
          /\ paid[k] \in Nat /\ emails[k] \in Nat /\ Balance(k)
      BY Zenon DEF BooksInv, Counters
    <3>7. /\ rows'[k].matched + Cardinality(Saving(k)') <= paid'[k]
          /\ emails'[k] + Cardinality(Mailing(k)') <= rows'[k].matched
          /\ rows'[k].reported + Cardinality(Stamping(k)') <= emails'[k]
      BY <2>2, <3>4, <3>5, <3>6, <1>6 DEF Balance
    <3> QED BY <3>7, Zenon DEF Balance
  <2> QED BY <2>1, <2>2, Zenon
<1> QED BY <1>4, <1>7, <1>8, Zenon DEF BooksInv

\* A stamp takes its call off the way from the mail.
LEMMA StampReportInv ==
    ASSUME BooksInv, NEW p \in Proc, StampReport(p)
    PROVE  BooksInv'
<1>1. Calls /\ local[p].pc = "report"
  BY Zenon DEF BooksInv, StampReport, At
<1>2. /\ Calls' /\ Outside(local'[p])
      /\ \A q \in Proc : q # p => local'[q] = local[q]
  BY <1>1, EndsOutside, Zenon DEF StampReport
<1>3. /\ UNCHANGED <<paid, emails>>
      /\ rows' = [rows EXCEPT ![Key_(p)].reported = @ + 1]
      /\ rows \in [Key -> [matched : Nat, failed : Nat, reported : Nat]]
  BY Zenon DEF StampReport, BooksInv, Counters
<1>4. /\ rows' \in [Key -> [matched : Nat, failed : Nat, reported : Nat]]
      /\ \A k \in Key : k # Key_(p) => rows'[k] = rows[k]
      /\ \A k \in Key : rows'[k].matched = rows[k].matched
      /\ \A k \in Key : k = Key_(p) => rows'[k].reported = rows[k].reported + 1
  <2>1. /\ DOMAIN rows' = Key /\ rows' = [k \in Key |-> rows'[k]]
        /\ \A k \in Key : rows'[k] = IF k = Key_(p)
                                     THEN [rows[k] EXCEPT !.reported = rows[k].reported + 1]
                                     ELSE rows[k]
    BY <1>3, Zenon
  <2>2. ASSUME NEW k \in Key
        PROVE  /\ rows'[k] \in [matched : Nat, failed : Nat, reported : Nat]
               /\ rows'[k].matched = rows[k].matched
               /\ k = Key_(p) => rows'[k].reported = rows[k].reported + 1
    BY <2>1, <1>3
  <2> QED BY <2>1, <2>2, Zenon
<1>5. Counters'
  BY <1>3, <1>4, Zenon DEF BooksInv, Counters
<1>6. ASSUME NEW k \in Key PROVE Balance(k)'
  <2>1. CASE k # Key_(p)
    BY <2>1, <1>2, <1>3, <1>4, OtherKeys, KeptBalance, Zenon
  <2>2. CASE k = Key_(p)
    <3>1. p \in Stamping(k)
      BY <2>2, <1>1, Zenon DEF Stamping, At
    <3>2. /\ Saving(k)' \subseteq Saving(k)
          /\ Mailing(k)' \subseteq Mailing(k)
          /\ Stamping(k)' \subseteq Stamping(k) \ {p}
      BY <1>2, Zenon DEF Saving, Mailing, Stamping, At, Key_, Outside
    <3>3. /\ Saving(k) \in SUBSET Proc /\ Saving(k)' \in SUBSET Proc
          /\ Mailing(k) \in SUBSET Proc /\ Mailing(k)' \in SUBSET Proc
          /\ Stamping(k) \in SUBSET Proc /\ Stamping(k)' \in SUBSET Proc
      BY Zenon DEF Saving, Mailing, Stamping, Proc
    <3>4. /\ Cardinality(Saving(k)') <= Cardinality(Saving(k))
          /\ Cardinality(Mailing(k)') <= Cardinality(Mailing(k))
          /\ Cardinality(Stamping(k)') + 1 <= Cardinality(Stamping(k))
      BY <3>1, <3>2, <3>3, StageLeft, StageShrinks, Zenon
    <3>5. /\ Cardinality(Saving(k)) \in Nat /\ Cardinality(Saving(k)') \in Nat
          /\ Cardinality(Mailing(k)) \in Nat /\ Cardinality(Mailing(k)') \in Nat
          /\ Cardinality(Stamping(k)) \in Nat /\ Cardinality(Stamping(k)') \in Nat
      BY <3>3, StageFinite, Zenon
    <3>6. /\ rows[k].matched \in Nat /\ rows[k].reported \in Nat
          /\ paid[k] \in Nat /\ emails[k] \in Nat /\ Balance(k)
      BY Zenon DEF BooksInv, Counters
    <3>7. /\ rows'[k].matched + Cardinality(Saving(k)') <= paid'[k]
          /\ emails'[k] + Cardinality(Mailing(k)') <= rows'[k].matched
          /\ rows'[k].reported + Cardinality(Stamping(k)') <= emails'[k]
      BY <2>2, <3>4, <3>5, <3>6, <1>3, <1>4 DEF Balance
    <3> QED BY <3>7, Zenon DEF Balance
  <2> QED BY <2>1, <2>2, Zenon
<1> QED BY <1>2, <1>5, <1>6, Zenon DEF BooksInv

\* A restart takes every call out of its stage.
LEMMA CrashInv ==
    ASSUME BooksInv, Crash
    PROVE  BooksInv'
<1>1. UNCHANGED <<rows, paid, emails>> /\ local' = [p \in Proc |-> Idle]
  BY Zenon DEF Crash
<1>2. Calls' /\ \A q \in Proc : Outside(local'[q])
  BY <1>1, IdleOutside, Zenon DEF Calls
<1> QED BY <1>1, <1>2, SilentInv, Zenon

\* A lock, and a step that changes nothing, leave the books and the calls alone.
LEMMA BooksKept ==
    ASSUME BooksInv, (\E c \in Contract : lockTenantDeposit(c)) \/ UNCHANGED vars
    PROVE  BooksInv'
<1>1. UNCHANGED <<rows, paid, emails, local>>
  BY Zenon DEF lockTenantDeposit, vars
<1>2. Calls'
  BY <1>1, Zenon DEF BooksInv, Calls
<1> QED BY <1>1, <1>2, SilentInv, Zenon

\* The books start empty.
LEMMA BooksInit ==
    ASSUME Init
    PROVE  BooksInv
<1>1. Counters
  BY Zenon DEF Init, Counters
<1>2. Calls /\ \A p \in Proc : local[p].pc = "idle"
  BY IdleOutside, Zenon DEF Init, Calls, Idle
<1>3. ASSUME NEW k \in Key PROVE Balance(k)
  <2>1. Saving(k) = {} /\ Mailing(k) = {} /\ Stamping(k) = {}
    BY <1>2, Zenon DEF Saving, Mailing, Stamping, At
  <2>2. rows[k].matched = 0 /\ rows[k].reported = 0 /\ paid[k] = 0 /\ emails[k] = 0
    BY Zenon DEF Init
  <2> QED BY <2>1, <2>2, FS_EmptySet DEF Balance
<1> QED BY <1>1, <1>2, <1>3, Zenon DEF BooksInv

\* Every step keeps the balance.
LEMMA BooksStep ==
    ASSUME BooksInv, [Next]_vars
    PROVE  BooksInv'
<1>1. ASSUME NEW p \in Proc, Step(p) PROVE BooksInv'
  BY <1>1, LoopInv, BeforeInv, PaidInv, PaymentThrowsInv, SaveRecordInv, SendReportInv,
     StampReportInv, Zenon DEF Step
<1> QED BY <1>1, EntryInv, CrashInv, BooksKept, Zenon DEF Next

\* Every matched row of reconcileContract stands for a payment of its own, for any
\* number of overlapping cron runs, manual runs and retry workers and whatever fails.
THEOREM MatchedRowsArePaid == Spec => []MatchedIsPaid
<1>1. BooksInv => MatchedIsPaid
  BY Zenon DEF BooksInv, Balance, Saving, MatchedIsPaid
<1> QED BY <1>1, BooksInit, BooksStep, PTL DEF Spec

\* A report is mailed only for a matched row and at most once for each, however the
\* calls overlap (sendMonthlyReportSafely).
THEOREM ReportsAreForMatches == Spec => []ReportsFollowMatches
<1>1. BooksInv => ReportsFollowMatches
  <2> SUFFICES ASSUME BooksInv, NEW k \in Key
               PROVE  rows[k].reported <= emails[k] /\ emails[k] <= rows[k].matched
    BY Zenon DEF ReportsFollowMatches
  <2>1. Mailing(k) \in SUBSET Proc /\ Stamping(k) \in SUBSET Proc
    BY Zenon DEF Mailing, Stamping
  <2>2. Cardinality(Mailing(k)) \in Nat /\ Cardinality(Stamping(k)) \in Nat
    BY <2>1, StageFinite, Zenon
  <2>3. rows[k].matched \in Nat /\ rows[k].reported \in Nat /\ emails[k] \in Nat
    BY Zenon DEF BooksInv, Counters
  <2> QED BY <2>2, <2>3 DEF BooksInv, Balance
<1> QED BY <1>1, BooksInit, BooksStep, PTL DEF Spec

-----------------------------------------------------------------------------
(* Calls that do not overlap.                                              *)

HasPaid(p, k) == At(p, "save") /\ local[p].ok /\ Key_(p) = k

\* A payment that the rows show, or that the call which made it is about to save.
Shown(k) == rows[k].matched > 0 \/ \E p \in Proc : HasPaid(p, k)

\* A call between its look for a matched row and its payment is right that there is none.
StillUnmatched(p) ==
    local[p].pc \in {"contract", "usage", "pay"} /\ Key_(p) \in Key => ~(rows[Key_(p)].matched > 0)

Losses == used \in [{"manual", "rejects", "losses", "outages"} -> Nat]

Within(k) == paid[k] <= used["losses"] + (IF Shown(k) THEN 1 ELSE 0)

\* The inductive invariant: one call works at a time, what it has read still holds,
\* and every payment beyond the one that shows is a loss.
SerialInv ==
    /\ Losses
    /\ \A p, q \in Proc : p # q => local[p] = Idle \/ local[q] = Idle
    /\ \A p \in Proc : StillUnmatched(p)
    /\ \A k \in Key : Within(k)

\* An idle call has paid nothing and read nothing.
LEMMA IdleIsSilent ==
    ASSUME NEW p \in Proc, local[p] = Idle
    PROVE  StillUnmatched(p) /\ \A k : ~HasPaid(p, k)
  BY DEF StillUnmatched, HasPaid, At, Idle

\* While one call works, the others show nothing.
LEMMA OneShows ==
    ASSUME SerialInv, NEW p \in Proc, local[p] # Idle, NEW k \in Key
    PROVE  Shown(k) <=> rows[k].matched > 0 \/ HasPaid(p, k)
<1>1. \A q \in Proc : q # p => local[q] = Idle
  BY Zenon DEF SerialInv
<1>2. \A q \in Proc : q # p => ~HasPaid(q, k)
  BY <1>1, IdleIsSilent, Zenon
<1> QED BY <1>2, Zenon DEF Shown

\* A step of the one call that works.
LEMMA OneSteps ==
    ASSUME SerialInv, NEW p \in Proc, local[p] # Idle, Losses',
           \A q \in Proc : q # p => local'[q] = local[q],
           StillUnmatched(p)', \A k \in Key : Within(k)'
    PROVE  SerialInv'
<1>1. \A q \in Proc : q # p => local'[q] = Idle
  BY Zenon DEF SerialInv
<1>2. \A q \in Proc : q # p => StillUnmatched(q)'
  <2>1. Idle.pc \notin {"contract", "usage", "pay"}
    BY Zenon DEF Idle
  <2> QED BY <1>1, <2>1, Zenon DEF StillUnmatched
<1>3. \A q, r \in Proc : q # r => local'[q] = Idle \/ local'[r] = Idle
  BY <1>1, Zenon
<1> QED BY <1>2, <1>3, Zenon DEF SerialInv

\* The payments of a key stay within the losses when none is made and the call that
\* works takes no unshown payment with it.
LEMMA NonePaid ==
    ASSUME BooksInv, SerialInv, NEW p \in Proc, local[p] # Idle, Losses',
           UNCHANGED paid, \A k \in Key : rows'[k].matched = rows[k].matched,
           used'["losses"] = used["losses"], ~(At(p, "save") /\ local[p].ok)
    PROVE  \A k \in Key : Within(k)'
<1> SUFFICES ASSUME NEW k \in Key PROVE Within(k)'
  BY Zenon
<1>1. Shown(k) <=> rows[k].matched > 0
  BY OneShows, Zenon DEF HasPaid
<1>2. rows'[k].matched > 0 => Shown(k)'
  BY Zenon DEF Shown
<1>3. paid[k] \in Nat /\ used["losses"] \in Nat
  BY Zenon DEF BooksInv, Counters, SerialInv, Losses
<1>4. paid[k] <= used["losses"] + (IF Shown(k) THEN 1 ELSE 0)
  BY Zenon DEF SerialInv, Within
<1>5. Shown(k) => Shown(k)'
  BY <1>1, <1>2, Zenon
<1>6. paid'[k] <= used'["losses"] + (IF Shown(k)' THEN 1 ELSE 0)
  BY <1>3, <1>4, <1>5
<1> QED BY <1>6, Zenon DEF Within

\* The payments of a key stay within the losses when a loss is counted for it.
LEMMA LossPaid ==
    ASSUME BooksInv, SerialInv, NEW k \in Key, paid'[k] = paid[k],
           used'["losses"] = used["losses"] + 1
    PROVE  Within(k)'
<1>1. paid[k] \in Nat /\ used["losses"] \in Nat
  BY Zenon DEF BooksInv, Counters, SerialInv, Losses
<1>2. paid[k] <= used["losses"] + (IF Shown(k) THEN 1 ELSE 0)
  BY Zenon DEF SerialInv, Within
<1>3. paid'[k] <= used'["losses"] + (IF Shown(k)' THEN 1 ELSE 0)
  BY <1>1, <1>2
<1> QED BY <1>3, Zenon DEF Within

\* What a bound that is spent leaves of the losses.
LEMMA Spending ==
    ASSUME Losses, NEW b \in {"manual", "rejects", "losses", "outages"}, NEW max, Spend(b, max)
    PROVE  /\ Losses'
           /\ used'["losses"] = IF b = "losses" THEN used["losses"] + 1 ELSE used["losses"]
  BY DEF Losses, Spend

\* However reconcileContract ends, its call is not about to pay.
LEMMA EndsUnmatched ==
    ASSUME Calls, NEW p \in Proc, Returns(p) \/ Throws(p)
    PROVE  StillUnmatched(p)' /\ \A q \in Proc : q # p => local'[q] = local[q]
<1>1. \A q \in Proc : q # p => local'[q] = local[q]
  BY EndsOutside, Zenon
<1>2. local'[p] = Idle \/ local'[p].pc = "loop" \/ local'[p].pc = "enqueue"
  BY Zenon DEF Returns, Throws, Calls
<1>3. Idle.pc = "idle"
  BY Zenon DEF Idle
<1>4. local'[p].pc \notin {"contract", "usage", "pay"}
  BY <1>2, <1>3, Zenon
<1> QED BY <1>1, <1>4, Zenon DEF StillUnmatched

\* Where a call that only goes on is, and that its key stays.
LEMMA Going ==
    ASSUME Calls, NEW p \in Proc, NEW pc, Goto(p, pc)
    PROVE  /\ local'[p].pc = pc /\ Key_(p)' = Key_(p)
           /\ \A q \in Proc : q # p => local'[q] = local[q]
  BY Zenon DEF Calls, Goto, Key_

\* A call that has a place to go on from is not idle.
LEMMA WorkingIsNotIdle ==
    ASSUME NEW p \in Proc, local[p].pc # "idle"
    PROVE  local[p] # Idle
  BY DEF Idle

\* The loop over the contracts pays nothing.
LEMMA LoopSerial ==
    ASSUME BooksInv, SerialInv, NEW p \in Proc,
           findAllLocked(p) \/ NextContract(p) \/ EnqueueRetry(p) \/ EnqueueThrows(p)
    PROVE  SerialInv'
<1>1. Calls /\ Losses /\ local[p].pc \in {"list", "loop", "enqueue"}
  BY Zenon DEF BooksInv, SerialInv, findAllLocked, NextContract, EnqueueRetry, EnqueueThrows, At
<1>2. local[p] # Idle /\ ~(At(p, "save") /\ local[p].ok)
  BY <1>1, WorkingIsNotIdle, Zenon DEF At
<1>3. UNCHANGED <<rows, paid>> /\ Losses' /\ used'["losses"] = used["losses"]
  <2>1. UNCHANGED <<rows, paid>> /\ (UNCHANGED used \/ Spend("outages", MaxOutages))
    BY Zenon DEF findAllLocked, NextContract, EnqueueRetry, EnqueueThrows
  <2>2. CASE UNCHANGED used
    BY <1>1, <2>1, <2>2, Zenon DEF Losses
  <2>3. CASE Spend("outages", MaxOutages)
    BY <1>1, <2>1, <2>3, Spending, Zenon
  <2> QED BY <2>1, <2>2, <2>3, Zenon
<1>4. /\ local'[p] = Idle \/ local'[p].pc \in {"loop", "matched"}
      /\ \A q \in Proc : q # p => local'[q] = local[q]
  BY <1>1, Zenon DEF Calls, findAllLocked, NextContract, EnqueueRetry, EnqueueThrows, Goto
<1>5. StillUnmatched(p)'
  <2>1. local'[p].pc \notin {"contract", "usage", "pay"}
    BY <1>4 DEF Idle
  <2> QED BY <2>1, Zenon DEF StillUnmatched
<1>6. \A k \in Key : Within(k)'
  BY <1>2, <1>3, NonePaid, Zenon
<1> QED BY <1>2, <1>3, <1>4, <1>5, <1>6, OneSteps, Zenon

\* What comes before the payment pays nothing, and the look for a matched row is not
\* outdated: no other call is there to add one.
LEMMA BeforeSerial ==
    ASSUME BooksInv, SerialInv, NEW p \in Proc,
           \/ FindMatched(p) \/ FindContract(p) \/ getMonthlyUsage(p) \/ UsageThrows(p)
           \/ QueryThrows(p)
    PROVE  SerialInv'
<1>1. Calls /\ Losses /\ local[p].pc \in {"list", "matched", "contract", "usage"}
  BY Zenon DEF BooksInv, SerialInv, FindMatched, FindContract, getMonthlyUsage, UsageThrows,
         QueryThrows, At
<1>2. local[p] # Idle /\ ~(At(p, "save") /\ local[p].ok)
  BY <1>1, WorkingIsNotIdle, Zenon DEF At
<1>3. UNCHANGED <<rows, paid>> /\ Losses' /\ used'["losses"] = used["losses"]
  <2>1. /\ UNCHANGED <<rows, paid>>
        /\ UNCHANGED used \/ Spend("outages", MaxOutages) \/ Spend("rejects", MaxRejects)
    BY Zenon DEF FindMatched, FindContract, getMonthlyUsage, UsageThrows, QueryThrows
  <2>2. CASE UNCHANGED used
    BY <1>1, <2>1, <2>2, Zenon DEF Losses
  <2>3. CASE Spend("outages", MaxOutages)
    BY <1>1, <2>1, <2>3, Spending, Zenon
  <2>4. CASE Spend("rejects", MaxRejects)
    BY <1>1, <2>1, <2>4, Spending, Zenon
  <2> QED BY <2>1, <2>2, <2>3, <2>4, Zenon
<1>4. /\ StillUnmatched(p)'
      /\ \A q \in Proc : q # p => local'[q] = local[q]
  <2>1. CASE Returns(p) \/ Throws(p)
    BY <1>1, <2>1, EndsUnmatched, Zenon
  <2>2. CASE local' = [local EXCEPT ![p] = Idle]
    BY <1>1, <2>2, Zenon DEF Calls, StillUnmatched, Idle
  <2>3. ASSUME NEW pc, Goto(p, pc), ~(rows[Key_(p)].matched > 0) \/ Key_(p) \notin Key
        PROVE  StillUnmatched(p)' /\ \A q \in Proc : q # p => local'[q] = local[q]
    <3>1. Key_(p)' = Key_(p) /\ \A q \in Proc : q # p => local'[q] = local[q]
      BY <1>1, <2>3, Going, Zenon
    <3>2. rows' = rows /\ Key' = Key
      BY <1>3, Zenon
    <3>3. Key_(p)' \in Key => ~(rows'[Key_(p)'].matched > 0)
      BY <2>3, <3>1, <3>2, Zenon
    <3> QED BY <3>1, <3>3, Zenon DEF StillUnmatched
  <2>4. CASE FindMatched(p)
    BY <2>1, <2>3, <2>4, Zenon DEF FindMatched
  <2>5. CASE FindContract(p) \/ getMonthlyUsage(p)
    <3>1. ~(rows[Key_(p)].matched > 0) \/ Key_(p) \notin Key
      BY <2>5, Zenon DEF FindContract, getMonthlyUsage, SerialInv, StillUnmatched, At
    <3> QED BY <2>1, <2>3, <2>5, <3>1, Zenon DEF FindContract, getMonthlyUsage
  <2>6. CASE UsageThrows(p) \/ QueryThrows(p)
    BY <2>1, <2>2, <2>6, Zenon DEF UsageThrows, QueryThrows
  <2> QED BY <2>4, <2>5, <2>6, Zenon
<1>5. \A k \in Key : Within(k)'
  BY <1>2, <1>3, NonePaid, Zenon
<1> QED BY <1>2, <1>3, <1>4, <1>5, OneSteps, Zenon

\* The payment of a call is the first that shows for its key, or a loss.
LEMMA PaySerial ==
    ASSUME BooksInv, SerialInv, NEW p \in Proc, Paid(p) \/ PaymentThrows(p)
    PROVE  SerialInv'
<1>1. Calls /\ Losses /\ local[p].pc = "pay" /\ paid \in [Key -> Nat]
  BY Zenon DEF BooksInv, Counters, SerialInv, Paid, PaymentThrows, At
<1>2. local[p] # Idle /\ ~(At(p, "save") /\ local[p].ok)
  BY <1>1, WorkingIsNotIdle, Zenon DEF At
<1>3. /\ local'[p].pc = "save" /\ Key_(p)' = Key_(p) /\ rows' = rows
      /\ \A q \in Proc : q # p => local'[q] = local[q]
  BY <1>1 DEF Calls, Paid, PaymentThrows, Key_
<1>4. StillUnmatched(p)'
  BY <1>3, Zenon DEF StillUnmatched
<1>5. ASSUME NEW k \in Key, k = Key_(p) PROVE paid[k] <= used["losses"]
  <2>1. ~Shown(k)
    BY <1>1, <1>2, <1>5, OneShows, Zenon DEF SerialInv, StillUnmatched, HasPaid
  <2>2. Within(k) /\ paid[k] \in Nat /\ used["losses"] \in Nat
    BY <1>1, Zenon DEF SerialInv, Losses
  <2> QED BY <2>1, <2>2 DEF Within
<1>6. CASE Paid(p)
  <2>1. /\ used' = used /\ local'[p].ok = TRUE
        /\ \A k \in Key : paid'[k] = IF k = Key_(p) THEN paid[k] + 1 ELSE paid[k]
    BY <1>1, <1>6, Zenon DEF Calls, Paid
  <2>2. Losses' /\ used["losses"] \in Nat
    BY <1>1, <2>1, Zenon DEF Losses
  <2>3. ASSUME NEW k \in Key PROVE Within(k)'
    <3>1. CASE k = Key_(p)
      <4>1. HasPaid(p, k)'
        BY <1>3, <2>1, <3>1, Zenon DEF HasPaid, At
      <4>2. Shown(k)'
        BY <4>1, Zenon DEF Shown
      <4>3. paid[k] \in Nat /\ paid'[k] = paid[k] + 1 /\ paid[k] <= used["losses"]
        BY <1>1, <1>5, <2>1, <3>1, Zenon
      <4>4. paid'[k] <= used'["losses"] + 1
        BY <2>1, <2>2, <4>3
      <4> QED BY <4>2, <4>4, Zenon DEF Within
    <3>2. CASE k # Key_(p)
      <4>1. Shown(k) <=> rows[k].matched > 0
        BY <1>2, OneShows, Zenon DEF HasPaid
      <4>2. Shown(k) => Shown(k)'
        BY <1>3, <4>1, Zenon DEF Shown
      <4>3. Within(k) /\ paid[k] \in Nat /\ paid'[k] = paid[k]
        BY <1>1, <2>1, <3>2, Zenon DEF SerialInv
      <4>4. paid'[k] <= used'["losses"] + (IF Shown(k)' THEN 1 ELSE 0)
        BY <2>1, <2>2, <4>2, <4>3 DEF Within
      <4> QED BY <4>4, Zenon DEF Within
    <3> QED BY <3>1, <3>2, Zenon
  <2> QED BY <1>2, <1>3, <1>4, <2>2, <2>3, OneSteps, Zenon
<1>7. CASE PaymentThrows(p) /\ Spend("rejects", MaxRejects) /\ UNCHANGED paid
  <2>1. Losses' /\ used'["losses"] = used["losses"]
    BY <1>1, <1>7, Spending, Zenon
  <2>2. \A k \in Key : Within(k)'
    BY <1>2, <1>3, <1>7, <2>1, NonePaid, Zenon
  <2> QED BY <1>2, <1>3, <1>4, <2>1, <2>2, OneSteps, Zenon
<1>8. CASE Spend("losses", MaxLosses) /\ paid' = [paid EXCEPT ![Key_(p)] = @ + 1]
  <2>1. /\ Losses' /\ used'["losses"] = used["losses"] + 1
        /\ used["losses"] \in Nat
    BY <1>1, <1>8, Spending, Zenon DEF Losses
  <2>2. ASSUME NEW k \in Key PROVE Within(k)'
    <3>1. CASE k = Key_(p)
      <4>1. paid[k] \in Nat /\ paid'[k] = paid[k] + 1 /\ paid[k] <= used["losses"]
        BY <1>1, <1>5, <1>8, <3>1, Zenon
      <4>2. paid'[k] <= used'["losses"] + (IF Shown(k)' THEN 1 ELSE 0)
        BY <2>1, <4>1
      <4> QED BY <4>2, Zenon DEF Within
    <3>2. CASE k # Key_(p)
      BY <1>1, <1>8, <2>1, <3>2, LossPaid, Zenon
    <3> QED BY <3>1, <3>2, Zenon
  <2> QED BY <1>2, <1>3, <1>4, <2>1, <2>2, OneSteps, Zenon
<1> QED BY <1>6, <1>7, <1>8, Zenon DEF PaymentThrows

\* The row of a payment shows it; a failed row shows nothing.
LEMMA SaveRecordSerial ==
    ASSUME BooksInv, SerialInv, NEW p \in Proc, SaveRecord(p)
    PROVE  SerialInv'
<1>1. /\ Calls /\ Losses /\ local[p].pc = "save"
      /\ rows \in [Key -> [matched : Nat, failed : Nat, reported : Nat]]
      /\ paid \in [Key -> Nat]
  BY Zenon DEF BooksInv, Counters, SerialInv, SaveRecord, At
<1>2. local[p] # Idle
  BY <1>1, WorkingIsNotIdle, Zenon
<1>3. /\ StillUnmatched(p)'
      /\ \A q \in Proc : q # p => local'[q] = local[q]
  <2>1. CASE Returns(p) \/ Throws(p)
    BY <1>1, <2>1, EndsUnmatched, Zenon
  <2>2. CASE Goto(p, "email")
    <3>1. local'[p].pc = "email" /\ \A q \in Proc : q # p => local'[q] = local[q]
      BY <1>1, <2>2, Going, Zenon
    <3> QED BY <3>1, Zenon DEF StillUnmatched
  <2> QED BY <2>1, <2>2, Zenon DEF SaveRecord
<1>4. used' = used /\ paid' = paid /\ used["losses"] \in Nat /\ Losses'
  BY <1>1, Zenon DEF SaveRecord, Losses
<1>5. ASSUME NEW k \in Key
      PROVE  rows'[k].matched = IF k = Key_(p) /\ local[p].ok THEN rows[k].matched + 1
                                ELSE rows[k].matched
  <2>1. CASE k = Key_(p)
    <3>1. rows'[k] = [rows[k] EXCEPT !.matched = IF local[p].ok THEN @ + 1 ELSE @,
                                     !.failed = IF local[p].ok THEN @ ELSE @ + 1]
      BY <1>1, <2>1, Zenon DEF SaveRecord
    <3> QED BY <1>1, <2>1, <3>1
  <2>2. CASE k # Key_(p)
    BY <1>1, <2>2, Zenon DEF SaveRecord
  <2> QED BY <2>1, <2>2, Zenon
<1>6. ASSUME NEW k \in Key PROVE Within(k)'
  <2>1. rows[k].matched \in Nat /\ paid[k] \in Nat
    BY <1>1, Zenon
  <2>2. Shown(k) <=> rows[k].matched > 0 \/ HasPaid(p, k)
    BY <1>2, OneShows, Zenon
  <2>3. HasPaid(p, k) => rows'[k].matched > 0
    BY <1>5, <2>1 DEF HasPaid
  <2>4. rows[k].matched > 0 => rows'[k].matched > 0
    BY <1>5, <2>1
  <2>5. Shown(k) => Shown(k)'
    BY <2>2, <2>3, <2>4, Zenon DEF Shown
  <2>6. paid[k] <= used["losses"] + (IF Shown(k) THEN 1 ELSE 0)
    BY Zenon DEF SerialInv, Within
  <2>7. paid'[k] <= used'["losses"] + (IF Shown(k)' THEN 1 ELSE 0)
    BY <1>4, <2>1, <2>5, <2>6
  <2> QED BY <2>7, Zenon DEF Within
<1> QED BY <1>2, <1>3, <1>4, <1>6, OneSteps, Zenon

\* A row that is not saved takes its payment out of sight, which is a loss.
LEMMA SaveThrowsSerial ==
    ASSUME BooksInv, SerialInv, NEW p \in Proc, SaveThrows(p)
    PROVE  SerialInv'
<1>1. Calls /\ Losses /\ local[p].pc = "save" /\ rows' = rows /\ paid' = paid
  BY Zenon DEF BooksInv, SerialInv, SaveThrows, At
<1>2. local[p] # Idle
  BY <1>1, WorkingIsNotIdle, Zenon
<1>3. /\ StillUnmatched(p)'
      /\ \A q \in Proc : q # p => local'[q] = local[q]
  BY <1>1, EndsUnmatched, Zenon DEF SaveThrows
<1>4. CASE local[p].ok
  <2>1. Losses' /\ used'["losses"] = used["losses"] + 1
    BY <1>1, <1>4, Spending, Zenon DEF SaveThrows
  <2>2. \A k \in Key : Within(k)'
    BY <1>1, <2>1, LossPaid, Zenon
  <2> QED BY <1>2, <1>3, <2>1, <2>2, OneSteps, Zenon
<1>5. CASE ~local[p].ok
  <2>1. Losses' /\ used'["losses"] = used["losses"]
    BY <1>1, <1>5, Spending, Zenon DEF SaveThrows
  <2>2. \A k \in Key : Within(k)'
    BY <1>1, <1>2, <1>5, <2>1, NonePaid, Zenon
  <2> QED BY <1>2, <1>3, <2>1, <2>2, OneSteps, Zenon
<1> QED BY <1>4, <1>5, Zenon

\* The report touches neither the payments nor the matched rows.
LEMMA ReportSerial ==
    ASSUME BooksInv, SerialInv, NEW p \in Proc,
           SendReport(p) \/ StampReport(p) \/ ReportThrows(p)
    PROVE  SerialInv'
<1>1. /\ Calls /\ Losses /\ local[p].pc \in {"email", "report"} /\ paid' = paid
      /\ rows \in [Key -> [matched : Nat, failed : Nat, reported : Nat]]
  BY Zenon DEF BooksInv, Counters, SerialInv, SendReport, StampReport, ReportThrows, At
<1>2. local[p] # Idle /\ ~(At(p, "save") /\ local[p].ok)
  BY <1>1, WorkingIsNotIdle, Zenon DEF At
<1>3. \A k \in Key : rows'[k].matched = rows[k].matched
  BY <1>1 DEF SendReport, StampReport, ReportThrows
<1>4. Losses' /\ used'["losses"] = used["losses"]
  <2>1. UNCHANGED used \/ Spend("rejects", MaxRejects)
    BY Zenon DEF SendReport, StampReport, ReportThrows
  <2>2. CASE UNCHANGED used
    BY <1>1, <2>2, Zenon DEF Losses
  <2>3. CASE Spend("rejects", MaxRejects)
    BY <1>1, <2>3, Spending, Zenon
  <2> QED BY <2>1, <2>2, <2>3, Zenon
<1>5. /\ StillUnmatched(p)'
      /\ \A q \in Proc : q # p => local'[q] = local[q]
  <2>1. CASE Returns(p)
    BY <1>1, <2>1, EndsUnmatched, Zenon
  <2>2. CASE Goto(p, "report")
    <3>1. local'[p].pc = "report" /\ \A q \in Proc : q # p => local'[q] = local[q]
      BY <1>1, <2>2, Going, Zenon
    <3> QED BY <3>1, Zenon DEF StillUnmatched
  <2> QED BY <2>1, <2>2, Zenon DEF SendReport, StampReport, ReportThrows
<1>6. \A k \in Key : Within(k)'
  BY <1>1, <1>2, <1>3, <1>4, NonePaid, Zenon
<1> QED BY <1>2, <1>4, <1>5, <1>6, OneSteps, Zenon

\* A call starts when all are idle, and has then read and paid nothing.
LEMMA StartSerial ==
    ASSUME ~Overlap, BooksInv, SerialInv, NEW p \in Proc, NEW l, l.pc \in {"list", "matched"},
           Start(p, l), UNCHANGED <<rows, paid>>, Losses', used'["losses"] = used["losses"]
    PROVE  SerialInv'
<1>1. \A q \in Proc : local[q] = Idle
  BY Zenon DEF Start, MayStart
<1>2. local'[p] = l /\ \A q \in Proc : q # p => local'[q] = Idle
  BY <1>1, Zenon DEF Start, BooksInv, Calls
<1>3. ASSUME NEW q \in Proc PROVE StillUnmatched(q)'
  <2>1. Idle.pc = "idle"
    BY Zenon DEF Idle
  <2>2. local'[q].pc \in {"idle", "list", "matched"}
    BY <1>2, <2>1, Zenon
  <2> QED BY <2>2, Zenon DEF StillUnmatched
<1>4. ASSUME NEW k \in Key PROVE Within(k)'
  <2>1. \A q \in Proc : ~HasPaid(q, k)
    BY <1>1, IdleIsSilent, Zenon
  <2>2. Shown(k) => Shown(k)'
    BY <2>1, Zenon DEF Shown
  <2>3. paid[k] \in Nat /\ used["losses"] \in Nat
    BY Zenon DEF BooksInv, Counters, SerialInv, Losses
  <2>4. paid[k] <= used["losses"] + (IF Shown(k) THEN 1 ELSE 0)
    BY Zenon DEF SerialInv, Within
  <2>5. paid'[k] <= used'["losses"] + (IF Shown(k)' THEN 1 ELSE 0)
    BY <2>2, <2>3, <2>4
  <2> QED BY <2>5, Zenon DEF Within
<1>5. \A q, r \in Proc : q # r => local'[q] = Idle \/ local'[r] = Idle
  BY <1>2, Zenon
<1> QED BY <1>3, <1>4, <1>5, Zenon DEF SerialInv

\* A cron run, a manual run or a retry job begins.
LEMMA EntrySerial ==
    ASSUME ~Overlap, BooksInv, SerialInv,
           \/ \E p \in Cron, m \in Month : monthlyCron(p, m)
           \/ \E p \in Handler, m \in Month : runManualReconcile(p, m)
           \/ \E p \in Worker, j \in Job : process(p, j)
    PROVE  SerialInv'
<1>1. Cron \subseteq Proc /\ Handler \subseteq Proc /\ Worker \subseteq Proc
  BY Zenon DEF Proc
<1>2. UNCHANGED <<rows, paid>> /\ Losses' /\ used'["losses"] = used["losses"]
  <2>1. UNCHANGED <<rows, paid>> /\ (UNCHANGED used \/ Spend("manual", MaxManual))
    BY Zenon DEF monthlyCron, runManualReconcile, process
  <2>2. Losses
    BY Zenon DEF SerialInv
  <2>3. CASE UNCHANGED used
    BY <2>1, <2>2, <2>3, Zenon DEF Losses
  <2>4. CASE Spend("manual", MaxManual)
    BY <2>1, <2>2, <2>4, Spending, Zenon
  <2> QED BY <2>1, <2>3, <2>4, Zenon
<1>3. \E p \in Proc : \E l : l.pc \in {"list", "matched"} /\ Start(p, l)
  <2> DEFINE month(m) == [Idle EXCEPT !.pc = "list", !.kind = "month", !.m = m]
             single(c, m) == [Idle EXCEPT !.pc = "matched", !.kind = "single", !.c = c, !.m = m]
             again(c, m, j) == [Idle EXCEPT !.pc = "matched", !.kind = "job", !.c = c,
                                            !.m = m, !.job = j]
  <2>1. /\ \A m : month(m).pc \in {"list", "matched"}
        /\ \A c, m : single(c, m).pc \in {"list", "matched"}
        /\ \A c, m, j : again(c, m, j).pc \in {"list", "matched"}
    BY Zenon DEF Idle
  <2>2. \/ \E p \in Cron, m \in Month : Start(p, month(m))
        \/ \E p \in Handler, m \in Month :
              Start(p, month(m)) \/ \E c \in Contract : Start(p, single(c, m))
        \/ \E p \in Worker, j \in Job : Start(p, again(jobs[j].c, jobs[j].m, j))
    BY Zenon DEF monthlyCron, runManualReconcile, process
  <2> HIDE DEF month, single, again
  <2> QED BY <1>1, <2>1, <2>2
<1> QED BY <1>2, <1>3, StartSerial

\* A restart loses at most the payment of the one call that works.
LEMMA CrashSerial ==
    ASSUME BooksInv, SerialInv, Crash
    PROVE  SerialInv'
<1>1. /\ Losses /\ paid' = paid /\ local' = [p \in Proc |-> Idle]
      /\ Spend("losses", MaxLosses)
  BY Zenon DEF SerialInv, Crash
<1>2. Losses' /\ used'["losses"] = used["losses"] + 1
  BY <1>1, Spending, Zenon
<1>3. \A k \in Key : Within(k)'
  BY <1>1, <1>2, LossPaid, Zenon
<1>4. \A p \in Proc : local'[p] = Idle
  BY <1>1, Zenon
<1>5. ASSUME NEW p \in Proc PROVE StillUnmatched(p)'
  <2>1. Idle.pc = "idle"
    BY Zenon DEF Idle
  <2>2. local'[p].pc = "idle"
    BY <1>4, <2>1, Zenon
  <2> QED BY <2>2, Zenon DEF StillUnmatched
<1> QED BY <1>2, <1>3, <1>4, <1>5, Zenon DEF SerialInv

\* A lock, and a step that changes nothing, leave the payments and the calls alone.
LEMMA SerialKept ==
    ASSUME SerialInv, (\E c \in Contract : lockTenantDeposit(c)) \/ UNCHANGED vars
    PROVE  SerialInv'
<1>1. UNCHANGED <<rows, paid, local, used>>
  BY Zenon DEF lockTenantDeposit, vars
<1> QED BY <1>1, Zenon DEF SerialInv, Losses, StillUnmatched, Within, Shown, HasPaid, At, Key_

\* No call works, and nothing is paid.
LEMMA SerialInit ==
    ASSUME Init
    PROVE  SerialInv
<1>1. Losses /\ used["losses"] = 0
  BY Zenon DEF Init, Losses
<1>2. \A p \in Proc : local[p] = Idle
  BY Zenon DEF Init
<1>3. \A p \in Proc : StillUnmatched(p)
  BY <1>2, IdleIsSilent, Zenon
<1>4. \A k \in Key : Within(k)
  BY <1>1 DEF Init, Within
<1> QED BY <1>1, <1>2, <1>3, <1>4, Zenon DEF SerialInv

\* Every step of calls that do not overlap keeps the payments within the losses.
LEMMA SerialStep ==
    ASSUME ~Overlap, BooksInv, SerialInv, [Next]_vars
    PROVE  SerialInv'
<1>1. ASSUME NEW p \in Proc, Step(p) PROVE SerialInv'
  BY <1>1, LoopSerial, BeforeSerial, PaySerial, SaveRecordSerial, SaveThrowsSerial,
     ReportSerial, Zenon DEF Step
<1> QED BY <1>1, EntrySerial, CrashSerial, SerialKept, Zenon DEF Next

\* Calls of reconcileContract that do not overlap pay a month once, and once more for
\* each payment whose success never reached a row: a lost answer of submitXrpPayment,
\* a failed recordRepo.save after it, or a crash between the two.
THEOREM SerialCallsPayOnce ==
    ASSUME ~Overlap
    PROVE  Spec => []PaidOncePerLoss
<1>1. BooksInv /\ SerialInv => PaidOncePerLoss
  <2> SUFFICES ASSUME BooksInv, SerialInv, NEW k \in Key PROVE paid[k] <= 1 + used["losses"]
    BY Zenon DEF PaidOncePerLoss
  <2>1. paid[k] \in Nat /\ used["losses"] \in Nat /\ Within(k)
    BY Zenon DEF BooksInv, Counters, SerialInv, Losses
  <2> QED BY <2>1 DEF Within
<1>2. Init => BooksInv /\ SerialInv
  BY BooksInit, SerialInit, Zenon
<1>3. BooksInv /\ SerialInv /\ [Next]_vars => BooksInv' /\ SerialInv'
  BY BooksStep, SerialStep, Zenon
<1> QED BY <1>1, <1>2, <1>3, PTL DEF Spec

=============================================================================
