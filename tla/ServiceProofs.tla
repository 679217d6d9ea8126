--------------------------- MODULE ServiceProofs ---------------------------
(***************************************************************************)
(* What the smaller services keep, for any numbers of rows, requests in    *)
(* flight, ledgers, lookups and drafts: the contract and settlement tables *)
(* of be2-ops, and the credentials and the holder account of xrpl-core.    *)
(***************************************************************************)
EXTENDS Integers, Sequences, FiniteSets, TLAPS

-----------------------------------------------------------------------------
(* The monthly settlements.                                                *)

CONSTANTS Feed, Patcher, Ledgers, PerMonth, MaxPatches
VARIABLES settlements, ingested, feeds, patchers, eligible, announced, patches, overlap

Months == INSTANCE Settlements

SettlementRow ==
    [status : {"none", "collecting", "accrued", "confirmed", "archived"},
     last : 0..Ledgers, count : Nat, amount : {0, 1}, confirmed : BOOLEAN]

Patch ==
    [pc : {"free", "save", "notify"}, month : Months!Month, row : SettlementRow,
     events : SUBSET {"financials_attached", "accrued", "confirmed"}]

\* The ledgers of a month that were recorded and are not waiting to be counted.
Done(m) == {l \in Months!InMonth(m) : \A f \in Feed : feeds[f] # l}

\* A row, in the table or held by a patch, counts ledgers of its month.
Counted(m, row) ==
    row.count <= Months!Cardinality(Done(m)) /\ row.last \in Months!InMonth(m) \cup {0}

FeedInv ==
    /\ ingested \subseteq 1..Ledgers
    /\ feeds \in [Feed -> 0..Ledgers]
    /\ \A f \in Feed : feeds[f] # 0 => feeds[f] \in ingested
    /\ \A f, g \in Feed : feeds[f] = feeds[g] /\ feeds[f] # 0 => f = g

TableInv ==
    /\ settlements \in [Months!Month -> SettlementRow]
    /\ \A m \in Months!Month : settlements[m].status = "none" => settlements[m] = Months!NoRow
    /\ patchers \in [Patcher -> Patch]
    /\ \A p \in Patcher : patchers[p].pc = "save" => patchers[p].row.status # "none"
    /\ overlap \subseteq Months!Month

CountInv ==
    /\ FeedInv
    /\ TableInv
    /\ \A m \in Months!Month : Counted(m, settlements[m])
    /\ \A p \in Patcher : patchers[p].pc = "save" => Counted(patchers[p].month, patchers[p].row)

\* What a patch holds follows from the row it will write over, when the
\* writes of its month have not overlapped.
Carries(p) ==
    LET was == settlements[patchers[p].month] row == patchers[p].row
    IN  /\ Months!SettlementTransitionAllowed(was.status, row.status)
        /\ row.count = was.count /\ row.last = was.last
        /\ was.confirmed => row.confirmed
        /\ "confirmed" \in patchers[p].events => row.confirmed

PatchInv(p) ==
    patchers[p].month \notin overlap =>
        /\ patchers[p].pc = "save" => Carries(p)
        /\ patchers[p].pc = "notify" /\ "confirmed" \in patchers[p].events =>
             settlements[patchers[p].month].confirmed

MonthInv ==
    /\ CountInv
    /\ \A p \in Patcher : PatchInv(p)
    /\ \A p, q \in Patcher :
         /\ patchers[p].pc = "save" /\ patchers[q].pc = "save"
         /\ patchers[p].month = patchers[q].month /\ patchers[p].month \notin overlap
         => p = q
    /\ Months!ConfirmedWasConfirmed

\* The constants: ledgers close, some of them in a month.
Dates == Ledgers \in Nat \ {0} /\ PerMonth \in Nat \ {0}

\* With how ledgers are counted: the facts hold of any finite set, and are taken from
\* the library at the end.
Calendar ==
    /\ Ledgers \in Nat \ {0} /\ PerMonth \in Nat \ {0}
    /\ Cardinality({}) = 0
    /\ \A S \in SUBSET (1..Ledgers) :
         /\ Cardinality(S) \in Nat
         /\ \A l \in 1..Ledgers : l \notin S => Cardinality(S \cup {l}) = Cardinality(S) + 1
         /\ \A T \in SUBSET S : Cardinality(T) <= Cardinality(S)

\* A ledger closes in one of the months.
LEMMA MonthOfLedger ==
    ASSUME Calendar, NEW l \in 1..Ledgers
    PROVE  Months!MonthOf(l) \in Months!Month
<1>1. (l - 1) \div PerMonth \in 0 .. ((Ledgers - 1) \div PerMonth)
  BY DEF Calendar
<1> QED BY <1>1, Zenon DEF Months!MonthOf, Months!Month

\* There is a first month.
LEMMA FirstMonth == Calendar => 0 \in Months!Month
<1> SUFFICES ASSUME Calendar PROVE 0 \in Months!Month
  BY Zenon
<1>1. 0 \in 0 .. ((Ledgers - 1) \div PerMonth)
  BY DEF Calendar
<1> QED BY <1>1, Zenon DEF Months!Month

\* The count of a finite set.
LEMMA MonthsCount == ASSUME NEW S PROVE Months!Cardinality(S) = Cardinality(S)
BY Zenon DEF Months!Cardinality, Cardinality

\* What was recorded and counted grows, and with it what a row may count.
LEMMA DoneCounted ==
    ASSUME Calendar, NEW I, I \subseteq 1..Ledgers, NEW S, S \subseteq I
    PROVE  Cardinality(S) \in Nat
BY Zenon DEF Calendar

\* A row that counts its ledgers still does when more of them are done.
LEMMA CountedStays ==
    ASSUME Calendar, FeedInv, FeedInv', NEW m \in Months!Month, NEW row \in SettlementRow,
           Counted(m, row), Done(m) \subseteq Done(m)',
           Months!InMonth(m) \subseteq Months!InMonth(m)'
    PROVE  Counted(m, row)'
<1>1. Done(m) \subseteq ingested /\ Done(m)' \subseteq ingested'
  BY Zenon DEF Done, Months!InMonth
<1>2. Cardinality(Done(m)') \in Nat /\ Cardinality(Done(m)) \in Nat
  BY <1>1, DoneCounted, Zenon DEF FeedInv
<1>3. Cardinality(Done(m)) <= Cardinality(Done(m)')
  BY <1>1, Zenon DEF FeedInv, Calendar
<1>4. row.count \in Nat
  BY Zenon DEF SettlementRow
<1>5. row.count <= Cardinality(Done(m)')
  BY <1>2, <1>3, <1>4, MonthsCount DEF Counted
<1>6. Months!Cardinality(Done(m)') = Cardinality(Done(m)')
  BY MonthsCount, Zenon
<1> QED BY <1>5, <1>6, Zenon DEF Counted

\* The row the upsert leaves.
LEMMA TouchedRow ==
    ASSUME Calendar, NEW row \in SettlementRow, NEW l \in 1..Ledgers,
           row.status = "none" => row = Months!NoRow
    PROVE  LET new == Months!Touched(row, l)
           IN  /\ new \in SettlementRow /\ new.status # "none"
               /\ new.count \in {row.count, row.count + 1} /\ new.last \in {row.last, l}
               /\ new.confirmed = row.confirmed
               /\ row.status # "none" => new.status = row.status
               /\ row.status = "archived" => new = row
<1>0. l \in 0..Ledgers
  BY DEF Calendar
<1>1. CASE row.status = "none"
  <2>1. row.count = 0 /\ row.last = 0 /\ row.confirmed = FALSE
    BY <1>1 DEF Months!NoRow
  <2>2. Months!Touched(row, l) =
          [status |-> "collecting", last |-> l, count |-> 1, amount |-> 0, confirmed |-> FALSE]
    BY <1>1, Zenon DEF Months!Touched, Months!NoRow
  <2>3. PICK new : new = [status |-> "collecting", last |-> l, count |-> 1, amount |-> 0,
                          confirmed |-> FALSE]
    BY Zenon
  <2>4. /\ new.status = "collecting" /\ new.last = l /\ new.count = 1
        /\ new.confirmed = FALSE
    BY <2>3, Zenon
  <2>5. new \in SettlementRow
    BY <1>0, <2>3, Zenon DEF SettlementRow
  <2>6. Months!Touched(row, l) = new
    BY <2>2, <2>3, Zenon
  <2>7. new.confirmed = row.confirmed
    BY <2>1, <2>4, Zenon
  <2>8. new.count = row.count + 1
    BY <2>1, <2>4
  <2> QED BY <1>1, <2>4, <2>5, <2>6, <2>7, <2>8, Zenon
<1>2. CASE row.status = "archived"
  <2>1. Months!Touched(row, l) = row
    BY <1>2, Zenon DEF Months!Touched
  <2> QED BY <1>2, <2>1, Zenon
<1>3. CASE row.status \notin {"none", "archived"}
  <2>1. Months!Touched(row, l) = [row EXCEPT !.last = l, !.count = @ + 1]
    BY <1>3, Zenon DEF Months!Touched
  <2>2. PICK new : new = [row EXCEPT !.last = l, !.count = @ + 1]
    BY Zenon
  <2>3. /\ new.count = row.count + 1 /\ new.last = l /\ new.confirmed = row.confirmed
        /\ new.status = row.status /\ new.amount = row.amount
    BY <2>2, Zenon DEF SettlementRow
  <2>4. new \in SettlementRow
    <3>1. PICK n \in Nat : n = row.count + 1
      BY DEF SettlementRow
    <3>2. new = [row EXCEPT !.last = l, !.count = n]
      BY <2>2, <3>1, Zenon
    <3> QED BY <1>0, <3>1, <3>2, Zenon DEF SettlementRow
  <2> QED BY <1>3, <2>1, <2>2, <2>3, <2>4, Zenon
<1> QED BY <1>1, <1>2, <1>3, Zenon

\* The first report of a ledger is recorded and waits to be counted.
LEMMA RecordedStep ==
    ASSUME Calendar, MonthInv, NEW f \in Feed, NEW l \in 1..Ledgers,
           Months!HandleLedgerClosed(f, l)
    PROVE  FeedInv' /\ \A m \in Months!Month : Done(m) \subseteq Done(m)' /\
             Months!InMonth(m) \subseteq Months!InMonth(m)'
<1>1. /\ FeedInv /\ feeds[f] = 0 /\ l \notin ingested /\ ingested' = ingested \cup {l}
      /\ feeds' = [feeds EXCEPT ![f] = l]
  BY Zenon DEF MonthInv, CountInv, Months!HandleLedgerClosed
<1>2. feeds'[f] = l /\ \A g \in Feed : g # f => feeds'[g] = feeds[g]
  BY <1>1, Zenon DEF FeedInv
<1>3. l # 0 /\ l \in 0..Ledgers
  BY DEF Calendar
<1>4. FeedInv'
  BY <1>1, <1>2, <1>3, Zenon DEF FeedInv
<1>5. ASSUME NEW m \in Months!Month, NEW k \in Done(m) PROVE k \in Done(m)'
  <2>1. k \in ingested /\ k # l /\ Months!MonthOf(k) = m /\ \A g \in Feed : feeds[g] # k
    BY <1>1, <1>5, Zenon DEF Done, Months!InMonth
  <2>2. \A g \in Feed : feeds'[g] # k
    BY <1>2, <2>1, Zenon
  <2> QED BY <1>1, <2>1, <2>2, Zenon DEF Done, Months!InMonth
<1>6. \A m \in Months!Month : Months!InMonth(m) \subseteq Months!InMonth(m)'
  BY <1>1, Zenon DEF Months!InMonth
<1> QED BY <1>4, <1>5, <1>6, Zenon

\* A ledger is counted, or its count is lost: it is done.
LEMMA DoneStep ==
    ASSUME Calendar, FeedInv, NEW f \in Feed, feeds[f] # 0,
           feeds' = [feeds EXCEPT ![f] = 0], UNCHANGED ingested
    PROVE  /\ FeedInv'
           /\ \A m \in Months!Month :
                Done(m) \subseteq Done(m)' /\ Months!InMonth(m)' = Months!InMonth(m)
           /\ \E l \in 1..Ledgers : /\ l = feeds[f]
                                    /\ l \in Months!InMonth(Months!MonthOf(l))
                                    /\ l \in Done(Months!MonthOf(l))' \ Done(Months!MonthOf(l))
<1>0. PICK l : l = feeds[f]
  BY Zenon
<1>1. feeds'[f] = 0 /\ \A g \in Feed : g # f => feeds'[g] = feeds[g]
  BY Zenon DEF FeedInv
<1>2. l \in 1..Ledgers /\ l \in ingested
  BY <1>0, Zenon DEF FeedInv, Calendar
<1>3. FeedInv'
  BY <1>1 DEF FeedInv, Calendar
<1>4. ASSUME NEW m \in Months!Month, NEW k \in Done(m) PROVE k \in Done(m)'
  <2>1. k \in ingested /\ Months!MonthOf(k) = m /\ (\A g \in Feed : feeds[g] # k) /\ k # 0
    BY <1>4 DEF Done, Months!InMonth, FeedInv, Calendar
  <2>2. \A g \in Feed : feeds'[g] # k
    BY <1>1, <2>1, Zenon
  <2> QED BY <2>1, <2>2, Zenon DEF Done, Months!InMonth
<1>5. \A g \in Feed : feeds'[g] # l
  BY <1>0, <1>1, Zenon DEF FeedInv
<1>6. l \in Months!InMonth(Months!MonthOf(l))
  BY <1>2, Zenon DEF Months!InMonth
<1>7. l \in Done(Months!MonthOf(l))' \ Done(Months!MonthOf(l))
  <2>1. l \in Done(Months!MonthOf(l))'
    BY <1>2, <1>5, Zenon DEF Done, Months!InMonth, Months!MonthOf
  <2>2. l \notin Done(Months!MonthOf(l))
    BY <1>0, Zenon DEF Done
  <2> QED BY <2>1, <2>2, Zenon
<1>8. \A m \in Months!Month : Months!InMonth(m)' = Months!InMonth(m)
  BY Zenon DEF Months!InMonth
<1> QED BY <1>0, <1>2, <1>3, <1>4, <1>6, <1>7, <1>8, Zenon

\* The ledgers recorded and the ledgers done only grow.
Grows ==
    \A m \in Months!Month :
        Done(m) \subseteq Done(m)' /\ Months!InMonth(m) \subseteq Months!InMonth(m)'

\* Rows that are not written still count their ledgers.
LEMMA CountsStay ==
    ASSUME Calendar, CountInv, FeedInv', Grows
    PROVE  /\ \A m \in Months!Month :
                settlements'[m] = settlements[m] => Counted(m, settlements[m])'
           /\ \A p \in Patcher : patchers'[p] = patchers[p] /\ patchers[p].pc = "save" =>
                Counted(patchers[p].month, patchers[p].row)'
           /\ \A p \in Patcher : patchers[p].pc = "save" =>
                \A m \in Months!Month : m = patchers[p].month /\ settlements'[m] = patchers[p].row =>
                    Counted(m, settlements[m])'
<1>1. ASSUME NEW m \in Months!Month, settlements'[m] = settlements[m]
      PROVE  Counted(m, settlements[m])'
  <2>1. PICK row \in SettlementRow : row = settlements[m]
    BY Zenon DEF CountInv, TableInv
  <2>2. Counted(m, row)'
    BY <2>1, CountedStays, Zenon DEF CountInv, Grows
  <2> QED BY <1>1, <2>1, <2>2, Zenon DEF Counted
<1>2. ASSUME NEW p \in Patcher, patchers[p].pc = "save"
      PROVE  \E m \in Months!Month, row \in SettlementRow :
               m = patchers[p].month /\ row = patchers[p].row /\ Counted(m, row)'
  <2>1. patchers[p] \in Patch
    BY Zenon DEF CountInv, TableInv
  <2>2. PICK m \in Months!Month, row \in SettlementRow : m = patchers[p].month /\ row = patchers[p].row
    BY <2>1, Zenon DEF Patch
  <2>3. Counted(m, row)
    BY <1>2, <2>2, Zenon DEF CountInv
  <2> QED BY <2>2, <2>3, CountedStays, Zenon DEF CountInv, Grows
<1>3. ASSUME NEW p \in Patcher, patchers'[p] = patchers[p], patchers[p].pc = "save"
      PROVE  Counted(patchers[p].month, patchers[p].row)'
  <2>1. PICK m \in Months!Month, row \in SettlementRow :
          m = patchers[p].month /\ row = patchers[p].row /\ Counted(m, row)'
    BY <1>2, <1>3, Zenon
  <2> QED BY <1>3, <2>1, Zenon
<1>4. ASSUME NEW p \in Patcher, patchers[p].pc = "save", NEW n \in Months!Month,
             n = patchers[p].month, settlements'[n] = patchers[p].row
      PROVE  Counted(n, settlements[n])'
  <2>1. PICK m \in Months!Month, row \in SettlementRow :
          m = patchers[p].month /\ row = patchers[p].row /\ Counted(m, row)'
    BY <1>2, <1>4, Zenon
  <2> QED BY <1>4, <2>1, Zenon DEF Counted
<1> QED BY <1>1, <1>3, <1>4, Zenon

\* What a patch holds stays in order while its month is not written, or is
\* only counted on after the patch's save.
LEMMA PatchStays ==
    ASSUME MonthInv, overlap \subseteq overlap', NEW p \in Patcher, patchers'[p] = patchers[p],
           NEW m, m = patchers[p].month,
           m \notin overlap' =>
             \/ settlements'[m] = settlements[m]
             \/ patchers[p].pc # "save" /\ (settlements[m].confirmed => settlements'[m].confirmed)
    PROVE  PatchInv(p)'
<1>1. PatchInv(p) /\ patchers'[p].month = m
  BY Zenon DEF MonthInv
<1>2. CASE m \in overlap'
  BY <1>1, <1>2, Zenon DEF PatchInv
<1>3. CASE m \notin overlap' /\ settlements'[m] = settlements[m]
  BY <1>1, <1>3, Zenon DEF PatchInv, Carries
<1>4. CASE /\ m \notin overlap' /\ patchers[p].pc # "save"
           /\ settlements[m].confirmed => settlements'[m].confirmed
  BY <1>1, <1>4, Zenon DEF PatchInv
<1> QED BY <1>2, <1>3, <1>4, Zenon

\* A table that is not written moves no row.
LEMMA QuietMoves == CountInv /\ UNCHANGED settlements => Months!RowMoves
<1> SUFFICES ASSUME CountInv, UNCHANGED settlements, NEW m \in Months!Month PROVE
      /\ settlements[m].count \in Nat
      /\ Months!SettlementTransitionAllowed(settlements[m].status, settlements'[m].status)
  BY DEF Months!RowMoves
<1>1. settlements[m] \in SettlementRow
  BY Zenon DEF CountInv, TableInv
<1> QED BY <1>1, Zenon DEF SettlementRow, Months!SettlementTransitionAllowed

\* A report is recorded, a count is lost, or the contract ends.
LEMMA StreamStep ==
    ASSUME Calendar, MonthInv,
           \/ \E f \in Feed, l \in 1..Ledgers : Months!HandleLedgerClosed(f, l)
           \/ \E f \in Feed : Months!CountLost(f)
           \/ Months!ContractEnds
    PROVE  MonthInv' /\ Months!RowMoves
<1>1. UNCHANGED <<settlements, patchers, announced, overlap>>
  BY Zenon DEF Months!HandleLedgerClosed, Months!CountLost, Months!ContractEnds
<1>2. FeedInv' /\ Grows
  <2>1. CASE \E f \in Feed, l \in 1..Ledgers : Months!HandleLedgerClosed(f, l)
    BY <2>1, RecordedStep, Zenon DEF Grows
  <2>2. ASSUME NEW f \in Feed, Months!CountLost(f) PROVE FeedInv' /\ Grows
    <3>1. FeedInv /\ feeds[f] # 0 /\ feeds' = [feeds EXCEPT ![f] = 0] /\ UNCHANGED ingested
      BY <2>2, Zenon DEF Months!CountLost, MonthInv, CountInv
    <3> QED BY <3>1, DoneStep, Zenon DEF Grows
  <2>3. CASE Months!ContractEnds
    BY <2>3, Zenon DEF Months!ContractEnds, MonthInv, CountInv, FeedInv, Grows, Done, Months!InMonth
  <2> QED BY <2>1, <2>2, <2>3, Zenon
<1>3. CountInv'
  BY <1>1, <1>2, CountsStay, Zenon DEF MonthInv, CountInv, TableInv
<1>4. ASSUME NEW p \in Patcher PROVE PatchInv(p)'
  <2>1. PICK m : m = patchers[p].month
    BY Zenon
  <2> QED BY <1>1, <2>1, PatchStays, Zenon
<1>5. Months!ConfirmedWasConfirmed'
  BY <1>1, Zenon DEF MonthInv, Months!ConfirmedWasConfirmed
<1> QED BY <1>1, <1>3, <1>4, <1>5, QuietMoves, Zenon DEF MonthInv

\* A recorded ledger is counted in the row of its month.
LEMMA TouchStep ==
    ASSUME Calendar, MonthInv, NEW f \in Feed, Months!TouchSettlementsOnLedgerClose(f)
    PROVE  MonthInv' /\ Months!RowMoves
<1>1. PICK l : l = feeds[f]
  BY Zenon
<1>2. PICK m : m = Months!MonthOf(l)
  BY Zenon
<1>3. /\ CountInv /\ FeedInv /\ TableInv /\ l # 0 /\ feeds' = [feeds EXCEPT ![f] = 0]
      /\ UNCHANGED <<ingested, patchers, announced>>
      /\ settlements' = IF eligible THEN [settlements EXCEPT ![m] = Months!Touched(@, l)]
                        ELSE settlements
      /\ overlap' = IF \E p \in Patcher : Months!HeldBy(m, p) THEN overlap \cup {m} ELSE overlap
  BY <1>1, <1>2, Zenon DEF MonthInv, CountInv, Months!TouchSettlementsOnLedgerClose
<1>4. /\ FeedInv' /\ l \in 1..Ledgers
      /\ \A n \in Months!Month : Done(n) \subseteq Done(n)' /\ Months!InMonth(n)' = Months!InMonth(n)
      /\ l \in Months!InMonth(m) /\ l \in Done(m)' \ Done(m)
  <2>1. feeds[f] # 0 /\ UNCHANGED ingested
    BY <1>1, <1>3, Zenon
  <2>2. PICK k \in 1..Ledgers :
          k = feeds[f] /\ k \in Months!InMonth(Months!MonthOf(k))
          /\ k \in Done(Months!MonthOf(k))' \ Done(Months!MonthOf(k))
    BY <1>3, <2>1, DoneStep, Zenon
  <2>3. k = l /\ Months!MonthOf(k) = m
    BY <1>1, <1>2, <2>2, Zenon
  <2>4. l \in 1..Ledgers /\ l \in Months!InMonth(m) /\ l \in Done(m)' \ Done(m)
    BY <2>2, <2>3, Zenon
  <2> QED BY <1>3, <2>1, <2>4, DoneStep, Zenon
<1>5. m \in Months!Month /\ Grows
  BY <1>2, <1>4, MonthOfLedger, Zenon DEF Grows
<1>6. settlements[m] \in SettlementRow /\ (settlements[m].status = "none" => settlements[m] = Months!NoRow)
  BY <1>3, <1>5, Zenon DEF TableInv
<1>7. PICK new : new = IF eligible THEN Months!Touched(settlements[m], l) ELSE settlements[m]
  BY Zenon
<1>8. /\ new \in SettlementRow /\ (new.status = "none" => new = Months!NoRow)
      /\ new.count \in {settlements[m].count, settlements[m].count + 1}
      /\ new.last \in {settlements[m].last, l} /\ new.confirmed = settlements[m].confirmed
      /\ settlements[m].status # "none" => new.status = settlements[m].status
      /\ settlements[m].status = "archived" => new = settlements[m]
  <2>1. CASE eligible
    BY <1>4, <1>6, <1>7, <2>1, TouchedRow, Zenon
  <2>2. CASE ~eligible
    BY <1>6, <1>7, <2>2, Zenon
  <2> QED BY <2>1, <2>2, Zenon
<1>9. settlements'[m] = new /\ \A n \in Months!Month : n # m => settlements'[n] = settlements[n]
  BY <1>3, <1>5, <1>7, Zenon DEF TableInv
<1>10. settlements' \in [Months!Month -> SettlementRow]
  <2>1. CASE eligible
    BY <1>3, <1>5, <1>7, <1>8, <2>1, Zenon DEF TableInv
  <2>2. CASE ~eligible
    BY <1>3, <2>2, Zenon DEF TableInv
  <2> QED BY <2>1, <2>2, Zenon
<1>11. TableInv'
  BY <1>3, <1>5, <1>8, <1>9, <1>10, Zenon DEF TableInv
<1>12. Counted(m, settlements[m])'
  <2>1. /\ Cardinality(Done(m)) \in Nat /\ Cardinality(Done(m)') \in Nat
        /\ Done(m) \subseteq 1..Ledgers /\ Done(m)' \subseteq 1..Ledgers
    <3>1. /\ Done(m) \subseteq ingested /\ Done(m)' \subseteq ingested'
          /\ ingested \subseteq 1..Ledgers /\ ingested' \subseteq 1..Ledgers
      BY <1>3, <1>4, Zenon DEF Done, Months!InMonth, FeedInv
    <3> QED BY <3>1, DoneCounted, Zenon
  <2>2. Cardinality(Done(m) \cup {l}) = Cardinality(Done(m)) + 1
    BY <1>4, <2>1, Zenon DEF Calendar
  <2>3. Done(m) \cup {l} \subseteq Done(m)'
    BY <1>4, <1>5, Zenon
  <2>4. Cardinality(Done(m)) + 1 <= Cardinality(Done(m)')
    <3>1. Cardinality(Done(m) \cup {l}) <= Cardinality(Done(m)')
      BY <2>1, <2>3, Zenon DEF Calendar
    <3> QED BY <2>1, <2>2, <3>1, Zenon
  <2>5. settlements[m].count <= Cardinality(Done(m)) /\ settlements[m].last \in Months!InMonth(m) \cup {0}
    BY <1>3, <1>5, MonthsCount, Zenon DEF CountInv, Counted
  <2>6. settlements[m].count \in Nat
    BY <1>6, Zenon DEF SettlementRow
  <2>7. new.count <= Cardinality(Done(m)') /\ new.last \in Months!InMonth(m)' \cup {0}
    BY <1>4, <1>5, <1>8, <2>1, <2>4, <2>5, <2>6
  <2>8. Months!Cardinality(Done(m)') = Cardinality(Done(m)')
    BY MonthsCount, Zenon
  <2> QED BY <1>9, <2>7, <2>8, Zenon DEF Counted
<1>13. CountInv'
  BY <1>3, <1>4, <1>5, <1>9, <1>11, <1>12, CountsStay, Zenon DEF CountInv
<1>14. overlap \subseteq overlap'
  BY <1>3, Zenon
<1>15. ASSUME NEW p \in Patcher PROVE PatchInv(p)'
  <2>1. PICK n : n = patchers[p].month
    BY Zenon
  <2>2. n \in Months!Month
    BY <1>3, <2>1, Zenon DEF TableInv, Patch
  <2>3. n = m /\ patchers[p].pc = "save" => n \in overlap'
    BY <1>3, <2>1, Zenon DEF Months!HeldBy
  <2> QED BY <1>3, <1>8, <1>9, <1>14, <2>1, <2>2, <2>3, PatchStays, Zenon
<1>16. \A p, q \in Patcher :
         /\ patchers'[p].pc = "save" /\ patchers'[q].pc = "save"
         /\ patchers'[p].month = patchers'[q].month /\ patchers'[p].month \notin overlap'
         => p = q
  BY <1>3, <1>14, Zenon DEF MonthInv
<1>17. Months!ConfirmedWasConfirmed'
  <2>1. \A n \in Months!Month : settlements[n].confirmed => settlements'[n].confirmed
    BY <1>8, <1>9, Zenon
  <2> QED BY <1>3, <1>14, <2>1, Zenon DEF MonthInv, Months!ConfirmedWasConfirmed
<1>18. Months!RowMoves
  <2>1. ASSUME NEW n \in Months!Month
        PROVE  /\ settlements[n].status # "none" => settlements'[n].status = settlements[n].status
               /\ settlements[n].status = "archived" => settlements'[n] = settlements[n]
               /\ settlements'[n].count >= settlements[n].count
    <3>1. settlements[n].count \in Nat
      BY <1>3, Zenon DEF TableInv, SettlementRow
    <3> QED BY <1>8, <1>9, <3>1
  <2> QED BY <2>1, Zenon DEF Months!RowMoves, Months!SettlementTransitionAllowed
<1> QED BY <1>13, <1>15, <1>16, <1>17, <1>18, Zenon DEF MonthInv

\* A patch reads its row.
LEMMA PatchReadStep ==
    ASSUME Calendar, MonthInv, NEW p \in Patcher, NEW m \in Months!Month, NEW amount \in {0, 1},
           NEW to \in {"collecting", "accrued", "confirmed", "archived"},
           Months!PatchRead(p, m, to, amount)
    PROVE  MonthInv' /\ Months!RowMoves
<1>1. PICK was \in SettlementRow : was = settlements[m]
  BY Zenon DEF MonthInv, CountInv, TableInv
<1>2. PICK row : row = [was EXCEPT !.status = to, !.amount = amount,
                                   !.confirmed = @ \/ to = "confirmed"]
  BY Zenon
<1>3. PICK events : events = Months!Events(was, to, amount)
  BY Zenon
<1>4. PICK r : r = [pc |-> "save", month |-> m, row |-> row, events |-> events]
  BY Zenon
<1>5. /\ CountInv /\ FeedInv /\ TableInv /\ patchers[p].pc = "free"
      /\ Months!SettlementTransitionAllowed(was.status, to)
      /\ patchers' = [patchers EXCEPT ![p] = r]
      /\ overlap' = IF \E q \in Patcher : Months!HeldBy(m, q) THEN overlap \cup {m} ELSE overlap
      /\ UNCHANGED <<settlements, ingested, feeds, announced>>
  BY <1>1, <1>2, <1>3, <1>4, Zenon DEF MonthInv, CountInv, Months!PatchRead
<1>6. /\ row \in SettlementRow /\ row.status = to /\ row.count = was.count /\ row.last = was.last
      /\ was.confirmed => row.confirmed
      /\ to = "confirmed" => row.confirmed
  <2>1. PICK b \in BOOLEAN : b = (was.confirmed \/ to = "confirmed")
    BY Zenon
  <2>2. row = [was EXCEPT !.status = to, !.amount = amount, !.confirmed = b]
    BY <1>2, <2>1, Zenon
  <2>3. /\ row \in SettlementRow /\ row.status = to /\ row.count = was.count
        /\ row.last = was.last /\ row.confirmed = b
    BY <2>1, <2>2, Zenon DEF SettlementRow
  <2> QED BY <2>1, <2>3, Zenon
<1>7. /\ events \subseteq {"financials_attached", "accrued", "confirmed"}
      /\ "confirmed" \in events => to = "confirmed"
  BY <1>3, Zenon DEF Months!Events
<1>8. r \in Patch /\ r.pc = "save" /\ r.month = m /\ r.row = row /\ r.events = events
  BY <1>4, <1>6, <1>7, Zenon DEF Patch
<1>9. /\ patchers'[p] = r /\ \A q \in Patcher : q # p => patchers'[q] = patchers[q]
      /\ patchers' \in [Patcher -> Patch]
  BY <1>5, <1>8, Zenon DEF TableInv
<1>10. TableInv'
  BY <1>5, <1>6, <1>8, <1>9, Zenon DEF TableInv
<1>11. FeedInv' /\ Grows
  BY <1>5, Zenon DEF FeedInv, Grows, Done, Months!InMonth
<1>12. Counted(m, row)'
  <2>1. Counted(m, row)
    BY <1>1, <1>5, <1>6, Zenon DEF CountInv, Counted
  <2> QED BY <1>5, <1>6, <1>11, <2>1, CountedStays, Zenon DEF Grows
<1>13. CountInv'
  <2>1. ASSUME NEW q \in Patcher, patchers'[q].pc = "save"
        PROVE  Counted(patchers[q].month, patchers[q].row)'
    <3>1. CASE q = p
      BY <1>8, <1>9, <1>12, <3>1, Zenon DEF Counted
    <3>2. CASE q # p
      BY <1>5, <1>9, <1>11, <2>1, <3>2, CountsStay, Zenon
    <3> QED BY <3>1, <3>2, Zenon
  <2>2. \A n \in Months!Month : Counted(n, settlements[n])'
    BY <1>5, <1>11, CountsStay, Zenon
  <2> QED BY <1>10, <1>11, <2>1, <2>2, Zenon DEF CountInv
<1>14. overlap \subseteq overlap'
  BY <1>5, Zenon
<1>15. PatchInv(p)'
  BY <1>1, <1>5, <1>6, <1>7, <1>8, <1>9, Zenon DEF PatchInv, Carries
<1>16. ASSUME NEW q \in Patcher, q # p PROVE PatchInv(q)'
  <2>1. PICK n : n = patchers[q].month
    BY Zenon
  <2> QED BY <1>5, <1>9, <1>14, <1>16, <2>1, PatchStays, Zenon
<1>17. ASSUME NEW q \in Patcher, q # p, patchers'[q].pc = "save", patchers'[q].month = m
       PROVE  m \in overlap'
  BY <1>5, <1>9, <1>17, Zenon DEF Months!HeldBy
<1>18. \A q, k \in Patcher :
         /\ patchers'[q].pc = "save" /\ patchers'[k].pc = "save"
         /\ patchers'[q].month = patchers'[k].month /\ patchers'[q].month \notin overlap'
         => q = k
  <2> SUFFICES ASSUME NEW q \in Patcher, NEW k \in Patcher, q # k,
                      patchers'[q].pc = "save", patchers'[k].pc = "save",
                      patchers'[q].month = patchers'[k].month, patchers'[q].month \notin overlap'
               PROVE  FALSE
    BY Zenon
  <2>1. q # p /\ k # p
    BY <1>8, <1>9, <1>17, Zenon
  <2> QED BY <1>9, <1>14, <2>1, Zenon DEF MonthInv
<1>19. Months!ConfirmedWasConfirmed'
  BY <1>5, <1>14, Zenon DEF MonthInv, Months!ConfirmedWasConfirmed
<1> QED BY <1>5, <1>13, <1>15, <1>16, <1>18, <1>19, QuietMoves, Zenon DEF MonthInv

\* A patch writes its row over the month's.
LEMMA SaveSettlementStep ==
    ASSUME Calendar, MonthInv, NEW p \in Patcher, Months!SaveSettlement(p)
    PROVE  MonthInv' /\ Months!RowMoves
<1>1. patchers[p] \in Patch
  BY Zenon DEF MonthInv, CountInv, TableInv
<1>2. PICK m \in Months!Month, row \in SettlementRow : m = patchers[p].month /\ row = patchers[p].row
  BY <1>1, Zenon DEF Patch
<1>3. PICK r : r = [patchers[p] EXCEPT !.pc = "notify"]
  BY Zenon
<1>4. /\ CountInv /\ FeedInv /\ TableInv /\ patchers[p].pc = "save"
      /\ settlements' = [settlements EXCEPT ![m] = row]
      /\ patchers' = [patchers EXCEPT ![p] = r]
      /\ UNCHANGED <<ingested, feeds, announced, overlap>>
  BY <1>2, <1>3, Zenon DEF MonthInv, CountInv, TableInv, Months!SaveSettlement
<1>5. r \in Patch /\ r.pc = "notify" /\ r.month = m /\ r.events = patchers[p].events
  BY <1>1, <1>2, <1>3, Zenon DEF Patch
<1>6. /\ patchers'[p] = r /\ \A q \in Patcher : q # p => patchers'[q] = patchers[q]
      /\ patchers' \in [Patcher -> Patch]
  BY <1>4, <1>5, Zenon DEF TableInv
<1>7. /\ settlements'[m] = row /\ \A n \in Months!Month : n # m => settlements'[n] = settlements[n]
      /\ settlements' \in [Months!Month -> SettlementRow] /\ row.status # "none"
  BY <1>2, <1>4, Zenon DEF TableInv
<1>8. TableInv'
  BY <1>4, <1>5, <1>6, <1>7, Zenon DEF TableInv
<1>9. FeedInv' /\ Grows
  BY <1>4, Zenon DEF FeedInv, Grows, Done, Months!InMonth
<1>10. CountInv'
  <2>1. \A q \in Patcher : patchers'[q].pc = "save" => Counted(patchers[q].month, patchers[q].row)'
    BY <1>4, <1>5, <1>6, <1>9, CountsStay, Zenon
  <2>2. \A n \in Months!Month : Counted(n, settlements[n])'
    BY <1>2, <1>4, <1>7, <1>9, CountsStay, Zenon
  <2> QED BY <1>8, <1>9, <2>1, <2>2, Zenon DEF CountInv
<1>11. m \notin overlap =>
         /\ Months!SettlementTransitionAllowed(settlements[m].status, row.status)
         /\ row.count = settlements[m].count /\ row.last = settlements[m].last
         /\ settlements[m].confirmed => row.confirmed
         /\ "confirmed" \in patchers[p].events => row.confirmed
  BY <1>2, <1>4, Zenon DEF MonthInv, PatchInv, Carries
<1>12. PatchInv(p)'
  BY <1>4, <1>5, <1>6, <1>7, <1>11, Zenon DEF PatchInv
<1>13. ASSUME NEW q \in Patcher, q # p PROVE PatchInv(q)'
  <2>1. PICK n : n = patchers[q].month
    BY Zenon
  <2>2. n \in Months!Month
    BY <1>4, <2>1, Zenon DEF TableInv, Patch
  <2>3. n = m /\ n \notin overlap => patchers[q].pc # "save"
    BY <1>2, <1>4, <1>13, <2>1, Zenon DEF MonthInv
  <2> QED BY <1>4, <1>6, <1>7, <1>11, <1>13, <2>1, <2>2, <2>3, PatchStays, Zenon
<1>14. \A q, k \in Patcher :
         /\ patchers'[q].pc = "save" /\ patchers'[k].pc = "save"
         /\ patchers'[q].month = patchers'[k].month /\ patchers'[q].month \notin overlap'
         => q = k
  BY <1>4, <1>5, <1>6 DEF MonthInv
<1>15. Months!ConfirmedWasConfirmed'
  BY <1>4, <1>7, <1>11, Zenon DEF MonthInv, Months!ConfirmedWasConfirmed
<1>16. Months!RowMoves
  <2>1. ASSUME NEW n \in Months!Month, n \notin overlap'
        PROVE  /\ settlements[n].status # "none" =>
                    Months!SettlementTransitionAllowed(settlements[n].status, settlements'[n].status)
               /\ settlements'[n].count = settlements[n].count
               /\ settlements'[n].last = settlements[n].last
               /\ settlements[n].count \in Nat
    <3>1. settlements[n].count \in Nat
      BY <1>4, Zenon DEF TableInv, SettlementRow
    <3>2. CASE n = m
      BY <1>4, <1>7, <1>11, <2>1, <3>1, <3>2, Zenon
    <3>3. CASE n # m
      BY <1>7, <3>1, <3>3, Zenon DEF Months!SettlementTransitionAllowed
    <3> QED BY <3>2, <3>3, Zenon
  <2> QED BY <2>1 DEF Months!RowMoves
<1> QED BY <1>10, <1>12, <1>13, <1>14, <1>15, <1>16, Zenon DEF MonthInv

\* A patch that is over.
LEMMA AwayPatch ==
    Calendar => Months!Away \in Patch /\ Months!Away.pc = "free" /\ Months!NoRow \in SettlementRow
<1> SUFFICES ASSUME Calendar PROVE
      Months!Away \in Patch /\ Months!Away.pc = "free" /\ Months!NoRow \in SettlementRow
  BY Zenon
<1>1. 0 \in 0..Ledgers
  BY DEF Calendar
<1>2. Months!NoRow \in SettlementRow
  BY <1>1, Zenon DEF Months!NoRow, SettlementRow
<1>3. Months!Away = [pc |-> "free", month |-> 0, row |-> Months!NoRow, events |-> {}]
  BY Zenon DEF Months!Away
<1> QED BY <1>2, <1>3, FirstMonth, Zenon DEF Patch

\* A patch notifies, or dies.
LEMMA PatchEnds ==
    ASSUME Calendar, MonthInv, NEW p \in Patcher, Months!Notify(p) \/ Months!PatchDies(p)
    PROVE  MonthInv' /\ Months!RowMoves
<1>1. /\ CountInv /\ FeedInv /\ TableInv /\ patchers' = [patchers EXCEPT ![p] = Months!Away]
      /\ UNCHANGED <<settlements, ingested, feeds, overlap>>
  <2>1. CountInv /\ FeedInv /\ TableInv
    BY Zenon DEF MonthInv, CountInv
  <2>2. CASE Months!Notify(p)
    BY <2>1, <2>2, Zenon DEF Months!Notify
  <2>3. CASE Months!PatchDies(p)
    BY <2>1, <2>3, Zenon DEF Months!PatchDies
  <2> QED BY <2>2, <2>3, Zenon
<1>2. /\ patchers'[p].pc = "free" /\ \A q \in Patcher : q # p => patchers'[q] = patchers[q]
      /\ patchers' \in [Patcher -> Patch]
  BY <1>1, AwayPatch, Zenon DEF TableInv
<1>3. TableInv'
  BY <1>1, <1>2, Zenon DEF TableInv
<1>4. FeedInv' /\ Grows
  BY <1>1, Zenon DEF FeedInv, Grows, Done, Months!InMonth
<1>5. CountInv'
  <2>1. \A q \in Patcher : patchers'[q].pc = "save" => Counted(patchers[q].month, patchers[q].row)'
    BY <1>1, <1>2, <1>4, CountsStay, Zenon
  <2>2. \A n \in Months!Month : Counted(n, settlements[n])'
    BY <1>1, <1>4, CountsStay, Zenon
  <2> QED BY <1>3, <1>4, <2>1, <2>2, Zenon DEF CountInv
<1>6. PatchInv(p)'
  BY <1>2, Zenon DEF PatchInv
<1>7. ASSUME NEW q \in Patcher, q # p PROVE PatchInv(q)'
  <2>1. PICK n : n = patchers[q].month
    BY Zenon
  <2> QED BY <1>1, <1>2, <1>7, <2>1, PatchStays, Zenon
<1>8. \A q, k \in Patcher :
         /\ patchers'[q].pc = "save" /\ patchers'[k].pc = "save"
         /\ patchers'[q].month = patchers'[k].month /\ patchers'[q].month \notin overlap'
         => q = k
  BY <1>1, <1>2 DEF MonthInv
<1>9. Months!ConfirmedWasConfirmed'
  <2> SUFFICES ASSUME NEW m \in Months!Month, m \notin overlap, <<"confirmed", m>> \in announced'
               PROVE  settlements[m].confirmed
    BY <1>1, Zenon DEF Months!ConfirmedWasConfirmed
  <2>1. CASE <<"confirmed", m>> \in announced
    BY <2>1, Zenon DEF MonthInv, Months!ConfirmedWasConfirmed
  <2>2. CASE <<"confirmed", m>> \notin announced
    <3>1. Months!Notify(p)
      BY <2>2, Zenon DEF Months!PatchDies
    <3>2. /\ patchers[p].pc = "notify"
          /\ announced' = announced \cup {<<e, patchers[p].month>> : e \in patchers[p].events}
      BY <3>1, Zenon DEF Months!Notify
    <3>3. patchers[p].month = m /\ "confirmed" \in patchers[p].events
      BY <2>2, <3>2, Zenon
    <3> QED BY <3>2, <3>3, Zenon DEF MonthInv, PatchInv
  <2> QED BY <2>1, <2>2, Zenon
<1> QED BY <1>1, <1>5, <1>6, <1>7, <1>8, <1>9, QuietMoves, Zenon DEF MonthInv

\* The first state.
LEMMA MonthInit == Calendar /\ Months!Init => MonthInv
<1> SUFFICES ASSUME Calendar, Months!Init PROVE MonthInv
  BY Zenon
<1>1. /\ \A m \in Months!Month : settlements[m] = Months!NoRow
      /\ \A p \in Patcher : patchers[p] = Months!Away /\ patchers[p].pc = "free"
      /\ \A f \in Feed : feeds[f] = 0
      /\ ingested = {} /\ announced = {} /\ overlap = {}
  BY AwayPatch, Zenon DEF Months!Init
<1>2. FeedInv
  BY <1>1 DEF Months!Init, FeedInv, Calendar
<1>3. TableInv
  BY <1>1, AwayPatch, Zenon DEF Months!Init, TableInv
<1>4. ASSUME NEW m \in Months!Month PROVE Counted(m, settlements[m])
  <2>1. Done(m) = {}
    BY <1>1, Zenon DEF Done, Months!InMonth
  <2>2. Months!Cardinality(Done(m)) = 0
    BY <2>1, MonthsCount, Zenon DEF Calendar
  <2>3. settlements[m].count = 0 /\ settlements[m].last = 0
    BY <1>1 DEF Months!NoRow
  <2> QED BY <2>2, <2>3 DEF Counted
<1> QED BY <1>1, <1>2, <1>3, <1>4, Zenon DEF MonthInv, CountInv, PatchInv, Months!ConfirmedWasConfirmed

\* Every step keeps the books, and moves rows as the table allows.
LEMMA MonthStep ==
    ASSUME Calendar, MonthInv, [Months!Next]_Months!vars
    PROVE  MonthInv' /\ Months!RowMoves
<1>1. CASE UNCHANGED Months!vars
  <2>1. UNCHANGED <<settlements, ingested, feeds, patchers, announced, overlap>>
    BY <1>1, Zenon DEF Months!vars
  <2>2. FeedInv' /\ TableInv' /\ Grows
    BY <2>1, Zenon DEF MonthInv, CountInv, FeedInv, TableInv, Grows, Done, Months!InMonth
  <2>3. CountInv'
    BY <2>1, <2>2, CountsStay, Zenon DEF MonthInv, CountInv
  <2>4. \A p \in Patcher : PatchInv(p)'
    BY <2>1, Zenon DEF MonthInv, PatchInv, Carries
  <2>5. Months!ConfirmedWasConfirmed'
    BY <2>1, Zenon DEF MonthInv, Months!ConfirmedWasConfirmed
  <2> QED BY <2>1, <2>3, <2>4, <2>5, QuietMoves, Zenon DEF MonthInv
<1>2. CASE Months!Next
  BY <1>2, StreamStep, TouchStep, PatchReadStep, SaveSettlementStep, PatchEnds, Zenon DEF Months!Next
<1> QED BY <1>1, <1>2, Zenon

\* The invariant gives the books.
LEMMA MonthsAddUp == Calendar /\ MonthInv => Months!SettlementsAddUp
<1> SUFFICES ASSUME Calendar, MonthInv PROVE Months!SettlementsAddUp
  BY Zenon
<1>1. Months!TypeOK
  BY Zenon DEF MonthInv, CountInv, FeedInv, TableInv, SettlementRow, Patch, Months!TypeOK
<1>2. ASSUME NEW m \in Months!Month
      PROVE  settlements[m].count <= Months!Cardinality(Months!InMonth(m))
  <2>1. Done(m) \subseteq Months!InMonth(m) /\ Months!InMonth(m) \subseteq ingested
    BY Zenon DEF Done, Months!InMonth
  <2>2. /\ Cardinality(Months!InMonth(m)) \in Nat
        /\ Cardinality(Done(m)) \in Nat
    BY <2>1, DoneCounted, Zenon DEF MonthInv, CountInv, FeedInv
  <2>3. Cardinality(Done(m)) <= Cardinality(Months!InMonth(m))
    BY <2>1, Zenon DEF Calendar, MonthInv, CountInv, FeedInv
  <2>4. settlements[m].count <= Cardinality(Done(m)) /\ settlements[m].count \in Nat
    BY MonthsCount, Zenon DEF MonthInv, CountInv, Counted, TableInv, SettlementRow
  <2>5. settlements[m].count <= Cardinality(Months!InMonth(m))
    BY <2>2, <2>3, <2>4
  <2> QED BY <2>5, MonthsCount, Zenon
<1>3. Months!CountedOnce
  BY <1>2, Zenon DEF MonthInv, CountInv, Counted, Months!CountedOnce
<1> QED BY <1>1, <1>3, Zenon DEF MonthInv, Months!SettlementsAddUp

-----------------------------------------------------------------------------
(* The contracts.                                                          *)

CONSTANTS Contract, TxHash, NoTx, Handler, XrplEnabled, Overlap, MaxRequests
VARIABLES contracts, handlers, ledger, requests, trail

Contracts == INSTANCE ContractLifecycle

-----------------------------------------------------------------------------
(* The contract routes: what a request holds is of its type.               *)

Request ==
    [pc : {"free", "look", "save", "announce"}, id : Contract \cup {NoTx},
     row : Contracts!Row, tx : TxHash \cup {NoTx}]

Sound(r) ==
    /\ r.pc # "free" => r.id \in Contract
    /\ r.pc = "announce" => r.row.status \in {"closed", "cancelled"}

Note == [announced : SUBSET Contracts!Status, byHand : BOOLEAN]

ContractTypes ==
    /\ contracts \in [Contract -> Contracts!Row]
    /\ handlers \in [Handler -> Request]
    /\ \A h \in Handler : Sound(handlers[h])
    /\ ledger \in [TxHash -> {"unseen", "escrow", "other"}]
    /\ requests \in Nat
    /\ trail \in [Contract -> Note]

\* A request that is not in flight.
LEMMA FreeIsFree ==
    Contracts!Free \in Request /\ Contracts!Free.pc = "free" /\ Sound(Contracts!Free)
BY Zenon DEF Sound, Contracts!Free, Contracts!Absent, Request, Contracts!Row

\* The rows a request makes out of the row it read.
LEMMA RowsMade ==
    ASSUME NEW row \in Contracts!Row, NEW t \in TxHash, NEW to \in Contracts!Status
    PROVE  /\ [row EXCEPT !.status = to] \in Contracts!Row
           /\ Contracts!Anchored(row, t) \in Contracts!Row
           /\ [row EXCEPT !.status = to].status = to
           /\ [row EXCEPT !.status = to].hash = row.hash
           /\ Contracts!Anchored(row, t).hash = t
           /\ Contracts!Anchored(row, t).status =
                IF row.status = "draft" THEN "escrow_pending" ELSE row.status
<1>1. "escrow_pending" \in Contracts!Status
  BY Zenon DEF Contracts!Status
<1>2. row.status \in Contracts!Status \cup {"none"} /\ row.hash \in TxHash \cup {NoTx}
  BY Zenon DEF Contracts!Row
<1>3. [row EXCEPT !.status = to] = [status |-> to, hash |-> row.hash]
  BY DEF Contracts!Row
<1> QED BY <1>1, <1>2, <1>3, Zenon DEF Contracts!Row, Contracts!Anchored

\* One request moves, to a request of the type.
LEMMA OneMoves ==
    ASSUME ContractTypes, NEW h \in Handler, NEW r \in Request, Sound(r),
           handlers' = [handlers EXCEPT ![h] = r]
    PROVE  /\ handlers' \in [Handler -> Request]
           /\ handlers'[h] = r
           /\ \A g \in Handler : g # h => handlers'[g] = handlers[g]
           /\ \A g \in Handler : Sound(handlers'[g])
BY Zenon DEF ContractTypes

\* A status patch is taken up: the request holds the row with the new status.
LEMMA PatchTaken ==
    ASSUME ContractTypes, NEW h \in Handler, NEW c \in Contract, NEW to \in Contracts!Status,
           Contracts!PatchStatus(h, c, to)
    PROVE  /\ ContractTypes'
           /\ UNCHANGED <<contracts, ledger, trail>>
           /\ \A g \in Handler : g # h => handlers'[g] = handlers[g]
           /\ handlers[h].pc = "free"
           /\ Overlap \/ \A g \in Handler : handlers[g].pc = "free"
           /\ handlers'[h].pc = "save" /\ handlers'[h].id = c /\ handlers'[h].tx = NoTx
           /\ handlers'[h].row.status = to /\ handlers'[h].row.hash = contracts[c].hash
           /\ contracts[c].status # "none" /\ to \in Contracts!Allowed[contracts[c].status]
<1>1. contracts[c] \in Contracts!Row
  BY Zenon DEF ContractTypes
<1>2. PICK row : row = [contracts[c] EXCEPT !.status = to]
  BY Zenon
<1>3. row \in Contracts!Row /\ row.status = to /\ row.hash = contracts[c].hash
  BY <1>1, <1>2, RowsMade, Zenon DEF Contracts!Row, Contracts!Status
<1>4. PICK r : r = [pc |-> "save", id |-> c, row |-> row, tx |-> NoTx]
  BY Zenon
<1>5. r \in Request /\ r.pc = "save" /\ r.id = c /\ r.row = row /\ r.tx = NoTx
  BY <1>3, <1>4, Zenon DEF Request
<1>6. handlers' = [handlers EXCEPT ![h] = r]
  BY <1>2, <1>4, Zenon DEF Contracts!PatchStatus, Contracts!Hold
<1>7. /\ UNCHANGED <<contracts, ledger, trail>> /\ requests' = requests + 1
      /\ handlers[h].pc = "free" /\ contracts[c].status # "none"
      /\ Overlap \/ \A g \in Handler : handlers[g].pc = "free"
      /\ to \in Contracts!Allowed[contracts[c].status]
  BY Zenon DEF Contracts!PatchStatus, Contracts!Take, Contracts!IsContractStatusTransitionAllowed
<1>8. Sound(r)
  BY <1>5, Zenon DEF Sound
<1>9. ContractTypes'
  <2>1. handlers' \in [Handler -> Request] /\ \A g \in Handler : Sound(handlers'[g])
    BY <1>5, <1>6, <1>8, OneMoves, Zenon
  <2>2. requests' \in Nat
    BY <1>7 DEF ContractTypes
  <2> QED BY <1>7, <2>1, <2>2, Zenon DEF ContractTypes
<1> QED BY <1>3, <1>5, <1>6, <1>7, <1>8, <1>9, OneMoves, Zenon

\* An anchor is taken up: the request holds the row with the new hash.
LEMMA AnchorTaken ==
    ASSUME ContractTypes, NEW h \in Handler, NEW c \in Contract, NEW t \in TxHash,
           Contracts!AnchorEscrow(h, c, t)
    PROVE  /\ ContractTypes'
           /\ UNCHANGED <<contracts, ledger, trail>>
           /\ \A g \in Handler : g # h => handlers'[g] = handlers[g]
           /\ handlers[h].pc = "free"
           /\ Overlap \/ \A g \in Handler : handlers[g].pc = "free"
           /\ handlers'[h].pc \in {"look", "save"} /\ handlers'[h].id = c /\ handlers'[h].tx = t
           /\ handlers'[h].row.hash = t
           /\ handlers'[h].row.status =
                IF contracts[c].status = "draft" THEN "escrow_pending" ELSE contracts[c].status
           /\ contracts[c].status \in {"draft", "escrow_pending", "escrow_validated"}
           /\ contracts[c].status = "escrow_validated" => contracts[c].hash \in {NoTx, t}
<1>1. contracts[c] \in Contracts!Row
  BY Zenon DEF ContractTypes
<1>2. PICK row : row = Contracts!Anchored(contracts[c], t)
  BY Zenon
<1>3. "draft" \in Contracts!Status
  BY Zenon DEF Contracts!Status
<1>4. /\ row \in Contracts!Row /\ row.hash = t
      /\ row.status = IF contracts[c].status = "draft" THEN "escrow_pending" ELSE contracts[c].status
  BY <1>1, <1>2, <1>3, RowsMade, Zenon
<1>5. PICK pc : pc = IF XrplEnabled THEN "look" ELSE "save"
  BY Zenon
<1>6. pc \in {"look", "save"}
  BY <1>5, Zenon
<1>7. PICK r : r = [pc |-> pc, id |-> c, row |-> row, tx |-> t]
  BY Zenon
<1>8. r \in Request /\ r.pc = pc /\ r.id = c /\ r.row = row /\ r.tx = t
  BY <1>4, <1>6, <1>7, Zenon DEF Request
<1>9. handlers' = [handlers EXCEPT ![h] = r]
  BY <1>2, <1>5, <1>7, Zenon DEF Contracts!AnchorEscrow, Contracts!Hold
<1>10. /\ UNCHANGED <<contracts, ledger, trail>> /\ requests' = requests + 1
       /\ handlers[h].pc = "free" /\ contracts[c].status # "none"
       /\ Overlap \/ \A g \in Handler : handlers[g].pc = "free"
       /\ ~Contracts!AnchorRefused(contracts[c], t)
  BY Zenon DEF Contracts!AnchorEscrow, Contracts!Take
<1>11. Sound(r)
  BY <1>6, <1>8, Zenon DEF Sound
<1>13. ContractTypes'
  BY <1>8, <1>9, <1>10, <1>11, OneMoves DEF ContractTypes
<1>12. /\ contracts[c].status \in {"draft", "escrow_pending", "escrow_validated"}
       /\ contracts[c].status = "escrow_validated" => contracts[c].hash \in {NoTx, t}
  BY <1>1, <1>10, Zenon DEF Contracts!AnchorRefused, Contracts!Row, Contracts!Status
<1> QED BY <1>4, <1>6, <1>8, <1>9, <1>10, <1>11, <1>12, <1>13, OneMoves, Zenon

\* The ledger is asked: a pending row may become validated, and only by an
\* escrow.
LEMMA LookUpDone ==
    ASSUME ContractTypes, NEW h \in Handler, Contracts!LookUp(h)
    PROVE  /\ ContractTypes'
           /\ UNCHANGED <<contracts, ledger, trail>>
           /\ \A g \in Handler : g # h => handlers'[g] = handlers[g]
           /\ handlers[h].pc = "look" /\ handlers'[h].pc = "save"
           /\ handlers'[h].id = handlers[h].id /\ handlers'[h].tx = handlers[h].tx
           /\ handlers'[h].row.hash = handlers[h].row.hash
           /\ \/ handlers'[h].row.status = handlers[h].row.status
              \/ /\ handlers[h].row.status = "escrow_pending"
                 /\ handlers'[h].row.status = "escrow_validated"
                 /\ ledger[handlers[h].tx] = "escrow"
<1>1. handlers[h] \in Request
  BY Zenon DEF ContractTypes
<1>2. PICK live \in {"unseen", ledger[handlers[h].tx]} :
        handlers' = [handlers EXCEPT ![h].pc = "save",
            ![h].row.status =
                IF live = "escrow" /\ @ = "escrow_pending" THEN "escrow_validated" ELSE @]
  BY Zenon DEF Contracts!LookUp
<1>3. PICK s : s = IF live = "escrow" /\ handlers[h].row.status = "escrow_pending"
                   THEN "escrow_validated" ELSE handlers[h].row.status
  BY Zenon
<1>4. PICK row : row = [status |-> s, hash |-> handlers[h].row.hash]
  BY Zenon
<1>5. handlers[h].row \in Contracts!Row
  BY <1>1, Zenon DEF Request
<1>6. s \in Contracts!Status \cup {"none"}
  BY <1>3, <1>5, Zenon DEF Contracts!Row, Contracts!Status
<1>7. row \in Contracts!Row /\ row.status = s /\ row.hash = handlers[h].row.hash
  BY <1>4, <1>5, <1>6, Zenon DEF Contracts!Row
<1>8. PICK r : r = [handlers[h] EXCEPT !.pc = "save", !.row = row]
  BY Zenon
<1>9. /\ r \in Request /\ r.pc = "save" /\ r.id = handlers[h].id /\ r.row = row
      /\ r.tx = handlers[h].tx
  BY <1>1, <1>7, <1>8, Zenon DEF Request
<1>10. handlers' = [handlers EXCEPT ![h] = r]
  <2>1. [handlers[h].row EXCEPT !.status = s] = row
    BY <1>4, <1>5 DEF Contracts!Row
  <2>2. handlers' = [handlers EXCEPT ![h] =
                       [handlers[h] EXCEPT !.pc = "save",
                                           !.row = [handlers[h].row EXCEPT !.status = s]]]
    BY <1>1, <1>2, <1>3, Zenon DEF ContractTypes, Request
  <2> QED BY <1>8, <2>1, <2>2, Zenon
<1>11. UNCHANGED <<contracts, ledger, requests, trail>> /\ handlers[h].pc = "look"
  BY Zenon DEF Contracts!LookUp
<1>12. Sound(r)
  BY <1>9, <1>11, Zenon DEF ContractTypes, Sound
<1>13. ContractTypes'
  BY <1>9, <1>10, <1>11, <1>12, OneMoves, Zenon DEF ContractTypes
<1>14. \/ s = handlers[h].row.status
       \/ /\ handlers[h].row.status = "escrow_pending" /\ s = "escrow_validated"
          /\ ledger[handlers[h].tx] = "escrow"
  BY <1>2, <1>3, Zenon
<1> QED BY <1>7, <1>9, <1>10, <1>11, <1>12, <1>13, <1>14, OneMoves, Zenon

\* The row is written over the contract's.
LEMMA SaveDone ==
    ASSUME ContractTypes, NEW h \in Handler, Contracts!SaveContract(h)
    PROVE  /\ ContractTypes'
           /\ UNCHANGED ledger
           /\ \A g \in Handler : g # h => handlers'[g] = handlers[g]
           /\ handlers[h].pc = "save" /\ handlers[h].id \in Contract
           /\ \/ handlers'[h] = Contracts!Free
              \/ /\ handlers'[h].pc = "announce"
                 /\ handlers'[h].id = handlers[h].id /\ handlers'[h].row = handlers[h].row
                 /\ handlers[h].row.status \in {"closed", "cancelled"}
           /\ contracts' = [contracts EXCEPT ![handlers[h].id] = handlers[h].row]
           /\ \A c \in Contract :
                /\ trail'[c].announced = trail[c].announced
                /\ trail[c].byHand => trail'[c].byHand
           /\ Contracts!ByHand(h) => trail'[handlers[h].id].byHand
<1>1. handlers[h] \in Request /\ handlers[h].pc = "save" /\ handlers[h].id \in Contract
  BY Zenon DEF ContractTypes, Sound, Contracts!SaveContract
<1>2. PICK r : r = IF Contracts!Announces(h) THEN [handlers[h] EXCEPT !.pc = "announce"]
                   ELSE Contracts!Free
  BY Zenon
<1>3. r \in Request /\ Sound(r)
  BY <1>1, <1>2, FreeIsFree, Zenon DEF Request, Sound, Contracts!Announces
<1>4. handlers' = [handlers EXCEPT ![h] = r]
  BY <1>2, Zenon DEF Contracts!SaveContract
<1>5. \/ r = Contracts!Free
      \/ /\ r.pc = "announce" /\ r.id = handlers[h].id /\ r.row = handlers[h].row
         /\ handlers[h].row.status \in {"closed", "cancelled"}
  BY <1>1, <1>2, Zenon DEF Request, Contracts!Announces
<1>6. PICK b \in BOOLEAN : b = Contracts!ByHand(h)
  BY Zenon DEF Contracts!ByHand
<1>7. /\ trail' = [trail EXCEPT ![handlers[h].id].byHand = @ \/ b]
      /\ contracts' = [contracts EXCEPT ![handlers[h].id] = handlers[h].row]
      /\ UNCHANGED <<ledger, requests>>
  BY <1>6, Zenon DEF Contracts!SaveContract
<1>8. trail \in [Contract -> Note]
  BY Zenon DEF ContractTypes
<1>9. trail' \in [Contract -> Note]
  BY <1>1, <1>7, <1>8 DEF Note
<1>10. /\ \A c \in Contract : /\ trail'[c].announced = trail[c].announced
                              /\ trail[c].byHand => trail'[c].byHand
       /\ b => trail'[handlers[h].id].byHand
  BY <1>1, <1>6, <1>7, <1>8, Zenon DEF Note
<1>11. contracts' \in [Contract -> Contracts!Row]
  BY <1>1, <1>7, Zenon DEF ContractTypes, Request
<1>12. ContractTypes'
  BY <1>3, <1>4, <1>7, <1>9, <1>11, OneMoves, Zenon DEF ContractTypes
<1>13. handlers'[h] = r /\ \A g \in Handler : g # h => handlers'[g] = handlers[g]
  BY <1>3, <1>4, OneMoves, Zenon
<1> QED BY <1>1, <1>5, <1>6, <1>7, <1>10, <1>12, <1>13, Zenon

\* The parties are told.
LEMMA AnnounceDone ==
    ASSUME ContractTypes, NEW h \in Handler, Contracts!Announce(h)
    PROVE  /\ ContractTypes'
           /\ UNCHANGED <<contracts, ledger>>
           /\ \A g \in Handler : g # h => handlers'[g] = handlers[g]
           /\ handlers[h].pc = "announce" /\ handlers[h].id \in Contract
           /\ handlers'[h] = Contracts!Free
           /\ \A c \in Contract :
                /\ trail'[c].byHand = trail[c].byHand
                /\ trail'[c].announced \subseteq trail[c].announced \cup
                     {s \in {handlers[h].row.status} : c = handlers[h].id}
<1>1. /\ handlers[h] \in Request /\ handlers[h].pc = "announce" /\ handlers[h].id \in Contract
      /\ handlers[h].row.status \in {"closed", "cancelled"}
  BY Zenon DEF ContractTypes, Sound, Contracts!Announce
<1>2. handlers' = [handlers EXCEPT ![h] = Contracts!Free]
  BY Zenon DEF Contracts!Announce
<1>3. PICK s : s = handlers[h].row.status
  BY Zenon
<1>4. s \in Contracts!Status
  BY <1>1, <1>3, Zenon DEF Contracts!Status
<1>5. /\ trail' = [trail EXCEPT ![handlers[h].id].announced = @ \cup {s}]
      /\ UNCHANGED <<contracts, ledger, requests>>
  BY <1>3, Zenon DEF Contracts!Announce
<1>6. trail \in [Contract -> Note]
  BY Zenon DEF ContractTypes
<1>7. \A c \in Contract :
        /\ trail'[c].byHand = trail[c].byHand
        /\ trail'[c].announced = IF c = handlers[h].id THEN trail[c].announced \cup {s}
                                 ELSE trail[c].announced
  BY <1>1, <1>5, <1>6, Zenon DEF Note
<1>8. trail' \in [Contract -> Note]
  BY <1>1, <1>4, <1>5, <1>6 DEF Note
<1>9. handlers'[h] = Contracts!Free /\ \A g \in Handler : g # h => handlers'[g] = handlers[g]
  BY <1>2, FreeIsFree, OneMoves, Zenon
<1>10. ContractTypes'
  BY <1>2, <1>5, <1>8, FreeIsFree, OneMoves, Zenon DEF ContractTypes
<1> QED BY <1>1, <1>3, <1>5, <1>7, <1>9, <1>10

\* A request dies.
LEMMA DeathDone ==
    ASSUME ContractTypes, NEW h \in Handler, Contracts!HandlerDies(h)
    PROVE  /\ ContractTypes'
           /\ UNCHANGED <<contracts, ledger, trail>>
           /\ \A g \in Handler : g # h => handlers'[g] = handlers[g]
           /\ handlers'[h] = Contracts!Free
<1>1. handlers' = [handlers EXCEPT ![h] = Contracts!Free] /\ UNCHANGED <<contracts, ledger, requests, trail>>
  BY Zenon DEF Contracts!HandlerDies
<1>2. ContractTypes'
  BY <1>1, FreeIsFree, OneMoves, Zenon DEF ContractTypes
<1> QED BY <1>1, <1>2, FreeIsFree, OneMoves, Zenon

\* A contract is made, or the ledger validates a transaction.
LEMMA OtherTypes ==
    ASSUME ContractTypes
    PROVE  /\ \A c \in Contract : Contracts!CreateContract(c) => ContractTypes'
           /\ \A t \in TxHash : Contracts!Validate(t) => ContractTypes'
<1>1. ASSUME NEW c \in Contract, Contracts!CreateContract(c) PROVE ContractTypes'
  <2>1. contracts' \in [Contract -> Contracts!Row]
    BY <1>1 DEF Contracts!CreateContract, ContractTypes, Contracts!Row, Contracts!Status
  <2> QED BY <1>1, <2>1, Zenon DEF Contracts!CreateContract, ContractTypes
<1>2. ASSUME NEW t \in TxHash, Contracts!Validate(t) PROVE ContractTypes'
  <2>1. ledger' \in [TxHash -> {"unseen", "escrow", "other"}]
    BY <1>2, Zenon DEF Contracts!Validate, ContractTypes
  <2> QED BY <1>2, <2>1, Zenon DEF Contracts!Validate, ContractTypes
<1> QED BY <1>1, <1>2, Zenon

\* The first state.
LEMMA ContractTypesInit == Contracts!Init => ContractTypes
BY FreeIsFree DEF Contracts!Init, ContractTypes, Contracts!Absent, Contracts!Row, Note

-----------------------------------------------------------------------------
(* Validated by the ledger: a row that says so, in the table or in the     *)
(* hands of a request, names a validated escrow or was set by hand.        *)

Backed(c, row) ==
    row.status = "escrow_validated" =>
        trail[c].byHand \/ (row.hash \in TxHash /\ ledger[row.hash] = "escrow")

HeldBacked(h) ==
    /\ handlers[h].pc = "look" =>
         handlers[h].tx \in TxHash /\ handlers[h].row.hash = handlers[h].tx
    /\ handlers[h].pc \in {"look", "save"} =>
         handlers[h].tx = NoTx \/ Backed(handlers[h].id, handlers[h].row)

BackedInv ==
    /\ ContractTypes
    /\ \A c \in Contract : Backed(c, contracts[c])
    /\ \A h \in Handler : HeldBacked(h)

\* Neither the ledger nor the trail takes anything back.
Onward ==
    /\ \A c \in Contract : trail[c].byHand => trail'[c].byHand
    /\ \A t \in TxHash : ledger[t] = "escrow" => ledger'[t] = "escrow"

\* What a request holds stays backed while others move.
LEMMA HeldStays ==
    ASSUME BackedInv, Onward, NEW g \in Handler, handlers'[g] = handlers[g]
    PROVE  HeldBacked(g)'
<1>1. HeldBacked(g) /\ Sound(handlers[g])
  BY Zenon DEF BackedInv, ContractTypes
<1> QED BY <1>1, Zenon DEF HeldBacked, Backed, Onward, Sound

\* What the table holds stays backed while it is not written.
LEMMA RowStays ==
    ASSUME BackedInv, Onward, NEW c \in Contract, contracts'[c] = contracts[c]
    PROVE  Backed(c, contracts[c])'
BY Zenon DEF BackedInv, Backed, Onward

\* Taking up a request, asking the ledger, announcing and dying leave the
\* table alone.
LEMMA BackedMoves ==
    ASSUME BackedInv, ContractTypes', Onward, UNCHANGED contracts, NEW h \in Handler,
           \A g \in Handler : g # h => handlers'[g] = handlers[g],
           HeldBacked(h)'
    PROVE  BackedInv'
<1>1. \A g \in Handler : HeldBacked(g)'
  BY HeldStays, Zenon
<1>2. \A c \in Contract : Backed(c, contracts[c])'
  BY RowStays, Zenon
<1> QED BY <1>1, <1>2, Zenon DEF BackedInv

\* Every request keeps the rows backed.
LEMMA ServeBacked ==
    ASSUME NoTx \notin TxHash, BackedInv, NEW h \in Handler, Contracts!Serve(h)
    PROVE  BackedInv'
<1>0. ContractTypes
  BY Zenon DEF BackedInv
<1>1. ASSUME NEW c \in Contract, NEW to \in Contracts!Status, Contracts!PatchStatus(h, c, to)
      PROVE  BackedInv'
  <2>1. HeldBacked(h)'
    BY <1>0, <1>1, PatchTaken, Zenon DEF HeldBacked
  <2>2. Onward
    BY <1>0, <1>1, PatchTaken, Zenon DEF Onward
  <2> QED BY <1>0, <1>1, <2>1, <2>2, PatchTaken, BackedMoves, Zenon
<1>2. ASSUME NEW c \in Contract, NEW t \in TxHash, Contracts!AnchorEscrow(h, c, t)
      PROVE  BackedInv'
  <2>1. /\ UNCHANGED <<contracts, ledger, trail>> /\ handlers'[h].id = c /\ handlers'[h].tx = t
        /\ handlers'[h].row.hash = t
        /\ handlers'[h].row.status = "escrow_validated" =>
             contracts[c].status = "escrow_validated" /\ contracts[c].hash \in {NoTx, t}
    BY <1>0, <1>2, AnchorTaken
  <2>2. Backed(c, contracts[c])
    BY Zenon DEF BackedInv
  <2>3. HeldBacked(h)'
    BY <2>1, <2>2, Zenon DEF HeldBacked, Backed
  <2>4. Onward
    BY <2>1, Zenon DEF Onward
  <2> QED BY <1>0, <1>2, <2>1, <2>3, <2>4, AnchorTaken, BackedMoves, Zenon
<1>3. CASE Contracts!LookUp(h)
  <2>1. HeldBacked(h)
    BY Zenon DEF BackedInv
  <2>2. HeldBacked(h)'
    BY <1>0, <1>3, <2>1, LookUpDone DEF HeldBacked, Backed
  <2>3. Onward
    BY <1>0, <1>3, LookUpDone, Zenon DEF Onward
  <2> QED BY <1>0, <1>3, <2>2, <2>3, LookUpDone, BackedMoves, Zenon
<1>4. CASE Contracts!SaveContract(h)
  <2>1. Onward
    BY <1>0, <1>4, SaveDone, Zenon DEF Onward
  <2>2. HeldBacked(h)'
    BY <1>0, <1>4, SaveDone, FreeIsFree, Zenon DEF HeldBacked
  <2>3. ASSUME NEW c \in Contract PROVE Backed(c, contracts[c])'
    <3>1. CASE c = handlers[h].id
      <4>1. contracts'[c] = handlers[h].row /\ UNCHANGED ledger
        BY <1>0, <1>4, <3>1, SaveDone DEF ContractTypes
      <4>2. HeldBacked(h) /\ handlers[h].pc = "save"
        BY <1>0, <1>4, SaveDone, Zenon DEF BackedInv
      <4>3. CASE handlers[h].tx = NoTx
        BY <1>0, <1>4, <3>1, <4>1, <4>3, SaveDone, Zenon DEF Backed, Contracts!ByHand
      <4>4. CASE handlers[h].tx # NoTx
        BY <2>1, <3>1, <4>1, <4>2, <4>4, Zenon DEF HeldBacked, Backed, Onward
      <4> QED BY <4>3, <4>4, Zenon
    <3>2. CASE c # handlers[h].id
      <4>1. contracts'[c] = contracts[c]
        BY <1>0, <1>4, <3>2, SaveDone DEF ContractTypes
      <4> QED BY <2>1, <4>1, RowStays, Zenon
    <3> QED BY <3>1, <3>2, Zenon
  <2>4. \A g \in Handler : HeldBacked(g)'
    BY <1>0, <1>4, <2>1, <2>2, SaveDone, HeldStays, Zenon
  <2> QED BY <1>0, <1>4, <2>3, <2>4, SaveDone, Zenon DEF BackedInv
<1>5. CASE Contracts!Announce(h)
  <2>1. Onward /\ HeldBacked(h)'
    BY <1>0, <1>5, AnnounceDone, FreeIsFree, Zenon DEF Onward, HeldBacked
  <2> QED BY <1>0, <1>5, <2>1, AnnounceDone, BackedMoves, Zenon
<1>6. CASE Contracts!HandlerDies(h)
  <2>1. Onward /\ HeldBacked(h)'
    BY <1>0, <1>6, DeathDone, FreeIsFree, Zenon DEF Onward, HeldBacked
  <2> QED BY <1>0, <1>6, <2>1, DeathDone, BackedMoves, Zenon
<1> QED BY <1>1, <1>2, <1>3, <1>4, <1>5, <1>6, Zenon DEF Contracts!Serve

\* A new contract is a draft, and the ledger only validates.
LEMMA OtherBacked ==
    ASSUME BackedInv
    PROVE  /\ \A c \in Contract : Contracts!CreateContract(c) => BackedInv'
           /\ \A t \in TxHash : Contracts!Validate(t) => BackedInv'
<1>0. ContractTypes
  BY Zenon DEF BackedInv
<1>1. ASSUME NEW c \in Contract, Contracts!CreateContract(c) PROVE BackedInv'
  <2>1. Onward /\ UNCHANGED <<handlers, trail, ledger>>
    BY <1>1, Zenon DEF Contracts!CreateContract, Onward
  <2>2. ASSUME NEW d \in Contract PROVE Backed(d, contracts[d])'
    <3>1. d = c => contracts'[d].status = "draft"
      BY <1>0, <1>1, Zenon DEF Contracts!CreateContract, ContractTypes, Contracts!Row
    <3>2. d # c => contracts'[d] = contracts[d]
      BY <1>0, <1>1, Zenon DEF Contracts!CreateContract, ContractTypes
    <3> QED BY <2>1, <3>1, <3>2, RowStays, Zenon DEF Backed
  <2> QED BY <1>0, <1>1, <2>1, <2>2, HeldStays, OtherTypes, Zenon DEF BackedInv
<1>2. ASSUME NEW t \in TxHash, Contracts!Validate(t) PROVE BackedInv'
  <2>1. Onward /\ UNCHANGED <<handlers, contracts>>
    BY <1>0, <1>2, Zenon DEF Contracts!Validate, ContractTypes, Onward
  <2> QED BY <1>0, <1>2, <2>1, HeldStays, RowStays, OtherTypes, Zenon DEF BackedInv
<1> QED BY <1>1, <1>2, Zenon

(***************************************************************************)
(* However status patches and escrow anchors interleave and write over     *)
(* each other's rows, a contract that says escrow_validated names an       *)
(* escrow the ledger has validated, unless an operator set it by hand      *)
(* (PATCH /v1/contracts/:contractId/escrow-anchor and .../status).         *)
(***************************************************************************)
THEOREM ValidationsAreBacked ==
    ASSUME NoTx \notin TxHash
    PROVE  Contracts!Spec => []Contracts!ValidatedByLedger
<1>1. Contracts!Init => BackedInv
  <2> SUFFICES ASSUME Contracts!Init PROVE BackedInv
    BY Zenon
  <2>1. \A c \in Contract : contracts[c].status = "none"
    BY Zenon DEF Contracts!Init, Contracts!Absent
  <2>2. \A h \in Handler : handlers[h].pc = "free"
    BY FreeIsFree, Zenon DEF Contracts!Init
  <2> QED BY <2>1, <2>2, ContractTypesInit, Zenon DEF BackedInv, Backed, HeldBacked
<1>2. BackedInv /\ [Contracts!Next]_Contracts!vars => BackedInv'
  <2> SUFFICES ASSUME BackedInv, [Contracts!Next]_Contracts!vars PROVE BackedInv'
    BY Zenon
  <2>1. CASE UNCHANGED Contracts!vars
    <3>1. Onward /\ UNCHANGED <<contracts, handlers, ledger, requests, trail>>
      BY <2>1, Zenon DEF Contracts!vars, Onward
    <3>2. ContractTypes'
      BY <3>1, Zenon DEF BackedInv, ContractTypes
    <3> QED BY <3>1, <3>2, HeldStays, RowStays, Zenon DEF BackedInv
  <2>2. CASE Contracts!Next
    BY <2>2, ServeBacked, OtherBacked, Zenon DEF Contracts!Next
  <2> QED BY <2>1, <2>2, Zenon
<1>3. BackedInv => Contracts!ValidatedByLedger
  BY Zenon DEF BackedInv, Backed, Contracts!ValidatedByLedger
<1> QED BY <1>1, <1>2, <1>3, PTL DEF Contracts!Spec

-----------------------------------------------------------------------------
(* Requests in turn: when no two are in flight, the row a request writes   *)
(* follows from the row it writes over.                                    *)

Follows(was, row) ==
    /\ was.status \in {"draft", "escrow_pending", "escrow_validated", "active"}
    /\ was.status = "escrow_validated" /\ was.hash # NoTx => row.hash = was.hash
    /\ row.status # was.status =>
         \/ row.status \in Contracts!Allowed[was.status]
         \/ was.status = "draft" /\ row.status = "escrow_validated"

HeldInTurn(h) ==
    /\ handlers[h].pc \in {"look", "save"} => Follows(contracts[handlers[h].id], handlers[h].row)
    /\ handlers[h].pc = "announce" => contracts[handlers[h].id].status = handlers[h].row.status

Told(c) ==
    \A s \in trail[c].announced : s \in {"closed", "cancelled"} /\ contracts[c].status = s

TurnInv ==
    /\ ContractTypes
    /\ \A g, h \in Handler : handlers[g].pc # "free" /\ handlers[h].pc # "free" => g = h
    /\ \A h \in Handler : HeldInTurn(h)
    /\ \A c \in Contract : Told(c)

\* What the table of transitions allows.
LEMMA TransitionTable ==
    /\ Contracts!Allowed["draft"] = {"escrow_pending", "cancelled"}
    /\ Contracts!Allowed["escrow_pending"] = {"escrow_validated", "cancelled"}
    /\ Contracts!Allowed["escrow_validated"] = {"active", "cancelled"}
    /\ Contracts!Allowed["active"] = {"closed", "cancelled"}
    /\ Contracts!Allowed["closed"] = {}
    /\ Contracts!Allowed["cancelled"] = {}
BY Zenon DEF Contracts!Allowed

\* A step of one request, the others being free, that leaves the table alone.
LEMMA TurnMoves ==
    ASSUME TurnInv, ContractTypes', UNCHANGED contracts, NEW h \in Handler,
           \A g \in Handler : g # h => handlers[g].pc = "free" /\ handlers'[g] = handlers[g],
           HeldInTurn(h)', \A c \in Contract : Told(c)'
    PROVE  TurnInv'
<1>1. \A g \in Handler : g # h => HeldInTurn(g)'
  BY Zenon DEF HeldInTurn
<1> QED BY <1>1, Zenon DEF TurnInv

\* A request is taken up when no other is in flight.
LEMMA TakenInTurn ==
    ASSUME ~Overlap, TurnInv, NEW h \in Handler, NEW c \in Contract,
           \/ \E to \in Contracts!Status : Contracts!PatchStatus(h, c, to)
           \/ \E t \in TxHash : Contracts!AnchorEscrow(h, c, t)
    PROVE  TurnInv'
<1>0. ContractTypes /\ contracts[c] \in Contracts!Row
  BY Zenon DEF TurnInv, ContractTypes
<1>1. ASSUME NEW to \in Contracts!Status, Contracts!PatchStatus(h, c, to)
      PROVE  TurnInv'
  <2>1. /\ ContractTypes' /\ UNCHANGED <<contracts, trail>>
        /\ \A g \in Handler : handlers[g].pc = "free"
        /\ \A g \in Handler : g # h => handlers'[g] = handlers[g]
        /\ handlers'[h].pc = "save" /\ handlers'[h].id = c
        /\ handlers'[h].row.status = to /\ handlers'[h].row.hash = contracts[c].hash
        /\ contracts[c].status # "none" /\ to \in Contracts!Allowed[contracts[c].status]
    BY <1>0, <1>1, PatchTaken, Zenon
  <2>2. contracts[c].status \in {"draft", "escrow_pending", "escrow_validated", "active"}
    BY <1>0, <2>1, TransitionTable, Zenon DEF Contracts!Row, Contracts!Status
  <2>3. Follows(contracts[c], handlers'[h].row)
    BY <2>1, <2>2, Zenon DEF Follows
  <2>4. HeldInTurn(h)'
    BY <2>1, <2>3, Zenon DEF HeldInTurn
  <2>5. \A d \in Contract : Told(d)'
    BY <2>1, Zenon DEF TurnInv, Told
  <2> QED BY <2>1, <2>4, <2>5, TurnMoves, Zenon
<1>2. ASSUME NEW t \in TxHash, Contracts!AnchorEscrow(h, c, t)
      PROVE  TurnInv'
  <2>1. /\ ContractTypes' /\ UNCHANGED <<contracts, trail>>
        /\ \A g \in Handler : handlers[g].pc = "free"
        /\ \A g \in Handler : g # h => handlers'[g] = handlers[g]
        /\ handlers'[h].pc \in {"look", "save"} /\ handlers'[h].id = c
        /\ handlers'[h].row.hash = t
        /\ handlers'[h].row.status =
             IF contracts[c].status = "draft" THEN "escrow_pending" ELSE contracts[c].status
        /\ contracts[c].status \in {"draft", "escrow_pending", "escrow_validated"}
        /\ contracts[c].status = "escrow_validated" => contracts[c].hash \in {NoTx, t}
    BY <1>0, <1>2, AnchorTaken
  <2>2. Follows(contracts[c], handlers'[h].row)
    BY <2>1, TransitionTable, Zenon DEF Follows
  <2>3. HeldInTurn(h)'
    BY <2>1, <2>2, Zenon DEF HeldInTurn
  <2>4. \A d \in Contract : Told(d)'
    BY <2>1, Zenon DEF TurnInv, Told
  <2> QED BY <2>1, <2>3, <2>4, TurnMoves, Zenon
<1> QED BY <1>1, <1>2, Zenon

\* The row a request writes follows from the row it writes over, and nothing
\* was announced of a contract that still moves.
LEMMA SaveInTurn ==
    ASSUME TurnInv, NEW h \in Handler, Contracts!SaveContract(h)
    PROVE  TurnInv' /\ Contracts!EscrowKept
<1> DEFINE c == handlers[h].id
<1>1. /\ ContractTypes /\ ContractTypes'
      /\ \A g \in Handler : g # h => handlers'[g] = handlers[g]
      /\ handlers[h].pc = "save" /\ c \in Contract
      /\ \/ handlers'[h] = Contracts!Free
         \/ /\ handlers'[h].pc = "announce"
            /\ handlers'[h].id = c /\ handlers'[h].row = handlers[h].row
      /\ contracts' = [contracts EXCEPT ![c] = handlers[h].row]
      /\ \A d \in Contract : trail'[d].announced = trail[d].announced
  BY SaveDone, Zenon DEF TurnInv
<1>2. /\ contracts'[c] = handlers[h].row
      /\ \A d \in Contract : d # c => contracts'[d] = contracts[d]
  BY <1>1, Zenon DEF ContractTypes
<1>3. \A g \in Handler : g # h => handlers[g].pc = "free"
  BY <1>1, Zenon DEF TurnInv
<1>4. Follows(contracts[c], handlers[h].row)
  BY <1>1, Zenon DEF TurnInv, HeldInTurn
<1>5. trail[c].announced = {}
  BY <1>1, <1>4, Zenon DEF TurnInv, Told, Follows
<1>6. ASSUME NEW d \in Contract PROVE Told(d)'
  <2>1. Told(d) /\ trail'[d].announced = trail[d].announced
    BY <1>1, Zenon DEF TurnInv
  <2>2. CASE d = c
    BY <1>5, <2>1, <2>2, Zenon DEF Told
  <2>3. CASE d # c
    BY <1>2, <2>1, <2>3, Zenon DEF Told
  <2> QED BY <2>2, <2>3, Zenon
<1>7. ASSUME NEW g \in Handler PROVE HeldInTurn(g)'
  <2>1. CASE handlers'[g].pc = "free"
    BY <2>1, Zenon DEF HeldInTurn
  <2>2. CASE handlers'[g].pc # "free"
    <3>1. g = h /\ handlers'[h].pc = "announce"
      BY <1>1, <1>3, <2>2, FreeIsFree, Zenon
    <3>2. contracts'[handlers'[h].id].status = handlers'[h].row.status
      BY <1>1, <1>2, <3>1, FreeIsFree, Zenon
    <3>3. handlers'[g].pc \notin {"look", "save"}
      BY <3>1, Zenon
    <3> QED BY <3>1, <3>2, <3>3, Zenon DEF HeldInTurn
  <2> QED BY <2>1, <2>2, Zenon
<1>8. \A f, g \in Handler : handlers'[f].pc # "free" /\ handlers'[g].pc # "free" => f = g
  BY <1>1, <1>3, Zenon
<1>9. TurnInv'
  BY <1>1, <1>6, <1>7, <1>8, Zenon DEF TurnInv
<1>10. Contracts!EscrowKept
  BY <1>1, <1>2, <1>4, Zenon DEF Contracts!EscrowKept, Follows
<1> QED BY <1>9, <1>10, Zenon

\* The steps of a request in flight that leave the table alone.
LEMMA OthersInTurn ==
    ASSUME TurnInv, NEW h \in Handler,
           Contracts!LookUp(h) \/ Contracts!Announce(h) \/ Contracts!HandlerDies(h)
    PROVE  TurnInv' /\ UNCHANGED contracts
<1>0. ContractTypes
  BY Zenon DEF TurnInv
<1>1. handlers[h].pc # "free"
  BY Zenon DEF Contracts!LookUp, Contracts!Announce, Contracts!HandlerDies
<1>2. \A g \in Handler : g # h => handlers[g].pc = "free"
  BY <1>1, Zenon DEF TurnInv
<1>3. CASE Contracts!LookUp(h)
  <2>1. HeldInTurn(h)
    BY Zenon DEF TurnInv
  <2>2. HeldInTurn(h)'
    <3> DEFINE was == contracts[handlers[h].id]
    <3>1. /\ handlers[h].pc = "look" /\ handlers'[h].pc = "save"
          /\ contracts'[handlers'[h].id] = was
          /\ handlers'[h].row.hash = handlers[h].row.hash
          /\ \/ handlers'[h].row.status = handlers[h].row.status
             \/ /\ handlers[h].row.status = "escrow_pending"
                /\ handlers'[h].row.status = "escrow_validated"
      BY <1>0, <1>3, LookUpDone, Zenon
    <3>2. Follows(was, handlers[h].row)
      BY <2>1, <3>1, Zenon DEF HeldInTurn
    <3>3. Follows(was, handlers'[h].row)
      <4>1. CASE handlers'[h].row.status = handlers[h].row.status
        BY <3>1, <3>2, <4>1, Zenon DEF Follows
      <4>2. CASE handlers[h].row.status = "escrow_pending" /\ handlers'[h].row.status = "escrow_validated"
        BY <3>1, <3>2, <4>2, TransitionTable DEF Follows
      <4> QED BY <3>1, <4>1, <4>2, Zenon
    <3>4. handlers'[h].pc # "announce"
      BY <3>1
    <3> QED BY <3>1, <3>3, <3>4, Zenon DEF HeldInTurn
  <2>3. contracts' = contracts /\ trail' = trail
    BY <1>0, <1>3, LookUpDone, Zenon
  <2>4. \A c \in Contract : Told(c)
    BY Zenon DEF TurnInv
  <2>5. \A c \in Contract : Told(c)'
    BY <2>3, <2>4, Zenon DEF Told
  <2> QED BY <1>0, <1>2, <1>3, <2>2, <2>5, LookUpDone, TurnMoves, Zenon
<1>4. CASE Contracts!Announce(h)
  <2>1. HeldInTurn(h)'
    BY <1>0, <1>4, AnnounceDone, FreeIsFree, Zenon DEF HeldInTurn
  <2>2. /\ contracts[handlers[h].id].status = handlers[h].row.status
        /\ handlers[h].row.status \in {"closed", "cancelled"}
    BY <1>0, <1>4, AnnounceDone, Zenon DEF TurnInv, HeldInTurn, ContractTypes, Sound
  <2>3. /\ contracts' = contracts
        /\ \A c \in Contract :
             trail'[c].announced \subseteq trail[c].announced \cup
               {s \in {handlers[h].row.status} : c = handlers[h].id}
    BY <1>0, <1>4, AnnounceDone, Zenon
  <2>4. \A c \in Contract : Told(c)
    BY Zenon DEF TurnInv
  <2>5. \A c \in Contract : Told(c)'
    <3> SUFFICES ASSUME NEW c \in Contract, NEW s \in trail'[c].announced
                 PROVE  s \in {"closed", "cancelled"} /\ contracts'[c].status = s
      BY Zenon DEF Told
    <3>1. s \in trail[c].announced \/ (s = handlers[h].row.status /\ c = handlers[h].id)
      BY <2>3, Zenon
    <3>2. CASE s \in trail[c].announced
      BY <2>3, <2>4, <3>2, Zenon DEF Told
    <3>3. CASE s = handlers[h].row.status /\ c = handlers[h].id
      BY <2>2, <2>3, <3>3, Zenon
    <3> QED BY <3>1, <3>2, <3>3, Zenon
  <2> QED BY <1>0, <1>2, <1>4, <2>1, <2>5, AnnounceDone, TurnMoves, Zenon
<1>5. CASE Contracts!HandlerDies(h)
  <2>1. HeldInTurn(h)'
    BY <1>0, <1>5, DeathDone, FreeIsFree, Zenon DEF HeldInTurn
  <2>2. \A c \in Contract : Told(c)'
    BY <1>0, <1>5, DeathDone DEF TurnInv, Told
  <2> QED BY <1>0, <1>2, <1>5, <2>1, <2>2, DeathDone, TurnMoves, Zenon
<1> QED BY <1>3, <1>4, <1>5, Zenon

\* A table that is not written keeps its escrows.
LEMMA UnwrittenKept == UNCHANGED contracts => Contracts!EscrowKept
BY Zenon DEF Contracts!EscrowKept

\* No request is at work on a contract that is made now.
LEMMA CreateInTurn ==
    ASSUME TurnInv, NEW c \in Contract, Contracts!CreateContract(c)
    PROVE  TurnInv' /\ Contracts!EscrowKept
<1>1. ContractTypes /\ ContractTypes' /\ UNCHANGED <<handlers, trail>> /\ contracts[c].status = "none"
  BY OtherTypes, Zenon DEF TurnInv, Contracts!CreateContract
<1>2. \A d \in Contract : d # c => contracts'[d] = contracts[d]
  BY <1>1, Zenon DEF Contracts!CreateContract, ContractTypes
<1>3. ASSUME NEW d \in Contract PROVE Told(d)'
  <2>1. Told(d) /\ trail'[d] = trail[d]
    BY <1>1, Zenon DEF TurnInv
  <2>2. CASE d = c
    <3>1. \A s \in {"closed", "cancelled"} : s # "none"
      BY Zenon
    <3> QED BY <1>1, <2>1, <2>2, <3>1, Zenon DEF Told
  <2>3. CASE d # c
    BY <1>2, <2>1, <2>3, Zenon DEF Told
  <2> QED BY <2>2, <2>3, Zenon
<1>4. ASSUME NEW h \in Handler PROVE HeldInTurn(h)'
  <2>1. HeldInTurn(h) /\ Sound(handlers[h])
    BY Zenon DEF TurnInv, ContractTypes
  <2>2. handlers[h].pc \in {"look", "save", "announce"} =>
          handlers[h].id # c /\ handlers[h].id \in Contract
    BY <1>1, <2>1, Zenon DEF HeldInTurn, Follows, Sound
  <2> QED BY <1>1, <1>2, <2>1, <2>2, Zenon DEF HeldInTurn
<1>5. TurnInv'
  BY <1>1, <1>3, <1>4, Zenon DEF TurnInv
<1>6. Contracts!EscrowKept
  BY <1>1, <1>2, Zenon DEF Contracts!EscrowKept
<1> QED BY <1>5, <1>6, Zenon

\* Every step keeps the order, and the escrow of a validated contract.
LEMMA TurnStep ==
    ASSUME ~Overlap, TurnInv, [Contracts!Next]_Contracts!vars
    PROVE  TurnInv' /\ Contracts!EscrowKept
<1>1. CASE UNCHANGED Contracts!vars
  <2>1. UNCHANGED <<contracts, handlers, ledger, requests, trail>>
    BY <1>1, Zenon DEF Contracts!vars
  <2>2. ContractTypes'
    BY <2>1, Zenon DEF TurnInv, ContractTypes
  <2>3. (\A h \in Handler : HeldInTurn(h)') /\ (\A c \in Contract : Told(c)')
    BY <2>1, Zenon DEF TurnInv, HeldInTurn, Told
  <2> QED BY <2>1, <2>2, <2>3, UnwrittenKept, Zenon DEF TurnInv
<1>2. ASSUME NEW c \in Contract, Contracts!CreateContract(c) PROVE TurnInv' /\ Contracts!EscrowKept
  BY <1>2, CreateInTurn, Zenon
<1>3. ASSUME NEW t \in TxHash, Contracts!Validate(t) PROVE TurnInv' /\ Contracts!EscrowKept
  <2>1. ContractTypes' /\ UNCHANGED <<contracts, handlers, trail>>
    BY <1>3, OtherTypes, Zenon DEF TurnInv, Contracts!Validate
  <2>2. (\A h \in Handler : HeldInTurn(h)') /\ (\A c \in Contract : Told(c)')
    BY <2>1, Zenon DEF TurnInv, HeldInTurn, Told
  <2> QED BY <2>1, <2>2, UnwrittenKept, Zenon DEF TurnInv
<1>4. ASSUME NEW h \in Handler, Contracts!Serve(h) PROVE TurnInv' /\ Contracts!EscrowKept
  <2>1. ASSUME NEW c \in Contract,
               \/ \E to \in Contracts!Status : Contracts!PatchStatus(h, c, to)
               \/ \E t \in TxHash : Contracts!AnchorEscrow(h, c, t)
        PROVE  TurnInv' /\ UNCHANGED contracts
    BY <2>1, TakenInTurn, Zenon DEF Contracts!PatchStatus, Contracts!AnchorEscrow, Contracts!Take
  <2> QED BY <1>4, <2>1, OthersInTurn, SaveInTurn, UnwrittenKept, Zenon DEF Contracts!Serve
<1> QED BY <1>1, <1>2, <1>3, <1>4, Zenon DEF Contracts!Next

\* The first state.
LEMMA TurnInit == Contracts!Init => TurnInv
<1> SUFFICES ASSUME Contracts!Init PROVE TurnInv
  BY Zenon
<1>1. \A h \in Handler : handlers[h].pc = "free"
  BY FreeIsFree, Zenon DEF Contracts!Init
<1>2. \A c \in Contract : trail[c].announced = {}
  BY Zenon DEF Contracts!Init
<1> QED BY <1>1, <1>2, ContractTypesInit, Zenon DEF TurnInv, HeldInTurn, Told

(***************************************************************************)
(* Requests in turn keep what was said: a contract whose end was announced *)
(* to its parties stays at that status.  The hypothesis that requests do   *)
(* not overlap is needed, as saveContract writes back whole rows           *)
(* (PATCH /v1/contracts/:contractId/status).                               *)
(***************************************************************************)
THEOREM AnnouncementsStand ==
    ASSUME ~Overlap
    PROVE  Contracts!Spec => []Contracts!AnnouncedStands
<1>1. TurnInv /\ [Contracts!Next]_Contracts!vars => TurnInv'
  BY TurnStep, Zenon
<1>2. TurnInv => Contracts!AnnouncedStands
  BY Zenon DEF TurnInv, Told, Contracts!AnnouncedStands
<1> QED BY <1>1, <1>2, TurnInit, PTL DEF Contracts!Spec

(***************************************************************************)
(* Requests in turn never exchange the escrow of a validated contract for  *)
(* another one, and move a status along the table of transitions only      *)
(* (isContractStatusTransitionAllowed, PATCH .../escrow-anchor).           *)
(***************************************************************************)
THEOREM EscrowsAreKept ==
    ASSUME ~Overlap
    PROVE  Contracts!Spec => [][Contracts!EscrowKept]_Contracts!vars
<1>1. TurnInv /\ [Contracts!Next]_Contracts!vars => TurnInv'
  BY TurnStep, Zenon
<1>2. TurnInv /\ [Contracts!Next]_Contracts!vars => [Contracts!EscrowKept]_Contracts!vars
  BY TurnStep, Zenon
<1> QED BY <1>1, <1>2, TurnInit, PTL DEF Contracts!Spec

CONSTANTS Subject, Issuer, Lookup, MaxClock, MaxIssued
VARIABLES credentials, lookups, clock, issued

Issued == INSTANCE Credentials WITH ledger <- credentials

CONSTANTS Draft, Lengths, LeaseEnd, Prepared, MaxSeq
VARIABLES day, escrows, holder, drafts, log

Holder == INSTANCE HolderAccount

-----------------------------------------------------------------------------
(* CredentialService: a lookup holds the credential it was asked for.      *)

Credential == [issuer : Issuer, subject : Subject, expiration : Nat, accepted : BOOLEAN]

AskedFor(l, c) == c.issuer = lookups[l].issuer /\ c.subject = lookups[l].subject

LookupInv(l) ==
    /\ lookups[l].pc = "check" =>
         AskedFor(l, lookups[l].match) /\ lookups[l].match.expiration \in Nat
    /\ lookups[l].pc = "done" => \A c \in lookups[l].result :
         AskedFor(l, c) /\ lookups[l].at < c.expiration

CredentialInv ==
    /\ clock \in Nat
    /\ credentials \subseteq Credential
    /\ lookups = [l \in Lookup |-> lookups[l]]
    /\ \A l \in Lookup : LookupInv(l)

\* One lookup moves, the others stay.
LEMMA LookupKept ==
    ASSUME CredentialInv, NEW l \in Lookup, NEW r, lookups' = [lookups EXCEPT ![l] = r],
           UNCHANGED <<credentials, clock>>, LookupInv(l)'
    PROVE  CredentialInv' 
<1>1. ASSUME NEW k \in Lookup, k # l PROVE LookupInv(k)'
  <2>1. lookups'[k] = lookups[k] /\ LookupInv(k)
    BY <1>1, Zenon DEF CredentialInv
  <2> QED BY <2>1, Zenon DEF LookupInv, AskedFor
<1>2. lookups' = [k \in Lookup |-> lookups'[k]]
  BY Zenon DEF CredentialInv
<1> QED BY <1>1, <1>2, Zenon DEF CredentialInv

\* verifyCredential reads the objects of the subject.
LEMMA LookupReads ==
    ASSUME CredentialInv, NEW l \in Lookup, NEW i, NEW s, Issued!verifyCredential(l, i, s)
    PROVE  CredentialInv'
<1> DEFINE found == Issued!Of(i, s)
<1>1. UNCHANGED <<credentials, clock>>
  BY Zenon DEF Issued!verifyCredential
<1>2. CASE found = {}
  <2>1. PICK r : r = [pc |-> "done", result |-> {}]
    BY Zenon
  <2>2. lookups' = [lookups EXCEPT ![l] = r] /\ lookups'[l] = r
    BY <1>2, <2>1, Zenon DEF Issued!verifyCredential, Issued!Go, CredentialInv
  <2>3. LookupInv(l)'
    BY <2>1, <2>2 DEF LookupInv
  <2> QED BY <1>1, <2>2, <2>3, LookupKept, Zenon
<1>3. CASE found # {}
  <2>1. PICK c \in found : c = CHOOSE x \in found : TRUE
    BY <1>3, Zenon
  <2>2. c \in credentials /\ c.issuer = i /\ c.subject = s /\ c.expiration \in Nat
    BY <2>1, Zenon DEF Issued!Of, CredentialInv, Credential
  <2>3. PICK r : r = [pc |-> "check", match |-> c, issuer |-> i, subject |-> s]
    BY Zenon
  <2>4. lookups' = [lookups EXCEPT ![l] = r] /\ lookups'[l] = r
    BY <1>3, <2>1, <2>3, Zenon DEF Issued!verifyCredential, Issued!Go, CredentialInv
  <2>5. LookupInv(l)'
    BY <2>2, <2>3, <2>4 DEF LookupInv, AskedFor
  <2> QED BY <1>1, <2>4, <2>5, LookupKept, Zenon
<1> QED BY <1>2, <1>3, Zenon

\* The expiration is compared with the clock.
LEMMA LookupCompares ==
    ASSUME CredentialInv, NEW l \in Lookup, Issued!CompareExpiration(l)
    PROVE  CredentialInv'
<1> DEFINE c == lookups[l].match
<1>1. /\ UNCHANGED <<credentials, clock>> /\ lookups[l].pc = "check" /\ LookupInv(l)
      /\ clock \in Nat /\ c.expiration \in Nat /\ AskedFor(l, c)
  BY Zenon DEF Issued!CompareExpiration, CredentialInv, LookupInv
<1>2. CASE c.expiration <= clock
  <2>1. PICK r : r = [pc |-> "done", result |-> {}]
    BY Zenon
  <2>2. lookups' = [lookups EXCEPT ![l] = r] /\ lookups'[l] = r
    BY <1>2, <2>1, Zenon DEF Issued!CompareExpiration, Issued!Go, CredentialInv
  <2>3. LookupInv(l)'
    BY <2>1, <2>2 DEF LookupInv
  <2> QED BY <1>1, <2>2, <2>3, LookupKept, Zenon
<1>3. CASE ~(c.expiration <= clock)
  <2>1. PICK m : m = c
    BY Zenon
  <2>2. PICK r : r = [pc |-> "done", result |-> {m}, at |-> clock,
                      issuer |-> lookups[l].issuer, subject |-> lookups[l].subject]
    BY Zenon
  <2>3. lookups' = [lookups EXCEPT ![l] = r] /\ lookups'[l] = r
    BY <1>3, <2>1, <2>2, Zenon DEF Issued!CompareExpiration, Issued!Go, CredentialInv
  <2>4. clock < m.expiration
    BY <1>1, <1>3, <2>1
  <2>5. LookupInv(l)'
    BY <1>1, <2>1, <2>2, <2>3, <2>4 DEF LookupInv, AskedFor
  <2> QED BY <1>1, <2>3, <2>5, LookupKept, Zenon
<1> QED BY <1>2, <1>3, Zenon

\* The issuer and the subject.
LEMMA LedgerKeeps ==
    ASSUME MaxClock \in Nat, CredentialInv, NEW i \in Issuer, NEW s \in Subject,
           Issued!issue(i, s) \/ Issued!accept(i, s) \/ Issued!revoke(i, s)
    PROVE  CredentialInv'
<1>1. lookups' = lookups /\ clock' \in Nat
  BY Zenon DEF Issued!issue, Issued!accept, Issued!revoke, CredentialInv
<1>2. credentials' \subseteq Credential
  <2>1. CASE Issued!issue(i, s)
    <3>1. PICK e \in clock + 1 .. MaxClock + 1 : credentials' = credentials \cup
             {[issuer |-> i, subject |-> s, expiration |-> e, accepted |-> FALSE]}
      BY <2>1, Zenon DEF Issued!issue, Issued!Never
    <3>2. e \in Nat
      BY DEF CredentialInv
    <3>3. PICK c : c = [issuer |-> i, subject |-> s, expiration |-> e, accepted |-> FALSE]
      BY Zenon
    <3>4. c \in Credential
      BY <3>2, <3>3 DEF Credential
    <3> QED BY <3>1, <3>3, <3>4, Zenon DEF CredentialInv
  <2>2. CASE Issued!accept(i, s)
    <3>1. PICK c \in credentials : credentials' = (credentials \ {c}) \cup {[c EXCEPT !.accepted = TRUE]}
      BY <2>2 DEF Issued!accept, Issued!Of
    <3>2. c \in Credential
      BY Zenon DEF CredentialInv
    <3>3. [c EXCEPT !.accepted = TRUE] \in Credential
      BY <3>2, Zenon DEF Credential
    <3> QED BY <3>1, <3>3, Zenon DEF CredentialInv
  <2>3. CASE Issued!revoke(i, s)
    BY <2>3, Zenon DEF Issued!revoke, CredentialInv
  <2> QED BY <2>1, <2>2, <2>3, Zenon
<1>3. ASSUME NEW l \in Lookup PROVE LookupInv(l)'
  BY <1>1, Zenon DEF CredentialInv, LookupInv, AskedFor
<1> QED BY <1>1, <1>2, <1>3, Zenon DEF CredentialInv

\* What verifyCredential returns is the credential asked for and had not
\* expired when the call returned, however many credentials are issued,
\* accepted and revoked while account_objects is awaited.
THEOREM VerifiedAreUnexpired ==
    ASSUME MaxClock \in Nat
    PROVE  Issued!Spec => []Issued!VerifiedIsUnexpired
<1>1. Issued!Init => CredentialInv
  <2> SUFFICES ASSUME Issued!Init PROVE CredentialInv
    BY Zenon
  <2>1. clock \in Nat /\ credentials = {} /\ lookups = [l \in Lookup |-> Issued!Idle]
    BY Zenon DEF Issued!Init
  <2>2. \A l \in Lookup : lookups[l].pc = "idle"
    BY <2>1, Zenon DEF Issued!Idle
  <2> QED BY <2>1, <2>2, Zenon DEF CredentialInv, LookupInv
<1>2. CredentialInv /\ [Issued!Next]_(Issued!vars) => CredentialInv'
  <2> SUFFICES ASSUME CredentialInv, [Issued!Next]_(Issued!vars) PROVE CredentialInv'
    BY Zenon
  <2>1. CASE UNCHANGED Issued!vars
    BY <2>1, Zenon DEF Issued!vars, CredentialInv, LookupInv, AskedFor
  <2>2. CASE Issued!Tick
    BY <2>2 DEF Issued!Tick, CredentialInv, LookupInv, AskedFor
  <2>3. CASE Issued!Next /\ ~Issued!Tick
    BY <2>3, LedgerKeeps, LookupReads, LookupCompares, Zenon DEF Issued!Next
  <2> QED BY <2>1, <2>2, <2>3, Zenon
<1>3. CredentialInv => Issued!VerifiedIsUnexpired
  BY Zenon DEF CredentialInv, LookupInv, AskedFor, Issued!VerifiedIsUnexpired, Issued!Returned
<1> QED BY <1>1, <1>2, <1>3, PTL DEF Issued!Spec

-----------------------------------------------------------------------------
(* MultisigService: the holder account has no signer list or the one of    *)
(* the three parties.                                                      *)

SignerInv ==
    /\ holder.list \in {Holder!NoList, Holder!buildSignerListSet}
    /\ holder = [list |-> holder.list, master |-> holder.master, seq |-> holder.seq,
                 funds |-> holder.funds]
    /\ Holder!TwoOfThreeMove

\* Whatever is applied, the list stays one of the two, and a payment is signed
\* by the master key or by two of the parties.
LEMMA AppliedKeeps ==
    ASSUME SignerInv, NEW op, NEW by, Holder!Apply(op, by),
           holder.master \/ Holder!Cardinality(by \cap Holder!Parties) >= 2
    PROVE  SignerInv'
<1>1. /\ holder'.list \in {holder.list, Holder!NoList, Holder!buildSignerListSet}
      /\ holder' = [list |-> holder'.list, master |-> holder'.master, seq |-> holder'.seq,
                    funds |-> holder'.funds]
  BY Zenon DEF SignerInv, Holder!Apply
<1>2. \/ log' = Holder!Nothing
      \/ log' = [what |-> "paid", by |-> by, master |-> holder.master]
  BY Zenon DEF Holder!Apply
<1>3. Holder!TwoOfThreeMove'
  BY <1>2 DEF Holder!TwoOfThreeMove, Holder!TwoPartiesMove, Holder!RefusedHasCause, Holder!Nothing
<1> QED BY <1>1, <1>3, Zenon DEF SignerInv

\* A step that neither submits for the account nor answers.
LEMMA SignersKept ==
    ASSUME SignerInv, UNCHANGED log,
           holder' = holder \/ holder' = [holder EXCEPT !.funds = 1]
    PROVE  SignerInv'
BY Zenon DEF SignerInv, Holder!TwoOfThreeMove, Holder!TwoPartiesMove, Holder!RefusedHasCause

\* broadcast: the credentials takes the blobs or refuses them.
LEMMA BroadcastKeeps ==
    ASSUME SignerInv, NEW d \in Draft, Holder!broadcast(d)
    PROVE  SignerInv'
<1>1. PICK t : t = drafts[d]
  BY Zenon
<1>2. CASE Holder!Accepts(t)
  <2>1. /\ holder.list = Holder!buildSignerListSet /\ t.signers \subseteq Holder!Parties
        /\ t.blobs = Holder!Cardinality(t.signers) /\ t.blobs >= 2
    BY <1>2 DEF Holder!Accepts, SignerInv, Holder!buildSignerListSet
  <2>2. t.signers \cap Holder!Parties = t.signers
    BY <2>1, Zenon
  <2> QED BY <1>1, <1>2, <2>1, <2>2, AppliedKeeps, Zenon DEF Holder!broadcast
<1>3. CASE ~Holder!Accepts(t)
  <2>1. /\ log' = [what |-> "refused",
                   parties |-> t.signers \subseteq Holder!Parties /\ t.blobs = Holder!Cardinality(t.signers),
                   listed |-> holder.list # Holder!NoList, stale |-> ~t.fresh \/ t.seq # holder.seq]
        /\ UNCHANGED holder /\ t.blobs >= 2
    BY <1>1, <1>3, Zenon DEF Holder!broadcast
  <2>2. ASSUME log'.parties, log'.listed PROVE log'.stale
    <3>1. /\ t.signers \subseteq Holder!Parties /\ t.blobs = Holder!Cardinality(t.signers)
          /\ holder.list # Holder!NoList
      BY <2>1, <2>2, Zenon
    <3>2. holder.list.entries = Holder!Parties /\ holder.list.quorum = 2
      BY <3>1 DEF SignerInv, Holder!buildSignerListSet
    <3>3. ~t.fresh \/ t.seq # holder.seq
      BY <1>3, <2>1, <3>1, <3>2, Zenon DEF Holder!Accepts
    <3> QED BY <2>1, <3>3, Zenon
  <2>3. log'.what = "refused"
    BY <2>1, Zenon
  <2>4. Holder!TwoOfThreeMove'
    BY <2>2, <2>3, Zenon DEF Holder!TwoOfThreeMove, Holder!TwoPartiesMove, Holder!RefusedHasCause
  <2> QED BY <2>1, <2>4, Zenon DEF SignerInv
<1> QED BY <1>2, <1>3, Zenon

\* Once the master key is off, two of the three parties are needed to pay out of
\* the holder account; and two suffice unless there is no signer list or the draft
\* was overtaken while it was being signed.
THEOREM TwoOfThreeSign == Holder!Spec => []Holder!TwoOfThreeMove
<1>1. Holder!Init => SignerInv
  BY DEF Holder!Init, SignerInv, Holder!TwoOfThreeMove, Holder!TwoPartiesMove,
         Holder!RefusedHasCause, Holder!Nothing
<1>2. SignerInv /\ [Holder!Next]_(Holder!vars) => SignerInv'
  <2> SUFFICES ASSUME SignerInv, [Holder!Next]_(Holder!vars) PROVE SignerInv'
    BY Zenon
  <2>1. CASE UNCHANGED Holder!vars
    BY <2>1, SignersKept, Zenon DEF Holder!vars
  <2>2. CASE Holder!Tick \/ Holder!LedgersClose \/ Holder!CreateDeposit \/ Holder!CreateStake
    BY <2>2, SignersKept, Zenon DEF Holder!Tick, Holder!LedgersClose, Holder!CreateDeposit,
                             Holder!CreateStake
  <2>3. ASSUME NEW k \in {"deposit", "stake"}, Holder!Finish(k) \/ Holder!Cancel(k)
        PROVE  SignerInv'
    BY <2>3, SignersKept DEF Holder!Finish, Holder!Cancel
  <2>4. ASSUME NEW op \in Holder!Op, Holder!signAndSubmit(op) PROVE SignerInv'
    BY <2>4, AppliedKeeps, Zenon DEF Holder!signAndSubmit
  <2>5. ASSUME NEW d \in Draft, NEW op \in Prepared, Holder!prepare(d, op) PROVE SignerInv'
    BY <2>5, SignersKept, Zenon DEF Holder!prepare
  <2>6. ASSUME NEW d \in Draft, NEW w \in Holder!Wallets, Holder!signFor(d, w) PROVE SignerInv'
    BY <2>6, SignersKept DEF Holder!signFor
  <2> QED BY <2>1, <2>2, <2>3, <2>4, <2>5, <2>6, BroadcastKeeps, Zenon DEF Holder!Next
<1>3. SignerInv => Holder!TwoOfThreeMove
  BY Zenon DEF SignerInv
<1> QED BY <1>1, <1>2, <1>3, PTL DEF Holder!Spec

-----------------------------------------------------------------------------
(* EscrowService and condition.ts.                                         *)

\* An escrow of the lease carries its window and the length of its preimage.
EscrowInv ==
    /\ DOMAIN escrows = {"deposit", "stake"}
    /\ \A k \in {"deposit", "stake"} :
         \/ escrows[k] = Holder!NoEscrow
         \/ \E st \in {"pending", "finished", "cancelled"} : \E n \in Lengths \cup {0} :
              escrows[k] = [status |-> st, finishAfter |-> LeaseEnd + 7,
                            cancelAfter |-> LeaseEnd + 30, preimage |-> n]

\* What a joined sequence is: the first, then the second.
Joining ==
    \A h, p \in Seq(Nat) :
      /\ h \o p \in Seq(Nat)
      /\ Len(h \o p) = Len(h) + Len(p)
      /\ \A i \in 1 .. Len(h) + Len(p) :
           (h \o p)[i] = IF i <= Len(h) THEN h[i] ELSE p[i - Len(h)]

\* The bytes from the fifth on.
LEMMA FromFifth ==
    ASSUME NEW f \in Seq(Nat), NEW n \in 1 .. 125, Len(f) = n + 4
    PROVE  /\ SubSeq(f, 5, n + 4) \in Seq(Nat) /\ Len(SubSeq(f, 5, n + 4)) = n
           /\ \A i \in 1 .. n : SubSeq(f, 5, n + 4)[i] = f[i + 4]
<1>1. SubSeq(f, 5, n + 4) \in Seq(Nat) /\ Len(SubSeq(f, 5, n + 4)) = n
  OBVIOUS
<1>2. ASSUME NEW i \in 1 .. n PROVE SubSeq(f, 5, n + 4)[i] = f[i + 4]
  OBVIOUS
<1> QED BY <1>1, <1>2

\* What follows a header of four bytes is read back from the fifth on.
LEMMA AfterHeader ==
    ASSUME Joining, NEW h \in Seq(Nat), NEW p \in Seq(Nat), NEW n \in 1 .. 125,
           Len(h) = 4, Len(p) = n
    PROVE  \E f : /\ f = h \o p /\ Len(f) = n + 4 /\ f[2] = h[2] /\ f[4] = h[4]
                  /\ SubSeq(f, 5, n + 4) = p
<1>1. PICK f \in Seq(Nat) : f = h \o p
  BY Zenon DEF Joining
<1>2. Len(f) = n + 4 /\ f[2] = h[2] /\ f[4] = h[4] /\ \A i \in 1 .. n : f[i + 4] = p[i]
  <2>1. /\ Len(f) = Len(h) + Len(p)
        /\ \A i \in 1 .. Len(h) + Len(p) : f[i] = IF i <= Len(h) THEN h[i] ELSE p[i - Len(h)]
    BY <1>1, Zenon DEF Joining
  <2>2. /\ Len(f) = 4 + n
        /\ \A i \in 1 .. 4 + n : f[i] = IF i <= 4 THEN h[i] ELSE p[i - 4]
    BY <2>1, Zenon
  <2>3. f[2] = h[2] /\ f[4] = h[4]
    BY <2>2
  <2>4. ASSUME NEW i \in 1 .. n PROVE f[i + 4] = p[i]
    <3>1. i + 4 \in 1 .. 4 + n /\ ~(i + 4 <= 4) /\ i + 4 - 4 = i
      OBVIOUS
    <3> QED BY <2>2, <3>1
  <2> QED BY <2>2, <2>3, <2>4
<1>3. PICK q : q = SubSeq(f, 5, n + 4)
  BY Zenon
<1>4. q \in Seq(Nat) /\ Len(q) = n /\ \A i \in 1 .. n : q[i] = f[i + 4]
  BY <1>2, <1>3, FromFifth, Zenon
<1>5. \A i \in 1 .. n : q[i] = p[i]
  BY <1>2, <1>4
<1>6. q = p
  BY <1>4, <1>5
<1> QED BY <1>1, <1>2, <1>3, <1>6, Zenon

\* The preimage of a fulfillment is read back as it was written, and both DER
\* lengths fit in a byte up to 125 bytes (buildPreimageCondition,
\* restoreConditionFromFulfillment).
LEMMA PreimageReadBack ==
    ASSUME Joining, NEW n \in 1 .. 125, NEW p, NEW f, p = Holder!Preimage(n),
           f = Holder!buildPreimageCondition(p).fulfillment
    PROVE  /\ f # << >> /\ Holder!Parses(f)
           /\ f[4] = n /\ Len(f) = n + 4 /\ SubSeq(f, 5, n + 4) = p
<1>1. p \in Seq(Nat) /\ Len(p) = n
  BY DEF Holder!Preimage
<1>2. PICK h : h = <<160, n + 2, 128, n>>
  BY Zenon
<1>3. h \in Seq(Nat) /\ Len(h) = 4 /\ h[2] = n + 2 /\ h[4] = n
  BY <1>2
<1>4. f = h \o p
  BY <1>1, <1>2 DEF Holder!buildPreimageCondition
<1>5. /\ Len(f) = n + 4 /\ f[2] = n + 2 /\ f[4] = n
      /\ SubSeq(f, 5, n + 4) = p
  <2>1. h \in Seq(Nat) /\ p \in Seq(Nat) /\ Len(h) = 4 /\ Len(p) = n
    BY <1>1, <1>3
  <2>2. PICK g : /\ g = h \o p /\ Len(g) = n + 4 /\ g[2] = h[2] /\ g[4] = h[4]
                 /\ SubSeq(g, 5, n + 4) = p
    BY <2>1, AfterHeader, Zenon
  <2>3. f = g
    BY <1>4, <2>2, Zenon
  <2> QED BY <1>3, <2>2, <2>3, Zenon
<1>6. f # << >>
  BY <1>5
<1> QED BY <1>5, <1>6 DEF Holder!Parses

\* The finish built from an escrow's fulfillment is one the ledger takes.
LEMMA FulfillmentMatches ==
    ASSUME Joining, NEW e, NEW n \in 0 .. 125, e.preimage = n
    PROVE  Holder!Matches(e, Holder!buildFinish(Holder!Fulfillment(e)))
<1>1. CASE n = 0
  BY <1>1, Zenon DEF Holder!Matches, Holder!buildFinish, Holder!Fulfillment
<1>2. CASE n # 0
  <2>1. PICK p : p = Holder!Preimage(n)
    BY Zenon
  <2>2. PICK f : f = Holder!buildPreimageCondition(p).fulfillment
    BY Zenon
  <2>3. PICK c : c = Holder!buildPreimageCondition(p).condition
    BY Zenon
  <2>4. Holder!Fulfillment(e) = f /\ Holder!Condition(e) = c
    BY <1>2, <2>1, <2>2, <2>3, Zenon DEF Holder!Fulfillment, Holder!Condition
  <2>5. /\ f # << >> /\ Holder!Parses(f)
        /\ f[4] = n /\ Len(f) = n + 4 /\ SubSeq(f, 5, n + 4) = p
    <3>1. n \in 1 .. 125
      BY <1>2
    <3> QED BY <3>1, <2>1, <2>2, PreimageReadBack, Zenon
  <2>6. Holder!restoreConditionFromFulfillment(f) = c
    <3>1. SubSeq(f, 5, 4 + f[4]) = p
      BY <2>5
    <3> QED BY <2>3, <3>1, Zenon DEF Holder!restoreConditionFromFulfillment
  <2>7. c[5] = Holder!Sha256(p)
    BY <2>3, Zenon DEF Holder!buildPreimageCondition
  <2>8. PICK tx : tx = Holder!buildFinish(f)
    BY Zenon
  <2>9. tx.fulfillment = f /\ tx.condition = c
    BY <2>5, <2>6, <2>8, Zenon DEF Holder!buildFinish
  <2>10. Holder!Matches(e, tx)
    BY <1>2, <2>4, <2>5, <2>7, <2>9, Zenon DEF Holder!Matches
  <2> QED BY <2>4, <2>8, <2>10
<1> QED BY <1>1, <1>2, Zenon

\* An escrow is replaced by one of the lease's.
LEMMA EscrowReplaced ==
    ASSUME EscrowInv, NEW k \in {"deposit", "stake"}, NEW e,
           escrows' = [escrows EXCEPT ![k] = e],
           NEW st \in {"pending", "finished", "cancelled"}, NEW n \in Lengths \cup {0},
           e = [status |-> st, finishAfter |-> LeaseEnd + 7,
                cancelAfter |-> LeaseEnd + 30, preimage |-> n]
    PROVE  EscrowInv'
<1>1. DOMAIN escrows' = {"deposit", "stake"} /\ escrows'[k] = e
  BY Zenon DEF EscrowInv
<1>2. ASSUME NEW j \in {"deposit", "stake"}, j # k PROVE escrows'[j] = escrows[j]
  BY <1>2, Zenon DEF EscrowInv
<1> QED BY <1>1, <1>2 DEF EscrowInv

\* Every step keeps the escrows as they were agreed.
LEMMA EscrowStep == EscrowInv /\ [Holder!Next]_(Holder!vars) => EscrowInv'
<1> SUFFICES ASSUME EscrowInv, [Holder!Next]_(Holder!vars) PROVE EscrowInv'
  BY Zenon
<1>1. CASE UNCHANGED escrows
  BY <1>1, Zenon DEF EscrowInv
<1>2. CASE Holder!CreateDeposit
  BY <1>2, EscrowReplaced, Zenon DEF Holder!CreateDeposit, Holder!buildDepositEscrow
<1>3. CASE Holder!CreateStake
  BY <1>3, EscrowReplaced, Zenon DEF Holder!CreateStake, Holder!buildStakeEscrow
<1>4. ASSUME NEW k \in {"deposit", "stake"}, Holder!Finish(k) \/ Holder!Cancel(k)
      PROVE  EscrowInv'
  <2>1. PICK st \in {"finished", "cancelled"} :
          escrows' = [escrows EXCEPT ![k] = [escrows[k] EXCEPT !.status = st]]
    BY <1>4, Zenon DEF Holder!Finish, Holder!Cancel
  <2>2. escrows[k] # Holder!NoEscrow
    BY <1>4 DEF Holder!Finish, Holder!Cancel, Holder!NoEscrow
  <2>3. PICK s \in {"pending", "finished", "cancelled"}, n \in Lengths \cup {0} :
          escrows[k] = [status |-> s, finishAfter |-> LeaseEnd + 7,
                        cancelAfter |-> LeaseEnd + 30, preimage |-> n]
    BY <2>2, Zenon DEF EscrowInv
  <2>4. [escrows[k] EXCEPT !.status = st] =
          [status |-> st, finishAfter |-> LeaseEnd + 7,
           cancelAfter |-> LeaseEnd + 30, preimage |-> n]
    BY <2>3
  <2> QED BY <2>1, <2>4, EscrowReplaced, Zenon
<1>5. CASE Holder!Tick \/ Holder!LedgersClose
  BY <1>1, <1>5, Zenon DEF Holder!Tick, Holder!LedgersClose
<1>6. ASSUME NEW op, Holder!signAndSubmit(op) PROVE EscrowInv'
  BY <1>1, <1>6, Zenon DEF Holder!signAndSubmit
<1>7. ASSUME NEW d, NEW x, Holder!prepare(d, x) \/ Holder!signFor(d, x) \/ Holder!broadcast(d)
      PROVE  EscrowInv'
  BY <1>1, <1>7 DEF Holder!prepare, Holder!signFor, Holder!broadcast
<1> QED BY <1>1, <1>2, <1>3, <1>4, <1>5, <1>6, <1>7, Zenon DEF Holder!Next, Holder!vars

\* The invariant gives the agreed ends.
LEMMA EscrowEnds ==
    Joining /\ LeaseEnd \in Nat /\ Lengths \subseteq 1 .. 125 /\ EscrowInv
      => Holder!EscrowsEndAsAgreed
<1> SUFFICES ASSUME Joining, LeaseEnd \in Nat, Lengths \subseteq 1 .. 125, EscrowInv
             PROVE  Holder!EscrowsEndAsAgreed
  BY Zenon
<1>1. ASSUME NEW k \in {"deposit", "stake"}, escrows[k].status = "pending"
      PROVE  escrows[k].cancelAfter = LeaseEnd + 30 /\ escrows[k].preimage \in 0 .. 125
  <2>1. escrows[k] # Holder!NoEscrow
    <3>1. Holder!NoEscrow.status = "none"
      BY Zenon DEF Holder!NoEscrow
    <3>2. "none" # "pending"
      BY Zenon
    <3> QED BY <1>1, <3>1, <3>2, Zenon
  <2>2. PICK st \in {"pending", "finished", "cancelled"}, n \in Lengths \cup {0} :
          escrows[k] = [status |-> st, finishAfter |-> LeaseEnd + 7,
                        cancelAfter |-> LeaseEnd + 30, preimage |-> n]
    BY <2>1, Zenon DEF EscrowInv
  <2>3. escrows[k].cancelAfter = LeaseEnd + 30 /\ escrows[k].preimage = n
    BY <2>2
  <2>4. n \in 0 .. 125
    OBVIOUS
  <2> QED BY <2>3, <2>4, Zenon
<1>2. Holder!ExpireTogether
  BY <1>1, Zenon DEF Holder!ExpireTogether, Holder!Cancellable
<1>3. Holder!FulfillmentReleases
  BY <1>1, FulfillmentMatches, Zenon DEF Holder!FulfillmentReleases
<1> QED BY <1>2, <1>3, Zenon DEF Holder!EscrowsEndAsAgreed

INSTANCE FiniteSetTheorems

\* Ledgers are finitely many.
LEMMA DatesAreCounted == Dates => Calendar
<1> SUFFICES ASSUME Dates PROVE Calendar
  BY Zenon
<1>1. IsFiniteSet(1..Ledgers)
  BY FS_Interval DEF Dates
<1>2. ASSUME NEW S \in SUBSET (1..Ledgers)
      PROVE  /\ Cardinality(S) \in Nat
             /\ \A l \in 1..Ledgers : l \notin S => Cardinality(S \cup {l}) = Cardinality(S) + 1
             /\ \A T \in SUBSET S : Cardinality(T) <= Cardinality(S)
  <2>1. IsFiniteSet(S)
    BY <1>1, FS_Subset, Zenon
  <2> QED BY <2>1, FS_Subset, FS_CardinalityType, FS_AddElement, Zenon
<1> QED BY <1>2, FS_EmptySet, Zenon DEF Dates, Calendar

(***************************************************************************)
(* However often a ledger is reported, wherever a process stops between    *)
(* recording and counting it, and whichever patch writes its old row over  *)
(* the count, no row counts a ledger twice or one of another month; and    *)
(* parties are told of a confirmed month only when it was confirmed,       *)
(* unless writes of the month overlapped (handleLedgerClosed,              *)
(* touchSettlementsOnLedgerClose, PATCH /v1/settlements/:id/status).       *)
(***************************************************************************)
THEOREM MonthsAreAccounted ==
    ASSUME Dates
    PROVE  Months!Spec => []Months!SettlementsAddUp
<1> USE DatesAreCounted
<1>1. MonthInv /\ [Months!Next]_Months!vars => MonthInv'
  BY MonthStep
<1>2. Months!Init => MonthInv
  BY MonthInit
<1>3. MonthInv => Months!SettlementsAddUp
  BY MonthsAddUp
<1> QED BY <1>1, <1>2, <1>3, PTL DEF Months!Spec

(***************************************************************************)
(* A row of a month whose writes did not overlap moves along the table of  *)
(* transitions, never loses a count, and keeps its counters once archived  *)
(* (settlementTransitionAllowed, touchSettlementsOnLedgerClose).           *)
(***************************************************************************)
THEOREM MonthsMoveInOrder ==
    ASSUME Dates
    PROVE  Months!Spec => [][Months!RowMoves]_Months!vars
<1> USE DatesAreCounted
<1>1. MonthInv /\ [Months!Next]_Months!vars => MonthInv'
  BY MonthStep
<1>2. Months!Init => MonthInv
  BY MonthInit
<1>3. MonthInv /\ [Months!Next]_Months!vars => [Months!RowMoves]_Months!vars
  BY MonthStep
<1> QED BY <1>1, <1>2, <1>3, PTL DEF Months!Spec

INSTANCE SequenceTheorems

\* Sequences are joined as said.
LEMMA JoinsHold == Joining
BY ConcatProperties, Zenon DEF Joining

\* Both escrows of a lease can be cancelled or neither can, and within its window
\* the deposit is released by the fulfillment of its condition, for any lease end
\* and any preimage of at most 125 bytes.
THEOREM EscrowsEnd ==
    ASSUME LeaseEnd \in Nat, Lengths \subseteq 1 .. 125
    PROVE  Holder!Spec => []Holder!EscrowsEndAsAgreed
<1>1. Holder!Init => EscrowInv
  BY DEF Holder!Init, EscrowInv
<1>2. EscrowInv /\ [Holder!Next]_(Holder!vars) => EscrowInv'
  BY EscrowStep, Zenon
<1>3. EscrowInv => Holder!EscrowsEndAsAgreed
  BY JoinsHold, EscrowEnds
<1> QED BY <1>1, <1>2, <1>3, PTL DEF Holder!Spec

=============================================================================
