---------------------------- MODULE Settlements ----------------------------
(***************************************************************************)
(* Monthly settlement rows of be2-ops.  Every connection to the ledger     *)
(* reports closed ledgers, some twice; the first report of a ledger is     *)
(* recorded and then counted in the row of its month, in two statements.   *)
(* Operators patch the same rows: they read a row and later write it back  *)
(* whole, counters included.  The rows of one contract are modelled.       *)
(***************************************************************************)
EXTENDS Integers, FiniteSets

CONSTANTS
    Feed,                 \* ledger-closed handlers in flight at a time
    Patcher,              \* status patches in flight at a time
    Ledgers,              \* ledgers 1..Ledgers close
    PerMonth,             \* how many ledgers close in one calendar month
    MaxPatches            \* bound on status patches

VARIABLES
    settlements,          \* the settlements table, by month
    ingested,             \* ledgers in xrpl_ingestion_events
    feeds,                \* the ledger a handler has recorded and not yet counted, or 0
    patchers,             \* the patches in flight and the row each one holds
    eligible,             \* the contract is active or escrow_validated
    announced,            \* outbox keys: <<event type, month>>
    patches, overlap      \* patches made; months where a write met an open patch

vars == <<settlements, ingested, feeds, patchers, eligible, announced, patches, overlap>>

Month == 0..((Ledgers - 1) \div PerMonth)

\* calendarMonthFromLedgerStream.
MonthOf(l) == (l - 1) \div PerMonth

NoRow == [status |-> "none", last |-> 0, count |-> 0, amount |-> 0, confirmed |-> FALSE]
Away == [pc |-> "free", month |-> 0, row |-> NoRow, events |-> {}]

Init ==
    /\ settlements = [m \in Month |-> NoRow]
    /\ ingested = {}
    /\ feeds = [f \in Feed |-> 0]
    /\ patchers = [p \in Patcher |-> Away]
    /\ eligible = TRUE
    /\ announced = {}
    /\ patches = 0
    /\ overlap = {}

HeldBy(m, p) == patchers[p].pc = "save" /\ patchers[p].month = m

-----------------------------------------------------------------------------

(* The ledger stream.                                                      *)

\* Mutant: a repeated report of a ledger counts again.
HandleEveryReport(f, l) ==
    /\ feeds[f] = 0
    /\ ingested' = ingested \cup {l}
    /\ feeds' = [feeds EXCEPT ![f] = l]
    /\ UNCHANGED <<settlements, patchers, eligible, announced, patches, overlap>>

\* tryRecordXrplIngestionEvent: the first report wins, later ones end here.
HandleLedgerClosed(f, l) ==
    /\ feeds[f] = 0
    /\ l \notin ingested
    /\ ingested' = ingested \cup {l}
    /\ feeds' = [feeds EXCEPT ![f] = l]
    /\ UNCHANGED <<settlements, patchers, eligible, announced, patches, overlap>>

\* The row the upsert leaves: a new one, a counted one, or an archived one as
\* it was.
Touched(row, l) ==
    CASE row.status = "none" -> [NoRow EXCEPT !.status = "collecting", !.last = l, !.count = 1]
      [] row.status = "archived" -> row
      [] OTHER -> [row EXCEPT !.last = l, !.count = @ + 1]

TouchSettlementsOnLedgerClose(f) ==
    LET m == MonthOf(feeds[f])
    IN  /\ feeds[f] # 0
        /\ settlements' = IF eligible
                          THEN [settlements EXCEPT ![m] = Touched(@, feeds[f])]
                          ELSE settlements
        /\ overlap' = IF \E p \in Patcher : HeldBy(m, p) THEN overlap \cup {m} ELSE overlap
        /\ feeds' = [feeds EXCEPT ![f] = 0]
        /\ UNCHANGED <<ingested, patchers, eligible, announced, patches>>

\* The process stops between the two statements: the ledger stays recorded.
CountLost(f) ==
    /\ feeds[f] # 0
    /\ feeds' = [feeds EXCEPT ![f] = 0]
    /\ UNCHANGED <<settlements, ingested, patchers, eligible, announced, patches, overlap>>

\* The contract is closed or cancelled.
ContractEnds ==
    /\ eligible
    /\ eligible' = FALSE
    /\ UNCHANGED <<settlements, ingested, feeds, patchers, announced, patches, overlap>>

-----------------------------------------------------------------------------
(* PATCH /v1/settlements/:settlementId/status.                             *)

SettlementTransitionAllowed(from, to) ==
    \/ from = to
    \/ from # "archived" /\ to = "archived"
    \/ from = "collecting" /\ to \in {"accrued", "confirmed"}
    \/ from = "accrued" /\ to = "confirmed"

\* What the patch will put into the outbox.
Events(row, to, amount) ==
    {e \in {"financials_attached", "accrued", "confirmed"} :
        \/ e = "financials_attached" /\ amount # row.amount
        \/ e = to}

PatchRead(p, m, to, amount) ==
    LET row == settlements[m]
    IN  /\ patchers[p].pc = "free"
        /\ patches < MaxPatches
        /\ patches' = patches + 1
        /\ row.status # "none"
        /\ SettlementTransitionAllowed(row.status, to)
        /\ patchers' = [patchers EXCEPT ![p] =
               [pc |-> "save", month |-> m,
                row |-> [row EXCEPT !.status = to, !.amount = amount,
                                    !.confirmed = @ \/ to = "confirmed"],
                events |-> Events(row, to, amount)]]
        /\ overlap' = IF \E q \in Patcher : HeldBy(m, q) THEN overlap \cup {m} ELSE overlap
        /\ UNCHANGED <<settlements, ingested, feeds, eligible, announced>>

\* saveSettlement writes every column, the counters too.
SaveSettlement(p) ==
    /\ patchers[p].pc = "save"
    /\ settlements' = [settlements EXCEPT ![patchers[p].month] = patchers[p].row]
    /\ patchers' = [patchers EXCEPT ![p].pc = "notify"]
    /\ UNCHANGED <<ingested, feeds, eligible, announced, patches, overlap>>

\* The notifications; an idempotency key that is there already adds nothing.
Notify(p) ==
    /\ patchers[p].pc = "notify"
    /\ announced' = announced \cup {<<e, patchers[p].month>> : e \in patchers[p].events}
    /\ patchers' = [patchers EXCEPT ![p] = Away]
    /\ UNCHANGED <<settlements, ingested, feeds, eligible, patches, overlap>>

\* The request dies before its save, or before its notifications.
PatchDies(p) ==
    /\ patchers[p].pc # "free"
    /\ patchers' = [patchers EXCEPT ![p] = Away]
    /\ UNCHANGED <<settlements, ingested, feeds, eligible, announced, patches, overlap>>

Next ==
    \/ \E f \in Feed :
          \/ \E l \in 1..Ledgers : HandleLedgerClosed(f, l)
          \/ TouchSettlementsOnLedgerClose(f) \/ CountLost(f)
    \/ \E p \in Patcher :
          \/ \E m \in Month, amount \in {0, 1},
                to \in {"collecting", "accrued", "confirmed", "archived"} :
                PatchRead(p, m, to, amount)
          \/ SaveSettlement(p) \/ Notify(p) \/ PatchDies(p)
    \/ ContractEnds

Spec == Init /\ [][Next]_vars

-----------------------------------------------------------------------------
\* The table, the handlers and the outbox keys hold values of the program's
\* types.
TypeOK ==
    LET Row == [status : {"none", "collecting", "accrued", "confirmed", "archived"},
                last : 0..Ledgers, count : Nat, amount : {0, 1}, confirmed : BOOLEAN]
    IN  /\ settlements \in [Month -> Row]
        /\ ingested \subseteq 1..Ledgers
        /\ feeds \in [Feed -> 0..Ledgers]
        /\ patchers \in [Patcher -> [pc : {"free", "save", "notify"}, month : Month,
                row : Row, events : SUBSET {"financials_attached", "accrued", "confirmed"}]]
        /\ overlap \subseteq Month

InMonth(m) == {l \in ingested : MonthOf(l) = m}

\* However often a ledger is reported and whoever writes over the row, no
\* ledger is counted twice and none in a month it did not close in.
CountedOnce ==
    \A m \in Month :
        /\ settlements[m].count <= Cardinality(InMonth(m))
        /\ settlements[m].last \in InMonth(m) \cup {0}

\* Parties are told that a month is confirmed only when it is, or was before
\* it was archived, unless writes of the month overlapped.
ConfirmedWasConfirmed ==
    \A m \in Month \ overlap :
        <<"confirmed", m>> \in announced => settlements[m].confirmed

\* A write never moves a row against the table of transitions, and an archived
\* row keeps its counters, unless writes of the month overlapped.
RowMoves ==
    \A m \in Month \ overlap' :
       LET old == settlements[m] new == settlements'[m]
       IN  /\ old.status # "none" => SettlementTransitionAllowed(old.status, new.status)
           /\ old.status = "archived" =>
                  new.count = old.count /\ new.last = old.last
           /\ new.count >= old.count

\* The rows of the months agree with the ledgers that closed and with what the
\* parties were told (handleLedgerClosed, touchSettlementsOnLedgerClose, PATCH
\* status).
SettlementsAddUp ==
  /\ TypeOK
  /\ CountedOnce
  /\ ConfirmedWasConfirmed
=============================================================================
