------------------------------- MODULE Listing -------------------------------
(***************************************************************************)
(* The paged lists of be2-ops: contracts, disputes and transactions are    *)
(* ordered by the time of their last write, newest first, settlements by a *)
(* key that never changes; rows are filtered, counted, and cut out by      *)
(* LIMIT and OFFSET.  On Postgres a page is two queries, and between them, *)
(* as between two pages of one reader, rows are created and written.  The  *)
(* reader that asks for page after page until the total is external.       *)
(***************************************************************************)
EXTENDS Naturals, Sequences, FiniteSets, FiniteSetsExt, SequencesExt

CONSTANTS
  Row,        \* row ids
  Limit,      \* the page size the reader asks for
  MaxClock,   \* the clock's last tick
  MaxWrites   \* bound on the writes

VARIABLES
  store,    \* "memory" (a page is one step) or "postgres" (two queries)
  list,     \* the list being read
  rows,     \* its table: sort key, whether the row has the status asked for,
            \* and whether its contract is the calling tenant's
  clock,
  reader,   \* the reader's walk over the pages
  writes    \* writes so far

vars == <<store, list, rows, clock, reader, writes>>

Absent == [key |-> 0, match |-> FALSE, mine |-> FALSE]

Start == [pc |-> "count", offset |-> 0, total |-> 0, seen |-> {}, page |-> 0,
          stayed |-> {}, left |-> FALSE, joined |-> FALSE,
          raced |-> FALSE, tied |-> FALSE]

Init ==
  /\ store \in {"memory", "postgres"}
  /\ list \in {"contracts", "disputes", "transactions", "settlements", "outbox"}
  /\ rows = [r \in Row |-> Absent]
  /\ clock = 1
  /\ reader = [Start EXCEPT !.pc = "idle"]
  /\ writes = 0

\* The filter of each list.  A tenant's list of contracts is narrowed to the
\* tenant's own by the route; the list of settlements is narrowed row by row
\* after the page was cut, so that its total counts the others too.
contracts(r) == rows[r].match /\ rows[r].mine
disputes(r) == rows[r].match
transactions(r) == rows[r].match
settlements(r) == rows[r].match
outbox(r) == rows[r].match

Matching ==
  {r \in Row : CASE list = "contracts" -> contracts(r)
                 [] list = "disputes" -> disputes(r)
                 [] list = "transactions" -> transactions(r)
                 [] list = "settlements" -> settlements(r)
                 [] OTHER -> outbox(r)}

canAccessSettlement(r) == list = "settlements" => rows[r].mine
Owners == IF list \in {"contracts", "settlements"} THEN BOOLEAN ELSE {FALSE}

\* updated_at and last_checked_at move with every write; a settlement's period
\* and contract, and an outbox row's created_at, do not.
Resorted == list \in {"contracts", "disputes", "transactions"}

Tick == clock < MaxClock /\ clock' = clock + 1 /\ UNCHANGED <<store, list, rows, reader, writes>>

\* saveContract, saveDispute, saveXrplTx stamp the row; a settlement keeps its
\* period and contract.  The write may change whether the filter holds.
Write(r) ==
  /\ writes < MaxWrites /\ writes' = writes + 1
  /\ \E m \in BOOLEAN, own \in IF rows[r] = Absent THEN Owners ELSE {rows[r].mine} :
       /\ \E k \in IF Resorted THEN {clock}
                   ELSE IF rows[r] = Absent THEN 1..MaxClock ELSE {rows[r].key} :
            rows' = [rows EXCEPT ![r] = [key |-> k, match |-> m, mine |-> own]]
       /\ reader' = [reader EXCEPT
            !.stayed = @ \ {r},
            !.left = @ \/ (rows[r].match /\ ~m),
            !.joined = @ \/ (m /\ ~rows[r].match)]
  /\ UNCHANGED <<store, list, clock>>

\* The reader starts over at offset 0.
Begin ==
  /\ reader.pc = "idle"
  /\ reader' = [Start EXCEPT !.stayed = {r \in Matching : canAccessSettlement(r)}]
  /\ UNCHANGED <<store, list, rows, clock, writes>>

\* SELECT ... ORDER BY key DESC: rows with the same key in any order.
Sorted(S) ==
  {q \in SetToSeqs(S) : \A i, j \in DOMAIN q : i < j => rows[q[i]].key >= rows[q[j]].key}

slice(q, offset, limit) == SubSeq(q, offset + 1, Min({offset + limit, Len(q)}))

\* The total and the rows of one page; the walk ends at the total it was told.
Answer(total, items, raced) ==
  reader' = [reader EXCEPT
    !.total = total, !.seen = @ \cup {r \in ToSet(items) : canAccessSettlement(r)}, !.page = Len(items),
    !.offset = @ + Limit, !.raced = raced, !.joined = FALSE,
    !.tied = @ \/ Cardinality({rows[r].key : r \in Matching}) # Cardinality(Matching),
    !.pc = IF reader.offset + Limit >= total THEN "done" ELSE "count"]

listPageCount ==
  /\ reader.pc = "count" /\ store = "postgres"
  /\ reader' = [reader EXCEPT !.pc = "select", !.total = Cardinality(Matching), !.joined = FALSE]
  /\ UNCHANGED <<store, list, rows, clock, writes>>

\* Mutant: the page starts one row late.
SelectAhead ==
  /\ reader.pc = "select"
  /\ \E q \in Sorted(Matching) : Answer(reader.total, slice(q, reader.offset + 1, Limit), reader.joined)
  /\ UNCHANGED <<store, list, rows, clock, writes>>

listPageSelect ==
  /\ reader.pc = "select"
  /\ \E q \in Sorted(Matching) : Answer(reader.total, slice(q, reader.offset, Limit), reader.joined)
  /\ UNCHANGED <<store, list, rows, clock, writes>>

\* MemoryRepository filters, sorts, counts and slices without waiting.
listPage ==
  /\ reader.pc = "count" /\ store = "memory"
  /\ \E q \in Sorted(Matching) : Answer(Len(q), slice(q, reader.offset, Limit), FALSE)
  /\ UNCHANGED <<store, list, rows, clock, writes>>

Next ==
  \/ Tick \/ Begin \/ listPageCount \/ listPageSelect \/ listPage
  \/ \E r \in Row : Write(r)

Spec == Init /\ [][Next]_vars

-----------------------------------------------------------------------------
(***************************************************************************)
(* Reading page after page misses no row that passed the filter all along  *)
(* and was not written: writes only push such rows towards later pages,    *)
(* unless a row left the filter meanwhile, which pulls the rest forward,   *)
(* or two rows carry the same time, which leaves their order open, or a    *)
(* row came in after the last page's count                                 *)
(* (postgres-repository.ts:1129-1136, 1170-1177, 1211-1218, 1288-1298).    *)
(***************************************************************************)
MissedHasCause ==
  reader.pc = "done" => (reader.stayed \subseteq reader.seen \/ reader.left \/ reader.tied \/ reader.raced)

(***************************************************************************)
(* A page holds no more rows than its total promises, unless a row came    *)
(* into the filter between the count and the select                        *)
(* (postgres-repository.ts:1129-1133).                                     *)
(***************************************************************************)
PageWithinTotal ==
  (reader.pc \in {"count", "done"} /\ reader.page > 0)
     => (reader.offset - Limit + reader.page <= reader.total \/ reader.raced)

\* The pages of a list give what its totals promise, and miss nothing, unless
\* writes come between the queries (listContractsPage and its likes).
PagesAreWhole ==
  /\ MissedHasCause
  /\ PageWithinTotal
=============================================================================
