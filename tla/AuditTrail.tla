------------------------------ MODULE AuditTrail ------------------------------
(***************************************************************************)
(* The audit trail of be2-ops and its three ways out: the keyset pages of  *)
(* GET /v1/audits, the streams GET /v1/reports/audits.ndjson and .csv, and *)
(* the export jobs a worker runs.  Entries are ordered by (createdAt, id). *)
(* writeAudit stamps an entry before it is inserted, so an entry may be    *)
(* inserted below entries that a reader has already passed.  Streams and   *)
(* jobs page by offset; keyset pages continue after the last entry read.   *)
(***************************************************************************)
EXTENDS Naturals, Sequences, FiniteSets, SequencesExt, FiniteSetsExt

CONSTANTS
  Id,         \* audit ids: numbers, in no relation to time
  Job,        \* export jobs
  Reader,     \* workers and requests reading the trail
  PageSize,   \* entries per page (500 in the code)
  Limits,     \* the maxExport values asked for
  MaxResult,  \* entries that fit into a stored result (8 MB in the code)
  BatchSize,  \* jobs claimed by one tick
  MaxClock,   \* bound on the clock
  MaxReads,   \* bound on streams and walks
  MaxFaults   \* bound on failed queries and crashes

VARIABLES
  audits,   \* the entries inserted
  stamped,  \* entries stamped and not yet inserted
  clock,
  jobs,     \* the export_jobs table
  readers,  \* what each reader is doing
  used      \* what has been spent of each bound

vars == <<audits, stamped, clock, jobs, readers, used>>

NoJob == [status |-> "none"]
Idle == [pc |-> "idle"]
Before(a, b) == a.at < b.at \/ (a.at = b.at /\ a.id < b.id)
Ordered(S) == SetToSortSeq(S, Before)

Init ==
  /\ audits = {} /\ stamped = {} /\ clock = 1
  /\ jobs = [j \in Job |-> NoJob]
  /\ readers = [r \in Reader |-> Idle]
  /\ used = [reads |-> 0, faults |-> 0]

Goto(r, t) == readers' = [readers EXCEPT ![r] = t]
Fault == used.faults < MaxFaults /\ used' = [used EXCEPT !.faults = @ + 1]

writeAudit ==
  /\ \E i \in Id \ {a.id : a \in audits \cup stamped} :
       stamped' = stamped \cup {[at |-> clock, id |-> i]}
  /\ UNCHANGED <<audits, clock, jobs, readers, used>>

appendAudit ==
  /\ \E a \in stamped : audits' = audits \cup {a} /\ stamped' = stamped \ {a}
  /\ UNCHANGED <<clock, jobs, readers, used>>

Pass ==
  /\ clock < MaxClock /\ clock' = clock + 1
  /\ UNCHANGED <<audits, stamped, jobs, readers, used>>

-----------------------------------------------------------------------------

\* Mutant: the page starts at the cursor, not after it.
FromCursor(cursor) ==
  IF cursor = {} THEN audits ELSE {a \in audits : \A c \in cursor : ~Before(a, c)}

(***************************************************************************)
(* Keyset pages.  A walk starts without a cursor and asks for the next     *)
(* page until there is no nextCursor; it keeps what it had at its start.   *)
(***************************************************************************)
After(cursor) == IF cursor = {} THEN audits ELSE {a \in audits : \A c \in cursor : Before(c, a)}

StartWalk(r) ==
  /\ readers[r] = Idle /\ used.reads < MaxReads
  /\ Goto(r, [pc |-> "walk", cursor |-> {}, out |-> << >>, start |-> audits])
  /\ used' = [used EXCEPT !.reads = @ + 1]
  /\ UNCHANGED <<audits, stamped, clock, jobs>>

listAuditsAfterCursor(r) ==
  /\ readers[r].pc = "walk"
  /\ LET window == Ordered(After(readers[r].cursor))
         hasMore == Len(window) > PageSize
         items == IF hasMore THEN SubSeq(window, 1, PageSize) ELSE window
     IN  Goto(r, [readers[r] EXCEPT !.out = @ \o items,
                    !.cursor = IF hasMore THEN {Last(items)} ELSE @,
                    !.pc = IF hasMore THEN "walk" ELSE "walked"])
  /\ UNCHANGED <<audits, stamped, clock, jobs, used>>

-----------------------------------------------------------------------------
(***************************************************************************)
(* Offset pages: the loop of the streams and of the export worker.  A page *)
(* is a count and then a select, two statements.                           *)
(***************************************************************************)
Exporting(limit, list) ==
  [pc |-> "count", limit |-> limit, list |-> list, out |-> << >>, offset |-> 0, total |-> 0,
   start |-> audits]

StartStream(r) ==
  /\ readers[r] = Idle /\ used.reads < MaxReads
  /\ \E limit \in Limits : Goto(r, Exporting(limit, << >>))
  /\ used' = [used EXCEPT !.reads = @ + 1]
  /\ UNCHANGED <<audits, stamped, clock, jobs>>

CountPage(r) ==
  /\ readers[r].pc = "count"
  /\ Goto(r, [readers[r] EXCEPT !.pc = "select", !.total = Cardinality(audits)])
  /\ UNCHANGED <<audits, stamped, clock, jobs, used>>

PageFrom(t) == t.offset

listAuditsPage(r) ==
  /\ readers[r].pc = "select"
  /\ LET t == readers[r]
         take == Min({PageSize, t.limit - Len(t.out)})
         items == SubSeq(Ordered(audits), PageFrom(t) + 1, Min({PageFrom(t) + take, Cardinality(audits)}))
         out == t.out \o items
         offset == t.offset + Len(items)
     IN  Goto(r, [t EXCEPT !.out = out, !.offset = offset,
                    !.pc = IF items = << >> \/ offset >= t.total \/ Len(out) >= t.limit
                           THEN "end" ELSE "count"])
  /\ UNCHANGED <<audits, stamped, clock, jobs, used>>

-----------------------------------------------------------------------------
\* Export jobs.
createExportJob(j) ==
  /\ jobs[j] = NoJob
  /\ \E limit \in Limits : jobs' = [jobs EXCEPT ![j] = [status |-> "pending", limit |-> limit, result |-> << >>]]
  /\ UNCHANGED <<audits, stamped, clock, readers, used>>

\* A tick claims a batch of pending jobs, which become running.
Claimable == {j \in Job : jobs[j].status = "pending"}

claimExportJobsPending(r) ==
  /\ readers[r] = Idle
  /\ \E claimed \in kSubset(Min({BatchSize, Cardinality(Claimable)}), Claimable) :
       /\ claimed # {}
       /\ jobs' = [j \in Job |-> IF j \in claimed THEN [jobs[j] EXCEPT !.status = "running"] ELSE jobs[j]]
       /\ \E list \in SetToSeqs(claimed) : Goto(r, Exporting(jobs[Head(list)].limit, list))
  /\ UNCHANGED <<audits, stamped, clock, used>>

Truncated(out) == IF Len(out) > MaxResult THEN SubSeq(out, 1, MaxResult) ELSE out

Continue(list) == IF list = << >> THEN Idle ELSE Exporting(jobs[Head(list)].limit, list)

\* The loop is over: a job stores its result, a stream ends.
updateExportJob(r) ==
  /\ readers[r].pc = "end" /\ readers[r].list # << >>
  /\ LET t == readers[r] IN
     /\ jobs' = [jobs EXCEPT ![Head(t.list)] =
          [@ EXCEPT !.status = "completed", !.result = Truncated(t.out)]]
     /\ Goto(r, Continue(Tail(t.list)))
  /\ UNCHANGED <<audits, stamped, clock, used>>

EndRead(r) ==
  /\ readers[r].pc = "walked" \/ (readers[r].pc = "end" /\ readers[r].list = << >>)
  /\ Goto(r, Idle)
  /\ UNCHANGED <<audits, stamped, clock, jobs, used>>

\* A statement of a job's loop throws: the job is failed and the tick goes on.
ExportThrows(r) ==
  /\ readers[r].pc \in {"count", "select", "end"} /\ readers[r].list # << >> /\ Fault
  /\ jobs' = [jobs EXCEPT ![Head(readers[r].list)] = [@ EXCEPT !.status = "failed"]]
  /\ Goto(r, Continue(Tail(readers[r].list)))
  /\ UNCHANGED <<audits, stamped, clock>>

\* The process stops, or the update in the catch throws and ends the tick.
ReaderDies(r) ==
  /\ readers[r] # Idle /\ Fault
  /\ Goto(r, Idle)
  /\ UNCHANGED <<audits, stamped, clock, jobs>>

Next ==
  \/ writeAudit \/ appendAudit \/ Pass
  \/ \E r \in Reader : \/ StartWalk(r) \/ listAuditsAfterCursor(r) \/ StartStream(r) \/ CountPage(r)
                       \/ listAuditsPage(r) \/ claimExportJobsPending(r) \/ updateExportJob(r)
                       \/ EndRead(r) \/ ExportThrows(r) \/ ReaderDies(r)
  \/ \E j \in Job : createExportJob(j)

Spec == Init /\ [][Next]_vars

-----------------------------------------------------------------------------

Read(r) == {readers[r].out[i] : i \in DOMAIN readers[r].out}
NoRepeat(r) == Cardinality(Read(r)) = Len(readers[r].out)

\* The type of every variable.
TypeOK ==
  /\ \A a \in audits \cup stamped : a.at \in 1 .. MaxClock /\ a.id \in Id
  /\ \A j \in Job : jobs[j].status \in {"none", "pending", "running", "completed", "failed"}
  /\ \A r \in Reader : readers[r].pc \in {"idle", "walk", "walked", "count", "select", "end"}

(***************************************************************************)
(* A walk over keyset pages returns every entry that was there when it     *)
(* began, and none twice, whatever is inserted below or above its cursor   *)
(* meanwhile.                                                              *)
(***************************************************************************)
WalkIsExact ==
  \A r \in Reader :
    /\ readers[r].pc \in {"walk", "walked"} => NoRepeat(r)
    /\ readers[r].pc = "walked" => readers[r].start \subseteq Read(r)

InsertedBelow(r) ==
  \E a \in audits \ readers[r].start, b \in readers[r].start \cup Read(r) : Before(a, b)

(***************************************************************************)
(* An export by offset that repeats an entry, or ends below its limit      *)
(* without one that was there at its start, had an entry inserted below    *)
(* another meanwhile: stamped earlier and inserted later.                  *)
(***************************************************************************)
InexactExportHasCause ==
  \A r \in Reader :
    readers[r].pc \in {"count", "select", "end"} =>
      \/ InsertedBelow(r)
      \/ /\ NoRepeat(r)
         /\ readers[r].pc = "end" => \/ readers[r].start \subseteq Read(r)
                                     \/ Len(readers[r].out) >= readers[r].limit

(***************************************************************************)
(* A running job is in the list of a tick that is at work, unless          *)
(* something failed: nothing else ever returns to a job left running.      *)
(***************************************************************************)
RunningIsWorkedOn ==
  \A j \in Job : jobs[j].status = "running" =>
    \/ \E r \in Reader : /\ readers[r].pc \in {"count", "select", "end"}
                         /\ \E i \in DOMAIN readers[r].list : readers[r].list[i] = j
    \/ used.faults > 0

\* A finished job, and the result it offers for download, never changes.
ResultKept ==
  \A j \in Job : jobs[j].status \in {"completed", "failed"} => jobs'[j] = jobs[j]

\* Every way out of the audit trail gives the whole of it: walks always,
\* exports unless an entry was inserted below another, and no job is left
\* running, failures apart (listAuditsAfterCursor, runExportJobTick).
TrailIsReadWhole ==
  /\ TypeOK
  /\ WalkIsExact
  /\ InexactExportHasCause
  /\ RunningIsWorkedOn
=============================================================================
