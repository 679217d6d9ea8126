------------------------- MODULE NotificationOutbox -------------------------
(***************************************************************************)
(* The notification outbox of be2-ops: handlers append fan-out items under *)
(* an idempotency key, overlapping ticks of the fan-out worker turn rows   *)
(* into queued notifications, and an operator reopens dead rows.           *)
(*                                                                         *)
(* Time is abstracted to two facts: a claimed row is `stale` once          *)
(* staleProcessingMs have passed since the claim, a scheduled notification *)
(* is `due` once its back-off has passed.  `born` stands for created_at.   *)
(***************************************************************************)
EXTENDS Integers, FiniteSets, FiniteSetsExt

CONSTANTS
    Key,                  \* idempotency keys: event type, recipient, channel, payload
    Direct,               \* the key of a notification that needs no outbox row
    Tick,                 \* invocations of runOutboxFanoutTick that may overlap
    Operator,             \* calls of the retry route
    BatchSize,
    MaxDispatchAttempts,
    MaxNotes,             \* bound on the rows of the notifications table
    MaxDirect,            \* bound on notifications asked for directly
    MaxFaults,            \* bound on failing statements, crashes and rows that
                          \* turn stale under a live tick
    MaxRetries            \* bound on the retries operators ask for

ASSUME OutboxConstants ==
    /\ Direct \notin Key
    /\ BatchSize \in Nat \ {0}
    /\ MaxDispatchAttempts \in Nat \ {0}
    /\ MaxNotes \in Nat /\ IsFiniteSet(Tick) /\ IsFiniteSet(Operator)

VARIABLES
    outbox,               \* the notification_outbox table, by key
    ticks,                \* the running ticks
    operators,            \* retry requests between their read and their write
    notifications,        \* the notifications table, in the order of creation
    used                  \* how much of each bound is used up

vars == <<outbox, ticks, operators, notifications, used>>

Note == 1..MaxNotes

Row(status, attempts, born) ==
    [status |-> status, attempts |-> attempts, born |-> born, stale |-> FALSE]

NoRow == Row("none", 0, 0)
NoNote == [status |-> "none", key |-> Direct, attempts |-> 0, due |-> FALSE]
Idle == [pc |-> "idle", todo |-> {}, cur |-> Direct, copy |-> [k \in Key |-> 0]]

Init ==
    /\ outbox = [k \in Key |-> NoRow]
    /\ ticks = [w \in Tick |-> Idle]
    /\ operators = [o \in Operator |-> Direct]
    /\ notifications = [n \in Note |-> NoNote]
    /\ used = [faults |-> 0, retries |-> 0, direct |-> 0]

Fault ==
    /\ used.faults < MaxFaults
    /\ used' = [used EXCEPT !.faults = @ + 1]

-----------------------------------------------------------------------------
(* Rows in, notifications out.                                             *)

Rows == {k \in Key : outbox[k].status # "none"}

\* The insert does nothing when the idempotency key is already there.
EnqueueFanoutNotificationItem(k) ==
    /\ k \notin Rows
    /\ outbox' = [outbox EXCEPT ![k] = Row("pending", 0, Cardinality(Rows))]
    /\ UNCHANGED <<ticks, operators, notifications, used>>

\* A new row of the notifications table.
SaveQueued(k) ==
    \E n \in Note :
        /\ notifications[n].status = "none"
        /\ \A m \in Note : m < n => notifications[m].status # "none"
        /\ notifications' = [notifications EXCEPT ![n] =
               [status |-> "queued", key |-> k, attempts |-> 0, due |-> TRUE]]

\* POST /v1/notifications, each channel of the dispatch route, and fan-out
\* without the outbox write the notification at once.
PostNotification ==
    /\ used.direct < MaxDirect
    /\ used' = [used EXCEPT !.direct = @ + 1]
    /\ SaveQueued(Direct)
    /\ UNCHANGED <<outbox, ticks, operators>>

-----------------------------------------------------------------------------
(* A tick of the fan-out worker.                                           *)

Go(w, pc) == ticks' = [ticks EXCEPT ![w].pc = pc]

\* The tick is over, or it goes on with the next row of its batch.
Done(w) ==
    LET left == ticks[w].todo \ {ticks[w].cur}
    IN  ticks' = [ticks EXCEPT ![w] =
            IF left = {} THEN Idle
            ELSE [pc |-> "save", todo |-> left, cur |-> Direct,
                  copy |-> [k \in Key |-> IF k \in left THEN ticks[w].copy[k] ELSE 0]]]

\* Mutant: rows being processed are put back, stale or not.
RecoveredAny(row) ==
    IF row.status = "processing" THEN [row EXCEPT !.status = "pending", !.stale = FALSE]
    ELSE row

Recovered(row) ==
    IF row.status = "processing" /\ row.stale
    THEN [row EXCEPT !.status = "pending", !.stale = FALSE]
    ELSE row

Pending == {k \in Key : outbox[k].status = "pending"}

\* setInterval starts a tick whether or not the last one is over.  A tick that
\* recovers and finds nothing is no step.
RecoverStale(w) ==
    /\ ticks[w].pc = "idle"
    /\ outbox' = [k \in Key |-> Recovered(outbox[k])]
    /\ Pending \cup {k \in Key : outbox[k].stale} # {}
    /\ Go(w, "claim")
    /\ UNCHANGED <<operators, notifications, used>>

\* The rows the claim takes: the BatchSize oldest pending ones.
Oldest(batch) ==
    /\ batch \subseteq Pending
    /\ Cardinality(batch) = Min({BatchSize, Cardinality(Pending)})
    /\ \A k \in batch, j \in Pending \ batch : outbox[k].born <= outbox[j].born

\* Mutant: a claimed row is already marked dispatched.
ClaimAsDispatched(w) ==
    /\ ticks[w].pc = "claim"
    /\ \E batch \in SUBSET Key :
        /\ Oldest(batch)
        /\ outbox' = [k \in Key |->
               IF k \in batch THEN [outbox[k] EXCEPT !.status = "dispatched"]
               ELSE outbox[k]]
        /\ ticks' = [ticks EXCEPT ![w] =
               IF batch = {} THEN Idle
               ELSE [pc |-> "save", todo |-> batch, cur |-> Direct,
                     copy |-> [k \in Key |-> 0]]]
    /\ UNCHANGED <<operators, notifications, used>>

ClaimPending(w) ==
    /\ ticks[w].pc = "claim"
    /\ \E batch \in SUBSET Key :
        /\ Oldest(batch)
        /\ outbox' = [k \in Key |->
               IF k \in batch THEN [outbox[k] EXCEPT !.status = "processing"]
               ELSE outbox[k]]
        /\ ticks' = [ticks EXCEPT ![w] =
               IF batch = {} THEN Idle
               ELSE [pc |-> "save", todo |-> batch, cur |-> Direct,
                     copy |-> [k \in Key |->
                         IF k \in batch THEN outbox[k].attempts ELSE 0]]]
    /\ UNCHANGED <<operators, notifications, used>>

\* The next row of the batch becomes a queued notification.
SaveNotification(w) ==
    /\ ticks[w].pc = "save"
    /\ \E k \in ticks[w].todo :
        /\ SaveQueued(k)
        /\ ticks' = [ticks EXCEPT ![w].pc = "mark", ![w].cur = k]
    /\ UNCHANGED <<outbox, operators, used>>

\* The statement fails; the row it writes may be there or not.
SaveFails(w) ==
    /\ ticks[w].pc = "save"
    /\ Fault
    /\ \E k \in ticks[w].todo :
        /\ SaveQueued(k) \/ UNCHANGED notifications
        /\ ticks' = [ticks EXCEPT ![w].pc = "catch", ![w].cur = k]
    /\ UNCHANGED <<outbox, operators>>

\* updateNotificationOutbox writes the whole row from the copy of the claim.
Update(k, status, attempts) ==
    outbox' = [outbox EXCEPT ![k] = Row(status, attempts, @.born)]

MarkDispatched(w) ==
    /\ ticks[w].pc = "mark"
    /\ Update(ticks[w].cur, "dispatched", ticks[w].copy[ticks[w].cur])
    /\ Done(w)
    /\ UNCHANGED <<operators, notifications, used>>

\* The event or the update fails after the notification was saved.
MarkFails(w) ==
    /\ ticks[w].pc = "mark"
    /\ Fault
    /\ \/ Update(ticks[w].cur, "dispatched", ticks[w].copy[ticks[w].cur])
       \/ UNCHANGED outbox
    /\ Go(w, "catch")
    /\ UNCHANGED <<operators, notifications>>

\* The row after a failed attempt, by the copy's count.
Attempted(w) ==
    LET next == ticks[w].copy[ticks[w].cur] + 1
    IN  Update(ticks[w].cur,
               IF next >= MaxDispatchAttempts THEN "dead" ELSE "pending", next)

CatchError(w) ==
    /\ ticks[w].pc = "catch"
    /\ Attempted(w)
    /\ Done(w)
    /\ UNCHANGED <<operators, notifications, used>>

\* The catch block's own update, or the event after it, fails: the error
\* leaves the loop and the rest of the batch stays in processing.
CatchFails(w) ==
    /\ ticks[w].pc = "catch"
    /\ Fault
    /\ Attempted(w) \/ UNCHANGED outbox
    /\ ticks' = [ticks EXCEPT ![w] = Idle]
    /\ UNCHANGED <<operators, notifications>>

-----------------------------------------------------------------------------
(* Time, crashes and operators.                                            *)

Held(k) == \E w \in Tick : k \in ticks[w].todo

\* staleProcessingMs pass since the claim: at once for a row nobody works on
\* any more, a bounded number of times while a tick still does.
TurnStale(k) ==
    /\ outbox[k].status = "processing"
    /\ ~outbox[k].stale
    /\ \/ ~Held(k) /\ UNCHANGED used
       \/ Held(k) /\ Fault
    /\ outbox' = [outbox EXCEPT ![k].stale = TRUE]
    /\ UNCHANGED <<ticks, operators, notifications>>

\* The process restarts: ticks and requests in flight are gone.
Crash ==
    /\ Fault
    /\ ticks' = [w \in Tick |-> Idle]
    /\ operators' = [o \in Operator |-> Direct]
    /\ UNCHANGED <<outbox, notifications>>

RetryRead(o, k) ==
    /\ operators[o] = Direct
    /\ used.retries < MaxRetries
    /\ outbox[k].status = "dead"
    /\ operators' = [operators EXCEPT ![o] = k]
    /\ used' = [used EXCEPT !.retries = @ + 1]
    /\ UNCHANGED <<outbox, ticks, notifications>>

RetryWrite(o) ==
    /\ operators[o] # Direct
    /\ Update(operators[o], "pending", 0)
    /\ operators' = [operators EXCEPT ![o] = Direct]
    /\ UNCHANGED <<ticks, notifications, used>>

TickStep(w) ==
    \/ RecoverStale(w) \/ ClaimPending(w) \/ SaveNotification(w)
    \/ MarkDispatched(w) \/ CatchError(w)

TickFails(w) == SaveFails(w) \/ MarkFails(w) \/ CatchFails(w)

\* Everything but a restart of the process.
Work ==
    \/ \E k \in Key : EnqueueFanoutNotificationItem(k) \/ TurnStale(k)
    \/ \E w \in Tick : TickStep(w) \/ TickFails(w)
    \/ \E o \in Operator : RetryWrite(o) \/ \E k \in Key : RetryRead(o, k)
    \/ PostNotification

Next == Work \/ Crash

Spec == Init /\ [][Next]_vars

-----------------------------------------------------------------------------
\* The tables hold rows of the program's types and every tick works on rows
\* it claimed.
TypeOK ==
    /\ outbox \in [Key ->
           [status : {"none", "pending", "processing", "dispatched", "dead"},
            attempts : Nat, born : Nat, stale : BOOLEAN]]
    /\ ticks \in [Tick ->
           [pc : {"idle", "claim", "save", "mark", "catch"}, todo : SUBSET Key,
            cur : Key \cup {Direct}, copy : [Key -> Nat]]]
    /\ operators \in [Operator -> Key \cup {Direct}]
    /\ notifications \in [Note ->
           [status : {"none", "queued", "retry_scheduled", "sent", "failed"},
            key : Key \cup {Direct}, attempts : Nat, due : BOOLEAN]]
    /\ used \in [faults : Nat, retries : Nat, direct : Nat]

NotesOf(k) == {n \in Note : notifications[n].status # "none" /\ notifications[n].key = k}

\* What became of an accepted item (Fanout): a row marked dispatched whose
\* notification does not exist would be lost.
Promise(k) ==
    IF NotesOf(k) # {} THEN "queued"
    ELSE CASE outbox[k].status = "none" -> "none"
           [] outbox[k].status \in {"pending", "processing"} -> "owed"
           [] outbox[k].status = "dead" -> "abandoned"
           [] OTHER -> "lost"

promise == [k \in Key |-> Promise(k)]
Promised == INSTANCE Fanout
PromiseStep == [Promised!Next]_promise

\* Overlapping ticks, failing statements, crashes and operator retries never
\* lose an accepted item, and queue none that was not accepted.
KeepsPromises == Promised!Safe

\* An item has more than one notification only when a statement failed or the
\* process crashed, a tick outlived its claim, or an operator asked again.
DuplicateHasCause ==
    \A k \in Key :
        Cardinality(NotesOf(k)) <= 1 + used.faults + used.retries
=============================================================================
