------------------------ MODULE NotificationDelivery ------------------------
(***************************************************************************)
(* The delivery worker of be2-ops: ticks that may overlap list the due     *)
(* notifications without claiming them, hand each to the provider and      *)
(* write the outcome back from the copy they listed.                       *)
(***************************************************************************)
EXTENDS Integers, FiniteSets, FiniteSetsExt

CONSTANTS
    Note,                 \* rows of the notifications table, by creation
    Worker,               \* ticks of the delivery worker that may overlap
    ListSize,             \* batchSize of the delivery worker
    MaxAttempts,
    MaxSaveFaults         \* bound on failing statements and crashes

VARIABLES
    notifications,        \* the notifications table
    workers,              \* the running ticks
    received,             \* the notifications a provider took (an unset webhook takes all)
    failures,             \* how many deliveries of each one were refused
    saveFaults

vars == <<notifications, workers, received, failures, saveFaults>>

Resting == [pc |-> "idle", todo |-> {}, copy |-> [n \in Note |-> 0], ok |-> FALSE]

Init ==
    /\ workers = [w \in Worker |-> Resting]
    /\ received = {}
    /\ failures = [n \in Note |-> 0]
    /\ saveFaults = 0

-----------------------------------------------------------------------------

\* Mutant: a notification waiting for a retry is never due.
DueQueued == {n \in Note : notifications[n].status = "queued"}

\* listDueNotifications: queued, or scheduled and due.
Due ==
    {n \in Note :
        \/ notifications[n].status = "queued"
        \/ notifications[n].status = "retry_scheduled" /\ notifications[n].due}

FirstOf(S, size) == {n \in S : Cardinality({m \in S : m < n}) < size}

ListDue(w) ==
    LET due == FirstOf(Due, ListSize)
    IN  /\ workers[w].pc = "idle"
        /\ due # {}
        /\ workers' = [workers EXCEPT ![w] =
               [pc |-> "deliver", todo |-> due, ok |-> FALSE,
                copy |-> [n \in Note |->
                    IF n \in due THEN notifications[n].attempts ELSE 0]]]
        /\ UNCHANGED <<notifications, received, failures, saveFaults>>

Current(w) == Min(workers[w].todo)

\* The provider answers; a refusal may hide a delivery (the webhook took the
\* request and its answer was lost).
Deliver(w) ==
    /\ workers[w].pc = "deliver"
    /\ \E ok \in BOOLEAN, arrived \in BOOLEAN :
        /\ ok => arrived
        /\ workers' = [workers EXCEPT ![w].pc = "save", ![w].ok = ok]
        /\ received' = IF arrived THEN received \cup {Current(w)} ELSE received
        /\ failures' = IF ok THEN failures
                       ELSE [failures EXCEPT ![Current(w)] = Min({@ + 1, MaxAttempts})]
    /\ UNCHANGED <<notifications, saveFaults>>

\* Mutant: it is given up one attempt early.
FailedTooSoon(n, copied, ok) ==
    [status |-> IF ok THEN "sent"
                ELSE IF copied + 2 >= MaxAttempts THEN "failed"
                ELSE "retry_scheduled",
     key |-> notifications[n].key,
     attempts |-> IF ok THEN copied ELSE copied + 1,
     due |-> FALSE]

\* The row processOne writes: the copy with the outcome in it.
Outcome(n, copied, ok) ==
    [status |-> IF ok THEN "sent"
                ELSE IF copied + 1 >= MaxAttempts THEN "failed"
                ELSE "retry_scheduled",
     key |-> notifications[n].key,
     attempts |-> IF ok THEN copied ELSE copied + 1,
     due |-> FALSE]

SaveOutcome(w) ==
    LET n == Current(w)
    IN  notifications' = [notifications EXCEPT ![n] =
            Outcome(n, workers[w].copy[n], workers[w].ok)]

\* The tick is over, or it goes on with the next notification.
NextDue(w) ==
    LET left == workers[w].todo \ {Current(w)}
    IN  workers' = [workers EXCEPT ![w] =
            IF left = {} THEN Resting
            ELSE [@ EXCEPT !.pc = "deliver", !.todo = left, !.ok = FALSE,
                           !.copy[Current(w)] = 0]]

Save(w) ==
    /\ workers[w].pc = "save"
    /\ SaveOutcome(w)
    /\ NextDue(w)
    /\ UNCHANGED <<received, failures, saveFaults>>

\* The save, the audit or the event fails: the error ends the tick.
SaveFails(w) ==
    /\ workers[w].pc = "save"
    /\ saveFaults < MaxSaveFaults
    /\ saveFaults' = saveFaults + 1
    /\ SaveOutcome(w) \/ UNCHANGED notifications
    /\ workers' = [workers EXCEPT ![w] = Resting]
    /\ UNCHANGED <<received, failures>>

\* The back-off of a scheduled notification passes.
ComeDue(n) ==
    /\ notifications[n].status = "retry_scheduled"
    /\ ~notifications[n].due
    /\ notifications' = [notifications EXCEPT ![n].due = TRUE]
    /\ UNCHANGED <<workers, received, failures, saveFaults>>

\* The process restarts: the ticks in flight are gone.
Restart ==
    /\ workers' = [w \in Worker |-> Resting]
    /\ UNCHANGED <<received, failures, saveFaults>>

Step(w) == ListDue(w) \/ Deliver(w) \/ Save(w)

Next ==
    \/ \E w \in Worker : Step(w) \/ SaveFails(w)
    \/ \E n \in Note : ComeDue(n)

-----------------------------------------------------------------------------
\* A notification marked sent was taken by its provider, whichever tick wrote
\* the mark.
SentWasReceived ==
    \A n \in Note : notifications[n].status = "sent" => n \in received

\* A notification is given up only after MaxAttempts refused deliveries: a
\* stale copy can undo a count, never skip one.
GivenUpAfterMax ==
    \A n \in Note :
        notifications[n].status = "failed" => failures[n] = MaxAttempts

\* The mark of a finished notification is earned: what is sent was received,
\* what is failed was refused often enough (processOne).
MarksAreEarned ==
  /\ SentWasReceived
  /\ GivenUpAfterMax
=============================================================================
