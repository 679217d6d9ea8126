--------------------------- MODULE Notifications ---------------------------
(***************************************************************************)
(* The way of a notification through be2-ops: the outbox and its fan-out   *)
(* worker put rows into the notifications table, the delivery worker takes *)
(* them from there.  Both run in one process and crash together.           *)
(***************************************************************************)
EXTENDS NotificationOutbox

CONSTANTS Worker, ListSize, MaxAttempts

ASSUME DeliveryConstants == MaxAttempts \in Nat

VARIABLES workers, received, failures, saveFaults

Delivery == INSTANCE NotificationDelivery WITH MaxSaveFaults <- MaxFaults

deliveryVars == <<workers, received, failures, saveFaults>>
allVars == <<vars, deliveryVars>>

SystemInit == Init /\ Delivery!Init

\* The workers share the bound on what goes wrong.
SystemNext ==
    /\ \/ Work /\ UNCHANGED deliveryVars
       \/ Crash /\ Delivery!Restart
       \/ Delivery!Next /\ UNCHANGED <<outbox, ticks, operators, used>>
    /\ used'.faults + saveFaults' <= MaxFaults

\* setInterval keeps starting ticks, a running tick goes on, and time passes;
\* requests, failures and crashes happen or not.
Fairness ==
    /\ \A w \in Tick : WF_allVars(TickStep(w) /\ UNCHANGED deliveryVars)
    /\ \A k \in Key : WF_allVars(TurnStale(k) /\ UNCHANGED deliveryVars)
    /\ \A w \in Worker :
          WF_allVars(Delivery!Step(w) /\ UNCHANGED <<outbox, ticks, operators, used>>)
    /\ \A n \in Note :
          WF_allVars(Delivery!ComeDue(n) /\ UNCHANGED <<outbox, ticks, operators, used>>)

SystemSpec == SystemInit /\ [][SystemNext]_allVars /\ Fairness

-----------------------------------------------------------------------------
\* The outbox implements the at-least-once promise of Fanout, its liveness
\* included: an accepted item is eventually queued or given up.
PromisesKept == Promised!Spec

\* Every notification is eventually sent or given up for good, although
\* overlapping ticks write stale copies over each other's outcomes.
NotificationsSettle ==
    \A n \in Note :
        notifications[n].status # "none"
            ~> [](notifications[n].status \in {"sent", "failed"})

\* A notification marked sent was received, and one marked failed was refused
\* MaxAttempts times (processOne).
MarksAreEarned == Delivery!MarksAreEarned
=============================================================================
