-------------------------- MODULE ReputationOutbound --------------------------
(***************************************************************************)
(* The reputation webhook of be2-ops and its dead letters.  POST           *)
(* /internal/reputation-events schedules a delivery and answers at once;   *)
(* what cannot be delivered goes to a map of at most MAX entries held in   *)
(* memory, from which POST .../retry schedules another delivery            *)
(* (services/reputation-outbound.ts, reputation-dlq.ts).                   *)
(***************************************************************************)
EXTENDS Naturals, Sequences, SequencesExt

CONSTANTS
  Key,          \* idempotency keys
  Flight,       \* deliveries in progress at one time
  MAX,          \* the size of the dead letter map
  MaxEvents,    \* bound on the events accepted
  MaxRetries,   \* bound on the retries asked for
  MaxRejects,   \* bound on the deliveries the receiver does not take
  MaxFaults     \* bound on failed audit writes and restarts

VARIABLES
  dlq,        \* the dead letters in the order of the Map
  flights,    \* the deliveries in progress
  delivered,  \* how often the receiver took each key
  fate,       \* what happened to the keys: accepted, accepted again, evicted, ...
  used        \* what has been spent of each bound

vars == <<dlq, flights, delivered, fate, used>>

Idle == [pc |-> "idle"]
Find(k) == {i \in DOMAIN dlq : dlq[i].key = k}
Dead == {dlq[i].key : i \in DOMAIN dlq}
InFlight(k) == {f \in Flight : flights[f] # Idle /\ flights[f].key = k}

Init ==
  /\ dlq = << >>
  /\ flights = [f \in Flight |-> Idle]
  /\ delivered = [k \in Key |-> 0]
  /\ fate = [accepted |-> {}, again |-> {}, evicted |-> {}, doubted |-> {}, crossed |-> {}, lost |-> {}]
  /\ used = [events |-> 0, retries |-> 0, rejects |-> 0, faults |-> 0]

Goto(f, r) == flights' = [flights EXCEPT ![f] = r]
Fault == used.faults < MaxFaults /\ used' = [used EXCEPT !.faults = @ + 1]
Reject == used.rejects < MaxRejects /\ used' = [used EXCEPT !.rejects = @ + 1]

\* Deliveries of one key that are in progress together are `crossed`.
scheduleReputationOutboundWebhook(k, marks) ==
  \E f \in Flight :
    /\ flights[f] = Idle
    /\ Goto(f, [pc |-> "post", key |-> k])
    /\ fate' = IF InFlight(k) = {} THEN marks ELSE [marks EXCEPT !.crossed = @ \cup {k}]

PostReputationEvent(k) ==
  /\ used.events < MaxEvents /\ used' = [used EXCEPT !.events = @ + 1]
  /\ scheduleReputationOutboundWebhook(k,
       [fate EXCEPT !.accepted = @ \cup {k}, !.again = @ \cup ({k} \cap fate.accepted)])
  /\ UNCHANGED <<dlq, delivered>>

\* The entry stays until the delivery it schedules succeeds.
RetryDelivery(k) ==
  /\ k \in Dead /\ used.retries < MaxRetries
  /\ used' = [used EXCEPT !.retries = @ + 1]
  /\ scheduleReputationOutboundWebhook(k, fate)
  /\ UNCHANGED <<dlq, delivered>>

(***************************************************************************)
(* recordReputationOutboundDlq: a key already there keeps its place and    *)
(* counts one more attempt; beyond MAX the first entries go.               *)
(***************************************************************************)
Recorded(k) ==
  IF Find(k) # {}
  THEN [i \in DOMAIN dlq |-> IF dlq[i].key = k THEN [dlq[i] EXCEPT !.attempts = @ + 1] ELSE dlq[i]]
  ELSE Append(dlq, [key |-> k, attempts |-> 1])

Kept(s) == IF Len(s) > MAX THEN SubSeq(s, Len(s) - MAX + 1, Len(s)) ELSE s
Gone(s) == {s[i].key : i \in DOMAIN s} \ {Kept(s)[i].key : i \in DOMAIN Kept(s)}

recordReputationOutboundDlq(k, marks) ==
  /\ dlq' = Kept(Recorded(k))
  /\ fate' = [marks EXCEPT !.evicted = @ \cup Gone(Recorded(k))]

\* The receiver answers 2xx: the entry is removed, then audited.
DeliveryOk(f) ==
  /\ flights[f].pc = "post"
  /\ delivered' = [delivered EXCEPT ![flights[f].key] = @ + 1]
  /\ dlq' = SelectSeq(dlq, LAMBDA r : r.key # flights[f].key)
  /\ Goto(f, [flights[f] EXCEPT !.pc = "audit"])
  /\ UNCHANGED <<fate, used>>

\* The receiver refuses: the dead letter is recorded, then audited.
DeliveryRefused(f) ==
  /\ flights[f].pc = "post" /\ Reject
  /\ recordReputationOutboundDlq(flights[f].key, fate)
  /\ Goto(f, [flights[f] EXCEPT !.pc = "audit"])
  /\ UNCHANGED delivered

\* Mutant: a delivery that throws is not recorded.
ThrowsUnrecorded(f) ==
  /\ flights[f].pc = "post" /\ Reject
  /\ Goto(f, Idle)
  /\ UNCHANGED <<dlq, delivered, fate>>

\* fetch throws, before or after the receiver took it: the catch records.
DeliveryThrows(f) ==
  /\ flights[f].pc = "post" /\ Reject
  /\ \/ delivered' = delivered /\ recordReputationOutboundDlq(flights[f].key, fate)
     \/ /\ delivered' = [delivered EXCEPT ![flights[f].key] = @ + 1]
        /\ recordReputationOutboundDlq(flights[f].key, [fate EXCEPT !.doubted = @ \cup {flights[f].key}])
  /\ Goto(f, Idle)

AuditDelivery(f) ==
  /\ flights[f].pc = "audit" /\ Goto(f, Idle)
  /\ UNCHANGED <<dlq, delivered, fate, used>>

\* The audit write is inside the try: its failure records a dead letter
\* for a delivery that was made, and a second attempt for one that was not.
AuditThrows(f) ==
  /\ flights[f].pc = "audit" /\ Fault
  /\ recordReputationOutboundDlq(flights[f].key, [fate EXCEPT !.doubted = @ \cup {flights[f].key}])
  /\ Goto(f, Idle)
  /\ UNCHANGED delivered

\* The process restarts: the map and what was scheduled are gone.
Restart ==
  /\ Fault
  /\ dlq' = << >> /\ flights' = [f \in Flight |-> Idle]
  /\ fate' = [fate EXCEPT !.lost = @ \cup Dead \cup {k \in Key : InFlight(k) # {}}]
  /\ UNCHANGED delivered

Next ==
  \/ \E k \in Key : PostReputationEvent(k) \/ RetryDelivery(k)
  \/ \E f \in Flight : \/ DeliveryOk(f) \/ DeliveryRefused(f) \/ DeliveryThrows(f)
                       \/ AuditDelivery(f) \/ AuditThrows(f)
  \/ Restart

Spec == Init /\ [][Next]_vars

-----------------------------------------------------------------------------
\* The map has one entry per key and at most MAX of them.
TypeOK ==
  /\ \A i \in DOMAIN dlq : dlq[i].key \in Key /\ dlq[i].attempts \in Nat \ {0}
  /\ \A k \in Key : delivered[k] \in Nat
  /\ Len(dlq) <= MAX /\ \A i, j \in DOMAIN dlq : dlq[i].key = dlq[j].key => i = j

(***************************************************************************)
(* No accepted event vanishes silently: it is on its way, was delivered,   *)
(* has a dead letter, or fell out of the full map or was lost in a         *)
(* restart.  In particular a retry does not give up the dead letter before *)
(* the delivery is made (index.ts:206-213).                                *)
(***************************************************************************)
AcceptedIsAccounted ==
  \A k \in fate.accepted :
    InFlight(k) # {} \/ delivered[k] > 0 \/ k \in Dead \/ k \in fate.evicted \cup fate.lost

(***************************************************************************)
(* A dead letter for what the receiver already took has a cause: the       *)
(* answer or the audit write after it failed, or two deliveries of the key *)
(* were in progress together, or the key was accepted again.               *)
(***************************************************************************)
DeadLetterHasCause ==
  \A k \in Dead : delivered[k] > 0 => k \in fate.doubted \cup fate.crossed \cup fate.again

\* The webhook accounts for its events: none that was accepted vanishes, and
\* none that was delivered is a dead letter, without a cause; the map of dead
\* letters stays within its limit (deliverReputationOutboundWebhook,
\* recordReputationOutboundDlq).
EventsAreAccounted ==
  /\ TypeOK
  /\ AcceptedIsAccounted
  /\ DeadLetterHasCause
=============================================================================
