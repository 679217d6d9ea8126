------------------------------- MODULE Fanout -------------------------------
(***************************************************************************)
(* What the notification outbox promises to the code that enqueues: a      *)
(* fan-out item that was accepted is owed until a notification for it is   *)
(* queued (and then stays queued) or until the outbox gives it up; nothing *)
(* accepted is forgotten, and nothing is queued that was not accepted.     *)
(***************************************************************************)
CONSTANT Key

VARIABLE promise

Init == promise = [k \in Key |-> "none"]

Accept(k) == promise[k] = "none" /\ promise' = [promise EXCEPT ![k] = "owed"]

\* A slow dispatcher may still queue an item another one has given up.
Queue(k) ==
    /\ promise[k] \in {"owed", "abandoned"}
    /\ promise' = [promise EXCEPT ![k] = "queued"]

Abandon(k) ==
    /\ promise[k] = "owed"
    /\ promise' = [promise EXCEPT ![k] = "abandoned"]

Reopen(k) ==
    /\ promise[k] = "abandoned"
    /\ promise' = [promise EXCEPT ![k] = "owed"]

\* One step of the outbox may concern several items: a crash of the process
\* or the recovery of a whole batch changes none of the promises.
Next == \E k \in Key : Accept(k) \/ Queue(k) \/ Abandon(k) \/ Reopen(k)

Safe == Init /\ [][Next]_promise

\* What is owed does not stay owed for ever.
Settle(k) == promise[k] = "owed" /\ (Queue(k) \/ Abandon(k))

Spec == Safe /\ \A k \in Key : WF_promise(Settle(k))
=============================================================================
