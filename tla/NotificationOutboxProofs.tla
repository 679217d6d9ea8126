---------------------- MODULE NotificationOutboxProofs ----------------------
(***************************************************************************)
(* What the notification fan-out keeps, for any number of items, ticks,    *)
(* operators and notifications and any sizes and bounds: the outbox        *)
(* implements the safety part of Fanout, a notification is marked only as  *)
(* it fared at its provider, and an item queued twice has a cause.         *)
(***************************************************************************)
EXTENDS Notifications, TLAPS

Saved(k) == \E n \in Note : notifications[n].status # "none" /\ notifications[n].key = k

\* What a tick that has claimed its rows knows of them.
TickInv(w) ==
    /\ DOMAIN ticks[w] = {"pc", "todo", "cur", "copy"}
    /\ ticks[w].pc \in {"save", "mark", "catch"} => ticks[w].todo \subseteq Rows
    /\ ticks[w].pc \in {"mark", "catch"} => ticks[w].cur \in ticks[w].todo
    /\ ticks[w].pc = "mark" => Saved(ticks[w].cur)

Shape ==
    /\ DOMAIN outbox = Key
    /\ \A k \in Key :
          /\ DOMAIN outbox[k] = {"status", "attempts", "born", "stale"}
          /\ outbox[k].status \in {"none", "pending", "processing", "dispatched", "dead"}
    /\ DOMAIN ticks = Tick /\ DOMAIN operators = Operator /\ DOMAIN notifications = Note

\* The inductive invariant: rows marked dispatched have their notification,
\* notifications have their row, and ticks and operators hold existing rows.
OutboxInv ==
    /\ Shape
    /\ \A w \in Tick : TickInv(w)
    /\ \A o \in Operator : operators[o] # Direct => operators[o] \in Rows
    /\ \A k \in Key : outbox[k].status = "dispatched" => Saved(k)
    /\ \A k \in Key : Saved(k) => k \in Rows

-----------------------------------------------------------------------------
(* How the promise of an item reads off the tables.                        *)

\* The value of Promise in terms of Saved and the row's status.
LEMMA PromiseValue ==
    ASSUME Shape, NEW k \in Key
    PROVE  /\ Saved(k) <=> Promise(k) = "queued"
           /\ ~Saved(k) /\ outbox[k].status = "none" => Promise(k) = "none"
           /\ ~Saved(k) /\ outbox[k].status \in {"pending", "processing"} => Promise(k) = "owed"
           /\ ~Saved(k) /\ outbox[k].status = "dead" => Promise(k) = "abandoned"
<1>1. NotesOf(k) # {} <=> Saved(k)
  BY Zenon DEF NotesOf, Saved
<1>2. outbox[k].status \in {"none", "pending", "processing", "dispatched", "dead"}
  BY Zenon DEF Shape
<1> QED
  BY <1>1, <1>2, Zenon DEF Promise

\* A step that changes at most one promise, along an edge of Fanout, is a step
\* of Fanout or leaves the promises alone.
LEMMA OneEdge ==
    ASSUME NEW k \in Key,
           \A j \in Key \ {k} : Promise(j)' = Promise(j),
           \/ Promise(k)' = Promise(k)
           \/ Promise(k) = "none" /\ Promise(k)' = "owed"
           \/ Promise(k) \in {"owed", "abandoned"} /\ Promise(k)' = "queued"
           \/ Promise(k) = "owed" /\ Promise(k)' = "abandoned"
           \/ Promise(k) = "abandoned" /\ Promise(k)' = "owed"
    PROVE  PromiseStep
<1>1. promise' = [j \in Key |-> Promise(j)'] /\ promise = [j \in Key |-> Promise(j)]
  BY Zenon DEF promise
<1> HIDE DEF promise
<1>2. promise' = [promise EXCEPT ![k] = Promise(k)'] /\ promise[k] = Promise(k)
  BY <1>1, Zenon
<1>3. CASE Promise(k)' = Promise(k)
  BY <1>1, <1>2, <1>3, Zenon DEF PromiseStep
<1>4. CASE Promise(k) = "none" /\ Promise(k)' = "owed"
  <2>1. Promised!Accept(k)
    BY <1>2, <1>4, Zenon DEF Promised!Accept
  <2> QED BY <2>1, Zenon DEF PromiseStep, Promised!Next
<1>5. CASE Promise(k) \in {"owed", "abandoned"} /\ Promise(k)' = "queued"
  <2>1. Promised!Queue(k)
    BY <1>2, <1>5, Zenon DEF Promised!Queue
  <2> QED BY <2>1, Zenon DEF PromiseStep, Promised!Next
<1>6. CASE Promise(k) = "owed" /\ Promise(k)' = "abandoned"
  <2>1. Promised!Abandon(k)
    BY <1>2, <1>6, Zenon DEF Promised!Abandon
  <2> QED BY <2>1, Zenon DEF PromiseStep, Promised!Next
<1>7. CASE Promise(k) = "abandoned" /\ Promise(k)' = "owed"
  <2>1. Promised!Reopen(k)
    BY <1>2, <1>7, Zenon DEF Promised!Reopen
  <2> QED BY <2>1, Zenon DEF PromiseStep, Promised!Next
<1> QED
  BY <1>3, <1>4, <1>5, <1>6, <1>7, Zenon

\* A step that keeps every promise.
LEMMA NoEdge ==
    ASSUME \A j \in Key : Promise(j)' = Promise(j)
    PROVE  PromiseStep
  BY Zenon DEF PromiseStep, promise

-----------------------------------------------------------------------------
(* What the parts of a step do to the tables.                              *)

\* A saved notification adds its item to the saved ones, and takes none away.
LEMMA SaveAdds ==
    ASSUME Shape, NEW k, SaveQueued(k)
    PROVE  /\ DOMAIN notifications' = Note
           /\ \A j : Saved(j)' <=> Saved(j) \/ j = k
<1>1. PICK n \in Note :
         /\ notifications[n].status = "none"
         /\ notifications' = [notifications EXCEPT ![n] =
                [status |-> "queued", key |-> k, attempts |-> 0, due |-> TRUE]]
  BY Zenon DEF SaveQueued
<1>2. DOMAIN notifications' = Note
  BY <1>1, Zenon DEF Shape
<1>3. notifications'[n].status = "queued" /\ notifications'[n].key = k
  BY <1>1, Zenon DEF Shape
<1>4. \A m \in Note : m # n => notifications'[m] = notifications[m]
  BY <1>1, Zenon DEF Shape
<1>5. ASSUME NEW j PROVE Saved(j)' <=> Saved(j) \/ j = k
  <2>1. Saved(j)' <=> \E m \in Note : notifications'[m].status # "none" /\ notifications'[m].key = j
    BY Zenon DEF Saved, Note
  <2> QED BY <2>1, <1>1, <1>3, <1>4, Zenon DEF Saved
<1> QED BY <1>2, <1>5, Zenon

\* The rows a tick holds go on existing, and so does what it saved.
LEMMA TickKept ==
    ASSUME OutboxInv, NEW w \in Tick, ticks'[w] = ticks[w],
           Rows \subseteq Rows', \A k \in Key : Saved(k) => Saved(k)'
    PROVE  TickInv(w)'
<1>1. TickInv(w)
  BY Zenon DEF OutboxInv
<1>2. Rows \subseteq Key
  BY Zenon DEF Rows
<1> QED
  BY <1>1, <1>2, Zenon DEF TickInv

\* A tick that is over holds nothing.
LEMMA TickOver ==
    ASSUME NEW w \in Tick, ticks'[w] = Idle
    PROVE  TickInv(w)'
  BY DEF TickInv, Idle

\* A tick that goes on with its batch holds a part of what it held.
LEMMA TickDone ==
    ASSUME OutboxInv, NEW w \in Tick, ticks[w].pc \in {"mark", "catch"}, Done(w),
           Rows \subseteq Rows', \A k \in Key : Saved(k) => Saved(k)'
    PROVE  DOMAIN ticks' = Tick /\ \A v \in Tick : TickInv(v)'
<1> DEFINE left == ticks[w].todo \ {ticks[w].cur}
<1>1. DOMAIN ticks = Tick /\ TickInv(w)
  BY Zenon DEF OutboxInv, Shape
<1>2. DOMAIN ticks' = Tick /\ \A v \in Tick : v # w => ticks'[v] = ticks[v]
  BY <1>1, Zenon DEF Done
<1>3. CASE left = {}
  <2>1. ticks'[w] = Idle
    BY <1>1, <1>3, Zenon DEF Done
  <2> QED BY <2>1, <1>2, TickKept, TickOver, Zenon
<1>4. CASE left # {}
  <2>1. /\ DOMAIN ticks'[w] = {"pc", "todo", "cur", "copy"}
        /\ ticks'[w].pc = "save"
        /\ ticks'[w].todo = left
    BY <1>1, <1>4, Zenon DEF Done, TickInv
  <2>2. TickInv(w)'
    BY <2>1, <1>1, Zenon DEF TickInv
  <2> QED BY <2>2, <1>2, TickKept, Zenon
<1> QED BY <1>3, <1>4, Zenon

\* Rewriting an existing row of the outbox makes and removes no row.
LEMMA UpdateKeeps ==
    ASSUME Shape, NEW k \in Rows, NEW s \in {"pending", "dispatched", "dead"}, NEW a,
           Update(k, s, a)
    PROVE  /\ DOMAIN outbox' = Key
           /\ \A j \in Key : DOMAIN outbox'[j] = {"status", "attempts", "born", "stale"}
           /\ \A j \in Key : outbox'[j].status = IF j = k THEN s ELSE outbox[j].status
           /\ Rows' = Rows
<1>1. k \in Key /\ outbox[k].status # "none"
  BY Zenon DEF Rows
<1>2. /\ DOMAIN outbox' = Key
      /\ \A j \in Key : j # k => outbox'[j] = outbox[j]
      /\ outbox'[k] = Row(s, a, outbox[k].born)
  BY <1>1, Zenon DEF Update, Shape
<1>3. /\ DOMAIN outbox'[k] = {"status", "attempts", "born", "stale"}
      /\ outbox'[k].status = s
  BY <1>2 DEF Row
<1>4. \A j \in Key : outbox'[j].status = IF j = k THEN s ELSE outbox[j].status
  BY <1>2, <1>3, Zenon
<1>5. Rows' = Rows
  BY <1>1, <1>4, Zenon DEF Rows
<1> QED BY <1>2, <1>3, <1>4, <1>5, Zenon DEF Shape

-----------------------------------------------------------------------------
(* What a step does to the promises.                                       *)

\* Rewriting an existing row to a status it may have is at most one edge.
LEMMA UpdateStep ==
    ASSUME OutboxInv, NEW k \in Rows, NEW s \in {"pending", "dispatched", "dead"}, NEW a,
           Update(k, s, a), s = "dispatched" => Saved(k), UNCHANGED notifications
    PROVE  /\ PromiseStep
           /\ \A j \in Key : outbox'[j].status = "dispatched" => Saved(j)'
           /\ \A j \in Key : Saved(j)' => j \in Rows'
<1>1. Shape /\ k \in Key /\ outbox[k].status # "none"
  BY Zenon DEF OutboxInv, Rows
<1>2. /\ DOMAIN outbox' = Key
      /\ \A j \in Key : DOMAIN outbox'[j] = {"status", "attempts", "born", "stale"}
      /\ \A j \in Key : outbox'[j].status = IF j = k THEN s ELSE outbox[j].status
      /\ Rows' = Rows
  BY <1>1, UpdateKeeps, Zenon
<1>3. \A j : Saved(j)' <=> Saved(j)
  BY Zenon DEF Saved, Note
<1>4. \A j \in Key : outbox'[j].status = "dispatched" => Saved(j)'
  BY <1>2, <1>3, Zenon DEF OutboxInv
<1>5. \A j \in Key : Saved(j)' => j \in Rows'
  BY <1>2, <1>3, Zenon DEF OutboxInv
<1>6. \A j \in Key : NotesOf(j)' = NotesOf(j)
  BY Zenon DEF NotesOf, Note
<1>7. \A j \in Key \ {k} : Promise(j)' = Promise(j)
  BY <1>2, <1>6, Zenon DEF Promise
<1>8. CASE Saved(k)
  <2>1. NotesOf(k) # {}
    BY <1>8, Zenon DEF Saved, NotesOf
  <2>2. Promise(k)' = Promise(k)
    BY <2>1, <1>1, <1>6, Zenon DEF Promise
  <2> QED BY <2>2, <1>1, <1>4, <1>5, <1>7, OneEdge, Zenon
<1>9. CASE ~Saved(k)
  <2>1. outbox[k].status \in {"pending", "processing", "dead"}
    BY <1>1, <1>9, Zenon DEF OutboxInv, Shape
  <2>2. Promise(k) \in {"owed", "abandoned"}
    BY <2>1, <1>1, <1>9, PromiseValue, Zenon
  <2>3. NotesOf(k) = {} /\ outbox'[k].status \in {"pending", "dead"}
    BY <1>1, <1>2, <1>9, Zenon DEF Saved, NotesOf
  <2>4. Promise(k)' \in {"owed", "abandoned"}
    BY <2>3, <1>1, <1>6, Zenon DEF Promise
  <2> QED BY <2>2, <2>4, <1>1, <1>4, <1>5, <1>7, OneEdge, Zenon
<1> QED BY <1>8, <1>9, Zenon

\* Saving a notification for an existing row is at most one edge.
LEMMA SaveStep ==
    ASSUME OutboxInv, NEW k \in Rows, SaveQueued(k), UNCHANGED outbox
    PROVE  /\ PromiseStep
           /\ \A j \in Key : outbox'[j].status = "dispatched" => Saved(j)'
           /\ \A j \in Key : Saved(j)' => j \in Rows'
<1>1. Shape /\ k \in Key /\ outbox[k].status # "none"
  BY Zenon DEF OutboxInv, Rows
<1>2. DOMAIN notifications' = Note /\ \A j : Saved(j)' <=> Saved(j) \/ j = k
  BY <1>1, SaveAdds, Zenon
<1>3. Rows' = Rows
  BY Zenon DEF Rows
<1>4. /\ \A j \in Key : outbox'[j].status = "dispatched" => Saved(j)'
      /\ \A j \in Key : Saved(j)' => j \in Rows'
  BY <1>2, <1>3, Zenon DEF OutboxInv
<1>5. Shape /\ \A j \in Key : NotesOf(j) # {} <=> Saved(j)
  BY <1>1, Zenon DEF NotesOf, Saved
<1>6. \A j \in Key : (NotesOf(j) # {})' <=> Saved(j)'
  BY Zenon DEF NotesOf, Saved
<1>7. \A j \in Key \ {k} : Promise(j)' = Promise(j)
  BY <1>2, <1>5, <1>6, Zenon DEF Promise
<1>8. Promise(k)' = "queued"
  BY <1>1, <1>2, <1>6, Zenon DEF Promise
<1>9. Promise(k) \in {"owed", "abandoned", "queued"}
  <2>1. outbox[k].status = "dispatched" => Saved(k)
    BY <1>1, Zenon DEF OutboxInv
  <2> QED BY <2>1, <1>1, PromiseValue, Zenon DEF Shape
<1> QED BY <1>1, <1>4, <1>7, <1>8, <1>9, OneEdge, Zenon

\* A step that leaves the notifications alone and turns rows only from pending to
\* processing or back keeps the promises.
LEMMA ClaimStep ==
    ASSUME OutboxInv, UNCHANGED notifications,
           \A j \in Key : \/ outbox'[j].status = outbox[j].status
                          \/ /\ outbox[j].status \in {"pending", "processing"}
                             /\ outbox'[j].status \in {"pending", "processing"}
    PROVE  /\ PromiseStep
           /\ Rows' = Rows
           /\ \A j \in Key : Saved(j)' <=> Saved(j)
           /\ \A j \in Key : outbox'[j].status = "dispatched" => Saved(j)'
           /\ \A j \in Key : Saved(j)' => j \in Rows'
<1>1. \A j \in Key : (Saved(j)' <=> Saved(j)) /\ NotesOf(j)' = NotesOf(j)
  BY Zenon DEF Saved, NotesOf, Note
<1>2. Rows' = Rows
  BY Zenon DEF Rows
<1>3. /\ \A j \in Key : outbox'[j].status = "dispatched" => Saved(j)'
      /\ \A j \in Key : Saved(j)' => j \in Rows'
  BY <1>1, <1>2, Zenon DEF OutboxInv
<1>4. ASSUME NEW j \in Key PROVE Promise(j)' = Promise(j)
  <2>1. CASE outbox'[j].status = outbox[j].status
    BY <2>1, <1>1, Zenon DEF Promise
  <2>2. CASE /\ outbox[j].status \in {"pending", "processing"}
             /\ outbox'[j].status \in {"pending", "processing"}
    BY <2>2, <1>1, Zenon DEF Promise
  <2> QED BY <2>1, <2>2, Zenon
<1> QED BY <1>1, <1>2, <1>3, <1>4, NoEdge, Zenon

-----------------------------------------------------------------------------
(* The actions.                                                            *)

\* Accepting an item: no notification can be there before its row.
LEMMA EnqueueInv ==
    ASSUME OutboxInv, NEW k \in Key, EnqueueFanoutNotificationItem(k)
    PROVE  OutboxInv' /\ PromiseStep
<1>1. Shape /\ outbox[k].status = "none" /\ ~Saved(k)
  BY Zenon DEF EnqueueFanoutNotificationItem, OutboxInv, Rows
<1>2. /\ DOMAIN outbox' = Key
      /\ \A j \in Key : j # k => outbox'[j] = outbox[j]
      /\ outbox'[k] = Row("pending", 0, Cardinality(Rows))
  BY <1>1, Zenon DEF EnqueueFanoutNotificationItem, Shape
<1>3. /\ outbox'[k].status = "pending"
      /\ DOMAIN outbox'[k] = {"status", "attempts", "born", "stale"}
  BY <1>2 DEF Row
<1>4. UNCHANGED <<ticks, operators, notifications>>
  BY Zenon DEF EnqueueFanoutNotificationItem
<1>5. Shape'
  BY <1>1, <1>2, <1>3, <1>4, Zenon DEF Shape, Note
<1>6. Rows \subseteq Rows' /\ k \in Rows'
  BY <1>1, <1>2, <1>3, Zenon DEF Rows
<1>7. \A j : Saved(j)' <=> Saved(j)
  BY <1>4, Zenon DEF Saved, Note
<1>8. \A j \in Key : outbox'[j].status = "dispatched" => Saved(j)'
  BY <1>2, <1>3, <1>7, Zenon DEF OutboxInv
<1>9. \A j \in Key : Saved(j)' => j \in Rows'
  BY <1>6, <1>7, Zenon DEF OutboxInv
<1>10. OutboxInv'
  <2>1. \A w \in Tick : TickInv(w)'
    BY <1>4, <1>6, <1>7, TickKept, Zenon
  <2>2. \A o \in Operator : operators'[o] # Direct => operators'[o] \in Rows'
    BY <1>4, <1>6, Zenon DEF OutboxInv
  <2> QED BY <2>1, <2>2, <1>5, <1>8, <1>9, Zenon DEF OutboxInv
<1>11. PromiseStep
  <2>1. \A j \in Key : NotesOf(j)' = NotesOf(j)
    BY <1>4, Zenon DEF NotesOf, Note
  <2>2. \A j \in Key \ {k} : Promise(j)' = Promise(j)
    BY <2>1, <1>2, Zenon DEF Promise
  <2>3. Promise(k) = "none"
    BY <1>1, PromiseValue, Zenon
  <2>4. NotesOf(k) = {}
    BY <1>1, Zenon DEF NotesOf, Saved
  <2>5. Promise(k)' = "owed"
    BY <2>1, <2>4, <1>3, Zenon DEF Promise
  <2> QED BY <2>2, <2>3, <2>5, OneEdge, Zenon
<1> QED BY <1>10, <1>11, Zenon

\* A notification that was asked for directly is no item's.
LEMMA PostInv ==
    ASSUME OutboxInv, PostNotification
    PROVE  OutboxInv' /\ PromiseStep
<1>1. Shape /\ Direct \notin Key /\ UNCHANGED <<outbox, ticks, operators>>
  BY OutboxConstants, Zenon DEF OutboxInv, PostNotification
<1>2. DOMAIN notifications' = Note /\ \A j : Saved(j)' <=> Saved(j) \/ j = Direct
  BY <1>1, SaveAdds, Zenon DEF PostNotification
<1>3. Rows' = Rows
  BY <1>1, Zenon DEF Rows
<1>4. \A j \in Key : Saved(j)' <=> Saved(j)
  BY <1>1, <1>2, Zenon
<1>5. OutboxInv'
  <2>1. Shape'
    BY <1>1, <1>2, Zenon DEF Shape, Note
  <2>2. \A w \in Tick : TickInv(w)'
    BY <1>1, <1>3, <1>4, TickKept, Zenon
  <2> QED BY <2>1, <2>2, <1>1, <1>3, <1>4, Zenon DEF OutboxInv
<1>6. \A j \in Key : Promise(j)' = Promise(j)
  <2>1. \A j \in Key : (NotesOf(j) # {} <=> Saved(j)) /\ ((NotesOf(j) # {})' <=> Saved(j)')
    BY Zenon DEF NotesOf, Saved
  <2> QED BY <2>1, <1>1, <1>4, Zenon DEF Promise
<1> QED BY <1>5, <1>6, NoEdge, Zenon

\* A step that only writes an existing row and lets a tick or an operator go on.
LEMMA RewriteInv ==
    ASSUME OutboxInv, NEW k \in Rows, NEW s \in {"pending", "dispatched", "dead"}, NEW a,
           Update(k, s, a), s = "dispatched" => Saved(k), UNCHANGED notifications,
           DOMAIN ticks' = Tick, DOMAIN operators' = Operator,
           Rows' = Rows /\ (\A j \in Key : Saved(j) => Saved(j)')
               => \A w \in Tick : TickInv(w)',
           \A o \in Operator : operators'[o] \in {operators[o], Direct}
    PROVE  OutboxInv' /\ PromiseStep
<1>1. Shape
  BY Zenon DEF OutboxInv
<1>2. /\ DOMAIN outbox' = Key
      /\ \A j \in Key : DOMAIN outbox'[j] = {"status", "attempts", "born", "stale"}
      /\ \A j \in Key : outbox'[j].status = IF j = k THEN s ELSE outbox[j].status
      /\ Rows' = Rows
  BY <1>1, UpdateKeeps, Zenon
<1>3. Shape'
  BY <1>1, <1>2, Zenon DEF Shape, Note
<1>4. \A j \in Key : Saved(j) => Saved(j)'
  BY Zenon DEF Saved, Note
<1>5. \A w \in Tick : TickInv(w)'
  BY <1>2, <1>4, Zenon
<1>6. \A o \in Operator : operators'[o] # Direct => operators'[o] \in Rows'
  BY <1>2, Zenon DEF OutboxInv
<1>7. /\ PromiseStep
      /\ \A j \in Key : outbox'[j].status = "dispatched" => Saved(j)'
      /\ \A j \in Key : Saved(j)' => j \in Rows'
  BY UpdateStep, Zenon
<1> QED BY <1>3, <1>5, <1>6, <1>7, Zenon DEF OutboxInv

\* A step that leaves both tables alone.
LEMMA TablesKept ==
    ASSUME OutboxInv, UNCHANGED <<outbox, notifications>>,
           DOMAIN ticks' = Tick, DOMAIN operators' = Operator,
           \A w \in Tick : TickInv(w)',
           \A o \in Operator : operators'[o] # Direct => operators'[o] \in Rows
    PROVE  OutboxInv' /\ PromiseStep
<1>1. /\ PromiseStep
      /\ Rows' = Rows
      /\ \A j \in Key : outbox'[j].status = "dispatched" => Saved(j)'
      /\ \A j \in Key : Saved(j)' => j \in Rows'
  BY ClaimStep, Zenon
<1>2. Shape'
  BY Zenon DEF OutboxInv, Shape, Note
<1> QED BY <1>1, <1>2, Zenon DEF OutboxInv

\* Recovery and claim turn rows from processing to pending and back.
LEMMA RecoverInv ==
    ASSUME OutboxInv, NEW w \in Tick, RecoverStale(w)
    PROVE  OutboxInv' /\ PromiseStep
<1>1. Shape /\ TickInv(w) /\ UNCHANGED <<operators, notifications>>
  BY Zenon DEF OutboxInv, RecoverStale
<1>2. /\ DOMAIN outbox' = Key
      /\ \A j \in Key : outbox'[j] = Recovered(outbox[j])
  BY Zenon DEF RecoverStale
<1>3. ASSUME NEW j \in Key
      PROVE  /\ DOMAIN outbox'[j] = {"status", "attempts", "born", "stale"}
             /\ \/ outbox'[j].status = outbox[j].status
                \/ outbox[j].status = "processing" /\ outbox'[j].status = "pending"
  BY <1>1, <1>2, Zenon DEF Recovered, Shape
<1>4. /\ PromiseStep
      /\ Rows' = Rows
      /\ \A j \in Key : Saved(j)' <=> Saved(j)
      /\ \A j \in Key : outbox'[j].status = "dispatched" => Saved(j)'
      /\ \A j \in Key : Saved(j)' => j \in Rows'
  BY <1>1, <1>3, ClaimStep, Zenon
<1>5. /\ DOMAIN ticks' = Tick
      /\ \A v \in Tick : v # w => ticks'[v] = ticks[v]
      /\ DOMAIN ticks'[w] = {"pc", "todo", "cur", "copy"}
      /\ ticks'[w].pc = "claim"
  BY <1>1, Zenon DEF RecoverStale, Go, Shape, TickInv
<1>6. \A v \in Tick : TickInv(v)'
  <2>1. TickInv(w)'
    BY <1>5, Zenon DEF TickInv
  <2> QED BY <2>1, <1>4, <1>5, TickKept, Zenon
<1>7. Shape'
  BY <1>1, <1>2, <1>3, <1>5, Zenon DEF Shape, Note
<1> QED BY <1>1, <1>4, <1>6, <1>7, Zenon DEF OutboxInv

\* The claim's rows were pending.
LEMMA ClaimInv ==
    ASSUME OutboxInv, NEW w \in Tick, ClaimPending(w)
    PROVE  OutboxInv' /\ PromiseStep
<1>1. Shape /\ UNCHANGED <<operators, notifications>>
  BY Zenon DEF OutboxInv, ClaimPending
<1>2. PICK batch \in SUBSET Key :
         /\ Oldest(batch)
         /\ outbox' = [k \in Key |->
                IF k \in batch THEN [outbox[k] EXCEPT !.status = "processing"]
                ELSE outbox[k]]
         /\ ticks' = [ticks EXCEPT ![w] =
                IF batch = {} THEN Idle
                ELSE [pc |-> "save", todo |-> batch, cur |-> Direct,
                      copy |-> [k \in Key |->
                          IF k \in batch THEN outbox[k].attempts ELSE 0]]]
  BY Zenon DEF ClaimPending
<1>3. \A k \in batch : outbox[k].status = "pending"
  BY <1>2, Zenon DEF Oldest, Pending
<1>4. ASSUME NEW j \in Key
      PROVE  /\ DOMAIN outbox'[j] = {"status", "attempts", "born", "stale"}
             /\ \/ outbox'[j].status = outbox[j].status
                \/ outbox[j].status = "pending" /\ outbox'[j].status = "processing"
  <2>1. CASE j \in batch
    <3>1. outbox'[j] = [outbox[j] EXCEPT !.status = "processing"]
      BY <1>2, <2>1, Zenon
    <3> QED BY <3>1, <2>1, <1>1, <1>3, Zenon DEF Shape
  <2>2. CASE j \notin batch
    <3>1. outbox'[j] = outbox[j]
      BY <1>2, <2>2, Zenon
    <3> QED BY <3>1, <1>1, Zenon DEF Shape
  <2> QED BY <2>1, <2>2, Zenon
<1>5. /\ PromiseStep
      /\ Rows' = Rows
      /\ \A j \in Key : Saved(j)' <=> Saved(j)
      /\ \A j \in Key : outbox'[j].status = "dispatched" => Saved(j)'
      /\ \A j \in Key : Saved(j)' => j \in Rows'
  BY <1>1, <1>4, ClaimStep, Zenon
<1>6. batch \subseteq Rows
  BY <1>3, Zenon DEF Rows
<1>7. DOMAIN ticks' = Tick /\ \A v \in Tick : v # w => ticks'[v] = ticks[v]
  BY <1>1, <1>2, Zenon DEF Shape
<1>8. TickInv(w)'
  <2>1. CASE batch = {}
    <3>1. ticks'[w] = Idle
      BY <2>1, <1>1, <1>2, Zenon DEF Shape
    <3> QED BY <3>1, TickOver, Zenon
  <2>2. CASE batch # {}
    <3>1. ticks'[w] = [pc |-> "save", todo |-> batch, cur |-> Direct,
                       copy |-> [k \in Key |->
                           IF k \in batch THEN outbox[k].attempts ELSE 0]]
      BY <2>2, <1>1, <1>2, Zenon DEF Shape
    <3>2. /\ DOMAIN ticks'[w] = {"pc", "todo", "cur", "copy"}
          /\ ticks'[w].pc = "save"
          /\ ticks'[w].todo = batch
      BY <3>1
    <3> QED BY <3>2, <1>5, <1>6, Zenon DEF TickInv
  <2> QED BY <2>1, <2>2, Zenon
<1>9. \A v \in Tick : TickInv(v)'
  BY <1>5, <1>7, <1>8, TickKept, Zenon
<1>10. Shape'
  <2>1. DOMAIN outbox' = Key
    BY <1>2, Zenon
  <2> QED BY <2>1, <1>1, <1>4, <1>7, Zenon DEF Shape, Note
<1> QED BY <1>1, <1>5, <1>9, <1>10, Zenon DEF OutboxInv

\* The row a tick turns to goes on to the mark or, after a failure, to the catch.
LEMMA SavedInv ==
    ASSUME OutboxInv, NEW w \in Tick, ticks[w].pc = "save", NEW k \in ticks[w].todo,
           SaveQueued(k), UNCHANGED <<outbox, operators>>, NEW pc \in {"mark", "catch"},
           ticks' = [ticks EXCEPT ![w].pc = pc, ![w].cur = k]
    PROVE  OutboxInv' /\ PromiseStep
<1>1. Shape /\ TickInv(w) /\ k \in Rows
  BY Zenon DEF OutboxInv, TickInv
<1>2. DOMAIN notifications' = Note /\ \A j : Saved(j)' <=> Saved(j) \/ j = k
  BY <1>1, SaveAdds, Zenon
<1>3. /\ PromiseStep
      /\ \A j \in Key : outbox'[j].status = "dispatched" => Saved(j)'
      /\ \A j \in Key : Saved(j)' => j \in Rows'
  BY <1>1, SaveStep, Zenon
<1>4. Rows' = Rows
  BY Zenon DEF Rows
<1>5. /\ DOMAIN ticks' = Tick
      /\ \A v \in Tick : v # w => ticks'[v] = ticks[v]
      /\ ticks'[w] = [ticks[w] EXCEPT !.pc = pc, !.cur = k]
  BY <1>1, Zenon DEF Shape
<1>6. /\ DOMAIN ticks'[w] = {"pc", "todo", "cur", "copy"}
      /\ ticks'[w].pc = pc /\ ticks'[w].cur = k /\ ticks'[w].todo = ticks[w].todo
  BY <1>1, <1>5, Zenon DEF TickInv
<1>7. TickInv(w)'
  BY <1>1, <1>2, <1>4, <1>6, Zenon DEF TickInv
<1>8. \A v \in Tick : TickInv(v)'
  BY <1>2, <1>4, <1>5, <1>7, TickKept, Zenon
<1>9. Shape'
  BY <1>1, <1>2, <1>5, Zenon DEF Shape, Note
<1> QED BY <1>3, <1>4, <1>8, <1>9, Zenon DEF OutboxInv

\* A tick that a failed statement sends to the catch block, both tables as before.
LEMMA ToCatchInv ==
    ASSUME OutboxInv, NEW w \in Tick, NEW k \in ticks[w].todo, ticks[w].todo \subseteq Rows,
           DOMAIN ticks' = Tick, \A v \in Tick : v # w => ticks'[v] = ticks[v],
           ticks'[w] = [ticks[w] EXCEPT !.pc = "catch", !.cur = k],
           UNCHANGED <<outbox, operators, notifications>>
    PROVE  OutboxInv' /\ PromiseStep
<1>1. TickInv(w) /\ DOMAIN operators = Operator
  BY Zenon DEF OutboxInv, Shape
<1>2. /\ DOMAIN ticks'[w] = {"pc", "todo", "cur", "copy"}
      /\ ticks'[w].pc = "catch" /\ ticks'[w].cur = k /\ ticks'[w].todo = ticks[w].todo
  BY <1>1, Zenon DEF TickInv
<1>3. Rows' = Rows /\ \A j \in Key : Saved(j)' <=> Saved(j)
  BY Zenon DEF Rows, Saved, Note
<1>4. TickInv(w)'
  BY <1>2, <1>3, Zenon DEF TickInv
<1>5. \A v \in Tick : TickInv(v)'
  BY <1>3, <1>4, TickKept, Zenon
<1> QED BY <1>1, <1>5, TablesKept, Zenon DEF OutboxInv

\* The save, whether or not it fails and whether or not a failed one took effect.
LEMMA SaveInv ==
    ASSUME OutboxInv, NEW w \in Tick, SaveNotification(w) \/ SaveFails(w)
    PROVE  OutboxInv' /\ PromiseStep
<1>1. ticks[w].pc = "save" /\ ticks[w].todo \subseteq Rows /\ DOMAIN ticks = Tick
  BY Zenon DEF OutboxInv, Shape, TickInv, SaveNotification, SaveFails
<1>2. CASE SaveNotification(w)
  <2>1. PICK k \in ticks[w].todo :
           /\ SaveQueued(k)
           /\ ticks' = [ticks EXCEPT ![w].pc = "mark", ![w].cur = k]
    BY <1>2, Zenon DEF SaveNotification
  <2> QED BY <1>1, <1>2, <2>1, SavedInv, Zenon DEF SaveNotification
<1>3. CASE SaveFails(w)
  <2>1. PICK k \in ticks[w].todo :
           /\ SaveQueued(k) \/ UNCHANGED notifications
           /\ ticks' = [ticks EXCEPT ![w].pc = "catch", ![w].cur = k]
    BY <1>3, Zenon DEF SaveFails
  <2>2. UNCHANGED <<outbox, operators>>
    BY <1>3, Zenon DEF SaveFails
  <2>3. CASE SaveQueued(k)
    BY <1>1, <2>1, <2>2, <2>3, SavedInv, Zenon
  <2>4. CASE UNCHANGED notifications
    <3>1. /\ DOMAIN ticks' = Tick /\ \A v \in Tick : v # w => ticks'[v] = ticks[v]
          /\ ticks'[w] = [ticks[w] EXCEPT !.pc = "catch", !.cur = k]
      BY <1>1, <2>1, Zenon
    <3> QED BY <3>1, <1>1, <2>2, <2>4, ToCatchInv, Zenon
  <2> QED BY <2>1, <2>3, <2>4, Zenon
<1> QED BY <1>2, <1>3, Zenon

\* A row is marked dispatched only by a tick that has saved its notification.
LEMMA MarkInv ==
    ASSUME OutboxInv, NEW w \in Tick, MarkDispatched(w) \/ MarkFails(w)
    PROVE  OutboxInv' /\ PromiseStep
<1>1. /\ ticks[w].pc = "mark" /\ ticks[w].cur \in ticks[w].todo
      /\ ticks[w].todo \subseteq Rows /\ Saved(ticks[w].cur)
      /\ DOMAIN ticks = Tick /\ DOMAIN operators = Operator /\ TickInv(w)
  BY Zenon DEF OutboxInv, Shape, TickInv, MarkDispatched, MarkFails
<1>2. PICK k \in Rows : k = ticks[w].cur
  BY <1>1, Zenon
<1>3. UNCHANGED <<operators, notifications>>
  BY Zenon DEF MarkDispatched, MarkFails
<1>4. CASE MarkDispatched(w)
  <2>1. Update(k, "dispatched", ticks[w].copy[k]) /\ Done(w)
    BY <1>2, <1>4, Zenon DEF MarkDispatched
  <2>2. DOMAIN ticks' = Tick
    BY <2>1, <1>1, Zenon DEF Done
  <2>3. Rows' = Rows /\ (\A j \in Key : Saved(j) => Saved(j)') => \A v \in Tick : TickInv(v)'
    BY <2>1, <1>1, TickDone, Zenon
  <2> QED BY <2>1, <2>2, <2>3, <1>1, <1>2, <1>3, RewriteInv, Zenon
<1>5. CASE MarkFails(w)
  <2>1. ticks' = [ticks EXCEPT ![w].pc = "catch"]
    BY <1>5, Zenon DEF MarkFails, Go
  <2>2. /\ DOMAIN ticks' = Tick /\ \A v \in Tick : v # w => ticks'[v] = ticks[v]
        /\ ticks'[w] = [ticks[w] EXCEPT !.pc = "catch"]
    BY <2>1, <1>1, Zenon
  <2>3. /\ DOMAIN ticks'[w] = {"pc", "todo", "cur", "copy"}
        /\ ticks'[w].pc = "catch" /\ ticks'[w].cur = k /\ ticks'[w].todo = ticks[w].todo
    BY <2>2, <1>1, <1>2, Zenon DEF TickInv
  <2>4. Rows' = Rows /\ (\A j \in Key : Saved(j) => Saved(j)') => \A v \in Tick : TickInv(v)'
    <3>1. ASSUME Rows' = Rows PROVE TickInv(w)'
      BY <3>1, <2>3, <1>1, <1>2, Zenon DEF TickInv
    <3> QED BY <3>1, <2>2, TickKept, Zenon
  <2>5. CASE Update(k, "dispatched", ticks[w].copy[k])
    BY <2>2, <2>4, <2>5, <1>1, <1>2, <1>3, RewriteInv, Zenon
  <2>6. CASE UNCHANGED outbox
    <3>1. Rows' = Rows /\ \A j \in Key : Saved(j) => Saved(j)'
      BY <2>6, <1>3, Zenon DEF Rows, Saved, Note
    <3> QED BY <3>1, <2>2, <2>4, <2>6, <1>1, <1>3, TablesKept, Zenon DEF OutboxInv
  <2> QED BY <2>5, <2>6, <1>2, <1>5, Zenon DEF MarkFails
<1> QED BY <1>4, <1>5, Zenon

\* The catch block writes pending or dead over an existing row.
LEMMA CatchInv ==
    ASSUME OutboxInv, NEW w \in Tick, CatchError(w) \/ CatchFails(w)
    PROVE  OutboxInv' /\ PromiseStep
<1>1. /\ ticks[w].pc = "catch" /\ ticks[w].cur \in ticks[w].todo
      /\ ticks[w].todo \subseteq Rows
      /\ DOMAIN ticks = Tick /\ DOMAIN operators = Operator
  BY Zenon DEF OutboxInv, Shape, TickInv, CatchError, CatchFails
<1>2. PICK k \in Rows : k = ticks[w].cur
  BY <1>1, Zenon
<1>3. UNCHANGED <<operators, notifications>>
  BY Zenon DEF CatchError, CatchFails
<1>4. ASSUME Attempted(w)
      PROVE  \E s \in {"pending", "dead"} : Update(k, s, ticks[w].copy[k] + 1)
  BY <1>2, <1>4, Zenon DEF Attempted
<1>5. CASE CatchError(w)
  <2>1. PICK s \in {"pending", "dead"} : Update(k, s, ticks[w].copy[k] + 1)
    BY <1>4, <1>5, Zenon DEF CatchError
  <2>2. Done(w) /\ DOMAIN ticks' = Tick
    BY <1>1, <1>5, Zenon DEF CatchError, Done
  <2>3. Rows' = Rows /\ (\A j \in Key : Saved(j) => Saved(j)') => \A v \in Tick : TickInv(v)'
    BY <2>2, <1>1, TickDone, Zenon
  <2> QED BY <2>1, <2>2, <2>3, <1>1, <1>3, RewriteInv, Zenon
<1>6. CASE CatchFails(w)
  <2>1. /\ DOMAIN ticks' = Tick /\ \A v \in Tick : v # w => ticks'[v] = ticks[v]
        /\ ticks'[w] = Idle
    BY <1>1, <1>6, Zenon DEF CatchFails
  <2>2. Rows' = Rows /\ (\A j \in Key : Saved(j) => Saved(j)') => \A v \in Tick : TickInv(v)'
    BY <2>1, TickKept, TickOver, Zenon
  <2>3. CASE Attempted(w)
    <3>1. PICK s \in {"pending", "dead"} : Update(k, s, ticks[w].copy[k] + 1)
      BY <1>4, <2>3, Zenon
    <3> QED BY <3>1, <2>1, <2>2, <1>1, <1>3, RewriteInv, Zenon
  <2>4. CASE UNCHANGED outbox
    <3>1. Rows' = Rows /\ \A j \in Key : Saved(j) => Saved(j)'
      BY <2>4, <1>3, Zenon DEF Rows, Saved, Note
    <3> QED BY <3>1, <2>1, <2>2, <2>4, <1>1, <1>3, TablesKept, Zenon DEF OutboxInv
  <2> QED BY <2>3, <2>4, <1>6, Zenon DEF CatchFails
<1> QED BY <1>5, <1>6, Zenon

\* Time passing, a restart, and an operator's read and write.
LEMMA OutsideInv ==
    ASSUME OutboxInv,
           \/ \E k \in Key : TurnStale(k)
           \/ Crash
           \/ \E o \in Operator : RetryWrite(o) \/ \E k \in Key : RetryRead(o, k)
    PROVE  OutboxInv' /\ PromiseStep
<1>1. Shape
  BY Zenon DEF OutboxInv
<1>2. ASSUME NEW k \in Key, TurnStale(k) PROVE OutboxInv' /\ PromiseStep
  <2>1. UNCHANGED <<ticks, operators, notifications>>
    BY <1>2, Zenon DEF TurnStale
  <2>2. /\ DOMAIN outbox' = Key /\ \A j \in Key : j # k => outbox'[j] = outbox[j]
        /\ outbox'[k] = [outbox[k] EXCEPT !.stale = TRUE]
    BY <1>1, <1>2, Zenon DEF TurnStale, Shape
  <2>3. /\ DOMAIN outbox'[k] = {"status", "attempts", "born", "stale"}
        /\ outbox'[k].status = outbox[k].status
    BY <1>1, <2>2, Zenon DEF Shape
  <2>4. \A j \in Key : outbox'[j].status = outbox[j].status
    BY <2>2, <2>3, Zenon
  <2>5. /\ PromiseStep
        /\ Rows' = Rows
        /\ \A j \in Key : Saved(j)' <=> Saved(j)
        /\ \A j \in Key : outbox'[j].status = "dispatched" => Saved(j)'
        /\ \A j \in Key : Saved(j)' => j \in Rows'
    BY <2>1, <2>4, ClaimStep, Zenon
  <2>6. Shape'
    BY <1>1, <2>1, <2>2, <2>3, Zenon DEF Shape, Note
  <2>7. \A w \in Tick : TickInv(w)'
    BY <2>1, <2>5, TickKept, Zenon
  <2> QED BY <2>1, <2>5, <2>6, <2>7, Zenon DEF OutboxInv
<1>3. CASE Crash
  <2>1. /\ UNCHANGED <<outbox, notifications>>
        /\ DOMAIN ticks' = Tick /\ \A w \in Tick : ticks'[w] = Idle
        /\ DOMAIN operators' = Operator /\ \A o \in Operator : operators'[o] = Direct
    BY <1>3, Zenon DEF Crash
  <2>2. \A w \in Tick : TickInv(w)'
    BY <2>1, TickOver, Zenon
  <2> QED BY <2>1, <2>2, TablesKept, Zenon
<1>4. ASSUME NEW o \in Operator, RetryWrite(o) PROVE OutboxInv' /\ PromiseStep
  <2>1. PICK k \in Rows : k = operators[o]
    BY <1>4, Zenon DEF RetryWrite, OutboxInv
  <2>2. Update(k, "pending", 0) /\ UNCHANGED <<ticks, notifications>>
    BY <2>1, <1>4, Zenon DEF RetryWrite
  <2>3. /\ DOMAIN ticks' = Tick /\ DOMAIN operators' = Operator
        /\ \A p \in Operator : operators'[p] \in {operators[p], Direct}
    BY <1>1, <1>4, Zenon DEF RetryWrite, Shape
  <2>4. Rows' = Rows /\ (\A j \in Key : Saved(j) => Saved(j)') => \A w \in Tick : TickInv(w)'
    BY <2>2, TickKept, Zenon
  <2> QED BY <2>2, <2>3, <2>4, RewriteInv, Zenon
<1>5. ASSUME NEW o \in Operator, NEW k \in Key, RetryRead(o, k) PROVE OutboxInv' /\ PromiseStep
  <2>1. UNCHANGED <<outbox, ticks, notifications>> /\ k \in Rows
    BY <1>5, Zenon DEF RetryRead, Rows
  <2>2. /\ DOMAIN ticks' = Tick /\ DOMAIN operators' = Operator
        /\ \A p \in Operator : operators'[p] \in {operators[p], k}
    BY <2>1, <1>1, <1>5, Zenon DEF RetryRead, Shape
  <2>3. \A p \in Operator : operators'[p] # Direct => operators'[p] \in Rows
    BY <2>1, <2>2, Zenon DEF OutboxInv
  <2>4. Rows' = Rows /\ \A j \in Key : Saved(j) => Saved(j)'
    BY <2>1, Zenon DEF Rows, Saved, Note
  <2>5. \A w \in Tick : TickInv(w)'
    BY <2>1, <2>4, TickKept, Zenon
  <2> QED BY <2>1, <2>2, <2>3, <2>5, TablesKept, Zenon
<1> QED BY <1>2, <1>3, <1>4, <1>5, Zenon

\* Nothing happens.
LEMMA StutterInv ==
    ASSUME OutboxInv, UNCHANGED vars
    PROVE  OutboxInv' /\ PromiseStep
<1>1. UNCHANGED <<outbox, ticks, operators, notifications>>
  BY Zenon DEF vars
<1>2. Rows' = Rows /\ \A j \in Key : Saved(j) => Saved(j)'
  BY <1>1, Zenon DEF Rows, Saved, Note
<1>3. \A w \in Tick : TickInv(w)'
  BY <1>1, <1>2, TickKept, Zenon
<1> QED BY <1>1, <1>3, TablesKept, Zenon DEF OutboxInv, Shape

\* The tables start empty.
LEMMA OutboxInit ==
    ASSUME Init
    PROVE  OutboxInv /\ Promised!Init
<1>1. \A k \in Key : outbox[k] = NoRow
  BY Zenon DEF Init
<1>2. \A k \in Key : /\ outbox[k].status = "none"
                     /\ DOMAIN outbox[k] = {"status", "attempts", "born", "stale"}
  BY <1>1 DEF NoRow, Row
<1>3. Shape
  BY <1>2, Zenon DEF Init, Shape
<1>4. \A k \in Key : ~Saved(k)
  BY Zenon DEF Init, Saved, NoNote
<1>5. \A w \in Tick : TickInv(w)
  BY Zenon DEF Init, TickInv, Idle
<1>6. OutboxInv
  BY <1>2, <1>3, <1>4, <1>5, Zenon DEF OutboxInv, Init
<1>7. \A k \in Key : Promise(k) = "none"
  BY <1>2, <1>3, <1>4, PromiseValue, Zenon
<1>8. Promised!Init
  BY <1>7, Zenon DEF Promised!Init, promise
<1> QED BY <1>6, <1>8, Zenon

\* Every step preserves the invariant and is a step of Fanout or none.
LEMMA OutboxStep ==
    ASSUME OutboxInv, [Next]_vars
    PROVE  OutboxInv' /\ PromiseStep
<1>1. CASE UNCHANGED vars
  BY <1>1, StutterInv, Zenon
<1>2. ASSUME NEW k \in Key, EnqueueFanoutNotificationItem(k) PROVE OutboxInv' /\ PromiseStep
  BY <1>2, EnqueueInv, Zenon
<1>3. ASSUME NEW w \in Tick, TickStep(w) \/ TickFails(w) PROVE OutboxInv' /\ PromiseStep
  BY <1>3, RecoverInv, ClaimInv, SaveInv, MarkInv, CatchInv, Zenon DEF TickStep, TickFails
<1>4. CASE PostNotification
  BY <1>4, PostInv, Zenon
<1>5. CASE \/ \E k \in Key : TurnStale(k)
           \/ Crash
           \/ \E o \in Operator : RetryWrite(o) \/ \E k \in Key : RetryRead(o, k)
  BY <1>5, OutsideInv, Zenon
<1> QED BY <1>1, <1>2, <1>3, <1>4, <1>5, Zenon DEF Next, Work

\* The outbox implements the promise of Fanout: overlapping ticks of
\* runOutboxFanoutTick, failing statements, crashes, stale claims taken over and
\* operator retries never lose an accepted item and queue none that was not
\* accepted, whatever the numbers of keys, ticks and notifications and the sizes.
THEOREM OutboxImplementsFanout == Spec => KeepsPromises
<1>1. Init => OutboxInv /\ Promised!Init
  BY OutboxInit, Zenon
<1>2. OutboxInv /\ [Next]_vars => OutboxInv' /\ [Promised!Next]_promise
  BY OutboxStep, Zenon DEF PromiseStep
<1> QED BY <1>1, <1>2, PTL DEF Spec, KeepsPromises, Promised!Safe

-----------------------------------------------------------------------------
(* The marks of the delivery worker.                                       *)

NoteRow == [status : {"none", "queued", "retry_scheduled", "sent", "failed"},
            key : Key \cup {Direct}, attempts : Nat, due : BOOLEAN]

TickRow == [pc : {"idle", "deliver", "save"}, todo : SUBSET Note, copy : [Note -> Nat],
            ok : BOOLEAN]

DeliveryTypes ==
    /\ notifications \in [Note -> NoteRow]
    /\ workers \in [Worker -> TickRow]
    /\ failures \in [Note -> 0 .. MaxAttempts]

\* What a row of the table says of its deliveries: a count that is still used is at
\* most the number of refusals, and a final mark is earned.
RowEarned(n) ==
    /\ notifications[n].status \in {"queued", "retry_scheduled"} =>
          notifications[n].attempts <= failures[n]
    /\ notifications[n].status = "sent" => n \in received
    /\ notifications[n].status = "failed" => failures[n] = MaxAttempts

\* What a tick knows: its copies count no more than the refusals, however old they are,
\* and the outcome it is about to write has happened.
TickEarned(w) ==
    /\ workers[w].pc # "idle" => workers[w].todo # {}
    /\ \A n \in workers[w].todo : workers[w].copy[n] <= failures[n]
    /\ workers[w].pc = "save" =>
          LET n == Delivery!Current(w)
          IN  IF workers[w].ok THEN n \in received
              ELSE workers[w].copy[n] + 1 <= failures[n] \/ failures[n] = MaxAttempts

\* Every non-empty set of notifications has a first one.
FirstNotes == \A T \in SUBSET Note : T # {} => \E x \in T : \A y \in T : x <= y

\* The inductive invariant.
EarnedInv ==
    /\ DeliveryTypes
    /\ FirstNotes
    /\ \A n \in Note : RowEarned(n)
    /\ \A w \in Worker : TickEarned(w)

\* The notification a tick is at is one of its list.
LEMMA CurrentIsListed ==
    ASSUME EarnedInv, NEW w \in Worker, workers[w].pc # "idle"
    PROVE  /\ Delivery!Current(w) \in workers[w].todo
           /\ Delivery!Current(w) \in Note
<1>1. workers[w].todo \subseteq Note /\ workers[w].todo # {}
  BY Zenon DEF EarnedInv, DeliveryTypes, TickRow, TickEarned
<1>2. Note \subseteq Nat
  BY OutboxConstants DEF Note
<1>3. \E x \in workers[w].todo : \A y \in workers[w].todo : x <= y
  BY <1>1, Zenon DEF EarnedInv, FirstNotes
<1> QED BY <1>1, <1>3, Zenon DEF Delivery!Current, Delivery!Min

\* A count that is raised up to the limit.
LEMMA RaisedUpTo ==
    ASSUME NEW a \in Nat, NEW b \in Nat, a <= b
    PROVE  /\ Delivery!Min({a + 1, b}) \in a .. b
           /\ a + 1 <= Delivery!Min({a + 1, b}) \/ Delivery!Min({a + 1, b}) = b
<1>1. CASE a + 1 <= b
  <2>1. Delivery!Min({a + 1, b}) = a + 1
    BY <1>1 DEF Delivery!Min
  <2> QED BY <1>1, <2>1
<1>2. CASE ~(a + 1 <= b)
  <2>1. a = b
    BY <1>2
  <2>2. Delivery!Min({a + 1, b}) = b
    BY <2>1 DEF Delivery!Min
  <2> QED BY <2>1, <2>2
<1> QED BY <1>1, <1>2, Zenon

\* Refusals and deliveries are only added.
OnlyAdded ==
    /\ received \subseteq received'
    /\ \A n \in Note : failures[n] <= failures'[n]

\* A tick that does not move keeps what it knows.
LEMMA EarnedTickKept ==
    ASSUME EarnedInv, failures' \in [Note -> 0 .. MaxAttempts], OnlyAdded,
           NEW w \in Worker, workers'[w] = workers[w]
    PROVE  TickEarned(w)'
<1>1. TickEarned(w) /\ workers[w].todo \subseteq Note /\ workers[w].copy \in [Note -> Nat]
  BY Zenon DEF EarnedInv, DeliveryTypes, TickRow
<1>2. \A n \in Note : failures[n] \in 0 .. MaxAttempts /\ failures'[n] \in 0 .. MaxAttempts
  BY Zenon DEF EarnedInv, DeliveryTypes
<1>3. \A n \in workers[w].todo : workers[w].copy[n] <= failures'[n]
  BY <1>1, <1>2, DeliveryConstants DEF TickEarned, OnlyAdded
<1>4. Delivery!Current(w)' = Delivery!Current(w)
  BY Zenon DEF Delivery!Current
<1>5. ASSUME workers[w].pc = "save"
      PROVE  LET n == Delivery!Current(w)
             IN  IF workers[w].ok THEN n \in received'
                 ELSE workers[w].copy[n] + 1 <= failures'[n] \/ failures'[n] = MaxAttempts
  <2>1. PICK n : n = Delivery!Current(w)
    BY Zenon
  <2>2. n \in Note
    BY <1>5, <2>1, CurrentIsListed, Zenon
  <2>3. workers[w].copy[n] \in Nat
    BY <1>1, <2>2, Zenon
  <2>4. IF workers[w].ok THEN n \in received
        ELSE workers[w].copy[n] + 1 <= failures[n] \/ failures[n] = MaxAttempts
    BY <1>1, <1>5, <2>1, Zenon DEF TickEarned
  <2>5. CASE workers[w].ok
    BY <2>1, <2>4, <2>5, Zenon DEF OnlyAdded
  <2>6. CASE ~workers[w].ok
    <3>1. workers[w].copy[n] + 1 <= failures'[n] \/ failures'[n] = MaxAttempts
      BY <1>2, <2>2, <2>3, <2>4, <2>6, DeliveryConstants DEF OnlyAdded
    <3> QED BY <2>1, <2>6, <3>1, Zenon
  <2> QED BY <2>5, <2>6, Zenon
<1> QED BY <1>1, <1>3, <1>4, <1>5, Zenon DEF TickEarned

\* A row that does not change keeps its marks.
LEMMA EarnedRowKept ==
    ASSUME EarnedInv, failures' \in [Note -> 0 .. MaxAttempts], OnlyAdded,
           NEW n \in Note, notifications'[n] = notifications[n]
    PROVE  RowEarned(n)'
<1>1. /\ failures[n] \in 0 .. MaxAttempts /\ failures'[n] \in 0 .. MaxAttempts
      /\ failures[n] <= failures'[n]
  BY Zenon DEF EarnedInv, DeliveryTypes, OnlyAdded
<1>2. notifications[n].attempts \in Nat /\ RowEarned(n)
  BY Zenon DEF EarnedInv, DeliveryTypes, NoteRow
<1>3. notifications[n].attempts <= failures[n] => notifications[n].attempts <= failures'[n]
  BY <1>1, <1>2, DeliveryConstants
<1>4. failures[n] = MaxAttempts => failures'[n] = MaxAttempts
  BY <1>1, DeliveryConstants
<1> QED BY <1>2, <1>3, <1>4, Zenon DEF RowEarned, OnlyAdded

\* A tick that has ended knows nothing.
LEMMA RestingEarned ==
    /\ Delivery!Resting \in TickRow
    /\ \A w \in Worker : workers'[w] = Delivery!Resting => TickEarned(w)'
<1>1. /\ Delivery!Resting \in TickRow
      /\ Delivery!Resting.pc = "idle" /\ Delivery!Resting.todo = {}
  BY Zenon DEF Delivery!Resting, TickRow
<1> QED BY <1>1, Zenon DEF TickEarned

\* A step that moves one tick and leaves the rows, or the row that it writes earned.
LEMMA OneTickEarned ==
    ASSUME EarnedInv, failures' \in [Note -> 0 .. MaxAttempts], OnlyAdded,
           notifications' \in [Note -> NoteRow], \A n \in Note : RowEarned(n)',
           NEW w \in Worker, NEW t \in TickRow, workers' = [workers EXCEPT ![w] = t],
           TickEarned(w)'
    PROVE  EarnedInv'
<1>1. workers \in [Worker -> TickRow]
  BY Zenon DEF EarnedInv, DeliveryTypes
<1>2. workers' \in [Worker -> TickRow] /\ \A v \in Worker : v # w => workers'[v] = workers[v]
  BY <1>1, Zenon
<1>3. \A v \in Worker : v # w => TickEarned(v)'
  BY <1>2, EarnedTickKept, Zenon
<1>4. DeliveryTypes'
  BY <1>2, Zenon DEF DeliveryTypes
<1> QED BY <1>3, <1>4, Zenon DEF EarnedInv, FirstNotes, Note

\* Listing copies counts that are right at the time.
LEMMA ListEarned ==
    ASSUME EarnedInv, NEW w \in Worker, Delivery!ListDue(w)
    PROVE  EarnedInv'
<1> DEFINE due == Delivery!FirstOf(Delivery!Due, ListSize)
           t == [pc |-> "deliver", todo |-> due, ok |-> FALSE,
                 copy |-> [n \in Note |-> IF n \in due THEN notifications[n].attempts ELSE 0]]
<1>1. /\ due # {} /\ workers' = [workers EXCEPT ![w] = t]
      /\ UNCHANGED <<notifications, received, failures>>
  BY Zenon DEF Delivery!ListDue
<1>2. /\ due \subseteq Note
      /\ \A n \in due : notifications[n].status \in {"queued", "retry_scheduled"}
  BY Zenon DEF Delivery!FirstOf, Delivery!Due
<1> HIDE DEF due
<1>3. /\ notifications \in [Note -> NoteRow] /\ failures \in [Note -> 0 .. MaxAttempts]
      /\ workers \in [Worker -> TickRow]
  BY Zenon DEF EarnedInv, DeliveryTypes
<1>4. \A n \in Note : notifications[n].attempts \in Nat
  BY <1>3, Zenon DEF NoteRow
<1>5. t \in TickRow
  BY <1>2, <1>4, Zenon DEF TickRow
<1>6. t.pc = "deliver" /\ t.todo = due /\ \A n \in due : t.copy[n] = notifications[n].attempts
  BY <1>2, Zenon
<1> HIDE DEF t
<1>7. workers'[w] = t
  BY <1>1, <1>3, Zenon
<1>8. TickEarned(w)'
  <2>1. \A n \in due : t.copy[n] <= failures[n]
    BY <1>2, <1>6, Zenon DEF EarnedInv, RowEarned
  <2>2. /\ workers'[w].pc = "deliver" /\ workers'[w].todo # {}
        /\ \A n \in workers'[w].todo : workers'[w].copy[n] <= failures'[n]
    BY <1>1, <1>6, <1>7, <2>1, Zenon
  <2> QED BY <2>2, Zenon DEF TickEarned
<1>9. OnlyAdded
  BY <1>1, <1>3, DeliveryConstants DEF OnlyAdded
<1>10. \A n \in Note : RowEarned(n)'
  BY <1>1, <1>3, <1>9, EarnedRowKept, Zenon
<1> QED BY <1>1, <1>3, <1>5, <1>8, <1>9, <1>10, OneTickEarned, Zenon

\* The answer of the provider is counted before the tick goes on to write it.
LEMMA DeliverEarned ==
    ASSUME EarnedInv, NEW w \in Worker, Delivery!Deliver(w)
    PROVE  EarnedInv'
<1>1. PICK n : n = Delivery!Current(w)
  BY Zenon
<1>2. PICK ok \in BOOLEAN, arrived \in BOOLEAN :
         /\ ok => arrived
         /\ workers' = [workers EXCEPT ![w].pc = "save", ![w].ok = ok]
         /\ received' = IF arrived THEN received \cup {n} ELSE received
         /\ failures' = IF ok THEN failures
                        ELSE [failures EXCEPT ![n] = Delivery!Min({@ + 1, MaxAttempts})]
  BY <1>1, Zenon DEF Delivery!Deliver
<1>3. workers[w].pc = "deliver" /\ UNCHANGED notifications
  BY Zenon DEF Delivery!Deliver
<1>4. n \in workers[w].todo /\ n \in Note
  BY <1>1, <1>3, CurrentIsListed, Zenon
<1>5. /\ notifications \in [Note -> NoteRow] /\ failures \in [Note -> 0 .. MaxAttempts]
      /\ workers \in [Worker -> TickRow] /\ workers[w] \in TickRow
  BY Zenon DEF EarnedInv, DeliveryTypes
<1>6. PICK t : t = [workers[w] EXCEPT !.pc = "save", !.ok = ok]
  BY Zenon
<1>7. /\ workers' = [workers EXCEPT ![w] = t] /\ t \in TickRow
      /\ t.pc = "save" /\ t.ok = ok /\ t.todo = workers[w].todo /\ t.copy = workers[w].copy
  <2>1. workers' = [workers EXCEPT ![w] = t]
    BY <1>2, <1>6, Zenon
  <2>2. /\ t \in TickRow
        /\ t.pc = "save" /\ t.ok = ok /\ t.todo = workers[w].todo /\ t.copy = workers[w].copy
    BY <1>5, <1>6, Zenon DEF TickRow
  <2> QED BY <2>1, <2>2, Zenon
<1>8. workers'[w] = t
  BY <1>5, <1>7, Zenon
<1>9. /\ failures' \in [Note -> 0 .. MaxAttempts]
      /\ \A m \in Note : failures[m] <= failures'[m]
      /\ ok \/ failures[n] + 1 <= failures'[n] \/ failures'[n] = MaxAttempts
  <2>1. CASE ok
    BY <1>2, <1>5, <2>1, DeliveryConstants
  <2>2. CASE ~ok
    <3>1. PICK f : f = Delivery!Min({failures[n] + 1, MaxAttempts})
      BY Zenon
    <3>2. failures[n] \in Nat /\ failures[n] <= MaxAttempts
      BY <1>4, <1>5, DeliveryConstants
    <3>3. f \in failures[n] .. MaxAttempts /\ (failures[n] + 1 <= f \/ f = MaxAttempts)
      BY <3>1, <3>2, RaisedUpTo, DeliveryConstants, Zenon
    <3>4. failures' = [failures EXCEPT ![n] = f]
      BY <1>2, <2>2, <3>1, Zenon
    <3> QED BY <1>4, <1>5, <3>2, <3>3, <3>4, DeliveryConstants
  <2> QED BY <2>1, <2>2, Zenon
<1>10. OnlyAdded
  BY <1>2, <1>9, Zenon DEF OnlyAdded
<1>11. \A m \in Note : RowEarned(m)'
  BY <1>3, <1>9, <1>10, EarnedRowKept, Zenon
<1>12. TickEarned(w)'
  <2>1. Delivery!Current(w)' = n
    BY <1>1, <1>7, <1>8, Zenon DEF Delivery!Current
  <2>2. \A m \in workers[w].todo :
           m \in Note /\ workers[w].copy[m] \in Nat /\ workers[w].copy[m] <= failures[m]
    BY <1>5, Zenon DEF EarnedInv, TickEarned, TickRow
  <2>3. \A m \in workers[w].todo : workers[w].copy[m] <= failures'[m]
    BY <1>5, <1>9, <2>2, DeliveryConstants
  <2>4. CASE ok
    <3>1. n \in received'
      BY <1>2, <2>4, Zenon
    <3> QED BY <1>4, <1>7, <1>8, <2>1, <2>3, <2>4, <3>1, Zenon DEF TickEarned
  <2>5. CASE ~ok
    <3>1. workers[w].copy[n] + 1 <= failures'[n] \/ failures'[n] = MaxAttempts
      BY <1>4, <1>5, <1>9, <2>2, <2>5, DeliveryConstants
    <3> QED BY <1>4, <1>7, <1>8, <2>1, <2>3, <2>5, <3>1, Zenon DEF TickEarned
  <2> QED BY <2>4, <2>5, Zenon
<1> QED BY <1>3, <1>5, <1>7, <1>9, <1>10, <1>11, <1>12, OneTickEarned, Zenon

\* The row that a tick writes is earned, although it is made from an old copy.
LEMMA OutcomeEarned ==
    ASSUME EarnedInv, NEW w \in Worker, workers[w].pc = "save",
           Delivery!SaveOutcome(w), UNCHANGED <<received, failures>>
    PROVE  /\ notifications' \in [Note -> NoteRow]
           /\ \A n \in Note : RowEarned(n)'
<1>1. PICK n : n = Delivery!Current(w)
  BY Zenon
<1>2. n \in workers[w].todo /\ n \in Note
  BY <1>1, CurrentIsListed, Zenon
<1>3. /\ notifications \in [Note -> NoteRow] /\ failures \in [Note -> 0 .. MaxAttempts]
      /\ workers[w] \in TickRow
  BY Zenon DEF EarnedInv, DeliveryTypes
<1>4. PICK c : c = workers[w].copy[n]
  BY Zenon
<1>5. PICK ok : ok = workers[w].ok
  BY Zenon
<1>6. PICK r : r = Delivery!Outcome(n, c, ok)
  BY Zenon
<1>7. notifications' = [notifications EXCEPT ![n] = r]
  BY <1>1, <1>4, <1>5, <1>6, Zenon DEF Delivery!SaveOutcome
<1>8. c \in Nat /\ ok \in BOOLEAN /\ failures[n] \in 0 .. MaxAttempts
  BY <1>2, <1>3, <1>4, <1>5, Zenon DEF TickRow
<1>9. c <= failures[n]
  BY <1>2, <1>4, Zenon DEF EarnedInv, TickEarned
<1>10. IF ok THEN n \in received ELSE c + 1 <= failures[n] \/ failures[n] = MaxAttempts
  BY <1>1, <1>4, <1>5, Zenon DEF EarnedInv, TickEarned
<1>11. notifications[n].key \in Key \cup {Direct}
  BY <1>2, <1>3, Zenon DEF NoteRow
<1>12. CASE ok
  <2>1. r = [status |-> "sent", key |-> notifications[n].key, attempts |-> c, due |-> FALSE]
    BY <1>6, <1>12, Zenon DEF Delivery!Outcome
  <2>2. r \in NoteRow /\ r.status = "sent"
    BY <1>8, <1>11, <2>1, Zenon DEF NoteRow
  <2>3. notifications'[n] = r /\ \A m \in Note : m # n => notifications'[m] = notifications[m]
    BY <1>2, <1>3, <1>7, Zenon
  <2>4. RowEarned(n)'
    BY <1>10, <1>12, <2>2, <2>3, Zenon DEF RowEarned
  <2>5. \A m \in Note : m # n => RowEarned(m)'
    BY <2>3, Zenon DEF EarnedInv, RowEarned
  <2> QED BY <1>3, <1>7, <2>2, <2>4, <2>5, Zenon
<1>13. CASE ~ok
  <2>1. r = [status |-> IF c + 1 >= MaxAttempts THEN "failed" ELSE "retry_scheduled",
             key |-> notifications[n].key, attempts |-> c + 1, due |-> FALSE]
    BY <1>6, <1>13, Zenon DEF Delivery!Outcome
  <2>2. /\ r \in NoteRow /\ r.attempts = c + 1
        /\ r.status = IF c + 1 >= MaxAttempts THEN "failed" ELSE "retry_scheduled"
    BY <1>8, <1>11, <2>1 DEF NoteRow
  <2>3. notifications'[n] = r /\ \A m \in Note : m # n => notifications'[m] = notifications[m]
    BY <1>2, <1>3, <1>7, Zenon
  <2>4. CASE c + 1 >= MaxAttempts
    <3>1. failures[n] = MaxAttempts
      BY <1>8, <1>10, <1>13, <2>4, DeliveryConstants
    <3> QED
      <4>1. RowEarned(n)'
        BY <2>2, <2>3, <2>4, <3>1, Zenon DEF RowEarned
      <4>2. \A m \in Note : m # n => RowEarned(m)'
        BY <2>3, Zenon DEF EarnedInv, RowEarned
      <4> QED BY <1>3, <1>7, <2>2, <4>1, <4>2, Zenon
  <2>5. CASE ~(c + 1 >= MaxAttempts)
    <3>1. c + 1 <= failures[n]
      BY <1>8, <1>10, <1>13, <2>5, DeliveryConstants
    <3>2. RowEarned(n)'
      BY <2>2, <2>3, <2>5, <3>1, Zenon DEF RowEarned
    <3>3. \A m \in Note : m # n => RowEarned(m)'
      BY <2>3, Zenon DEF EarnedInv, RowEarned
    <3> QED BY <1>3, <1>7, <2>2, <3>2, <3>3, Zenon
  <2> QED BY <2>4, <2>5, Zenon
<1> QED BY <1>8, <1>12, <1>13, Zenon

\* A tick writes an outcome and goes on, or the write fails and ends it.
LEMMA SaveEarned ==
    ASSUME EarnedInv, NEW w \in Worker, Delivery!Save(w) \/ Delivery!SaveFails(w)
    PROVE  EarnedInv'
<1>1. /\ workers[w].pc = "save" /\ UNCHANGED <<received, failures>>
      /\ Delivery!SaveOutcome(w) \/ UNCHANGED notifications
  BY Zenon DEF Delivery!Save, Delivery!SaveFails
<1>2. /\ notifications \in [Note -> NoteRow] /\ failures \in [Note -> 0 .. MaxAttempts]
      /\ workers \in [Worker -> TickRow] /\ workers[w] \in TickRow
  BY Zenon DEF EarnedInv, DeliveryTypes
<1>3. OnlyAdded
  BY <1>1, <1>2, DeliveryConstants DEF OnlyAdded
<1>4. notifications' \in [Note -> NoteRow] /\ \A n \in Note : RowEarned(n)'
  <2>1. CASE Delivery!SaveOutcome(w)
    BY <1>1, <2>1, OutcomeEarned, Zenon
  <2>2. CASE UNCHANGED notifications
    BY <1>1, <1>2, <1>3, <2>2, EarnedRowKept, Zenon
  <2> QED BY <1>1, <2>1, <2>2, Zenon
<1>5. CASE workers' = [workers EXCEPT ![w] = Delivery!Resting]
  <2>1. workers'[w] = Delivery!Resting
    BY <1>2, <1>5, Zenon
  <2> QED BY <1>1, <1>2, <1>3, <1>4, <1>5, <2>1, RestingEarned, OneTickEarned, Zenon
<1>6. CASE Delivery!NextDue(w)
  <2>1. PICK n : n = Delivery!Current(w)
    BY Zenon
  <2>2. n \in Note
    BY <1>1, <2>1, CurrentIsListed, Zenon
  <2>3. PICK left : left = workers[w].todo \ {n}
    BY Zenon
  <2>4. CASE left = {}
    BY <1>5, <1>6, <2>1, <2>3, <2>4, Zenon DEF Delivery!NextDue
  <2>5. CASE left # {}
    <3>1. PICK t : t = [workers[w] EXCEPT !.pc = "deliver", !.todo = left, !.ok = FALSE,
                                          !.copy[n] = 0]
      BY Zenon
    <3>2. workers' = [workers EXCEPT ![w] = t]
      BY <1>6, <2>1, <2>3, <2>5, <3>1, Zenon DEF Delivery!NextDue
    <3>3. t \in TickRow /\ t.pc = "deliver" /\ t.todo = left
      BY <1>2, <2>2, <2>3, <3>1, Zenon DEF TickRow
    <3>4. \A m \in left : t.copy[m] = workers[w].copy[m]
      BY <1>2, <2>3, <3>1, Zenon DEF TickRow
    <3>5. workers'[w] = t
      BY <1>2, <3>2, Zenon
    <3>6. \A m \in left : workers[w].copy[m] <= failures[m]
      BY <2>3, Zenon DEF EarnedInv, TickEarned
    <3>7. TickEarned(w)'
      <4>1. \A m \in left : t.copy[m] <= failures'[m]
        BY <1>1, <3>4, <3>6, Zenon
      <4> QED BY <2>5, <3>3, <3>5, <4>1, Zenon DEF TickEarned
    <3> QED BY <1>1, <1>2, <1>3, <1>4, <3>2, <3>3, <3>7, OneTickEarned, Zenon
  <2> QED BY <2>4, <2>5, Zenon
<1> QED BY <1>5, <1>6, Zenon DEF Delivery!Save, Delivery!SaveFails

\* A step that leaves the ticks and the deliveries alone keeps the invariant when it
\* leaves every row earned.
LEMMA RowsEarned ==
    ASSUME EarnedInv, UNCHANGED <<workers, received, failures>>,
           notifications' \in [Note -> NoteRow], \A n \in Note : RowEarned(n)'
    PROVE  EarnedInv'
<1>1. failures \in [Note -> 0 .. MaxAttempts] /\ workers \in [Worker -> TickRow]
  BY Zenon DEF EarnedInv, DeliveryTypes
<1>2. OnlyAdded
  BY <1>1, DeliveryConstants DEF OnlyAdded
<1>3. \A w \in Worker : TickEarned(w)'
  BY <1>1, <1>2, EarnedTickKept, Zenon
<1>4. DeliveryTypes'
  BY <1>1, Zenon DEF DeliveryTypes
<1> QED BY <1>3, <1>4, Zenon DEF EarnedInv, FirstNotes, Note

\* A row that comes due keeps its count.
LEMMA DueEarned ==
    ASSUME EarnedInv, NEW n \in Note, Delivery!ComeDue(n)
    PROVE  EarnedInv'
<1>1. /\ UNCHANGED <<workers, received, failures>>
      /\ notifications' = [notifications EXCEPT ![n].due = TRUE]
  BY Zenon DEF Delivery!ComeDue
<1>2. notifications \in [Note -> NoteRow]
  BY Zenon DEF EarnedInv, DeliveryTypes
<1>3. PICK r : r = [notifications[n] EXCEPT !.due = TRUE]
  BY Zenon
<1>4. r \in NoteRow /\ r.status = notifications[n].status /\ r.attempts = notifications[n].attempts
  BY <1>2, <1>3, Zenon DEF NoteRow
<1>5. notifications' = [notifications EXCEPT ![n] = r]
  BY <1>1, <1>3, Zenon
<1>6. /\ notifications' \in [Note -> NoteRow]
      /\ \A m \in Note : /\ notifications'[m].status = notifications[m].status
                         /\ notifications'[m].attempts = notifications[m].attempts
  BY <1>2, <1>4, <1>5, Zenon
<1>7. \A m \in Note : RowEarned(m)'
  BY <1>1, <1>6, Zenon DEF EarnedInv, RowEarned
<1> QED BY <1>1, <1>6, <1>7, RowsEarned, Zenon

\* A new notification has no count.
LEMMA QueuedEarned ==
    ASSUME EarnedInv, NEW k \in Key \cup {Direct}, SaveQueued(k),
           UNCHANGED <<workers, received, failures>>
    PROVE  EarnedInv'
<1>1. PICK n \in Note : notifications' = [notifications EXCEPT ![n] =
               [status |-> "queued", key |-> k, attempts |-> 0, due |-> TRUE]]
  BY Zenon DEF SaveQueued
<1>2. PICK r : r = [status |-> "queued", key |-> k, attempts |-> 0, due |-> TRUE]
  BY Zenon
<1>3. r \in NoteRow /\ r.status = "queued" /\ r.attempts = 0
  BY <1>2, Zenon DEF NoteRow
<1>4. notifications \in [Note -> NoteRow] /\ failures[n] \in 0 .. MaxAttempts
  BY Zenon DEF EarnedInv, DeliveryTypes
<1>5. /\ notifications' \in [Note -> NoteRow] /\ notifications'[n] = r
      /\ \A m \in Note : m # n => notifications'[m] = notifications[m]
  BY <1>1, <1>2, <1>3, <1>4, Zenon
<1>6. RowEarned(n)'
  BY <1>3, <1>4, <1>5 DEF RowEarned
<1>7. \A m \in Note : m # n => RowEarned(m)'
  BY <1>5, Zenon DEF EarnedInv, RowEarned
<1> QED BY <1>5, <1>6, <1>7, RowsEarned, Zenon

\* The fan-out ticks hold items.
HoldItems ==
    /\ DOMAIN ticks = Tick
    /\ \A w \in Tick : /\ DOMAIN ticks[w] = {"pc", "todo", "cur", "copy"}
                       /\ ticks[w].todo \subseteq Key

\* A fan-out tick only takes items of the outbox.
LEMMA HoldItemsKept ==
    ASSUME HoldItems, Work \/ Crash
    PROVE  HoldItems'
<1> DEFINE Tk(t) == DOMAIN t = {"pc", "todo", "cur", "copy"} /\ t.todo \subseteq Key
<1>1. Tk(Idle)
  BY Zenon DEF Idle
<1>2. ASSUME NEW w \in Tick, NEW t, Tk(t), ticks' = [ticks EXCEPT ![w] = t] PROVE HoldItems'
  BY <1>2, Zenon DEF HoldItems
<1>3. CASE UNCHANGED ticks
  BY <1>3, Zenon DEF HoldItems
<1>4. ASSUME NEW w \in Tick, NEW pc, Go(w, pc) PROVE HoldItems'
  <2>1. ticks' = [ticks EXCEPT ![w] = [ticks[w] EXCEPT !.pc = pc]]
    BY <1>4, Zenon DEF Go
  <2>2. Tk([ticks[w] EXCEPT !.pc = pc])
    BY Zenon DEF HoldItems
  <2> HIDE DEF Tk
  <2> QED BY <1>2, <2>1, <2>2, Zenon
<1>5. ASSUME NEW w \in Tick, Done(w) PROVE HoldItems'
  <2>1. PICK left : left = ticks[w].todo \ {ticks[w].cur}
    BY Zenon
  <2>2. PICK t : t = [pc |-> "save", todo |-> left, cur |-> Direct,
                      copy |-> [k \in Key |-> IF k \in left THEN ticks[w].copy[k] ELSE 0]]
    BY Zenon
  <2>3. Tk(t)
    BY <2>1, <2>2, Zenon DEF HoldItems
  <2>4. ticks' = [ticks EXCEPT ![w] = Idle] \/ ticks' = [ticks EXCEPT ![w] = t]
    BY <1>5, <2>1, <2>2, Zenon DEF Done
  <2> HIDE DEF Tk
  <2> QED BY <1>1, <1>2, <2>3, <2>4, Zenon
<1>6. ASSUME NEW w \in Tick, ClaimPending(w) PROVE HoldItems'
  <2>1. PICK batch \in SUBSET Key :
           ticks' = [ticks EXCEPT ![w] =
               IF batch = {} THEN Idle
               ELSE [pc |-> "save", todo |-> batch, cur |-> Direct,
                     copy |-> [k \in Key |-> IF k \in batch THEN outbox[k].attempts ELSE 0]]]
    BY <1>6, Zenon DEF ClaimPending
  <2>2. PICK t : t = [pc |-> "save", todo |-> batch, cur |-> Direct,
                     copy |-> [k \in Key |-> IF k \in batch THEN outbox[k].attempts ELSE 0]]
    BY Zenon
  <2>3. Tk(t)
    BY <2>2, Zenon
  <2>4. ticks' = [ticks EXCEPT ![w] = Idle] \/ ticks' = [ticks EXCEPT ![w] = t]
    BY <2>1, <2>2, Zenon
  <2> HIDE DEF Tk
  <2> QED BY <1>1, <1>2, <2>3, <2>4, Zenon
<1>7. ASSUME NEW w \in Tick, SaveNotification(w) \/ SaveFails(w) PROVE HoldItems'
  <2>1. PICK k, pc : ticks' = [ticks EXCEPT ![w].pc = pc, ![w].cur = k]
    BY <1>7, Zenon DEF SaveNotification, SaveFails
  <2>2. PICK t : t = [ticks[w] EXCEPT !.pc = pc, !.cur = k]
    BY Zenon
  <2>3. Tk(t) /\ ticks' = [ticks EXCEPT ![w] = t]
    BY <2>1, <2>2, Zenon DEF HoldItems
  <2> HIDE DEF Tk
  <2> QED BY <1>2, <2>3, Zenon
<1>8. ASSUME NEW w \in Tick, TickStep(w) \/ TickFails(w) PROVE HoldItems'
  BY <1>1, <1>2, <1>4, <1>5, <1>6, <1>7, <1>8, Zenon
     DEF TickStep, TickFails, RecoverStale, MarkDispatched, CatchError, MarkFails, CatchFails
<1>9. CASE Crash
  <2>1. \A w \in Tick : ticks'[w] = Idle
    BY <1>9, Zenon DEF Crash
  <2> QED BY <1>1, <1>9, <2>1, Zenon DEF HoldItems, Crash
<1>10. CASE \/ \E k \in Key : EnqueueFanoutNotificationItem(k) \/ TurnStale(k)
            \/ \E o \in Operator : RetryWrite(o) \/ \E k \in Key : RetryRead(o, k)
            \/ PostNotification
  BY <1>3, <1>10, Zenon DEF EnqueueFanoutNotificationItem, TurnStale, RetryWrite, RetryRead,
     PostNotification
<1> QED BY <1>8, <1>9, <1>10, Zenon DEF Work

\* A step of the fan-out, of a handler or of an operator adds a notification at most.
LEMMA WorkEarned ==
    ASSUME EarnedInv, HoldItems, Work, UNCHANGED deliveryVars
    PROVE  EarnedInv'
<1>1. UNCHANGED <<workers, received, failures>>
  BY Zenon DEF deliveryVars
<1>2. UNCHANGED notifications \/ \E k \in Key \cup {Direct} : SaveQueued(k)
  <2>1. CASE \E w \in Tick : TickStep(w) \/ TickFails(w)
    BY <2>1, Zenon DEF TickStep, TickFails, RecoverStale, ClaimPending, SaveNotification,
       MarkDispatched, CatchError, SaveFails, MarkFails, CatchFails, HoldItems
  <2>2. CASE \/ \E k \in Key : EnqueueFanoutNotificationItem(k) \/ TurnStale(k)
             \/ \E o \in Operator : RetryWrite(o) \/ \E k \in Key : RetryRead(o, k)
             \/ PostNotification
    BY <2>2, Zenon DEF EnqueueFanoutNotificationItem, TurnStale, RetryWrite, RetryRead,
       PostNotification
  <2> QED BY <2>1, <2>2, Zenon DEF Work
<1>3. CASE UNCHANGED notifications
  <2>1. notifications' \in [Note -> NoteRow] /\ \A n \in Note : RowEarned(n)'
    BY <1>1, <1>3, Zenon DEF EarnedInv, DeliveryTypes, RowEarned
  <2> QED BY <1>1, <2>1, RowsEarned, Zenon
<1> QED BY <1>1, <1>2, <1>3, QueuedEarned, Zenon

\* A restart ends the ticks and leaves what has happened.
LEMMA CrashEarned ==
    ASSUME EarnedInv, Crash, Delivery!Restart
    PROVE  EarnedInv'
<1>1. /\ UNCHANGED <<notifications, received, failures>>
      /\ workers' = [w \in Worker |-> Delivery!Resting]
  BY Zenon DEF Crash, Delivery!Restart
<1>2. \A w \in Worker : workers'[w] = Delivery!Resting
  BY <1>1, Zenon
<1>3. \A w \in Worker : TickEarned(w)'
  BY <1>2, RestingEarned, Zenon
<1>4. DeliveryTypes'
  BY <1>1, RestingEarned, Zenon DEF EarnedInv, DeliveryTypes
<1>5. \A n \in Note : RowEarned(n)'
  BY <1>1, Zenon DEF EarnedInv, RowEarned
<1> QED BY <1>3, <1>4, <1>5, Zenon DEF EarnedInv, FirstNotes, Note

\* Nothing is marked at the start.
LEMMA EarnedInit ==
    ASSUME FirstNotes, SystemInit
    PROVE  EarnedInv /\ HoldItems
<1>1. NoNote \in NoteRow /\ NoNote.status = "none"
  BY Zenon DEF NoNote, NoteRow
<1>2. /\ Delivery!Resting \in TickRow
      /\ Delivery!Resting.pc = "idle" /\ Delivery!Resting.todo = {}
  BY Zenon DEF Delivery!Resting, TickRow
<1>3. /\ notifications = [n \in Note |-> NoNote] /\ workers = [w \in Worker |-> Delivery!Resting]
      /\ failures = [n \in Note |-> 0] /\ ticks = [w \in Tick |-> Idle]
  BY Zenon DEF SystemInit, Init, Delivery!Init
<1>4. DeliveryTypes
  BY <1>1, <1>2, <1>3, DeliveryConstants DEF DeliveryTypes
<1>5. \A n \in Note : RowEarned(n)
  BY <1>1, <1>3, Zenon DEF RowEarned
<1>6. \A w \in Worker : TickEarned(w)
  BY <1>2, <1>3, Zenon DEF TickEarned
<1>7. HoldItems
  BY <1>3, Zenon DEF HoldItems, Idle
<1> QED BY <1>4, <1>5, <1>6, <1>7, Zenon DEF EarnedInv

\* Every step of the fan-out and of the delivery keeps the invariant.
LEMMA EarnedStep ==
    ASSUME EarnedInv, HoldItems, [SystemNext]_allVars
    PROVE  EarnedInv' /\ HoldItems'
<1>1. CASE Work /\ UNCHANGED deliveryVars
  BY <1>1, WorkEarned, HoldItemsKept, Zenon
<1>2. CASE Crash /\ Delivery!Restart
  BY <1>2, CrashEarned, HoldItemsKept, Zenon
<1>3. CASE Delivery!Next /\ UNCHANGED <<outbox, ticks, operators, used>>
  <2>1. HoldItems'
    BY <1>3, Zenon DEF HoldItems
  <2>2. EarnedInv'
    BY <1>3, ListEarned, DeliverEarned, SaveEarned, DueEarned, Zenon DEF Delivery!Next, Delivery!Step
  <2> QED BY <2>1, <2>2, Zenon
<1>4. CASE UNCHANGED allVars
  <2>1. UNCHANGED <<notifications, workers, received, failures, ticks>>
    BY <1>4, Zenon DEF allVars, vars, deliveryVars
  <2>2. notifications' \in [Note -> NoteRow] /\ \A n \in Note : RowEarned(n)'
    BY <2>1, Zenon DEF EarnedInv, DeliveryTypes, RowEarned
  <2>3. HoldItems'
    BY <2>1, Zenon DEF HoldItems
  <2> QED BY <2>1, <2>2, <2>3, RowsEarned, Zenon
<1> QED BY <1>1, <1>2, <1>3, <1>4, Zenon DEF SystemNext

-----------------------------------------------------------------------------
(* How often an item is queued.                                            *)

\* The tick may still save the item: it holds it, and has not just saved it.
MaySave(w, k) == k \in ticks[w].todo /\ ~(ticks[w].pc = "mark" /\ ticks[w].cur = k)
Owes(w, k) == IF MaySave(w, k) THEN 1 ELSE 0
Savers(k) == {w \in Tick : MaySave(w, k)}

\* The operators that are about to reopen the item.
Askers(k) == {o \in Operator : operators[o] = k}

\* The row can be claimed again without anything else going wrong.
Open(k) ==
    IF \/ outbox[k].status = "pending"
       \/ outbox[k].status = "processing" /\ (outbox[k].stale \/ ~Held(k))
    THEN 1 ELSE 0

\* Every notification beyond the first, made or still to come, has its cause.
Caused(k) ==
    Cardinality(NotesOf(k)) + Cardinality(Savers(k)) + Cardinality(Askers(k)) + Open(k)
      <= 1 + used.faults + used.retries

\* Ticks that have claimed nothing hold nothing, and only claimed rows turn stale.
TickHolds(w) == ticks[w].pc \notin {"save", "mark", "catch"} => ticks[w].todo = {}
StaleIsClaimed(k) == outbox[k].status # "processing" => ~outbox[k].stale
Counts == used \in [faults : Nat, retries : Nat, direct : Nat]

\* How sets of notifications, ticks and operators are counted.  The facts hold of any
\* finite set; they are taken from the library at the end.
Counted(S) == Cardinality(S) \in Nat /\ \A x \in S : Cardinality(S \ {x}) = Cardinality(S) - 1
Counting ==
    /\ Cardinality({}) = 0
    /\ \A S \in SUBSET Note : Counted(S)
    /\ \A S \in SUBSET Tick : Counted(S)
    /\ \A S \in SUBSET Operator : Counted(S)

\* The inductive invariant, beside OutboxInv.
CauseInv ==
    /\ OutboxInv
    /\ Counting
    /\ HoldItems
    /\ \A w \in Tick : TickHolds(w)
    /\ \A k \in Key : StaleIsClaimed(k)
    /\ Counts
    /\ \A k \in Rows : Caused(k)

\* All of these sets can be counted.
LEMMA CausesCounted ==
    ASSUME CauseInv, NEW k
    PROVE  /\ Counted(NotesOf(k)) /\ Cardinality(NotesOf(k)) \in Nat
           /\ Counted(Savers(k)) /\ Cardinality(Savers(k)) \in Nat
           /\ Counted(Askers(k)) /\ Cardinality(Askers(k)) \in Nat
<1>1. NotesOf(k) \subseteq Note /\ Savers(k) \subseteq Tick /\ Askers(k) \subseteq Operator
  BY Zenon DEF NotesOf, Savers, Askers
<1>2. Counted(NotesOf(k)) /\ Counted(Savers(k)) /\ Counted(Askers(k))
  BY <1>1, Zenon DEF CauseInv, Counting
<1> QED BY <1>2, Zenon DEF Counted

\* The same of the next state.
LEMMA CausesCountedNext ==
    ASSUME CauseInv, NEW k
    PROVE  /\ Counted(NotesOf(k)') /\ Cardinality(NotesOf(k)') \in Nat
           /\ Counted(Savers(k)') /\ Cardinality(Savers(k)') \in Nat
           /\ Counted(Askers(k)') /\ Cardinality(Askers(k)') \in Nat
<1>1. NotesOf(k)' \subseteq Note /\ Savers(k)' \subseteq Tick /\ Askers(k)' \subseteq Operator
  BY Zenon DEF NotesOf, Savers, Askers, Note
<1>2. Counted(NotesOf(k)') /\ Counted(Savers(k)') /\ Counted(Askers(k)')
  BY <1>1, Zenon DEF CauseInv, Counting
<1> QED BY <1>2, Zenon DEF Counted

\* Two sets that agree but for one element.
LEMMA ButOne ==
    ASSUME NEW S, NEW T, Counted(S), Counted(T), NEW w,
           \A v : v # w => (v \in S <=> v \in T)
    PROVE  /\ Cardinality(S) \in Nat /\ Cardinality(T) \in Nat
           /\ Cardinality(T) + (IF w \in S THEN 1 ELSE 0)
                = Cardinality(S) + (IF w \in T THEN 1 ELSE 0)
<1>1. Cardinality(S) \in Nat /\ Cardinality(T) \in Nat
  BY Zenon DEF Counted
<1>2. CASE (w \in S) <=> (w \in T)
  <2>1. S = T
    BY <1>2
  <2> QED BY <1>1, <2>1, Zenon
<1>3. CASE w \in S /\ w \notin T
  <2>1. T = S \ {w}
    BY <1>3, Zenon
  <2>2. Cardinality(S \ {w}) = Cardinality(S) - 1
    BY <1>3, Zenon DEF Counted
  <2> QED BY <1>1, <1>3, <2>1, <2>2
<1>4. CASE w \notin S /\ w \in T
  <2>1. S = T \ {w}
    BY <1>4, Zenon
  <2>2. Cardinality(T \ {w}) = Cardinality(T) - 1
    BY <1>4, Zenon DEF Counted
  <2> QED BY <1>1, <1>4, <2>1, <2>2
<1> QED BY <1>2, <1>3, <1>4, Zenon

\* One tick moves: the savers change by what it owes.
LEMMA SaversMove ==
    ASSUME CauseInv, NEW k, NEW w \in Tick, \A v \in Tick : v # w => ticks'[v] = ticks[v]
    PROVE  Cardinality(Savers(k)') + Owes(w, k) = Cardinality(Savers(k)) + Owes(w, k)'
<1>1. Counted(Savers(k)) /\ Counted(Savers(k)')
  BY CausesCounted, CausesCountedNext, Zenon
<1>2. \A v : v # w => (v \in Savers(k) <=> v \in Savers(k)')
  BY Zenon DEF Savers, MaySave
<1>3. Cardinality(Savers(k)') + (IF w \in Savers(k) THEN 1 ELSE 0)
        = Cardinality(Savers(k)) + (IF w \in Savers(k)' THEN 1 ELSE 0)
  BY <1>1, <1>2, ButOne
<1>4. w \in Savers(k) <=> MaySave(w, k)
  BY Zenon DEF Savers
<1>5. w \in Savers(k)' <=> MaySave(w, k)'
  BY Zenon DEF Savers
<1> QED BY <1>3, <1>4, <1>5, Zenon DEF Owes

\* A step of one tick, on balance.
LEMMA TickCaused ==
    ASSUME CauseInv, NEW k \in Rows, NEW w \in Tick,
           \A v \in Tick : v # w => ticks'[v] = ticks[v], UNCHANGED operators, NEW d \in Nat,
           used'.faults = used.faults + d, used'.retries = used.retries,
           Cardinality(NotesOf(k)') + Owes(w, k)' + Open(k)'
             <= Cardinality(NotesOf(k)) + Owes(w, k) + Open(k) + d
    PROVE  Caused(k)'
<1>1. /\ Cardinality(NotesOf(k)) \in Nat /\ Cardinality(Savers(k)) \in Nat
      /\ Cardinality(Askers(k)) \in Nat
  BY CausesCounted, Zenon
<1>2. Cardinality(NotesOf(k)') \in Nat /\ Cardinality(Savers(k)') \in Nat
  BY CausesCountedNext, Zenon
<1>3. Askers(k)' = Askers(k)
  BY Zenon DEF Askers
<1>4. /\ Owes(w, k) \in {0, 1} /\ Owes(w, k)' \in {0, 1}
      /\ Open(k) \in {0, 1} /\ Open(k)' \in {0, 1}
  BY Zenon DEF Owes, Open
<1>5. used.faults \in Nat /\ used.retries \in Nat /\ Caused(k)
  BY Zenon DEF CauseInv, Counts
<1>6. Cardinality(Savers(k)') + Owes(w, k) = Cardinality(Savers(k)) + Owes(w, k)'
  BY SaversMove, Zenon
<1>7. Cardinality(NotesOf(k)') + Cardinality(Savers(k)') + Cardinality(Askers(k)) + Open(k)'
        <= 1 + used'.faults + used'.retries
  <2>1. Cardinality(NotesOf(k)) + Cardinality(Savers(k)) + Cardinality(Askers(k)) + Open(k)
          <= 1 + used.faults + used.retries
    BY <1>5, Zenon DEF Caused
  <2> QED BY <1>1, <1>2, <1>4, <1>5, <1>6, <2>1
<1> QED BY <1>3, <1>7, Zenon DEF Caused

\* How the bounds are used up.
LEMMA CountsKept ==
    ASSUME Counts, Next \/ UNCHANGED vars
    PROVE  Counts'
<1>1. CASE UNCHANGED used
  BY <1>1, Zenon DEF Counts
<1>2. CASE Fault
  BY <1>2 DEF Counts, Fault
<1>3. ASSUME NEW o, NEW k, RetryRead(o, k) PROVE Counts'
  BY <1>3 DEF Counts, RetryRead
<1>4. CASE PostNotification
  BY <1>4 DEF Counts, PostNotification
<1>5. ASSUME NEW w \in Tick, TickStep(w) \/ TickFails(w) PROVE UNCHANGED used \/ Fault
  BY <1>5, Zenon DEF TickStep, TickFails, RecoverStale, ClaimPending, SaveNotification,
     MarkDispatched, CatchError, SaveFails, MarkFails, CatchFails
<1>6. ASSUME NEW k \in Key, EnqueueFanoutNotificationItem(k) \/ TurnStale(k)
      PROVE  UNCHANGED used \/ Fault
  BY <1>6, Zenon DEF EnqueueFanoutNotificationItem, TurnStale
<1>7. ASSUME NEW o \in Operator, RetryWrite(o) PROVE UNCHANGED used
  BY <1>7, Zenon DEF RetryWrite
<1> QED BY <1>1, <1>2, <1>3, <1>4, <1>5, <1>6, <1>7, Zenon DEF Next, Work, Crash, vars

\* What a failure counts.
LEMMA FaultCounts ==
    ASSUME Counts, Fault
    PROVE  /\ used'.faults = used.faults + 1 /\ used'.retries = used.retries
           /\ used.faults \in Nat /\ used.retries \in Nat
  BY Zenon DEF Counts, Fault

\* Only a claimed row turns stale, and no write leaves it so.
LEMMA StaleKept ==
    ASSUME CauseInv, Next \/ UNCHANGED vars, NEW k \in Key
    PROVE  StaleIsClaimed(k)'
<1>1. /\ DOMAIN outbox = Key /\ DOMAIN outbox[k] = {"status", "attempts", "born", "stale"}
      /\ StaleIsClaimed(k)
  BY Zenon DEF CauseInv, OutboxInv, Shape
<1>2. CASE outbox'[k] = outbox[k]
  BY <1>1, <1>2 DEF StaleIsClaimed
<1>3. CASE outbox'[k].stale = FALSE
  BY <1>3, Zenon DEF StaleIsClaimed
<1>4. ASSUME NEW j, NEW s, NEW a, Update(j, s, a) PROVE StaleIsClaimed(k)'
  <2>1. CASE j = k
    <3>1. outbox'[k] = Row(s, a, outbox[k].born)
      BY <1>1, <1>4, <2>1, Zenon DEF Update
    <3> QED BY <1>3, <3>1 DEF Row
  <2>2. CASE j # k
    BY <1>1, <1>2, <1>4, <2>2, Zenon DEF Update
  <2> QED BY <2>1, <2>2, Zenon
<1>5. CASE UNCHANGED outbox
  BY <1>2, <1>5, Zenon
<1>6. ASSUME NEW w \in Tick, RecoverStale(w) PROVE StaleIsClaimed(k)'
  <2>1. outbox'[k] = Recovered(outbox[k])
    BY <1>6, Zenon DEF RecoverStale
  <2>2. CASE outbox[k].status = "processing" /\ outbox[k].stale
    BY <1>1, <1>3, <2>1, <2>2, Zenon DEF Recovered
  <2>3. CASE ~(outbox[k].status = "processing" /\ outbox[k].stale)
    BY <1>2, <2>1, <2>3, Zenon DEF Recovered
  <2> QED BY <2>2, <2>3, Zenon
<1>7. ASSUME NEW w \in Tick, ClaimPending(w) PROVE StaleIsClaimed(k)'
  <2>1. PICK batch \in SUBSET Key :
           outbox' = [j \in Key |-> IF j \in batch THEN [outbox[j] EXCEPT !.status = "processing"]
                                    ELSE outbox[j]]
    BY <1>7, Zenon DEF ClaimPending
  <2>2. CASE k \in batch
    <3>1. outbox'[k].status = "processing"
      BY <1>1, <2>1, <2>2, Zenon
    <3> QED BY <3>1, Zenon DEF StaleIsClaimed
  <2>3. CASE k \notin batch
    BY <1>2, <2>1, <2>3, Zenon
  <2> QED BY <2>2, <2>3, Zenon
<1>8. ASSUME NEW w \in Tick, TickStep(w) \/ TickFails(w) PROVE StaleIsClaimed(k)'
  BY <1>4, <1>5, <1>6, <1>7, <1>8, Zenon DEF TickStep, TickFails, SaveNotification,
     MarkDispatched, CatchError, SaveFails, MarkFails, CatchFails, Attempted
<1>9. ASSUME NEW j \in Key, EnqueueFanoutNotificationItem(j) PROVE StaleIsClaimed(k)'
  <2>1. CASE j = k
    <3>1. outbox'[k] = Row("pending", 0, Cardinality(Rows))
      BY <1>1, <1>9, <2>1, Zenon DEF EnqueueFanoutNotificationItem
    <3> QED BY <1>3, <3>1 DEF Row
  <2>2. CASE j # k
    BY <1>1, <1>2, <1>9, <2>2, Zenon DEF EnqueueFanoutNotificationItem
  <2> QED BY <2>1, <2>2, Zenon
<1>10. ASSUME NEW j \in Key, TurnStale(j) PROVE StaleIsClaimed(k)'
  <2>1. CASE j = k
    <3>1. outbox'[k].status = "processing"
      BY <1>1, <1>10, <2>1, Zenon DEF TurnStale
    <3> QED BY <3>1, Zenon DEF StaleIsClaimed
  <2>2. CASE j # k
    BY <1>1, <1>2, <1>10, <2>2, Zenon DEF TurnStale
  <2> QED BY <2>1, <2>2, Zenon
<1>11. ASSUME NEW o \in Operator, RetryWrite(o) \/ \E j \in Key : RetryRead(o, j)
       PROVE  StaleIsClaimed(k)'
  BY <1>4, <1>5, <1>11, Zenon DEF RetryWrite, RetryRead
<1>12. CASE PostNotification \/ Crash \/ UNCHANGED vars
  BY <1>5, <1>12, Zenon DEF PostNotification, Crash, vars
<1> QED BY <1>8, <1>9, <1>10, <1>11, <1>12, Zenon DEF Next, Work

\* A tick without a claim holds nothing.
LEMMA TickHoldsKept ==
    ASSUME CauseInv, Next \/ UNCHANGED vars, NEW v \in Tick
    PROVE  TickHolds(v)'
<1>1. DOMAIN ticks = Tick /\ DOMAIN ticks[v] = {"pc", "todo", "cur", "copy"} /\ TickHolds(v)
  BY Zenon DEF CauseInv, HoldItems
<1>2. CASE ticks'[v] = ticks[v]
  BY <1>1, <1>2, Zenon DEF TickHolds
<1>3. CASE ticks'[v] = Idle
  BY <1>3 DEF TickHolds, Idle
<1>4. CASE ticks'[v].pc \in {"save", "mark", "catch"}
  BY <1>4, Zenon DEF TickHolds
<1>5. ASSUME NEW w \in Tick, w # v, TickStep(w) \/ TickFails(w) PROVE ticks'[v] = ticks[v]
  BY <1>1, <1>5, Zenon DEF TickStep, TickFails, RecoverStale, ClaimPending, SaveNotification,
     MarkDispatched, CatchError, SaveFails, MarkFails, CatchFails, Go, Done
<1>6. CASE RecoverStale(v)
  <2>1. ticks'[v] = [ticks[v] EXCEPT !.pc = "claim"] /\ ticks[v].pc = "idle"
    BY <1>1, <1>6, Zenon DEF RecoverStale, Go
  <2>2. ticks'[v].todo = ticks[v].todo
    BY <1>1, <2>1, Zenon
  <2> QED BY <1>1, <2>1, <2>2, Zenon DEF TickHolds
<1>7. CASE ClaimPending(v)
  BY <1>1, <1>3, <1>4, <1>7 DEF ClaimPending
<1>8. CASE SaveNotification(v) \/ SaveFails(v) \/ MarkFails(v)
  BY <1>1, <1>4, <1>8 DEF SaveNotification, SaveFails, MarkFails, Go
<1>9. CASE MarkDispatched(v) \/ CatchError(v) \/ CatchFails(v)
  <2>2. CASE MarkDispatched(v)
    BY <1>1, <1>3, <1>4, <2>2, Zenon DEF MarkDispatched, Done
  <2>3. CASE CatchError(v)
    BY <1>1, <1>3, <1>4, <2>3, Zenon DEF CatchError, Done
  <2>4. CASE CatchFails(v)
    BY <1>1, <1>3, <1>4, <2>4, Zenon DEF CatchFails, Done
  <2> QED BY <1>9, <2>2, <2>3, <2>4, Zenon
<1>10. ASSUME NEW w \in Tick, TickStep(w) \/ TickFails(w) PROVE TickHolds(v)'
  BY <1>2, <1>5, <1>6, <1>7, <1>8, <1>9, <1>10, Zenon DEF TickStep, TickFails
<1>11. CASE Crash
  BY <1>3, <1>11, Zenon DEF Crash
<1>12. CASE \/ \E k \in Key : EnqueueFanoutNotificationItem(k) \/ TurnStale(k)
            \/ \E o \in Operator : RetryWrite(o) \/ \E k \in Key : RetryRead(o, k)
            \/ PostNotification \/ UNCHANGED vars
  BY <1>2, <1>12, Zenon DEF EnqueueFanoutNotificationItem, TurnStale, RetryWrite, RetryRead,
     PostNotification, vars
<1> QED BY <1>10, <1>11, <1>12, Zenon DEF Next, Work

\* A row that does not change is as open as before when its tick holds it as before.
LEMMA OpenKept ==
    ASSUME NEW k \in Key, NEW w \in Tick, \A v \in Tick : v # w => ticks'[v] = ticks[v],
           outbox'[k] = outbox[k], k \in ticks'[w].todo <=> k \in ticks[w].todo
    PROVE  Open(k)' = Open(k)
<1>1. Held(k)' <=> Held(k)
  BY Zenon DEF Held
<1> QED BY <1>1 DEF Open

\* The notifications of an item, when one is saved.
LEMMA NotesMove ==
    ASSUME CauseInv, Shape, NEW j, SaveQueued(j), NEW k
    PROVE  Cardinality(NotesOf(k)')
             = IF j = k THEN Cardinality(NotesOf(k)) + 1 ELSE Cardinality(NotesOf(k))
<1>1. PICK n \in Note :
         /\ notifications[n].status = "none"
         /\ notifications' = [notifications EXCEPT ![n] =
                [status |-> "queued", key |-> j, attempts |-> 0, due |-> TRUE]]
  BY Zenon DEF SaveQueued
<1>2. /\ notifications'[n].status = "queued" /\ notifications'[n].key = j
      /\ \A m \in Note : m # n => notifications'[m] = notifications[m]
  BY <1>1, Zenon DEF Shape
<1>3. n \notin NotesOf(k) /\ (n \in NotesOf(k)' <=> j = k)
  BY <1>1, <1>2, Zenon DEF NotesOf, Note
<1>4. \A m : m # n => (m \in NotesOf(k) <=> m \in NotesOf(k)')
  BY <1>2, Zenon DEF NotesOf, Note
<1>5. Counted(NotesOf(k)) /\ Counted(NotesOf(k)')
  BY CausesCounted, CausesCountedNext, Zenon
<1>6. /\ Cardinality(NotesOf(k)) \in Nat /\ Cardinality(NotesOf(k)') \in Nat
      /\ Cardinality(NotesOf(k)') + (IF n \in NotesOf(k) THEN 1 ELSE 0)
           = Cardinality(NotesOf(k)) + (IF n \in NotesOf(k)' THEN 1 ELSE 0)
  BY <1>4, <1>5, ButOne
<1> QED BY <1>3, <1>6

\* The balance of a step without a new notification.
LEMMA QuietCaused ==
    ASSUME CauseInv, NEW k \in Rows, NEW w \in Tick,
           \A v \in Tick : v # w => ticks'[v] = ticks[v], UNCHANGED <<operators, notifications>>,
           NEW d \in Nat, used'.faults = used.faults + d, used'.retries = used.retries,
           Owes(w, k)' + Open(k)' <= Owes(w, k) + Open(k) + d
    PROVE  Caused(k)'
<1>1. NotesOf(k)' = NotesOf(k)
  BY Zenon DEF NotesOf, Note
<1>2. Cardinality(NotesOf(k)) \in Nat
  BY CausesCounted, Zenon
<1>3. /\ Owes(w, k) \in {0, 1} /\ Owes(w, k)' \in {0, 1}
      /\ Open(k) \in {0, 1} /\ Open(k)' \in {0, 1}
  BY Zenon DEF Owes, Open
<1>4. Cardinality(NotesOf(k)') + Owes(w, k)' + Open(k)'
        <= Cardinality(NotesOf(k)) + Owes(w, k) + Open(k) + d
  BY <1>1, <1>2, <1>3
<1> QED BY <1>4, TickCaused, Zenon

\* A tick that only moves on: rows are as open as before, and nobody owes more.
LEMMA RecoverCaused ==
    ASSUME CauseInv, NEW k \in Rows, NEW w \in Tick, RecoverStale(w)
    PROVE  Caused(k)'
<1>1. /\ DOMAIN ticks = Tick /\ DOMAIN ticks[w] = {"pc", "todo", "cur", "copy"}
      /\ ticks[w].pc = "idle" /\ ticks[w].todo = {} /\ k \in Key
      /\ DOMAIN outbox[k] = {"status", "attempts", "born", "stale"}
  BY Zenon DEF CauseInv, HoldItems, TickHolds, OutboxInv, Shape, RecoverStale, Rows
<1>2. /\ \A v \in Tick : v # w => ticks'[v] = ticks[v]
      /\ ticks'[w].todo = {}
      /\ UNCHANGED <<operators, notifications, used>>
  BY <1>1, Zenon DEF RecoverStale, Go
<1>3. Owes(w, k)' = 0 /\ Owes(w, k) = 0
  BY <1>1, <1>2, Zenon DEF Owes, MaySave
<1>4. outbox'[k] = Recovered(outbox[k])
  BY <1>1, Zenon DEF RecoverStale
<1>5. Open(k)' = Open(k)
  <2>1. CASE outbox[k].status = "processing" /\ outbox[k].stale
    <3>1. outbox'[k].status = "pending"
      BY <1>1, <1>4, <2>1, Zenon DEF Recovered
    <3> QED BY <2>1, <3>1, Zenon DEF Open
  <2>2. CASE ~(outbox[k].status = "processing" /\ outbox[k].stale)
    <3>1. outbox'[k] = outbox[k]
      BY <1>4, <2>2, Zenon DEF Recovered
    <3> QED BY <1>1, <1>2, <3>1, OpenKept, Zenon
  <2> QED BY <2>1, <2>2, Zenon
<1>6. used.faults \in Nat /\ Open(k) \in {0, 1}
  BY Zenon DEF CauseInv, Counts, Open
<1>7. /\ Owes(w, k)' + Open(k)' <= Owes(w, k) + Open(k) + 0
      /\ used'.faults = used.faults + 0 /\ used'.retries = used.retries
  BY <1>2, <1>3, <1>5, <1>6
<1> QED BY <1>2, <1>7, QuietCaused, Zenon

\* A claim closes the row, and its tick owes the notification.
LEMMA ClaimCaused ==
    ASSUME CauseInv, NEW k \in Rows, NEW w \in Tick, ClaimPending(w)
    PROVE  Caused(k)'
<1>1. /\ DOMAIN ticks = Tick /\ ticks[w].pc = "claim" /\ ticks[w].todo = {} /\ k \in Key
      /\ DOMAIN outbox[k] = {"status", "attempts", "born", "stale"} /\ StaleIsClaimed(k)
  BY Zenon DEF CauseInv, HoldItems, TickHolds, OutboxInv, Shape, ClaimPending, Rows
<1>2. PICK batch \in SUBSET Key :
         /\ Oldest(batch)
         /\ outbox' = [j \in Key |-> IF j \in batch THEN [outbox[j] EXCEPT !.status = "processing"]
                                     ELSE outbox[j]]
         /\ ticks' = [ticks EXCEPT ![w] =
               IF batch = {} THEN Idle
               ELSE [pc |-> "save", todo |-> batch, cur |-> Direct,
                     copy |-> [j \in Key |-> IF j \in batch THEN outbox[j].attempts ELSE 0]]]
  BY Zenon DEF ClaimPending
<1>3. UNCHANGED <<operators, notifications, used>>
  BY Zenon DEF ClaimPending
<1>4. /\ \A v \in Tick : v # w => ticks'[v] = ticks[v]
      /\ ticks'[w].todo = batch /\ ticks'[w].pc \in {"idle", "save"}
  BY <1>1, <1>2, Zenon DEF Idle
<1>5. Owes(w, k) = 0 /\ Owes(w, k)' = IF k \in batch THEN 1 ELSE 0
  BY <1>1, <1>4, Zenon DEF Owes, MaySave
<1>6. CASE k \in batch
  <2>1. outbox[k].status = "pending" /\ ~outbox[k].stale
    BY <1>1, <1>2, <1>6, Zenon DEF Oldest, Pending, StaleIsClaimed
  <2>2. outbox'[k].status = "processing" /\ outbox'[k].stale = outbox[k].stale
    BY <1>1, <1>2, <1>6, Zenon
  <2>3. Held(k)'
    BY <1>4, <1>6, Zenon DEF Held
  <2>4. Open(k) = 1 /\ Open(k)' = 0
    BY <2>1, <2>2, <2>3, Zenon DEF Open
  <2>5. /\ Owes(w, k)' + Open(k)' <= Owes(w, k) + Open(k) + 0
        /\ used'.faults = used.faults + 0 /\ used'.retries = used.retries
    BY <1>3, <1>5, <1>6, <2>4 DEF CauseInv, Counts
  <2> QED BY <1>3, <1>4, <2>5, QuietCaused, Zenon
<1>7. CASE k \notin batch
  <2>1. outbox'[k] = outbox[k]
    BY <1>1, <1>2, <1>7, Zenon
  <2>2. Open(k)' = Open(k) /\ Open(k) \in {0, 1}
    BY <1>1, <1>4, <1>7, <2>1, OpenKept, Zenon DEF Open
  <2>3. /\ Owes(w, k)' + Open(k)' <= Owes(w, k) + Open(k) + 0
        /\ used'.faults = used.faults + 0 /\ used'.retries = used.retries
    BY <1>3, <1>5, <1>7, <2>2 DEF CauseInv, Counts
  <2> QED BY <1>3, <1>4, <2>3, QuietCaused, Zenon
<1> QED BY <1>6, <1>7, Zenon

\* A saved notification pays what its tick owed; when the save fails, it may owe another.
LEMMA SaveCaused ==
    ASSUME CauseInv, NEW k \in Rows, NEW w \in Tick, SaveNotification(w) \/ SaveFails(w)
    PROVE  Caused(k)'
<1>1. /\ DOMAIN ticks = Tick /\ DOMAIN ticks[w] = {"pc", "todo", "cur", "copy"}
      /\ ticks[w].pc = "save" /\ k \in Key /\ Shape /\ Counts
  BY Zenon DEF CauseInv, HoldItems, OutboxInv, SaveNotification, SaveFails, Rows
<1>2. Owes(w, k) = IF k \in ticks[w].todo THEN 1 ELSE 0
  BY <1>1, Zenon DEF Owes, MaySave
<1>3. UNCHANGED <<outbox, operators>>
  BY Zenon DEF SaveNotification, SaveFails
<1>4. ASSUME NEW j, NEW pc, ticks' = [ticks EXCEPT ![w].pc = pc, ![w].cur = j]
      PROVE  /\ \A v \in Tick : v # w => ticks'[v] = ticks[v]
             /\ ticks'[w].todo = ticks[w].todo /\ ticks'[w].pc = pc /\ ticks'[w].cur = j
             /\ Open(k)' = Open(k)
  <2>1. /\ \A v \in Tick : v # w => ticks'[v] = ticks[v]
        /\ ticks'[w].todo = ticks[w].todo /\ ticks'[w].pc = pc /\ ticks'[w].cur = j
    BY <1>1, <1>4, Zenon
  <2>2. outbox'[k] = outbox[k]
    BY <1>3, Zenon
  <2> QED BY <1>1, <2>1, <2>2, OpenKept, Zenon
<1>5. Open(k) \in {0, 1} /\ Cardinality(NotesOf(k)) \in Nat
  BY CausesCounted, Zenon DEF Open
<1>6. CASE SaveNotification(w)
  <2>1. PICK j \in ticks[w].todo :
           SaveQueued(j) /\ ticks' = [ticks EXCEPT ![w].pc = "mark", ![w].cur = j]
    BY <1>6, Zenon DEF SaveNotification
  <2>2. used' = used
    BY <1>6, Zenon DEF SaveNotification
  <2>3. Cardinality(NotesOf(k)')
          = IF j = k THEN Cardinality(NotesOf(k)) + 1 ELSE Cardinality(NotesOf(k))
    BY <1>1, <2>1, NotesMove, Zenon
  <2>4. Owes(w, k)' = IF k \in ticks[w].todo /\ j # k THEN 1 ELSE 0
    BY <1>4, <2>1, Zenon DEF Owes, MaySave
  <2>5. Cardinality(NotesOf(k)') + Owes(w, k)' + Open(k)'
          <= Cardinality(NotesOf(k)) + Owes(w, k) + Open(k) + 0
    <3>1. Open(k)' = Open(k)
      BY <1>4, <2>1, Zenon
    <3>2. CASE j = k
      BY <1>2, <1>5, <2>3, <2>4, <3>1, <3>2
    <3>3. CASE j # k
      BY <1>2, <1>5, <2>3, <2>4, <3>1, <3>3
    <3> QED BY <3>2, <3>3, Zenon
  <2>6. used'.faults = used.faults + 0 /\ used'.retries = used.retries
    BY <1>1, <2>2 DEF Counts
  <2> QED BY <1>3, <1>4, <2>1, <2>5, <2>6, TickCaused, Zenon
<1>7. CASE SaveFails(w)
  <2>1. PICK j \in ticks[w].todo :
           /\ SaveQueued(j) \/ UNCHANGED notifications
           /\ ticks' = [ticks EXCEPT ![w].pc = "catch", ![w].cur = j]
    BY <1>7, Zenon DEF SaveFails
  <2>2. used'.faults = used.faults + 1 /\ used'.retries = used.retries
    BY <1>1, <1>7, FaultCounts, Zenon DEF SaveFails
  <2>3. /\ Cardinality(NotesOf(k)') <= Cardinality(NotesOf(k)) + 1
        /\ Cardinality(NotesOf(k)') \in Nat
    <3>1. CASE SaveQueued(j)
      BY <1>1, <1>5, <3>1, NotesMove
    <3>2. CASE UNCHANGED notifications
      <4>1. NotesOf(k)' = NotesOf(k)
        BY <3>2, Zenon DEF NotesOf, Note
      <4> QED BY <1>5, <4>1
    <3> QED BY <2>1, <3>1, <3>2, Zenon
  <2>4. Owes(w, k)' = Owes(w, k) /\ Owes(w, k) \in {0, 1}
    <3>1. ticks'[w].todo = ticks[w].todo /\ ticks'[w].pc = "catch"
      BY <1>4, <2>1, Zenon
    <3>2. MaySave(w, k)' <=> MaySave(w, k)
      BY <1>1, <3>1, Zenon DEF MaySave
    <3> QED BY <3>2, Zenon DEF Owes
  <2>5. Cardinality(NotesOf(k)') + Owes(w, k)' + Open(k)'
          <= Cardinality(NotesOf(k)) + Owes(w, k) + Open(k) + 1
    <3>1. Open(k)' = Open(k)
      BY <1>4, <2>1, Zenon
    <3> QED BY <1>5, <2>3, <2>4, <3>1
  <2> QED BY <1>3, <1>4, <2>1, <2>2, <2>5, TickCaused, Zenon
<1> QED BY <1>6, <1>7, Zenon

\* What the end of a row's turn leaves the tick with.
LEMMA DoneOwes ==
    ASSUME CauseInv, NEW w \in Tick, ticks[w].pc \in {"mark", "catch"}, Done(w), NEW k \in Key
    PROVE  /\ \A v \in Tick : v # w => ticks'[v] = ticks[v]
           /\ Owes(w, k)' = IF k \in ticks[w].todo /\ k # ticks[w].cur THEN 1 ELSE 0
           /\ k \in ticks'[w].todo <=> k \in ticks[w].todo /\ k # ticks[w].cur
<1>1. DOMAIN ticks = Tick
  BY Zenon DEF CauseInv, HoldItems
<1>2. PICK left : left = ticks[w].todo \ {ticks[w].cur}
  BY Zenon
<1>3. PICK t : t = [pc |-> "save", todo |-> left, cur |-> Direct,
                    copy |-> [j \in Key |-> IF j \in left THEN ticks[w].copy[j] ELSE 0]]
  BY Zenon
<1>4. ticks' = [ticks EXCEPT ![w] = IF left = {} THEN Idle ELSE t]
  BY <1>2, <1>3, Zenon DEF Done
<1>5. t.pc = "save" /\ t.todo = left /\ Idle.pc = "idle" /\ Idle.todo = {}
  BY <1>3, Zenon DEF Idle
<1>6. /\ \A v \in Tick : v # w => ticks'[v] = ticks[v]
      /\ ticks'[w].pc \in {"idle", "save"} /\ ticks'[w].todo = left
  BY <1>1, <1>4, <1>5, Zenon
<1> QED BY <1>2, <1>6, Zenon DEF Owes, MaySave

\* The end of a row: it is dispatched and nothing is owed, or what was owed opens the row.
LEMMA EndCaused ==
    ASSUME CauseInv, NEW k \in Rows, NEW w \in Tick, MarkDispatched(w) \/ CatchError(w)
    PROVE  Caused(k)'
<1>1. /\ ticks[w].pc \in {"mark", "catch"} /\ k \in Key /\ Shape /\ Counts
      /\ ticks[w].cur \in ticks[w].todo /\ ticks[w].cur \in Rows
      /\ UNCHANGED <<operators, notifications, used>> /\ Done(w)
  <2>1. TickInv(w)
    BY Zenon DEF CauseInv, OutboxInv
  <2> QED BY <2>1, Zenon DEF CauseInv, OutboxInv, TickInv, MarkDispatched, CatchError, Rows
<1>2. /\ \A v \in Tick : v # w => ticks'[v] = ticks[v]
      /\ Owes(w, k)' = IF k \in ticks[w].todo /\ k # ticks[w].cur THEN 1 ELSE 0
      /\ k \in ticks'[w].todo <=> k \in ticks[w].todo /\ k # ticks[w].cur
  BY <1>1, DoneOwes, Zenon
<1>3. Open(k) \in {0, 1} /\ Open(k)' \in {0, 1}
  BY Zenon DEF Open
<1>4. used'.faults = used.faults + 0 /\ used'.retries = used.retries
  BY <1>1 DEF Counts
<1>5. CASE k = ticks[w].cur
  <2>1. CASE MarkDispatched(w)
    <3>1. outbox'[k].status = "dispatched"
      BY <1>1, <1>5, <2>1, UpdateKeeps DEF MarkDispatched
    <3>2. Open(k)' = 0 /\ Owes(w, k) = 0
      BY <1>5, <2>1, <3>1, Zenon DEF Open, Owes, MaySave, MarkDispatched
    <3>3. Owes(w, k)' + Open(k)' <= Owes(w, k) + Open(k) + 0
      BY <1>2, <1>3, <1>5, <3>2
    <3> QED BY <1>1, <1>2, <1>4, <3>3, QuietCaused, Zenon
  <2>2. CASE CatchError(w)
    <3>1. Owes(w, k) = 1
      BY <1>1, <1>5, <2>2, Zenon DEF Owes, MaySave, CatchError
    <3>2. Owes(w, k)' + Open(k)' <= Owes(w, k) + Open(k) + 0
      BY <1>2, <1>3, <1>5, <3>1
    <3> QED BY <1>1, <1>2, <1>4, <3>2, QuietCaused, Zenon
  <2> QED BY <2>1, <2>2, Zenon
<1>6. CASE k # ticks[w].cur
  <2>1. outbox'[k] = outbox[k]
    BY <1>1, <1>6, Zenon DEF MarkDispatched, CatchError, Attempted, Update, Shape
  <2>2. Open(k)' = Open(k)
    BY <1>1, <1>2, <1>6, <2>1, OpenKept, Zenon
  <2>3. Owes(w, k)' = Owes(w, k) /\ Owes(w, k) \in {0, 1}
    BY <1>2, <1>6, Zenon DEF Owes, MaySave
  <2>4. Owes(w, k)' + Open(k)' <= Owes(w, k) + Open(k) + 0
    BY <1>3, <2>2, <2>3
  <2> QED BY <1>1, <1>2, <1>4, <2>4, QuietCaused, Zenon
<1> QED BY <1>5, <1>6, Zenon

\* A failed mark leaves its tick owing once more.
LEMMA MarkFailsCaused ==
    ASSUME CauseInv, NEW k \in Rows, NEW w \in Tick, MarkFails(w)
    PROVE  Caused(k)'
<1>1. /\ DOMAIN ticks = Tick /\ DOMAIN ticks[w] = {"pc", "todo", "cur", "copy"}
      /\ ticks[w].pc = "mark" /\ k \in Key /\ Shape /\ Counts
      /\ ticks[w].cur \in ticks[w].todo /\ ticks[w].cur \in Rows
      /\ UNCHANGED <<operators, notifications>> /\ Go(w, "catch")
  <2>1. TickInv(w)
    BY Zenon DEF CauseInv, OutboxInv
  <2> QED BY <2>1, Zenon DEF CauseInv, HoldItems, OutboxInv, TickInv, MarkFails, Rows
<1>2. used'.faults = used.faults + 1 /\ used'.retries = used.retries
  BY <1>1, FaultCounts, Zenon DEF MarkFails
<1>3. /\ \A v \in Tick : v # w => ticks'[v] = ticks[v]
      /\ ticks'[w].todo = ticks[w].todo /\ ticks'[w].pc = "catch"
  BY <1>1, Zenon DEF Go
<1>4. /\ Open(k) \in {0, 1} /\ Open(k)' \in {0, 1}
      /\ Owes(w, k) \in {0, 1} /\ Owes(w, k)' \in {0, 1}
  BY Zenon DEF Open, Owes
<1>5. outbox'[k] = outbox[k] \/ (k = ticks[w].cur /\ outbox'[k].status = "dispatched")
  <2>1. CASE UNCHANGED outbox
    BY <2>1, Zenon
  <2>2. CASE Update(ticks[w].cur, "dispatched", ticks[w].copy[ticks[w].cur]) /\ k = ticks[w].cur
    BY <1>1, <2>2, UpdateKeeps, Zenon
  <2>3. CASE Update(ticks[w].cur, "dispatched", ticks[w].copy[ticks[w].cur]) /\ k # ticks[w].cur
    BY <1>1, <2>3, Zenon DEF Update, Shape
  <2> QED BY <2>1, <2>2, <2>3, Zenon DEF MarkFails
<1>6. Open(k)' <= Open(k)
  <2>1. CASE outbox'[k] = outbox[k]
    BY <1>1, <1>3, <1>4, <2>1, OpenKept
  <2>2. CASE outbox'[k].status = "dispatched"
    <3>1. Open(k)' = 0
      BY <2>2, Zenon DEF Open
    <3> QED BY <1>4, <3>1
  <2> QED BY <1>5, <2>1, <2>2, Zenon
<1>7. Owes(w, k)' + Open(k)' <= Owes(w, k) + Open(k) + 1
  BY <1>4, <1>6
<1> QED BY <1>1, <1>2, <1>3, <1>7, QuietCaused, Zenon

\* A catch block that fails drops the batch: what was owed for a row opens it.
LEMMA CatchFailsCaused ==
    ASSUME CauseInv, NEW k \in Rows, NEW w \in Tick, CatchFails(w)
    PROVE  Caused(k)'
<1>1. /\ DOMAIN ticks = Tick /\ ticks[w].pc = "catch" /\ k \in Key /\ Shape /\ Counts
      /\ ticks[w].cur \in ticks[w].todo
      /\ UNCHANGED <<operators, notifications>> /\ ticks' = [ticks EXCEPT ![w] = Idle]
  <2>1. TickInv(w)
    BY Zenon DEF CauseInv, OutboxInv
  <2> QED BY <2>1, Zenon DEF CauseInv, HoldItems, OutboxInv, TickInv, CatchFails, Rows
<1>2. used'.faults = used.faults + 1 /\ used'.retries = used.retries
  BY <1>1, FaultCounts, Zenon DEF CatchFails
<1>3. (\A v \in Tick : v # w => ticks'[v] = ticks[v]) /\ ticks'[w].todo = {}
  BY <1>1, Zenon DEF Idle
<1>4. /\ Open(k) \in {0, 1} /\ Open(k)' \in {0, 1}
      /\ Owes(w, k) \in {0, 1} /\ Owes(w, k)' = 0
  BY <1>3, Zenon DEF Open, Owes, MaySave
<1>5. Owes(w, k)' + Open(k)' <= Owes(w, k) + Open(k) + 1
  BY <1>4
<1> QED BY <1>1, <1>2, <1>3, <1>5, QuietCaused, Zenon

\* A step that moves no tick.
LEMMA OffTicksCaused ==
    ASSUME CauseInv, NEW k \in Rows, UNCHANGED ticks, NotesOf(k)' = NotesOf(k), NEW d \in Nat,
           used'.faults + used'.retries = used.faults + used.retries + d,
           used'.faults \in Nat, used'.retries \in Nat,
           Cardinality(Askers(k)') + Open(k)' <= Cardinality(Askers(k)) + Open(k) + d
    PROVE  Caused(k)'
<1>1. /\ Cardinality(NotesOf(k)) \in Nat /\ Cardinality(Savers(k)) \in Nat
      /\ Cardinality(Askers(k)) \in Nat /\ Cardinality(Askers(k)') \in Nat
  BY CausesCounted, CausesCountedNext, Zenon
<1>2. Savers(k)' = Savers(k)
  BY Zenon DEF Savers, MaySave
<1>3. Open(k) \in {0, 1} /\ Open(k)' \in {0, 1}
  BY Zenon DEF Open
<1>4. used.faults \in Nat /\ used.retries \in Nat /\ Caused(k)
  BY Zenon DEF CauseInv, Counts
<1>5. Cardinality(NotesOf(k)) + Cardinality(Savers(k)) + Cardinality(Askers(k)') + Open(k)'
        <= 1 + used'.faults + used'.retries
  BY <1>1, <1>3, <1>4 DEF Caused
<1> QED BY <1>2, <1>5, Zenon DEF Caused

\* The operators that ask for an item, when one of them moves.
LEMMA AskersMove ==
    ASSUME CauseInv, NEW k, NEW o \in Operator, NEW j, DOMAIN operators = Operator,
           operators' = [operators EXCEPT ![o] = j]
    PROVE  /\ Cardinality(Askers(k)) \in Nat /\ Cardinality(Askers(k)') \in Nat
           /\ Cardinality(Askers(k)') + (IF operators[o] = k THEN 1 ELSE 0)
                = Cardinality(Askers(k)) + (IF j = k THEN 1 ELSE 0)
<1>1. Counted(Askers(k)) /\ Counted(Askers(k)')
  BY CausesCounted, CausesCountedNext, Zenon
<1>2. \A p : p # o => (p \in Askers(k) <=> p \in Askers(k)')
  BY Zenon DEF Askers
<1>3. (o \in Askers(k) <=> operators[o] = k) /\ (o \in Askers(k)' <=> j = k)
  BY Zenon DEF Askers
<1>4. /\ Cardinality(Askers(k)) \in Nat /\ Cardinality(Askers(k)') \in Nat
      /\ Cardinality(Askers(k)') + (IF o \in Askers(k) THEN 1 ELSE 0)
           = Cardinality(Askers(k)) + (IF o \in Askers(k)' THEN 1 ELSE 0)
  BY <1>1, <1>2, ButOne, Zenon
<1> QED BY <1>3, <1>4, Zenon

\* An operator's request is a cause of its own, and its write spends it.
LEMMA RetryCaused ==
    ASSUME CauseInv, NEW k \in Rows, NEW o \in Operator,
           RetryWrite(o) \/ \E j \in Key : RetryRead(o, j)
    PROVE  Caused(k)'
<1>1. /\ DOMAIN operators = Operator /\ Shape /\ Counts /\ k \in Key
      /\ UNCHANGED <<ticks, notifications>>
  BY Zenon DEF CauseInv, OutboxInv, Shape, Rows, RetryWrite, RetryRead
<1>2. NotesOf(k)' = NotesOf(k)
  BY <1>1, Zenon DEF NotesOf, Note
<1>3. Open(k) \in {0, 1} /\ Open(k)' \in {0, 1} /\ used.faults \in Nat /\ used.retries \in Nat
  BY <1>1, Zenon DEF Open, Counts
<1>4. ASSUME NEW j \in Key, RetryRead(o, j) PROVE Caused(k)'
  <2>1. /\ operators' = [operators EXCEPT ![o] = j] /\ UNCHANGED outbox
        /\ operators[o] = Direct
        /\ used'.retries = used.retries + 1 /\ used'.faults = used.faults
    BY <1>1, <1>4, Zenon DEF RetryRead, Counts
  <2>2. Open(k)' = Open(k)
    BY <1>1, <2>1, Zenon DEF Open, Held
  <2>3. /\ Cardinality(Askers(k)) \in Nat /\ Cardinality(Askers(k)') \in Nat
        /\ Cardinality(Askers(k)') + (IF operators[o] = k THEN 1 ELSE 0)
             = Cardinality(Askers(k)) + (IF j = k THEN 1 ELSE 0)
    BY <1>1, <2>1, AskersMove, Zenon
  <2>4. operators[o] # k
    BY <1>1, <2>1, OutboxConstants, Zenon
  <2>5. Cardinality(Askers(k)') + Open(k)' <= Cardinality(Askers(k)) + Open(k) + 1
    BY <1>3, <2>2, <2>3, <2>4
  <2>6. /\ used'.faults + used'.retries = used.faults + used.retries + 1
        /\ used'.faults \in Nat /\ used'.retries \in Nat
    BY <1>3, <2>1
  <2> QED BY <1>1, <1>2, <2>5, <2>6, OffTicksCaused, Zenon
<1>5. CASE RetryWrite(o)
  <2>1. /\ operators' = [operators EXCEPT ![o] = Direct] /\ used' = used
        /\ Update(operators[o], "pending", 0)
    BY <1>5, Zenon DEF RetryWrite
  <2>2. /\ Cardinality(Askers(k)) \in Nat /\ Cardinality(Askers(k)') \in Nat
        /\ Cardinality(Askers(k)') + (IF operators[o] = k THEN 1 ELSE 0)
             = Cardinality(Askers(k)) + (IF Direct = k THEN 1 ELSE 0)
    BY <1>1, <2>1, AskersMove, Zenon
  <2>3. Direct # k
    BY <1>1, OutboxConstants, Zenon
  <2>4. Cardinality(Askers(k)') + Open(k)' <= Cardinality(Askers(k)) + Open(k) + 0
    <3>1. CASE operators[o] = k
      BY <1>3, <2>2, <2>3, <3>1
    <3>2. CASE operators[o] # k
      <4>1. outbox'[k] = outbox[k]
        BY <1>1, <2>1, <3>2, Zenon DEF Update, Shape
      <4>2. Held(k)' <=> Held(k)
        BY <1>1, Zenon DEF Held
      <4>3. Open(k)' = Open(k)
        BY <4>1, <4>2 DEF Open
      <4>4. Cardinality(Askers(k)') = Cardinality(Askers(k))
        BY <2>2, <2>3, <3>2
      <4> QED BY <1>3, <2>2, <4>3, <4>4
    <3> QED BY <3>1, <3>2, Zenon
  <2>5. /\ used'.faults + used'.retries = used.faults + used.retries + 0
        /\ used'.faults \in Nat /\ used'.retries \in Nat
    BY <1>3, <2>1
  <2> QED BY <1>1, <1>2, <2>4, <2>5, OffTicksCaused, Zenon
<1> QED BY <1>4, <1>5, Zenon

\* A row that turns stale under a live tick is a cause; one that nobody holds was open.
LEMMA TurnStaleCaused ==
    ASSUME CauseInv, NEW k \in Rows, NEW j \in Key, TurnStale(j)
    PROVE  Caused(k)'
<1>1. /\ Shape /\ Counts /\ k \in Key /\ UNCHANGED <<ticks, operators, notifications>>
      /\ DOMAIN outbox[k] = {"status", "attempts", "born", "stale"}
  BY Zenon DEF CauseInv, OutboxInv, Shape, Rows, TurnStale
<1>2. NotesOf(k)' = NotesOf(k) /\ Askers(k)' = Askers(k) /\ Cardinality(Askers(k)) \in Nat
  BY <1>1, CausesCounted, Zenon DEF NotesOf, Note, Askers
<1>3. Open(k) \in {0, 1} /\ Open(k)' \in {0, 1} /\ used.faults \in Nat /\ used.retries \in Nat
  BY <1>1, Zenon DEF Open, Counts
<1>4. CASE used' = used
  <2>1. Open(k)' = Open(k)
    <3>1. CASE j = k /\ ~Held(k)
      <4>1. outbox[k].status = "processing" /\ outbox'[k].status = "processing"
        BY <1>1, <3>1, Zenon DEF TurnStale, Shape
      <4>2. ~Held(k)'
        BY <1>1, <3>1, Zenon DEF Held
      <4> QED BY <3>1, <4>1, <4>2, Zenon DEF Open
    <3>2. CASE j # k
      <4>1. outbox'[k] = outbox[k]
        BY <1>1, <3>2, Zenon DEF TurnStale, Shape
      <4> QED BY <1>1, <4>1 DEF Open, Held
    <3>3. j = k => ~Held(k)
      <4>1. ~Fault
        BY <1>1, <1>3, <1>4, FaultCounts
      <4> QED BY <4>1, Zenon DEF TurnStale
    <3> QED BY <3>1, <3>2, <3>3, Zenon
  <2>2. Cardinality(Askers(k)') + Open(k)' <= Cardinality(Askers(k)) + Open(k) + 0
    BY <1>2, <1>3, <2>1
  <2>3. /\ used'.faults + used'.retries = used.faults + used.retries + 0
        /\ used'.faults \in Nat /\ used'.retries \in Nat
    BY <1>3, <1>4
  <2> QED BY <1>1, <1>2, <2>2, <2>3, OffTicksCaused, Zenon
<1>5. CASE Fault
  <2>1. used'.faults = used.faults + 1 /\ used'.retries = used.retries
    BY <1>1, <1>5, FaultCounts, Zenon
  <2>2. Cardinality(Askers(k)') + Open(k)' <= Cardinality(Askers(k)) + Open(k) + 1
    BY <1>2, <1>3
  <2>3. /\ used'.faults + used'.retries = used.faults + used.retries + 1
        /\ used'.faults \in Nat /\ used'.retries \in Nat
    BY <1>3, <2>1
  <2> QED BY <1>1, <1>2, <2>2, <2>3, OffTicksCaused, Zenon
<1> QED BY <1>4, <1>5, Zenon DEF TurnStale

\* An accepted item opens a row of its own: nobody holds, saved or asked for it before.
LEMMA EnqueueCaused ==
    ASSUME CauseInv, NEW j \in Key, EnqueueFanoutNotificationItem(j), NEW k \in Rows'
    PROVE  Caused(k)'
<1>1. /\ Shape /\ Counts /\ k \in Key
      /\ j \notin Rows /\ outbox' = [outbox EXCEPT ![j] = Row("pending", 0, Cardinality(Rows))]
      /\ UNCHANGED <<ticks, operators, notifications, used>>
  BY Zenon DEF CauseInv, OutboxInv, Rows, EnqueueFanoutNotificationItem
<1>2. NotesOf(k)' = NotesOf(k) /\ Askers(k)' = Askers(k) /\ Savers(k)' = Savers(k)
  BY <1>1, Zenon DEF NotesOf, Note, Askers, Savers, MaySave
<1>3. Open(k) \in {0, 1} /\ Open(k)' \in {0, 1} /\ used.faults \in Nat /\ used.retries \in Nat
  BY <1>1, Zenon DEF Open, Counts
<1>4. CASE k = j
  <2>1. NotesOf(k) = {}
    BY <1>1, <1>4, Zenon DEF CauseInv, OutboxInv, Saved, NotesOf
  <2>2. Askers(k) = {}
    BY <1>1, <1>4, OutboxConstants, Zenon DEF CauseInv, OutboxInv, Askers
  <2>3. Savers(k) = {}
    <3> SUFFICES ASSUME NEW w \in Tick, k \in ticks[w].todo PROVE FALSE
      BY Zenon DEF Savers, MaySave
    <3>1. TickInv(w) /\ TickHolds(w) /\ ticks[w].pc \notin {"save", "mark", "catch"}
      BY <1>1, <1>4, Zenon DEF CauseInv, OutboxInv, TickInv
    <3> QED BY <3>1, Zenon DEF TickHolds
  <2>4. Cardinality({}) = 0
    BY Zenon DEF CauseInv, Counting
  <2>5. Cardinality(NotesOf(k)) = 0 /\ Cardinality(Savers(k)) = 0 /\ Cardinality(Askers(k)) = 0
    BY <2>1, <2>2, <2>3, <2>4, Zenon
  <2> QED BY <1>1, <1>2, <1>3, <2>5 DEF Caused
<1>5. CASE k # j
  <2>1. outbox'[k] = outbox[k] /\ k \in Rows
    BY <1>1, <1>5, Zenon DEF Shape, Rows
  <2>2. Open(k)' = Open(k)
    BY <1>1, <2>1, Zenon DEF Open, Held
  <2> QED BY <1>1, <1>2, <2>1, <2>2, Zenon DEF CauseInv, Caused
<1> QED BY <1>4, <1>5, Zenon

\* A notification asked for directly is of no item.
LEMMA PostCaused ==
    ASSUME CauseInv, NEW k \in Rows, PostNotification
    PROVE  Caused(k)'
<1>1. /\ Shape /\ Counts /\ k \in Key /\ UNCHANGED <<outbox, ticks, operators>>
      /\ SaveQueued(Direct) /\ Direct # k
  BY OutboxConstants, Zenon DEF CauseInv, OutboxInv, Rows, PostNotification
<1>2. Askers(k)' = Askers(k) /\ Savers(k)' = Savers(k) /\ Open(k)' = Open(k)
  BY <1>1, Zenon DEF Askers, Savers, MaySave, Open, Held
<1>3. Cardinality(NotesOf(k)') = Cardinality(NotesOf(k))
  BY <1>1, NotesMove, Zenon
<1>4. used'.faults = used.faults /\ used'.retries = used.retries
  BY <1>1, Zenon DEF PostNotification, Counts
<1> QED BY <1>2, <1>3, <1>4, Zenon DEF CauseInv, Caused

\* A restart forgets who held what and opens the claimed rows: one cause.
LEMMA CrashCaused ==
    ASSUME CauseInv, NEW k \in Rows, Crash
    PROVE  Caused(k)'
<1>1. /\ Counts /\ k \in Key /\ UNCHANGED <<outbox, notifications>>
      /\ ticks' = [w \in Tick |-> Idle] /\ operators' = [o \in Operator |-> Direct]
      /\ Direct # k
  BY OutboxConstants, Zenon DEF CauseInv, Rows, Crash
<1>2. used'.faults = used.faults + 1 /\ used'.retries = used.retries
  BY <1>1, FaultCounts, Zenon DEF Crash
<1>3. NotesOf(k)' = NotesOf(k)
  BY <1>1, Zenon DEF NotesOf, Note
<1>4. Savers(k)' = {} /\ Askers(k)' = {}
  BY <1>1, Zenon DEF Savers, MaySave, Idle, Askers
<1>5. Cardinality({}) = 0
  BY Zenon DEF CauseInv, Counting
<1>6. /\ Cardinality(NotesOf(k)) \in Nat /\ Cardinality(Savers(k)) \in Nat
      /\ Cardinality(Askers(k)) \in Nat
  BY CausesCounted, Zenon
<1>7. /\ Open(k) \in {0, 1} /\ Open(k)' \in {0, 1} /\ used.faults \in Nat /\ used.retries \in Nat
      /\ Caused(k)
  BY <1>1, Zenon DEF Open, Counts, CauseInv
<1>8. Cardinality(NotesOf(k)) + 0 + 0 + Open(k)' <= 1 + used'.faults + used'.retries
  BY <1>2, <1>6, <1>7 DEF Caused
<1> QED BY <1>3, <1>4, <1>5, <1>8, Zenon DEF Caused

\* The books start empty.
LEMMA CauseInit ==
    ASSUME Counting, Init
    PROVE  CauseInv
<1>1. OutboxInv
  BY OutboxInit, Zenon
<1>2. /\ \A w \in Tick : ticks[w] = Idle
      /\ \A k \in Key : outbox[k].status = "none" /\ ~outbox[k].stale
      /\ DOMAIN ticks = Tick
  BY Zenon DEF Init, NoRow, Row
<1>3. HoldItems /\ \A w \in Tick : TickHolds(w)
  BY <1>2 DEF HoldItems, TickHolds, Idle
<1>4. Rows = {} /\ \A k \in Key : StaleIsClaimed(k)
  BY <1>2, Zenon DEF Rows, StaleIsClaimed
<1>5. Counts
  BY Zenon DEF Init, Counts
<1> QED BY <1>1, <1>3, <1>4, <1>5, Zenon DEF CauseInv

\* Only the insert adds a row.
LEMMA OnlyEnqueueAdds ==
    ASSUME CauseInv, [Next]_vars, ~\E j \in Key : EnqueueFanoutNotificationItem(j),
           NEW k \in Key, outbox[k].status = "none"
    PROVE  outbox'[k].status = "none"
<1>1. Shape /\ DOMAIN outbox[k] = {"status", "attempts", "born", "stale"} /\ k \notin Rows
  BY Zenon DEF CauseInv, OutboxInv, Shape, Rows
<1>2. ASSUME NEW j \in Rows, NEW s, NEW a, Update(j, s, a) PROVE outbox'[k].status = "none"
  BY <1>1, <1>2, Zenon DEF Update, Shape
<1>3. CASE UNCHANGED outbox
  BY <1>3, Zenon
<1>4. ASSUME NEW w \in Tick, TickStep(w) \/ TickFails(w) PROVE outbox'[k].status = "none"
  <2>1. ticks[w].pc \in {"mark", "catch"} => ticks[w].cur \in Rows
    BY Zenon DEF CauseInv, OutboxInv, TickInv
  <2>2. CASE RecoverStale(w)
    BY <1>1, <2>2, Zenon DEF RecoverStale, Recovered
  <2>3. CASE ClaimPending(w)
    BY <1>1, <2>3, Zenon DEF ClaimPending, Oldest, Pending
  <2> QED BY <1>2, <1>3, <1>4, <2>1, <2>2, <2>3, Zenon DEF TickStep, TickFails, SaveNotification,
     SaveFails, MarkDispatched, MarkFails, CatchError, CatchFails, Attempted
<1>5. ASSUME NEW j \in Key, TurnStale(j) PROVE outbox'[k].status = "none"
  BY <1>1, <1>5, Zenon DEF TurnStale, Shape
<1>6. ASSUME NEW o \in Operator, RetryWrite(o) PROVE outbox'[k].status = "none"
  BY <1>2, <1>6, Zenon DEF RetryWrite, CauseInv, OutboxInv
<1> QED
  BY <1>3, <1>4, <1>5, <1>6, Zenon DEF Next, Work, RetryRead, PostNotification, Crash, vars

\* Every step keeps the balance of notifications and causes.
LEMMA CauseStep ==
    ASSUME CauseInv, [Next]_vars
    PROVE  CauseInv'
<1>1. OutboxInv'
  BY OutboxStep, Zenon DEF CauseInv
<1>2. Counts' /\ (\A k \in Key : StaleIsClaimed(k)') /\ (\A w \in Tick : TickHolds(w)')
  BY CountsKept, StaleKept, TickHoldsKept, Zenon DEF CauseInv
<1>3. HoldItems'
  <2>1. CASE UNCHANGED vars
    BY <2>1, Zenon DEF CauseInv, HoldItems, vars
  <2> QED BY <2>1, HoldItemsKept, Zenon DEF CauseInv, Next
<1>4. ASSUME NEW k \in Rows' PROVE Caused(k)'
  <2>1. ASSUME NEW j \in Key, EnqueueFanoutNotificationItem(j) PROVE Caused(k)'
    BY <2>1, EnqueueCaused, Zenon
  <2>2. CASE k \in Rows
    <3>1. ASSUME NEW w \in Tick, TickStep(w) \/ TickFails(w) PROVE Caused(k)'
      BY <2>2, <3>1, RecoverCaused, ClaimCaused, SaveCaused, EndCaused, MarkFailsCaused,
         CatchFailsCaused DEF TickStep, TickFails
    <3>2. CASE UNCHANGED vars
      BY <2>2, <3>2, Zenon DEF CauseInv, Caused, NotesOf, Note, Savers, MaySave, Askers, Open, Held, vars
    <3> QED
      BY <2>1, <2>2, <3>1, <3>2, TurnStaleCaused, RetryCaused, PostCaused, CrashCaused, Zenon
         DEF Next, Work
  <2>3. CASE k \notin Rows /\ ~\E j \in Key : EnqueueFanoutNotificationItem(j)
    <3>1. k \in Key /\ outbox'[k].status # "none" /\ outbox[k].status = "none"
      BY <2>3, Zenon DEF Rows
    <3>2. FALSE
      BY <2>3, <3>1, OnlyEnqueueAdds, Zenon
    <3> QED BY <3>2, Zenon
  <2> QED BY <2>1, <2>2, <2>3, Zenon
<1> QED BY <1>1, <1>2, <1>3, <1>4, Zenon DEF CauseInv, Counting, Counted, Note

-----------------------------------------------------------------------------
(* What holds of every behaviour.                                          *)

INSTANCE FiniteSetTheorems
INSTANCE WellFoundedInduction

\* Every non-empty set of numbers has a least one.
LEMMA LeastOf ==
    ASSUME NEW T, T \subseteq Nat, T # {}
    PROVE  \E x \in T : \A y \in T : x <= y
<1>1. IsWellFoundedOn(OpToRel(<, Nat), Nat)
  BY NatLessThanWellFounded, Zenon
<1>2. PICK x \in T : \A y \in T : ~(<<y, x>> \in OpToRel(<, Nat))
  BY <1>1, WFMin, Zenon
<1>3. \A y \in T : ~(y < x)
  BY <1>2, Zenon DEF OpToRel
<1> QED BY <1>3

\* So has every set of notifications, which are numbers.
LEMMA NotesAreOrdered == FirstNotes
<1>1. Note \subseteq Nat
  BY OutboxConstants DEF Note
<1> QED BY <1>1, LeastOf, Zenon DEF FirstNotes

\* Finite sets can be counted.
LEMMA FiniteIsCounted ==
    ASSUME NEW U, IsFiniteSet(U), NEW S \in SUBSET U
    PROVE  Counted(S)
<1>1. IsFiniteSet(S)
  BY FS_Subset, Zenon
<1> QED BY <1>1, FS_CardinalityType, FS_RemoveElement, Zenon DEF Counted

\* Notifications, ticks and operators are finitely many.
LEMMA CountsHold == Counting
<1>1. IsFiniteSet(Note)
  BY OutboxConstants, FS_Interval DEF Note
<1> QED BY <1>1, FiniteIsCounted, OutboxConstants, FS_EmptySet, Zenon DEF Counting

\* However many ticks of the delivery worker overlap, whatever crashes and whichever
\* writes fail, a notification marked sent was taken by its provider and one marked
\* failed was refused MaxAttempts times: an outcome written from an old copy
\* (processOne) undoes counts and never invents one.
THEOREM MarksEarned == SystemSpec => []MarksAreEarned
<1>1. EarnedInv => MarksAreEarned
  BY Zenon DEF EarnedInv, RowEarned, MarksAreEarned, Delivery!MarksAreEarned,
     Delivery!SentWasReceived, Delivery!GivenUpAfterMax
<1>2. SystemInit => EarnedInv /\ HoldItems
  BY EarnedInit, NotesAreOrdered
<1>3. EarnedInv /\ HoldItems /\ [SystemNext]_allVars => EarnedInv' /\ HoldItems'
  BY EarnedStep
<1>4. SystemSpec => SystemInit /\ [][SystemNext]_allVars
  BY Zenon DEF SystemSpec
<1> QED BY <1>1, <1>2, <1>3, <1>4, PTL

\* An item has no more notifications than one and the failures, crashes, outlived claims
\* and operator retries there were: runOutboxFanoutTick, its recovery of stale rows and
\* the retry route never queue an item twice on their own.
THEOREM DuplicatesHaveCauses == Spec => []DuplicateHasCause
<1>1. CauseInv => DuplicateHasCause
  <2> SUFFICES ASSUME CauseInv, NEW k \in Key
               PROVE  Cardinality(NotesOf(k)) <= 1 + used.faults + used.retries
    BY Zenon DEF DuplicateHasCause
  <2>1. /\ Cardinality(NotesOf(k)) \in Nat /\ Cardinality(Savers(k)) \in Nat
        /\ Cardinality(Askers(k)) \in Nat /\ Open(k) \in {0, 1}
        /\ used.faults \in Nat /\ used.retries \in Nat
    BY CausesCounted, Zenon DEF Open, CauseInv, Counts
  <2>2. CASE k \in Rows
    BY <2>1, <2>2 DEF CauseInv, Caused
  <2>3. CASE k \notin Rows
    <3>1. NotesOf(k) = {}
      BY <2>3, Zenon DEF CauseInv, OutboxInv, Saved, NotesOf
    <3>2. Cardinality(NotesOf(k)) = 0
      BY <3>1, Zenon DEF CauseInv, Counting
    <3> QED BY <2>1, <3>2
  <2> QED BY <2>2, <2>3, Zenon
<1> QED BY <1>1, CauseInit, CountsHold, CauseStep, PTL DEF Spec

=============================================================================
