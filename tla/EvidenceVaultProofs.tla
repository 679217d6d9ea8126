------------------------ MODULE EvidenceVaultProofs ------------------------
(***************************************************************************)
(* What the evidence vault of be2-ops keeps, for any evidence, files,      *)
(* requests in flight, retention periods and bounds.                       *)
(***************************************************************************)
EXTENDS Integers, FiniteSets, TLAPS

CONSTANTS Evidence, Content, MimeOf, Category, Handler, KeySource, Provider, MaxPinAttempts, Days,
          Patches, MaxClock, MaxPatches, MaxRuns, MaxFaults
VARIABLES rows, pins, tasks, clock, audits, history, used

Vault == INSTANCE EvidenceVault

\* The constants: the ids are finitely many, times are numbers, and a patch
\* names a class, a hold and a retention end.
VaultConstants ==
    /\ IsFiniteSet(Evidence)
    /\ Days \subseteq Nat
    /\ Patches \subseteq [class : {"standard", "legal_hold"}, hold : Nat, retain : Nat]
    /\ MaxClock \in Nat \ {0}

\* With how rows are counted: the facts hold of any finite set, and are taken from the
\* library at the end.
Shelf ==
    /\ Days \subseteq Nat
    /\ Patches \subseteq [class : {"standard", "legal_hold"}, hold : Nat, retain : Nat]
    /\ MaxClock \in Nat \ {0}
    /\ Cardinality({}) = 0
    /\ \A S \in SUBSET Evidence :
         /\ Cardinality(S) \in Nat
         /\ \A e \in Evidence : e \notin S => Cardinality(S \cup {e}) = Cardinality(S) + 1
         /\ \A T \in SUBSET S : Cardinality(T) <= Cardinality(S)

VaultRow ==
    [cid : Content \cup Evidence, category : Category, version : 1 .. Vault!Cardinality(Evidence),
     retain : Nat, class : {"standard", "legal_hold"}, hold : Nat]

Listed == [e : Evidence, row : VaultRow]
UploadTask ==
    [pc : {"pin", "count"}, e : Evidence, content : Content, category : Category, days : Nat,
     attempt : Nat]
SaveTask == [pc : {"save"}, e : Evidence, note : {"uploaded", "updated"}, row : VaultRow]
AuditTask ==
    [pc : {"audit"}, e : Evidence, note : {"uploaded", "updated", "purged"}, list : SUBSET Listed]
UnpinTask == [pc : {"unpin"}, list : SUBSET Listed]
DeleteTask == [pc : {"delete"}, e : Evidence, row : VaultRow, list : SUBSET Listed]

TaskOfType(t) ==
    /\ t = Vault!Idle \/ t.pc \in {"pin", "count", "save", "audit", "unpin", "delete"}
    /\ t.pc \in {"pin", "count"} => t \in UploadTask
    /\ t.pc = "save" => t \in SaveTask
    /\ t.pc = "audit" => t \in AuditTask
    /\ t.pc = "unpin" => t \in UnpinTask
    /\ t.pc = "delete" => t \in DeleteTask

VaultHistory ==
    [given : SUBSET Evidence, unpinned : SUBSET [e : Evidence, cid : Content \cup Evidence],
     purged : SUBSET Evidence, overlapped : SUBSET Category]

VaultTypes ==
    /\ rows \in [Evidence -> VaultRow \cup {Vault!NoRow}]
    /\ pins \subseteq Content \cup Evidence
    /\ DOMAIN tasks = Handler /\ \A h \in Handler : TaskOfType(tasks[h])
    /\ tasks = [h \in Handler |-> tasks[h]]
    /\ clock \in 1 .. MaxClock
    /\ history \in VaultHistory
    /\ used \in [faults : Nat, patches : Nat, runs : Nat]

\* Rows that are stored.
LEMMA RowIsRow == Vault!NoRow \notin VaultRow
<1> SUFFICES ASSUME Vault!NoRow \in VaultRow PROVE FALSE
  BY Zenon
<1>1. DOMAIN Vault!NoRow = {"cid"}
  BY Zenon DEF Vault!NoRow
<1>2. "hold" \in DOMAIN Vault!NoRow
  BY Zenon DEF VaultRow
<1> QED BY <1>1, <1>2

\* A request that rests.
LEMMA IdleTask ==
    /\ TaskOfType(Vault!Idle) /\ Vault!Idle.pc = "idle"
    /\ \A t : t.pc # "idle" => t # Vault!Idle
BY DEF TaskOfType, Vault!Idle

\* The number of a finite set.
LEMMA VaultCount == ASSUME NEW S PROVE Vault!Cardinality(S) = Cardinality(S)
BY Zenon DEF Vault!Cardinality, Cardinality

\* One request goes on, the others stay.
LEMMA TaskMoves ==
    ASSUME VaultTypes, NEW h \in Handler, NEW t, TaskOfType(t), Vault!Goto(h, t)
    PROVE  /\ tasks'[h] = t
           /\ \A k \in Handler : k # h => tasks'[k] = tasks[k]
           /\ DOMAIN tasks' = Handler /\ \A k \in Handler : TaskOfType(tasks'[k])
           /\ tasks' = [k \in Handler |-> tasks'[k]]
<1>1. tasks' = [tasks EXCEPT ![h] = t]
  BY Zenon DEF Vault!Goto
<1>2. DOMAIN tasks = Handler /\ \A k \in Handler : TaskOfType(tasks[k])
  BY Zenon DEF VaultTypes
<1>3. tasks'[h] = t /\ (\A k \in Handler : k # h => tasks'[k] = tasks[k]) /\ DOMAIN tasks' = Handler
  BY <1>1, <1>2, Zenon
<1>4. tasks' = [k \in Handler |-> tasks'[k]]
  BY <1>1, <1>2, Zenon
<1> QED BY <1>2, <1>3, <1>4, Zenon

\* An upload is taken up under an id of its own.
LEMMA PostDone ==
    ASSUME Shelf, VaultTypes, NEW h \in Handler, Vault!handlePostEvidence(h)
    PROVE  /\ VaultTypes'
           /\ UNCHANGED <<rows, pins, clock, audits, used>>
           /\ \A k \in Handler : k # h => tasks'[k] = tasks[k]
           /\ tasks[h] = Vault!Idle /\ tasks'[h] \in UploadTask /\ tasks'[h].pc = "pin"
           /\ tasks'[h].e \notin history.given
           /\ history'.given = history.given \cup {tasks'[h].e}
           /\ history'.unpinned = history.unpinned /\ history'.purged = history.purged
           /\ history'.overlapped = history.overlapped
<1>1. PICK e \in Evidence \ history.given, c \in Content, g \in Category, d \in Days \cup {0} :
        /\ Vault!Goto(h, [pc |-> "pin", e |-> e, content |-> c, category |-> g,
                          days |-> d, attempt |-> 1])
        /\ history' = [history EXCEPT !.given = @ \cup {e}]
  BY Zenon DEF Vault!handlePostEvidence, Vault!None
<1>2. PICK t : t = [pc |-> "pin", e |-> e, content |-> c, category |-> g, days |-> d, attempt |-> 1]
  BY Zenon
<1>3. d \in Nat
  BY Zenon DEF Shelf
<1>4. t \in UploadTask /\ t.pc = "pin" /\ t.e = e
  BY <1>2, <1>3, Zenon DEF UploadTask
<1>5. TaskOfType(t)
  BY <1>4, Zenon DEF TaskOfType
<1>6. Vault!Goto(h, t)
  BY <1>1, <1>2, Zenon
<1>7. /\ history' \in VaultHistory /\ history'.given = history.given \cup {e}
      /\ history'.unpinned = history.unpinned /\ history'.purged = history.purged
      /\ history'.overlapped = history.overlapped
  BY <1>1, Zenon DEF VaultTypes, VaultHistory
<1>8. UNCHANGED <<rows, pins, clock, audits, used>> /\ tasks[h] = Vault!Idle
  BY Zenon DEF Vault!handlePostEvidence
<1>9. VaultTypes'
  BY <1>5, <1>6, <1>7, <1>8, TaskMoves, Zenon DEF VaultTypes
<1> QED BY <1>4, <1>5, <1>6, <1>7, <1>8, <1>9, TaskMoves

\* The bytes are pinned.
LEMMA UploadDone ==
    ASSUME VaultTypes, NEW h \in Handler, Vault!uploadViaPinata(h)
    PROVE  /\ VaultTypes'
           /\ UNCHANGED <<rows, clock, audits, history, used>>
           /\ \A k \in Handler : k # h => tasks'[k] = tasks[k]
           /\ tasks[h] \in UploadTask /\ tasks[h].pc = "pin"
           /\ tasks'[h] \in UploadTask /\ tasks'[h].pc = "count"
           /\ tasks'[h].e = tasks[h].e /\ tasks'[h].content = tasks[h].content
           /\ pins \subseteq pins'
           /\ Provider = "pinata" => Vault!Cid(tasks[h].e, tasks[h].content) \in pins'
<1>1. /\ tasks[h].pc = "pin" /\ UNCHANGED <<rows, clock, audits, history, used>>
      /\ pins' = IF Provider = "pinata"
                 THEN pins \cup {Vault!Cid(tasks[h].e, tasks[h].content)} ELSE pins
  BY Zenon DEF Vault!uploadViaPinata
<1>2. tasks[h] \in UploadTask
  BY <1>1, Zenon DEF VaultTypes, TaskOfType
<1>3. PICK t : t = [tasks[h] EXCEPT !.pc = "count"]
  BY Zenon
<1>4. t \in UploadTask /\ t.pc = "count" /\ t.e = tasks[h].e /\ t.content = tasks[h].content
  BY <1>2, <1>3, Zenon DEF UploadTask
<1>5. TaskOfType(t) /\ Vault!Goto(h, t)
  BY <1>3, <1>4, Zenon DEF TaskOfType, Vault!uploadViaPinata
<1>6. Vault!Cid(tasks[h].e, tasks[h].content) \in Content \cup Evidence
  BY <1>2, Zenon DEF UploadTask, Vault!Cid
<1>7. pins' \subseteq Content \cup Evidence
  BY <1>1, <1>6, Zenon DEF VaultTypes
<1>8. VaultTypes'
  BY <1>1, <1>5, <1>7, TaskMoves, Zenon DEF VaultTypes
<1> QED BY <1>1, <1>2, <1>4, <1>5, <1>8, TaskMoves, Zenon

\* An attempt fails: another one, or the end of the request.
LEMMA PinFailsDone ==
    ASSUME VaultTypes, NEW h \in Handler, Vault!PinFails(h)
    PROVE  /\ VaultTypes'
           /\ UNCHANGED <<rows, clock, audits, history>> /\ used'.faults > 0
           /\ \A k \in Handler : k # h => tasks'[k] = tasks[k]
           /\ tasks[h] \in UploadTask /\ tasks[h].pc = "pin"
           /\ \/ tasks'[h] = Vault!Idle
              \/ tasks'[h] \in UploadTask /\ tasks'[h].pc = "pin" /\ tasks'[h].e = tasks[h].e
           /\ pins \subseteq pins'
<1>1. /\ tasks[h].pc = "pin" /\ UNCHANGED <<rows, clock, audits, history>>
      /\ pins' \in {pins, pins \cup {Vault!Cid(tasks[h].e, tasks[h].content)}}
      /\ used' = [used EXCEPT !.faults = @ + 1]
  BY Zenon DEF Vault!PinFails, Vault!Fault
<1>2. tasks[h] \in UploadTask
  BY <1>1, Zenon DEF VaultTypes, TaskOfType
<1>3. PICK t : t = IF tasks[h].attempt < MaxPinAttempts
                   THEN [tasks[h] EXCEPT !.attempt = @ + 1] ELSE Vault!Idle
  BY Zenon
<1>4. t = Vault!Idle \/ (t \in UploadTask /\ t.pc = "pin" /\ t.e = tasks[h].e)
  <2>1. PICK n \in Nat : n = tasks[h].attempt + 1
    BY <1>2 DEF UploadTask
  <2>2. t = Vault!Idle \/ t = [tasks[h] EXCEPT !.attempt = n]
    BY <1>3, <2>1, Zenon
  <2> QED BY <1>1, <1>2, <2>1, <2>2, Zenon DEF UploadTask
<1>5. TaskOfType(t) /\ Vault!Goto(h, t)
  BY <1>3, <1>4, IdleTask, Zenon DEF TaskOfType, Vault!PinFails
<1>6. Vault!Cid(tasks[h].e, tasks[h].content) \in Content \cup Evidence
  BY <1>2, Zenon DEF UploadTask, Vault!Cid
<1>7. pins' \subseteq Content \cup Evidence /\ pins \subseteq pins'
  BY <1>1, <1>6, Zenon DEF VaultTypes
<1>8. used' \in [faults : Nat, patches : Nat, runs : Nat] /\ used'.faults > 0
  BY <1>1 DEF VaultTypes
<1>9. VaultTypes'
  BY <1>1, <1>5, <1>7, <1>8, TaskMoves, Zenon DEF VaultTypes
<1> QED BY <1>1, <1>2, <1>4, <1>5, <1>7, <1>8, <1>9, TaskMoves, Zenon

\* The rows of a series.
Series(g) == {e \in Vault!Stored : rows[e].category = g}

\* A series is part of the rows, and leaves out what is not stored.
LEMMA SeriesCounted ==
    ASSUME Shelf, NEW g
    PROVE  /\ Series(g) \subseteq Evidence /\ Cardinality(Series(g)) \in Nat
           /\ Cardinality(Evidence) \in Nat
           /\ \A e \in Evidence : rows[e] = Vault!NoRow =>
                Cardinality(Series(g)) + 1 <= Cardinality(Evidence)
<1>1. Series(g) \subseteq Evidence
  BY Zenon DEF Series, Vault!Stored
<1>2. Cardinality(Series(g)) \in Nat /\ Cardinality(Evidence) \in Nat
  BY <1>1, Zenon DEF Shelf
<1>3. ASSUME NEW e \in Evidence, rows[e] = Vault!NoRow
      PROVE  Cardinality(Series(g)) + 1 <= Cardinality(Evidence)
  <2>1. e \notin Series(g)
    BY <1>3, Zenon DEF Series, Vault!Stored
  <2>2. /\ Cardinality(Series(g) \cup {e}) = Cardinality(Series(g)) + 1
        /\ Series(g) \cup {e} \subseteq Evidence
    BY <1>1, <1>3, <2>1, Zenon DEF Shelf
  <2> QED BY <2>2 DEF Shelf
<1> QED BY <1>1, <1>2, <1>3, Zenon

\* The version is counted: one more than the rows of the series.
LEMMA CountDone ==
    ASSUME Shelf, VaultTypes, NEW h \in Handler, Vault!CountVersion(h),
           rows[tasks[h].e] = Vault!NoRow
    PROVE  /\ VaultTypes'
           /\ UNCHANGED <<rows, pins, clock, audits, used>>
           /\ \A k \in Handler : k # h => tasks'[k] = tasks[k]
           /\ tasks[h] \in UploadTask /\ tasks[h].pc = "count"
           /\ tasks'[h] \in SaveTask /\ tasks'[h].e = tasks[h].e /\ tasks'[h].note = "uploaded"
           /\ tasks'[h].row.cid = Vault!Cid(tasks[h].e, tasks[h].content)
           /\ tasks'[h].row.version = Cardinality(Series(tasks'[h].row.category)) + 1
           /\ history'.given = history.given /\ history'.unpinned = history.unpinned
           /\ history'.purged = history.purged
           /\ history.overlapped \subseteq history'.overlapped
           /\ \A k \in Handler :
                k # h /\ tasks[k].pc = "save" /\ tasks[k].note = "uploaded"
                      /\ tasks[k].row.category = tasks'[h].row.category
                => tasks'[h].row.category \in history'.overlapped
<1>1. tasks[h].pc = "count" /\ UNCHANGED <<rows, pins, clock, audits, used>>
  BY Zenon DEF Vault!CountVersion
<1>2. tasks[h] \in UploadTask
  BY <1>1, Zenon DEF VaultTypes, TaskOfType
<1>3. PICK g \in Category : g = tasks[h].category
  BY <1>2, Zenon DEF UploadTask
<1>4. PICK n : n = Cardinality(Series(g)) + 1
  BY Zenon
<1>5. Vault!countEvidenceVersions(g) + 1 = n
  BY <1>4, VaultCount, Zenon DEF Vault!countEvidenceVersions, Series
<1>6. n \in 1 .. Vault!Cardinality(Evidence)
  <2>1. tasks[h].e \in Evidence
    BY <1>2, Zenon DEF UploadTask
  <2>2. n \in 1 .. Cardinality(Evidence)
    BY <1>4, <2>1, SeriesCounted
  <2> QED BY <2>2, VaultCount, Zenon
<1>7. PICK r : r = IF tasks[h].days = 0 THEN 0 ELSE clock + tasks[h].days
  BY Zenon
<1>8. r \in Nat
  BY <1>2, <1>7 DEF UploadTask, VaultTypes, Shelf
<1>9. PICK c \in Content \cup Evidence : c = Vault!Cid(tasks[h].e, tasks[h].content)
  BY <1>2, Zenon DEF UploadTask, Vault!Cid
<1>10. PICK row : row = [cid |-> c, category |-> g, version |-> n, retain |-> r,
                         class |-> "standard", hold |-> 0]
  BY Zenon
<1>11. row \in VaultRow /\ row.cid = c /\ row.category = g /\ row.version = n
  BY <1>6, <1>8, <1>10, Zenon DEF VaultRow
<1>12. PICK t : t = [pc |-> "save", e |-> tasks[h].e, note |-> "uploaded", row |-> row]
  BY Zenon
<1>13. t \in SaveTask /\ t.pc = "save" /\ t.e = tasks[h].e /\ t.note = "uploaded" /\ t.row = row
  BY <1>2, <1>11, <1>12, Zenon DEF SaveTask, UploadTask
<1>14. TaskOfType(t) /\ Vault!Goto(h, t)
  BY <1>3, <1>5, <1>7, <1>9, <1>10, <1>12, <1>13, Zenon DEF TaskOfType, Vault!CountVersion, Vault!None
<1>15. PICK o : o = IF \E k \in Vault!Busy \ {h} : tasks[k].pc = "save" /\ tasks[k].note = "uploaded"
                                                 /\ tasks[k].row.category = g
                    THEN history.overlapped \cup {g} ELSE history.overlapped
  BY Zenon
<1>16. history' = [history EXCEPT !.overlapped = o]
  BY <1>3, <1>15, Zenon DEF Vault!CountVersion
<1>17. o \subseteq Category /\ history.overlapped \subseteq o
  BY <1>15, Zenon DEF VaultTypes, VaultHistory
<1>18. /\ history' \in VaultHistory /\ history'.given = history.given
       /\ history'.unpinned = history.unpinned /\ history'.purged = history.purged
       /\ history'.overlapped = o
  BY <1>16, <1>17, Zenon DEF VaultTypes, VaultHistory
<1>19. ASSUME NEW k \in Handler, k # h, tasks[k].pc = "save", tasks[k].note = "uploaded",
              tasks[k].row.category = g
       PROVE  g \in o
  <2>1. k \in Vault!Busy \ {h}
    BY <1>19, IdleTask, Zenon DEF Vault!Busy
  <2> QED BY <1>15, <1>19, <2>1, Zenon
<1>20. VaultTypes'
  BY <1>1, <1>14, <1>18, TaskMoves, Zenon DEF VaultTypes
<1>21. tasks'[h] = t /\ \A k \in Handler : k # h => tasks'[k] = tasks[k]
  BY <1>14, TaskMoves, Zenon
<1> QED BY <1>1, <1>2, <1>4, <1>9, <1>11, <1>13, <1>17, <1>18, <1>19, <1>20, <1>21, Zenon

\* The row is written.
LEMMA SaveRowDone ==
    ASSUME VaultTypes, NEW h \in Handler, Vault!saveEvidence(h)
    PROVE  /\ VaultTypes'
           /\ UNCHANGED <<pins, clock, audits, history, used>>
           /\ \A k \in Handler : k # h => tasks'[k] = tasks[k]
           /\ tasks[h] \in SaveTask
           /\ tasks'[h] \in AuditTask /\ tasks'[h].e = tasks[h].e
           /\ tasks'[h].note = tasks[h].note /\ tasks'[h].list = {}
           /\ rows'[tasks[h].e] = tasks[h].row
           /\ \A e \in Evidence : e # tasks[h].e => rows'[e] = rows[e]
<1>1. /\ tasks[h].pc = "save" /\ UNCHANGED <<pins, clock, audits, history, used>>
      /\ rows' = [rows EXCEPT ![tasks[h].e] = tasks[h].row]
  BY Zenon DEF Vault!saveEvidence
<1>2. tasks[h] \in SaveTask
  BY <1>1, Zenon DEF VaultTypes, TaskOfType
<1>3. PICK t : t = [pc |-> "audit", e |-> tasks[h].e, note |-> tasks[h].note, list |-> {}]
  BY Zenon
<1>4. t \in AuditTask /\ t.pc = "audit" /\ t.e = tasks[h].e /\ t.note = tasks[h].note /\ t.list = {}
  BY <1>2, <1>3, Zenon DEF AuditTask, SaveTask
<1>5. TaskOfType(t) /\ Vault!Goto(h, t)
  BY <1>3, <1>4, Zenon DEF TaskOfType, Vault!saveEvidence
<1>6. tasks[h].e \in Evidence /\ tasks[h].row \in VaultRow
  BY <1>2, Zenon DEF SaveTask
<1>7. /\ rows' \in [Evidence -> VaultRow \cup {Vault!NoRow}] /\ rows'[tasks[h].e] = tasks[h].row
      /\ \A e \in Evidence : e # tasks[h].e => rows'[e] = rows[e]
  BY <1>1, <1>6, Zenon DEF VaultTypes
<1>8. VaultTypes'
  BY <1>1, <1>5, <1>7, TaskMoves, Zenon DEF VaultTypes
<1> QED BY <1>1, <1>2, <1>4, <1>5, <1>7, <1>8, TaskMoves, Zenon

\* A patch reads a stored row and changes its copy.
LEMMA PatchRowDone ==
    ASSUME Shelf, VaultTypes, NEW h \in Handler, Vault!PatchMetadata(h)
    PROVE  /\ VaultTypes'
           /\ UNCHANGED <<rows, pins, clock, audits, history>> /\ used'.faults = used.faults
           /\ \A k \in Handler : k # h => tasks'[k] = tasks[k]
           /\ tasks[h] = Vault!Idle /\ tasks'[h] \in SaveTask /\ tasks'[h].note = "updated"
           /\ tasks'[h].e \in Vault!Stored
           /\ tasks'[h].row.cid = rows[tasks'[h].e].cid
           /\ tasks'[h].row.category = rows[tasks'[h].e].category
           /\ tasks'[h].row.version = rows[tasks'[h].e].version
<1>1. PICK e \in Vault!Stored, p \in Patches :
        Vault!Goto(h, [pc |-> "save", e |-> e, note |-> "updated",
                row |-> [rows[e] EXCEPT !.class = p.class, !.hold = p.hold, !.retain = p.retain]])
  BY Zenon DEF Vault!PatchMetadata
<1>2. e \in Evidence /\ rows[e] \in VaultRow
  BY Zenon DEF Vault!Stored, VaultTypes
<1>3. p.class \in {"standard", "legal_hold"} /\ p.hold \in Nat /\ p.retain \in Nat
  BY Zenon DEF Shelf
<1>4. PICK row : row = [rows[e] EXCEPT !.class = p.class, !.hold = p.hold, !.retain = p.retain]
  BY Zenon
<1>5. /\ row \in VaultRow /\ row.cid = rows[e].cid /\ row.category = rows[e].category
      /\ row.version = rows[e].version
  BY <1>2, <1>3, <1>4, Zenon DEF VaultRow
<1>6. PICK t : t = [pc |-> "save", e |-> e, note |-> "updated", row |-> row]
  BY Zenon
<1>7. t \in SaveTask /\ t.pc = "save" /\ t.e = e /\ t.note = "updated" /\ t.row = row
  BY <1>2, <1>5, <1>6, Zenon DEF SaveTask
<1>8. TaskOfType(t) /\ Vault!Goto(h, t)
  BY <1>1, <1>4, <1>6, <1>7, Zenon DEF TaskOfType
<1>9. /\ UNCHANGED <<rows, pins, clock, audits, history>> /\ tasks[h] = Vault!Idle
      /\ used' = [used EXCEPT !.patches = @ + 1]
  BY Zenon DEF Vault!PatchMetadata
<1>10. used' \in [faults : Nat, patches : Nat, runs : Nat] /\ used'.faults = used.faults
  BY <1>9 DEF VaultTypes
<1>11. VaultTypes'
  BY <1>8, <1>9, <1>10, TaskMoves, Zenon DEF VaultTypes
<1>12. tasks'[h] = t /\ \A k \in Handler : k # h => tasks'[k] = tasks[k]
  BY <1>8, TaskMoves, Zenon
<1> QED BY <1>5, <1>7, <1>9, <1>10, <1>11, <1>12, Zenon

\* A retention run lists the rows past retention and under no hold.
LEMMA RetentionDone ==
    ASSUME VaultTypes, NEW h \in Handler, Vault!RetentionRun(h)
    PROVE  /\ VaultTypes'
           /\ UNCHANGED <<rows, pins, clock, audits, history>> /\ used'.faults = used.faults
           /\ \A k \in Handler : k # h => tasks'[k] = tasks[k]
           /\ tasks[h] = Vault!Idle /\ tasks'[h] \in UnpinTask
           /\ \A ev \in tasks'[h].list :
                /\ ev.e \in Vault!Stored /\ ev.row = rows[ev.e]
                /\ ~Vault!evidenceBlockedFromRetentionPurge(rows[ev.e], clock)
<1>1. PICK past : past = Vault!listEvidencesPastRetention(clock)
  BY Zenon
<1>2. PICK list : list = Vault!Copies(past)
  BY Zenon
<1>3. ASSUME NEW ev \in list
      PROVE  /\ ev \in Listed
             /\ ev.e \in Vault!Stored /\ ev.row = rows[ev.e]
             /\ ~Vault!evidenceBlockedFromRetentionPurge(rows[ev.e], clock)
  <2>1. PICK e \in past : ev = [e |-> e, row |-> rows[e]]
    BY <1>2, Zenon DEF Vault!Copies
  <2>2. e \in Vault!Stored /\ ~Vault!evidenceBlockedFromRetentionPurge(rows[e], clock)
    BY <1>1, Zenon DEF Vault!listEvidencesPastRetention
  <2>3. e \in Evidence /\ rows[e] \in VaultRow
    BY <2>2, Zenon DEF Vault!Stored, VaultTypes
  <2> QED BY <2>1, <2>2, <2>3, Zenon DEF Listed
<1>4. PICK t : t = [pc |-> "unpin", list |-> list]
  BY Zenon
<1>5. t \in UnpinTask /\ t.pc = "unpin" /\ t.list = list
  BY <1>3, <1>4, Zenon DEF UnpinTask
<1>6. TaskOfType(t) /\ Vault!Goto(h, t)
  BY <1>1, <1>2, <1>4, <1>5, Zenon DEF TaskOfType, Vault!RetentionRun
<1>7. /\ UNCHANGED <<rows, pins, clock, audits, history>> /\ tasks[h] = Vault!Idle
      /\ used' = [used EXCEPT !.runs = @ + 1]
  BY Zenon DEF Vault!RetentionRun
<1>8. used' \in [faults : Nat, patches : Nat, runs : Nat] /\ used'.faults = used.faults
  BY <1>7 DEF VaultTypes
<1>9. VaultTypes'
  BY <1>6, <1>7, <1>8, TaskMoves, Zenon DEF VaultTypes
<1> QED BY <1>3, <1>5, <1>6, <1>7, <1>8, <1>9, TaskMoves

\* The bytes of a listed row are unpinned, or the call fails.
LEMMA UnpinDone ==
    ASSUME VaultTypes, NEW h \in Handler, Vault!unpinIfPinata(h)
    PROVE  /\ VaultTypes'
           /\ UNCHANGED <<rows, clock, audits>> /\ used'.faults >= used.faults
           /\ \A k \in Handler : k # h => tasks'[k] = tasks[k]
           /\ tasks[h] \in UnpinTask /\ tasks'[h] \in DeleteTask
           /\ \E ev \in tasks[h].list :
                /\ ev \in Listed
                /\ tasks'[h].e = ev.e /\ tasks'[h].row = ev.row
                /\ tasks'[h].list \subseteq tasks[h].list
                /\ pins \ {ev.row.cid} \subseteq pins' /\ pins' \subseteq pins
                /\ history'.unpinned = history.unpinned \cup {[e |-> ev.e, cid |-> ev.row.cid]}
           /\ history'.given = history.given /\ history'.purged = history.purged
           /\ history'.overlapped = history.overlapped
<1>1. tasks[h].pc = "unpin" /\ UNCHANGED <<rows, clock, audits>>
  BY Zenon DEF Vault!unpinIfPinata
<1>2. tasks[h] \in UnpinTask
  BY <1>1, Zenon DEF VaultTypes, TaskOfType
<1>3. PICK ev \in tasks[h].list :
        /\ Vault!Goto(h, [pc |-> "delete", e |-> ev.e, row |-> ev.row, list |-> tasks[h].list \ {ev}])
        /\ \/ pins' = pins \ {ev.row.cid} /\ UNCHANGED used
           \/ Vault!Fault /\ UNCHANGED pins
        /\ history' = [history EXCEPT !.unpinned = @ \cup {[e |-> ev.e, cid |-> ev.row.cid]}]
  BY Zenon DEF Vault!unpinIfPinata
<1>4. ev \in Listed /\ tasks[h].list \subseteq Listed
  BY <1>2, Zenon DEF UnpinTask
<1>5. ev.e \in Evidence /\ ev.row \in VaultRow /\ ev.row.cid \in Content \cup Evidence
  BY <1>4, Zenon DEF Listed, VaultRow
<1>6. PICK t : t = [pc |-> "delete", e |-> ev.e, row |-> ev.row, list |-> tasks[h].list \ {ev}]
  BY Zenon
<1>7. t \in DeleteTask /\ t.pc = "delete" /\ t.e = ev.e /\ t.row = ev.row /\ t.list = tasks[h].list \ {ev}
  BY <1>4, <1>5, <1>6, Zenon DEF DeleteTask
<1>8. TaskOfType(t) /\ Vault!Goto(h, t)
  BY <1>3, <1>6, <1>7, Zenon DEF TaskOfType
<1>9. PICK u : u = [e |-> ev.e, cid |-> ev.row.cid]
  BY Zenon
<1>10. u \in [e : Evidence, cid : Content \cup Evidence]
  BY <1>5, <1>9, Zenon
<1>11. /\ history' \in VaultHistory /\ history'.unpinned = history.unpinned \cup {u}
       /\ history'.given = history.given /\ history'.purged = history.purged
       /\ history'.overlapped = history.overlapped
  BY <1>3, <1>9, <1>10, Zenon DEF VaultTypes, VaultHistory
<1>12. used' \in [faults : Nat, patches : Nat, runs : Nat] /\ used'.faults >= used.faults
  BY <1>3 DEF VaultTypes, Vault!Fault
<1>13. pins \ {ev.row.cid} \subseteq pins' /\ pins' \subseteq pins
  BY <1>3, Zenon
<1>14. VaultTypes'
  BY <1>1, <1>8, <1>11, <1>12, <1>13, TaskMoves, Zenon DEF VaultTypes
<1>15. tasks'[h] = t /\ \A k \in Handler : k # h => tasks'[k] = tasks[k]
  BY <1>8, TaskMoves, Zenon
<1> QED BY <1>1, <1>2, <1>4, <1>7, <1>9, <1>11, <1>12, <1>13, <1>14, <1>15, Zenon

\* The row is deleted.
LEMMA DeleteDone ==
    ASSUME VaultTypes, NEW h \in Handler, Vault!deleteEvidence(h)
    PROVE  /\ VaultTypes'
           /\ UNCHANGED <<pins, clock, audits, used>>
           /\ \A k \in Handler : k # h => tasks'[k] = tasks[k]
           /\ tasks[h] \in DeleteTask /\ tasks'[h] \in AuditTask
           /\ tasks'[h].e = tasks[h].e /\ tasks'[h].note = "purged"
           /\ tasks'[h].list = tasks[h].list
           /\ rows'[tasks[h].e] = Vault!NoRow
           /\ \A e \in Evidence : e # tasks[h].e => rows'[e] = rows[e]
           /\ history'.purged # {} /\ history'.given = history.given
           /\ history'.unpinned = history.unpinned
<1>1. /\ tasks[h].pc = "delete" /\ UNCHANGED <<pins, clock, audits, used>>
      /\ rows' = [rows EXCEPT ![tasks[h].e] = Vault!NoRow]
      /\ history' = [history EXCEPT !.purged = @ \cup {tasks[h].e}]
  BY Zenon DEF Vault!deleteEvidence
<1>2. tasks[h] \in DeleteTask
  BY <1>1, Zenon DEF VaultTypes, TaskOfType
<1>3. PICK t : t = [pc |-> "audit", e |-> tasks[h].e, note |-> "purged", list |-> tasks[h].list]
  BY Zenon
<1>4. /\ t \in AuditTask /\ t.pc = "audit" /\ t.e = tasks[h].e /\ t.note = "purged"
      /\ t.list = tasks[h].list
  BY <1>2, <1>3, Zenon DEF AuditTask, DeleteTask
<1>5. TaskOfType(t) /\ Vault!Goto(h, t)
  BY <1>3, <1>4, Zenon DEF TaskOfType, Vault!deleteEvidence
<1>6. tasks[h].e \in Evidence
  BY <1>2, Zenon DEF DeleteTask
<1>7. /\ rows' \in [Evidence -> VaultRow \cup {Vault!NoRow}] /\ rows'[tasks[h].e] = Vault!NoRow
      /\ \A e \in Evidence : e # tasks[h].e => rows'[e] = rows[e]
  BY <1>1, <1>6, Zenon DEF VaultTypes
<1>8. /\ history' \in VaultHistory /\ history'.purged = history.purged \cup {tasks[h].e}
      /\ history'.given = history.given /\ history'.unpinned = history.unpinned
  BY <1>1, <1>6, Zenon DEF VaultTypes, VaultHistory
<1>9. VaultTypes'
  BY <1>1, <1>5, <1>7, <1>8, TaskMoves, Zenon DEF VaultTypes
<1> QED BY <1>1, <1>2, <1>4, <1>5, <1>7, <1>8, <1>9, TaskMoves, Zenon

\* The entry is written; a retention run goes on with its list.
LEMMA AuditDone ==
    ASSUME VaultTypes, NEW h \in Handler, Vault!Audit(h)
    PROVE  /\ VaultTypes'
           /\ UNCHANGED <<rows, pins, clock, history, used>>
           /\ \A k \in Handler : k # h => tasks'[k] = tasks[k]
           /\ tasks[h] \in AuditTask
           /\ audits' = audits \cup {<<tasks[h].note, tasks[h].e>>}
           /\ \/ tasks'[h] = Vault!Idle
              \/ tasks'[h] \in UnpinTask /\ tasks'[h].list = tasks[h].list
<1>1. /\ tasks[h].pc = "audit" /\ UNCHANGED <<rows, pins, clock, history, used>>
      /\ audits' = audits \cup {<<tasks[h].note, tasks[h].e>>}
  BY Zenon DEF Vault!Audit
<1>2. tasks[h] \in AuditTask
  BY <1>1, Zenon DEF VaultTypes, TaskOfType
<1>3. PICK on : on = [pc |-> "unpin", list |-> tasks[h].list]
  BY Zenon
<1>4. on \in UnpinTask /\ on.pc = "unpin" /\ on.list = tasks[h].list
  BY <1>2, <1>3, Zenon DEF UnpinTask, AuditTask
<1>5. PICK t : t = IF tasks[h].list = {} THEN Vault!Idle ELSE on
  BY Zenon
<1>6. TaskOfType(t)
  BY <1>4, <1>5, IdleTask, Zenon DEF TaskOfType
<1>7. Vault!Goto(h, t)
  BY <1>3, <1>5, Zenon DEF Vault!Audit
<1>8. VaultTypes'
  BY <1>1, <1>6, <1>7, TaskMoves, Zenon DEF VaultTypes
<1> QED BY <1>1, <1>2, <1>4, <1>5, <1>6, <1>7, <1>8, TaskMoves, Zenon

\* A download, a restart, and time.
LEMMA RestDone ==
    ASSUME Shelf, VaultTypes
    PROVE  /\ \A e \in Evidence : Vault!DownloadContent(e) =>
                /\ VaultTypes' /\ UNCHANGED <<rows, pins, tasks, clock, history, used>>
                /\ audits' = audits \cup {<<"downloaded", e>>}
           /\ Vault!Restart =>
                /\ VaultTypes' /\ UNCHANGED <<rows, pins, clock, audits, history>>
                /\ used'.faults > 0 /\ \A h \in Handler : tasks'[h] = Vault!Idle
           /\ Vault!Pass =>
                /\ VaultTypes' /\ UNCHANGED <<rows, pins, tasks, audits, history, used>>
                /\ clock \in Nat /\ clock' = clock + 1
<1>1. ASSUME NEW e \in Evidence, Vault!DownloadContent(e)
      PROVE  /\ VaultTypes' /\ UNCHANGED <<rows, pins, tasks, clock, history, used>>
             /\ audits' = audits \cup {<<"downloaded", e>>}
  BY <1>1, Zenon DEF Vault!DownloadContent, VaultTypes
<1>2. ASSUME Vault!Restart
      PROVE  /\ VaultTypes' /\ UNCHANGED <<rows, pins, clock, audits, history>>
             /\ used'.faults > 0 /\ \A h \in Handler : tasks'[h] = Vault!Idle
  <2>1. /\ UNCHANGED <<rows, pins, clock, audits, history>>
        /\ used' = [used EXCEPT !.faults = @ + 1]
        /\ tasks' = [h \in Handler |-> Vault!Idle]
    BY <1>2, Zenon DEF Vault!Restart, Vault!Fault
  <2>2. used' \in [faults : Nat, patches : Nat, runs : Nat] /\ used'.faults > 0
    BY <2>1 DEF VaultTypes
  <2> QED BY <2>1, <2>2, IdleTask, Zenon DEF VaultTypes
<1>3. ASSUME Vault!Pass
      PROVE  /\ VaultTypes' /\ UNCHANGED <<rows, pins, tasks, audits, history, used>>
             /\ clock \in Nat /\ clock' = clock + 1
  <2>1. /\ UNCHANGED <<rows, pins, tasks, audits, history, used>>
        /\ clock < MaxClock /\ clock' = clock + 1
    BY <1>3, Zenon DEF Vault!Pass
  <2>2. clock \in Nat /\ clock' \in 1 .. MaxClock
    BY <2>1 DEF VaultTypes, Shelf
  <2> QED BY <2>1, <2>2, Zenon DEF VaultTypes
<1> QED BY <1>1, <1>2, <1>3, Zenon

-----------------------------------------------------------------------------
(* Ids: an id is uploaded once, and patched when the upload is over.       *)

Uploads(t) == t.pc \in {"pin", "count"} \/ (t.pc = "save" /\ t.note = "uploaded")
Updates(t) == t.pc = "save" /\ t.note = "updated"

Settled(e) == e \in history.given /\ \A h \in Handler : Uploads(tasks[h]) => tasks[h].e # e

FreshInv ==
    /\ VaultTypes
    /\ \A h \in Handler : Uploads(tasks[h]) => tasks[h].e \in history.given
    /\ \A h, k \in Handler :
         Uploads(tasks[h]) /\ Uploads(tasks[k]) /\ tasks[h].e = tasks[k].e => h = k
    /\ \A e \in Vault!Stored : Settled(e)
    /\ \A h \in Handler : Updates(tasks[h]) => Settled(tasks[h].e)

\* What the kinds of requests do.
LEMMA Kinds ==
    ASSUME NEW t
    PROVE  /\ t \in UploadTask => Uploads(t) /\ ~Updates(t) /\ t.e \in Evidence
           /\ t \in SaveTask => (Uploads(t) <=> t.note = "uploaded") /\ (Updates(t) <=> t.note = "updated")
                                /\ t.e \in Evidence /\ t.pc = "save"
           /\ t \in AuditTask \/ t \in UnpinTask \/ t \in DeleteTask \/ t = Vault!Idle =>
                ~Uploads(t) /\ ~Updates(t)
<1>1. t \in UploadTask => Uploads(t) /\ ~Updates(t) /\ t.e \in Evidence
  BY Zenon DEF UploadTask, Uploads, Updates
<1>2. t \in SaveTask => (Uploads(t) <=> t.note = "uploaded") /\ (Updates(t) <=> t.note = "updated")
                        /\ t.e \in Evidence /\ t.pc = "save"
  BY Zenon DEF SaveTask, Uploads, Updates
<1>3. t \in AuditTask => t.pc = "audit"
  BY Zenon DEF AuditTask
<1>4. t \in UnpinTask => t.pc = "unpin"
  BY Zenon DEF UnpinTask
<1>5. t \in DeleteTask => t.pc = "delete"
  BY Zenon DEF DeleteTask
<1> QED BY <1>1, <1>2, <1>3, <1>4, <1>5, IdleTask, Zenon DEF Uploads, Updates

\* A request that goes on with its own id, or is done with it.
LEMMA FreshMoves ==
    ASSUME FreshInv, VaultTypes', history'.given = history.given, NEW h \in Handler,
           \A k \in Handler : k # h => tasks'[k] = tasks[k],
           Uploads(tasks'[h]) => Uploads(tasks[h]) /\ tasks'[h].e = tasks[h].e,
           Updates(tasks'[h]) => Settled(tasks'[h].e),
           \A e \in Vault!Stored' : e \in Vault!Stored \/ Settled(e)'
    PROVE  FreshInv'
<1>1. ASSUME NEW e, Settled(e) PROVE Settled(e)'
  BY <1>1, Zenon DEF Settled
<1>2. \A e \in Vault!Stored' : Settled(e)'
  BY <1>1, Zenon DEF FreshInv
<1>3. \A k \in Handler : Uploads(tasks'[k]) => tasks'[k].e \in history'.given
  BY Zenon DEF FreshInv
<1>4. \A k, j \in Handler :
        Uploads(tasks'[k]) /\ Uploads(tasks'[j]) /\ tasks'[k].e = tasks'[j].e => k = j
  BY DEF FreshInv
<1>5. ASSUME NEW k \in Handler, Updates(tasks'[k]) PROVE Settled(tasks[k].e)'
  <2>1. Settled(tasks'[k].e)
    BY <1>5, Zenon DEF FreshInv
  <2> QED BY <2>1, Zenon DEF Settled
<1>6. /\ \A k \in Handler : Uploads(tasks[k])' => (tasks[k].e)' \in history'.given
      /\ \A k, j \in Handler :
           Uploads(tasks[k])' /\ Uploads(tasks[j])' /\ tasks'[k].e = tasks'[j].e => k = j
      /\ \A k \in Handler : Updates(tasks[k])' => Settled(tasks[k].e)'
  BY <1>3, <1>4, <1>5, Zenon DEF Uploads, Updates
<1> QED BY <1>2, <1>6, Zenon DEF FreshInv

\* Every step of a request keeps the ids apart.
LEMMA FreshServe ==
    ASSUME Shelf, FreshInv, NEW h \in Handler,
           \/ Vault!handlePostEvidence(h) \/ Vault!uploadViaPinata(h) \/ Vault!PinFails(h)
           \/ Vault!CountVersion(h) \/ Vault!saveEvidence(h) \/ Vault!PatchMetadata(h)
           \/ Vault!RetentionRun(h) \/ Vault!unpinIfPinata(h) \/ Vault!deleteEvidence(h)
           \/ Vault!Audit(h)
    PROVE  FreshInv'
<1>0. VaultTypes
  BY Zenon DEF FreshInv
<1>1. CASE Vault!handlePostEvidence(h)
  <2>1. /\ VaultTypes' /\ UNCHANGED rows
        /\ \A k \in Handler : k # h => tasks'[k] = tasks[k]
        /\ tasks'[h] \in UploadTask /\ tasks'[h].e \notin history.given
        /\ history'.given = history.given \cup {tasks'[h].e}
    BY <1>0, <1>1, PostDone, Zenon
  <2>2. Uploads(tasks'[h]) /\ ~Updates(tasks'[h])
    BY <2>1, Kinds, Zenon
  <2>3. ASSUME NEW e, Settled(e) PROVE Settled(e)'
    BY <2>1, <2>3, Zenon DEF Settled
  <2>4. Vault!Stored' = Vault!Stored
    BY <2>1, Zenon DEF Vault!Stored
  <2>5. \A e \in Vault!Stored' : Settled(e)'
    BY <2>3, <2>4, Zenon DEF FreshInv
  <2>6. \A k \in Handler : Uploads(tasks'[k]) => tasks'[k].e \in history'.given
    BY <2>1, Zenon DEF FreshInv
  <2>7. \A k, j \in Handler :
          Uploads(tasks'[k]) /\ Uploads(tasks'[j]) /\ tasks'[k].e = tasks'[j].e => k = j
    BY <2>1, Zenon DEF FreshInv
  <2>8. ASSUME NEW k \in Handler, Updates(tasks'[k]) PROVE Settled(tasks[k].e)'
    <3>1. k # h /\ tasks'[k] = tasks[k]
      BY <2>1, <2>2, <2>8, Zenon
    <3>2. Settled(tasks[k].e)
      BY <2>8, <3>1, Zenon DEF FreshInv
    <3>3. PICK e : e = tasks[k].e
      BY Zenon
    <3> QED BY <2>3, <3>1, <3>2, <3>3, Zenon DEF Settled
  <2> QED BY <2>1, <2>5, <2>6, <2>7, <2>8, Zenon DEF FreshInv, Uploads, Updates
<1>2. CASE Vault!uploadViaPinata(h)
  <2>1. Vault!Stored' = Vault!Stored
    BY <1>0, <1>2, UploadDone, Zenon DEF Vault!Stored
  <2> QED BY <1>0, <1>2, <2>1, UploadDone, Kinds, FreshMoves, Zenon
<1>3. CASE Vault!PinFails(h)
  <2>1. Vault!Stored' = Vault!Stored
    BY <1>0, <1>3, PinFailsDone, Zenon DEF Vault!Stored
  <2> QED BY <1>0, <1>3, <2>1, PinFailsDone, Kinds, FreshMoves, Zenon
<1>4. CASE Vault!CountVersion(h)
  <2>1. Uploads(tasks[h]) /\ tasks[h].e \in Evidence
    BY <1>0, <1>4, Zenon DEF Vault!CountVersion, Uploads, VaultTypes, TaskOfType, UploadTask
  <2>2. rows[tasks[h].e] = Vault!NoRow
    BY <2>1, Zenon DEF FreshInv, Settled, Vault!Stored
  <2>3. Vault!Stored' = Vault!Stored
    BY <1>0, <1>4, <2>2, CountDone, Zenon DEF Vault!Stored
  <2> QED BY <1>0, <1>4, <2>1, <2>2, <2>3, CountDone, Kinds, FreshMoves, Zenon
<1>5. CASE Vault!saveEvidence(h)
  <2>1. /\ VaultTypes' /\ UNCHANGED history
        /\ \A k \in Handler : k # h => tasks'[k] = tasks[k]
        /\ tasks[h] \in SaveTask /\ tasks'[h] \in AuditTask
        /\ \A e \in Evidence : e # tasks[h].e => rows'[e] = rows[e]
    BY <1>0, <1>5, SaveRowDone, Zenon
  <2>2. ~Uploads(tasks'[h]) /\ ~Updates(tasks'[h]) /\ (Uploads(tasks[h]) \/ Updates(tasks[h]))
    BY <2>1, Kinds, Zenon DEF SaveTask
  <2>3. ASSUME NEW e \in Vault!Stored' PROVE e \in Vault!Stored \/ Settled(e)'
    <3>1. CASE e # tasks[h].e
      BY <2>1, <2>3, <3>1, Zenon DEF Vault!Stored
    <3>2. CASE e = tasks[h].e
      BY <2>1, <2>2, <3>2, Zenon DEF FreshInv, Settled
    <3> QED BY <3>1, <3>2, Zenon
  <2> QED BY <2>1, <2>2, <2>3, FreshMoves, Zenon
<1>6. CASE Vault!PatchMetadata(h)
  <2>1. Vault!Stored' = Vault!Stored
    BY <1>0, <1>6, PatchRowDone, Zenon DEF Vault!Stored
  <2>2. Settled(tasks'[h].e) /\ ~Uploads(tasks'[h])
    BY <1>0, <1>6, PatchRowDone, Kinds, Zenon DEF FreshInv
  <2> QED BY <1>0, <1>6, <2>1, <2>2, PatchRowDone, FreshMoves, Zenon
<1>7. CASE Vault!RetentionRun(h)
  <2>1. Vault!Stored' = Vault!Stored
    BY <1>0, <1>7, RetentionDone, Zenon DEF Vault!Stored
  <2> QED BY <1>0, <1>7, <2>1, RetentionDone, Kinds, FreshMoves, Zenon
<1>8. CASE Vault!unpinIfPinata(h)
  <2>1. Vault!Stored' = Vault!Stored
    BY <1>0, <1>8, UnpinDone, Zenon DEF Vault!Stored
  <2> QED BY <1>0, <1>8, <2>1, UnpinDone, Kinds, FreshMoves, Zenon
<1>9. CASE Vault!deleteEvidence(h)
  <2>1. Vault!Stored' \subseteq Vault!Stored
    BY <1>0, <1>9, DeleteDone, Zenon DEF Vault!Stored
  <2> QED BY <1>0, <1>9, <2>1, DeleteDone, Kinds, FreshMoves, Zenon
<1>10. CASE Vault!Audit(h)
  <2>1. Vault!Stored' = Vault!Stored
    BY <1>0, <1>10, AuditDone, Zenon DEF Vault!Stored
  <2> QED BY <1>0, <1>10, <2>1, AuditDone, Kinds, FreshMoves, Zenon
<1> QED BY <1>1, <1>2, <1>3, <1>4, <1>5, <1>6, <1>7, <1>8, <1>9, <1>10, Zenon

-----------------------------------------------------------------------------
(* Versions: within a series that nothing was purged from and whose        *)
(* uploads did not overlap, they count the rows.                           *)

Brings(t, g) == t.pc = "save" /\ t.note = "uploaded" /\ t.row.category = g

Numbered(g) ==
    /\ \A e \in Series(g) : rows[e].version <= Cardinality(Series(g))
    /\ \A e, f \in Series(g) : rows[e].version = rows[f].version => e = f
    /\ \A h \in Handler : Brings(tasks[h], g) =>
         tasks[h].row.version = Cardinality(Series(g)) + 1
    /\ \A h, k \in Handler : Brings(tasks[h], g) /\ Brings(tasks[k], g) => h = k

Copied(h) ==
    LET t == tasks[h]
    IN  Updates(t) => /\ t.e \in Vault!Stored /\ t.row.version = rows[t.e].version
                      /\ t.row.category = rows[t.e].category

VersionInv ==
    history.purged = {} =>
        /\ \A g \in Category \ history.overlapped : Numbered(g)
        /\ \A h \in Handler : Copied(h)

\* A request that brings no row leaves the versions alone.
LEMMA VersionMoves ==
    ASSUME VersionInv, NEW h \in Handler, \A k \in Handler : k # h => tasks'[k] = tasks[k],
           UNCHANGED rows, history'.purged = history.purged,
           history.overlapped \subseteq history'.overlapped, tasks'[h].pc # "save"
    PROVE  VersionInv'
<1> SUFFICES ASSUME history'.purged = {}
             PROVE  /\ \A g \in Category \ history'.overlapped : Numbered(g)'
                    /\ \A k \in Handler : Copied(k)'
  BY Zenon DEF VersionInv
<1>1. ASSUME NEW g \in Category \ history'.overlapped PROVE Numbered(g)'
  <2>1. Numbered(g) /\ Series(g)' = Series(g)
    BY Zenon DEF VersionInv, Series, Vault!Stored
  <2>2. \A k \in Handler : Brings(tasks[k], g)' => k # h /\ Brings(tasks[k], g) /\ tasks'[k] = tasks[k]
    BY Zenon DEF Brings
  <2> QED BY <2>1, <2>2 DEF Numbered
<1>2. ASSUME NEW k \in Handler PROVE Copied(k)'
  <2>1. k # h => Copied(k)
    BY Zenon DEF VersionInv
  <2> QED BY <2>1, Zenon DEF Copied, Updates, Vault!Stored
<1> QED BY <1>1, <1>2, Zenon

\* A version is counted.
LEMMA CountVersions ==
    ASSUME Shelf, FreshInv, VersionInv, NEW h \in Handler, Vault!CountVersion(h)
    PROVE  VersionInv'
<1>0. VaultTypes /\ rows[tasks[h].e] = Vault!NoRow
  <2>1. Uploads(tasks[h]) /\ tasks[h].e \in Evidence /\ VaultTypes
    BY Zenon DEF FreshInv, Vault!CountVersion, Uploads, VaultTypes, TaskOfType, UploadTask
  <2> QED BY <2>1, Zenon DEF FreshInv, Settled, Vault!Stored
<1>1. /\ UNCHANGED rows
      /\ \A k \in Handler : k # h => tasks'[k] = tasks[k]
      /\ tasks'[h] \in SaveTask /\ tasks'[h].note = "uploaded"
      /\ tasks'[h].row.version = Cardinality(Series(tasks'[h].row.category)) + 1
      /\ history'.purged = history.purged
      /\ history.overlapped \subseteq history'.overlapped
      /\ \A k \in Handler :
           k # h /\ tasks[k].pc = "save" /\ tasks[k].note = "uploaded"
                 /\ tasks[k].row.category = tasks'[h].row.category
           => tasks'[h].row.category \in history'.overlapped
  BY <1>0, CountDone, Zenon
<1> SUFFICES ASSUME history'.purged = {}
             PROVE  /\ \A g \in Category \ history'.overlapped : Numbered(g)'
                    /\ \A k \in Handler : Copied(k)'
  BY Zenon DEF VersionInv
<1>2. ASSUME NEW g \in Category \ history'.overlapped PROVE Numbered(g)'
  <2>1. Numbered(g) /\ Series(g)' = Series(g)
    BY <1>1, Zenon DEF VersionInv, Series, Vault!Stored
  <2>2. ASSUME NEW k \in Handler, Brings(tasks[k], g)'
        PROVE  tasks'[k].row.version = Cardinality(Series(g)) + 1
    <3>1. k = h => g = tasks'[h].row.category
      BY <2>2, Zenon DEF Brings
    <3>2. k # h => Brings(tasks[k], g) /\ tasks'[k] = tasks[k]
      BY <1>1, <2>2, Zenon DEF Brings
    <3> QED BY <1>1, <2>1, <3>1, <3>2, Zenon DEF Numbered
  <2>3. ASSUME NEW k \in Handler, NEW j \in Handler, Brings(tasks[k], g)', Brings(tasks[j], g)'
        PROVE  k = j
    <3>1. \A i \in Handler : i # h /\ Brings(tasks[i], g)' => Brings(tasks[i], g) /\ ~Brings(tasks[h], g)'
      BY <1>1, Zenon DEF Brings
    <3> QED BY <2>1, <2>3, <3>1, Zenon DEF Numbered
  <2> QED BY <1>1, <2>1, <2>2, <2>3, Zenon DEF Numbered
<1>3. ASSUME NEW k \in Handler PROVE Copied(k)'
  <2>1. k # h => Copied(k)
    BY <1>1, Zenon DEF VersionInv
  <2> QED BY <1>1, <2>1, Zenon DEF Copied, Updates, Vault!Stored
<1> QED BY <1>2, <1>3, Zenon

\* A patch copies the version and the category.
LEMMA PatchVersions ==
    ASSUME Shelf, FreshInv, VersionInv, NEW h \in Handler, Vault!PatchMetadata(h)
    PROVE  VersionInv'
<1>1. /\ UNCHANGED <<rows, history>>
      /\ \A k \in Handler : k # h => tasks'[k] = tasks[k]
      /\ tasks'[h].note = "updated" /\ tasks'[h].e \in Vault!Stored
      /\ tasks'[h].row.category = rows[tasks'[h].e].category
      /\ tasks'[h].row.version = rows[tasks'[h].e].version
  BY PatchRowDone, Zenon DEF FreshInv
<1> SUFFICES ASSUME history'.purged = {}
             PROVE  /\ \A g \in Category \ history'.overlapped : Numbered(g)'
                    /\ \A k \in Handler : Copied(k)'
  BY Zenon DEF VersionInv
<1>2. ASSUME NEW g \in Category \ history'.overlapped PROVE Numbered(g)'
  <2>1. Numbered(g) /\ Series(g)' = Series(g)
    BY <1>1, Zenon DEF VersionInv, Series, Vault!Stored
  <2>2. \A k \in Handler : Brings(tasks[k], g)' => Brings(tasks[k], g) /\ tasks'[k] = tasks[k]
    BY <1>1, Zenon DEF Brings
  <2> QED BY <1>1, <2>1, <2>2 DEF Numbered
<1>3. ASSUME NEW k \in Handler PROVE Copied(k)'
  <2>1. k # h => Copied(k)
    BY <1>1, Zenon DEF VersionInv
  <2> QED BY <1>1, <2>1, Zenon DEF Copied, Updates, Vault!Stored
<1> QED BY <1>2, <1>3, Zenon

\* A patch is saved: the series are as they were.
LEMMA UpdateVersions ==
    ASSUME FreshInv, VersionInv, NEW h \in Handler, Vault!saveEvidence(h), Updates(tasks[h])
    PROVE  VersionInv'
<1>1. /\ UNCHANGED history /\ rows \in [Evidence -> VaultRow \cup {Vault!NoRow}]
      /\ \A k \in Handler : k # h => tasks'[k] = tasks[k]
      /\ tasks[h] \in SaveTask /\ tasks'[h] \in AuditTask
      /\ rows'[tasks[h].e] = tasks[h].row
      /\ \A e \in Evidence : e # tasks[h].e => rows'[e] = rows[e]
  BY SaveRowDone, Zenon DEF FreshInv, VaultTypes
<1>2. tasks[h].row # Vault!NoRow /\ tasks[h].e \in Evidence
  BY <1>1, RowIsRow, Zenon DEF SaveTask
<1>3. tasks'[h].pc = "audit"
  BY <1>1, Zenon DEF AuditTask
<1> SUFFICES ASSUME history'.purged = {}
             PROVE  /\ \A g \in Category \ history'.overlapped : Numbered(g)'
                    /\ \A k \in Handler : Copied(k)'
  BY Zenon DEF VersionInv
<1>4. /\ tasks[h].e \in Vault!Stored /\ tasks[h].row.version = rows[tasks[h].e].version
      /\ tasks[h].row.category = rows[tasks[h].e].category
  BY <1>1, Zenon DEF VersionInv, Copied
<1>5. /\ Vault!Stored' = Vault!Stored
      /\ \A e \in Vault!Stored : rows'[e].version = rows[e].version /\ rows'[e].category = rows[e].category
  BY <1>1, <1>2, <1>4, Zenon DEF Vault!Stored
<1>6. ASSUME NEW g \in Category \ history'.overlapped PROVE Numbered(g)'
  <2>1. Numbered(g) /\ Series(g)' = Series(g) /\ Series(g) \subseteq Vault!Stored
    BY <1>1, <1>5, Zenon DEF VersionInv, Series
  <2>2. \A k \in Handler : Brings(tasks[k], g)' => Brings(tasks[k], g) /\ tasks'[k] = tasks[k]
    BY <1>1, <1>3, Zenon DEF Brings
  <2>3. \A e \in Series(g) : rows'[e].version = rows[e].version
    BY <1>5, <2>1, Zenon
  <2>4. \A e \in Series(g)' : rows'[e].version <= Cardinality(Series(g)')
    BY <2>1, <2>3, Zenon DEF Numbered
  <2>5. \A e, f \in Series(g)' : rows'[e].version = rows'[f].version => e = f
    BY <2>1, <2>3, Zenon DEF Numbered
  <2>6. \A k \in Handler : Brings(tasks[k], g)' =>
          tasks'[k].row.version = Cardinality(Series(g)') + 1
    BY <2>1, <2>2, Zenon DEF Numbered
  <2>7. \A j, k \in Handler : Brings(tasks[j], g)' /\ Brings(tasks[k], g)' => j = k
    BY <2>1, <2>2, Zenon DEF Numbered
  <2> QED BY <2>4, <2>5, <2>6, <2>7, Zenon DEF Numbered
<1>7. ASSUME NEW k \in Handler PROVE Copied(k)'
  <2>1. Copied(k)
    BY <1>1, Zenon DEF VersionInv
  <2> QED BY <1>1, <1>3, <1>5, <2>1 DEF Copied, Updates
<1> QED BY <1>6, <1>7, Zenon

\* An upload is saved: its series has one row more, with the next version.
LEMMA BringVersions ==
    ASSUME Shelf, FreshInv, VersionInv, NEW h \in Handler, Vault!saveEvidence(h), Uploads(tasks[h])
    PROVE  VersionInv'
<1>1. /\ UNCHANGED history /\ rows \in [Evidence -> VaultRow \cup {Vault!NoRow}]
      /\ \A k \in Handler : k # h => tasks'[k] = tasks[k]
      /\ tasks[h] \in SaveTask /\ tasks'[h] \in AuditTask
      /\ rows'[tasks[h].e] = tasks[h].row
      /\ \A e \in Evidence : e # tasks[h].e => rows'[e] = rows[e]
  BY SaveRowDone, Zenon DEF FreshInv, VaultTypes
<1>2. tasks[h].row # Vault!NoRow /\ tasks[h].e \in Evidence
  BY <1>1, RowIsRow, Zenon DEF SaveTask
<1>3. tasks'[h].pc = "audit" /\ Brings(tasks[h], tasks[h].row.category)
  BY <1>1, Zenon DEF AuditTask, SaveTask, Brings, Uploads
<1>4. tasks[h].e \notin Vault!Stored
  BY Zenon DEF FreshInv, Settled
<1> SUFFICES ASSUME history'.purged = {}
             PROVE  /\ \A g \in Category \ history'.overlapped : Numbered(g)'
                    /\ \A k \in Handler : Copied(k)'
  BY Zenon DEF VersionInv
<1>5. /\ Vault!Stored' = Vault!Stored \cup {tasks[h].e}
      /\ \A e \in Vault!Stored : rows'[e] = rows[e]
  BY <1>1, <1>2, <1>4 DEF Vault!Stored
<1>6. ASSUME NEW g \in Category \ history'.overlapped PROVE Numbered(g)'
  <2>1. Numbered(g)
    BY <1>1, Zenon DEF VersionInv
  <2>2. \A k \in Handler : Brings(tasks[k], g)' => k # h /\ Brings(tasks[k], g) /\ tasks'[k] = tasks[k]
    BY <1>1, <1>3, Zenon DEF Brings
  <2>3. CASE g # tasks[h].row.category
    <3>1. Series(g)' = Series(g) /\ Series(g) \subseteq Vault!Stored
      BY <1>1, <1>5, <2>3 DEF Series
    <3> QED BY <1>5, <2>1, <2>2, <3>1 DEF Numbered
  <2>4. CASE g = tasks[h].row.category
    <3>1. Series(g)' = Series(g) \cup {tasks[h].e} /\ Series(g) \subseteq Vault!Stored
      BY <1>1, <1>5, <2>4, Zenon DEF Series
    <3>2. /\ Cardinality(Series(g)') = Cardinality(Series(g)) + 1
          /\ Cardinality(Series(g)) \in Nat
      <4>0. PICK S : S = Series(g)
        BY Zenon
      <4>1. PICK e \in Evidence : e = tasks[h].e
        BY <1>2, Zenon
      <4>2. S \subseteq Evidence /\ Cardinality(S) \in Nat
        BY <4>0, SeriesCounted, Zenon
      <4>3. e \notin S
        BY <1>4, <3>1, <4>0, <4>1, Zenon
      <4>4. Cardinality(S \cup {e}) = Cardinality(S) + 1
        BY <4>2, <4>3, Zenon DEF Shelf
      <4> QED BY <3>1, <4>0, <4>1, <4>2, <4>4, Zenon
    <3>3. \A k \in Handler : ~Brings(tasks[k], g)'
      BY <1>3, <2>1, <2>2, <2>4, Zenon DEF Numbered
    <3>4. rows'[tasks[h].e].version = Cardinality(Series(g)) + 1
      BY <1>1, <1>3, <2>1, <2>4 DEF Numbered
    <3>5. \A e \in Series(g) : /\ rows'[e].version = rows[e].version
                               /\ rows[e].version <= Cardinality(Series(g)) /\ rows[e].version \in Nat
      <4>1. \A e \in Series(g) : rows[e] \in VaultRow
        BY <1>1, <3>1, Zenon DEF Vault!Stored
      <4>2. \A e \in Series(g) : rows[e].version \in Nat
        BY <4>1 DEF VaultRow
      <4> QED BY <1>5, <2>1, <3>1, <4>2, Zenon DEF Numbered
    <3>6. \A e \in Series(g)' : rows'[e].version <= Cardinality(Series(g)')
      BY <3>1, <3>2, <3>4, <3>5
    <3>7. \A e, f \in Series(g)' : rows'[e].version = rows'[f].version => e = f
      <4>1. \A e, f \in Series(g) : rows'[e].version = rows'[f].version => e = f
        BY <2>1, <3>5, Zenon DEF Numbered
      <4>2. \A e \in Series(g) : rows'[e].version # rows'[tasks[h].e].version
        BY <3>2, <3>4, <3>5
      <4> QED BY <3>1, <4>1, <4>2, Zenon
    <3> QED BY <3>3, <3>6, <3>7, Zenon DEF Numbered
  <2> QED BY <2>3, <2>4, Zenon
<1>7. ASSUME NEW k \in Handler PROVE Copied(k)'
  <2>1. Copied(k)
    BY <1>1, Zenon DEF VersionInv
  <2> QED BY <1>1, <1>3, <1>5, <2>1, Zenon DEF Copied, Updates
<1> QED BY <1>6, <1>7, Zenon

\* Every step of a request keeps the versions.
LEMMA VersionServe ==
    ASSUME Shelf, FreshInv, VersionInv, NEW h \in Handler,
           \/ Vault!handlePostEvidence(h) \/ Vault!uploadViaPinata(h) \/ Vault!PinFails(h)
           \/ Vault!CountVersion(h) \/ Vault!saveEvidence(h) \/ Vault!PatchMetadata(h)
           \/ Vault!RetentionRun(h) \/ Vault!unpinIfPinata(h) \/ Vault!deleteEvidence(h)
           \/ Vault!Audit(h)
    PROVE  VersionInv'
<1>0. VaultTypes
  BY Zenon DEF FreshInv
<1>1. CASE Vault!handlePostEvidence(h)
  BY <1>0, <1>1, PostDone, VersionMoves, Zenon
<1>2. CASE Vault!uploadViaPinata(h)
  BY <1>0, <1>2, UploadDone, VersionMoves, Zenon
<1>3. CASE Vault!PinFails(h)
  BY <1>0, <1>3, PinFailsDone, IdleTask, VersionMoves, Zenon
<1>4. CASE Vault!CountVersion(h)
  BY <1>4, CountVersions, Zenon
<1>5. CASE Vault!saveEvidence(h)
  <2>1. Uploads(tasks[h]) \/ Updates(tasks[h])
    BY <1>0, <1>5, SaveRowDone, Zenon DEF SaveTask, Uploads, Updates
  <2> QED BY <1>5, <2>1, UpdateVersions, BringVersions, Zenon
<1>6. CASE Vault!PatchMetadata(h)
  BY <1>6, PatchVersions, Zenon
<1>7. CASE Vault!RetentionRun(h)
  <2>1. tasks'[h].pc # "save"
    BY <1>0, <1>7, RetentionDone, Zenon DEF UnpinTask
  <2> QED BY <1>0, <1>7, <2>1, RetentionDone, VersionMoves, Zenon
<1>8. CASE Vault!unpinIfPinata(h)
  <2>1. tasks'[h].pc # "save"
    BY <1>0, <1>8, UnpinDone, Zenon DEF DeleteTask
  <2> QED BY <1>0, <1>8, <2>1, UnpinDone, VersionMoves, Zenon
<1>9. CASE Vault!deleteEvidence(h)
  BY <1>0, <1>9, DeleteDone, Zenon DEF VersionInv
<1>10. CASE Vault!Audit(h)
  <2>1. tasks'[h].pc # "save"
    BY <1>0, <1>10, AuditDone, IdleTask, Zenon DEF UnpinTask
  <2> QED BY <1>0, <1>10, <2>1, AuditDone, VersionMoves, Zenon
<1> QED BY <1>1, <1>2, <1>3, <1>4, <1>5, <1>6, <1>7, <1>8, <1>9, <1>10, Zenon

-----------------------------------------------------------------------------
(* Bytes: what a row names is pinned, or a retention run has taken it.     *)

Holds(e, cid) ==
    /\ Vault!Encrypted => cid = e
    /\ Provider = "pinata" =>
         cid \in pins \/ \E u \in history.unpinned : u.cid = cid /\ (u.e = e \/ ~Vault!Encrypted)

Carried(t) ==
    /\ t.pc = "count" => Holds(t.e, Vault!Cid(t.e, t.content))
    /\ t.pc = "save" => Holds(t.e, t.row.cid)
    /\ t.pc \in {"unpin", "audit", "delete"} =>
         \A ev \in t.list : Vault!Encrypted => ev.row.cid = ev.e

PinInv ==
    /\ \A e \in Vault!Stored : Holds(e, rows[e].cid)
    /\ \A h \in Handler : Carried(tasks[h])

\* Pinning more loses nothing; neither does unpinning what is then recorded.
LEMMA HoldsOn ==
    ASSUME \/ pins \subseteq pins' /\ history'.unpinned = history.unpinned
           \/ \E ev : /\ Vault!Encrypted => ev.row.cid = ev.e
                      /\ pins \ {ev.row.cid} \subseteq pins'
                      /\ history'.unpinned = history.unpinned \cup {[e |-> ev.e, cid |-> ev.row.cid]},
           NEW e, NEW cid, Holds(e, cid)
    PROVE  Holds(e, cid)'
<1>1. CASE pins \subseteq pins' /\ history'.unpinned = history.unpinned
  BY <1>1, Zenon DEF Holds, Vault!Encrypted
<1>2. ASSUME NEW ev, Vault!Encrypted => ev.row.cid = ev.e, pins \ {ev.row.cid} \subseteq pins',
             history'.unpinned = history.unpinned \cup {[e |-> ev.e, cid |-> ev.row.cid]}
      PROVE  Holds(e, cid)'
  <2>1. CASE cid # ev.row.cid
    BY <1>2, <2>1, Zenon DEF Holds, Vault!Encrypted
  <2>2. CASE cid = ev.row.cid
    <3>1. PICK u : u = [e |-> ev.e, cid |-> ev.row.cid]
      BY Zenon
    <3>2. u \in history'.unpinned /\ u.e = ev.e /\ u.cid = cid
      BY <1>2, <2>2, <3>1, Zenon
    <3>3. u.e = e \/ ~Vault!Encrypted
      BY <1>2, <2>2, <3>2, Zenon DEF Holds
    <3> QED BY <3>2, <3>3, Zenon DEF Holds, Vault!Encrypted
  <2> QED BY <2>1, <2>2, Zenon
<1> QED BY <1>1, <1>2, Zenon

\* A step of one request, when what was held still is.
LEMMA PinMoves ==
    ASSUME PinInv, NEW h \in Handler, \A k \in Handler : k # h => tasks'[k] = tasks[k],
           \A e, cid : Holds(e, cid) => Holds(e, cid)',
           \A e \in Vault!Stored' : Holds(e, rows'[e].cid) \/ (e \in Vault!Stored /\ rows'[e] = rows[e]),
           Carried(tasks'[h]) \/ Carried(tasks[h])'
    PROVE  PinInv'
<1>1. \A e \in Vault!Stored' : Holds(e, rows'[e].cid)
  BY Zenon DEF PinInv
<1>2. ASSUME NEW e \in Vault!Stored' PROVE Holds(e, rows[e].cid)'
  <2>1. PICK c : c = rows'[e].cid
    BY Zenon
  <2>2. Holds(e, c)'
    BY <1>1, <2>1, Zenon
  <2> QED BY <2>1, <2>2, Zenon DEF Holds
<1>3. ASSUME NEW k \in Handler PROVE Carried(tasks[k])'
  <2>1. CASE Carried(tasks'[k])
    <3>1. PICK t : t = tasks'[k]
      BY Zenon
    <3>2. PICK c : c = Vault!Cid(t.e, t.content)
      BY Zenon
    <3>3. t.pc = "count" => Holds(t.e, c)'
      BY <2>1, <3>1, <3>2, Zenon DEF Carried
    <3>4. t.pc = "save" => Holds(t.e, t.row.cid)'
      BY <2>1, <3>1, Zenon DEF Carried
    <3>5. tasks'[k].pc = "count" => Holds(tasks[k].e, Vault!Cid(tasks[k].e, tasks[k].content))'
      BY <3>1, <3>2, <3>3, Zenon DEF Holds, Vault!Cid, Vault!Encrypted
    <3>6. tasks'[k].pc = "save" => Holds(tasks[k].e, tasks[k].row.cid)'
      BY <3>1, <3>4, Zenon DEF Holds
    <3>7. tasks'[k].pc \in {"unpin", "audit", "delete"} =>
            \A ev \in tasks'[k].list : Vault!Encrypted => ev.row.cid = ev.e
      BY <2>1, Zenon DEF Carried
    <3> QED BY <3>5, <3>6, <3>7, Zenon DEF Carried, Vault!Encrypted
  <2>2. CASE ~Carried(tasks'[k])
    BY <2>2, Zenon DEF PinInv
  <2> QED BY <2>1, <2>2, Zenon
<1> QED BY <1>2, <1>3, Zenon DEF PinInv

\* Every step of a request keeps the account of the bytes.
LEMMA PinServe ==
    ASSUME Shelf, FreshInv, PinInv, NEW h \in Handler,
           \/ Vault!handlePostEvidence(h) \/ Vault!uploadViaPinata(h) \/ Vault!PinFails(h)
           \/ Vault!CountVersion(h) \/ Vault!saveEvidence(h) \/ Vault!PatchMetadata(h)
           \/ Vault!RetentionRun(h) \/ Vault!unpinIfPinata(h) \/ Vault!deleteEvidence(h)
           \/ Vault!Audit(h)
    PROVE  PinInv'
<1>0. VaultTypes /\ Carried(tasks[h])
  BY Zenon DEF FreshInv, PinInv
<1>a. Carried(Vault!Idle)
  BY IdleTask, Zenon DEF Carried
<1>1. CASE Vault!handlePostEvidence(h)
  <2>1. Carried(tasks'[h])
    BY <1>0, <1>1, PostDone, Zenon DEF Carried
  <2> QED BY <1>0, <1>1, <2>1, PostDone, HoldsOn, PinMoves, Zenon DEF Vault!Stored
<1>2. CASE Vault!uploadViaPinata(h)
  <2>1. /\ UNCHANGED <<rows, history>> /\ pins \subseteq pins'
        /\ \A k \in Handler : k # h => tasks'[k] = tasks[k]
        /\ tasks'[h].pc = "count"
        /\ tasks'[h].e = tasks[h].e /\ tasks'[h].content = tasks[h].content
        /\ Provider = "pinata" => Vault!Cid(tasks[h].e, tasks[h].content) \in pins'
    BY <1>0, <1>2, UploadDone, Zenon
  <2>2. Holds(tasks[h].e, Vault!Cid(tasks[h].e, tasks[h].content))'
    BY <2>1, Zenon DEF Holds, Vault!Cid, Vault!Encrypted
  <2>3. Carried(tasks[h])'
    BY <2>1, <2>2, Zenon DEF Carried
  <2> QED BY <2>1, <2>3, HoldsOn, PinMoves, Zenon DEF Vault!Stored
<1>3. CASE Vault!PinFails(h)
  <2>1. Carried(tasks'[h])
    BY <1>0, <1>a, <1>3, PinFailsDone, Zenon DEF Carried
  <2> QED BY <1>0, <1>3, <2>1, PinFailsDone, HoldsOn, PinMoves, Zenon DEF Vault!Stored
<1>4. CASE Vault!CountVersion(h)
  <2>0. tasks[h].pc = "count"
    BY <1>4, Zenon DEF Vault!CountVersion
  <2>1. tasks[h] \in UploadTask
    BY <1>0, <2>0, Zenon DEF VaultTypes, TaskOfType
  <2>2. rows[tasks[h].e] = Vault!NoRow
    BY <2>0, <2>1, Zenon DEF FreshInv, Settled, Uploads, Vault!Stored, UploadTask
  <2>3. /\ UNCHANGED <<rows, pins>> /\ history'.unpinned = history.unpinned
        /\ \A k \in Handler : k # h => tasks'[k] = tasks[k]
        /\ tasks'[h] \in SaveTask /\ tasks'[h].e = tasks[h].e
        /\ tasks'[h].row.cid = Vault!Cid(tasks[h].e, tasks[h].content)
    BY <1>0, <1>4, <2>2, CountDone, Zenon
  <2>4. Carried(tasks'[h])
    BY <1>0, <2>0, <2>3, Zenon DEF Carried, SaveTask
  <2> QED BY <2>3, <2>4, HoldsOn, PinMoves, Zenon DEF Vault!Stored
<1>5. CASE Vault!saveEvidence(h)
  <2>1. /\ UNCHANGED <<pins, history>>
        /\ \A k \in Handler : k # h => tasks'[k] = tasks[k]
        /\ tasks[h] \in SaveTask /\ tasks'[h] \in AuditTask /\ tasks'[h].list = {}
        /\ rows'[tasks[h].e] = tasks[h].row
        /\ \A e \in Evidence : e # tasks[h].e => rows'[e] = rows[e]
    BY <1>0, <1>5, SaveRowDone, Zenon
  <2>2. Carried(tasks'[h])
    BY <2>1, Zenon DEF Carried, AuditTask
  <2>3. Holds(tasks[h].e, rows'[tasks[h].e].cid)
    BY <1>0, <2>1, Zenon DEF Carried, SaveTask
  <2>4. \A e \in Vault!Stored' : Holds(e, rows'[e].cid) \/ (e \in Vault!Stored /\ rows'[e] = rows[e])
    BY <2>1, <2>3, Zenon DEF Vault!Stored
  <2> QED BY <2>1, <2>2, <2>4, HoldsOn, PinMoves, Zenon
<1>6. CASE Vault!PatchMetadata(h)
  <2>1. /\ UNCHANGED <<rows, pins, history>>
        /\ \A k \in Handler : k # h => tasks'[k] = tasks[k]
        /\ tasks'[h] \in SaveTask /\ tasks'[h].e \in Vault!Stored
        /\ tasks'[h].row.cid = rows[tasks'[h].e].cid
    BY <1>0, <1>6, PatchRowDone, Zenon
  <2>2. Carried(tasks'[h])
    BY <2>1, Zenon DEF PinInv, Carried, SaveTask
  <2> QED BY <2>1, <2>2, HoldsOn, PinMoves, Zenon DEF Vault!Stored
<1>7. CASE Vault!RetentionRun(h)
  <2>1. /\ UNCHANGED <<rows, pins, history>>
        /\ \A k \in Handler : k # h => tasks'[k] = tasks[k]
        /\ tasks'[h] \in UnpinTask
        /\ \A ev \in tasks'[h].list : ev.e \in Vault!Stored /\ ev.row = rows[ev.e]
    BY <1>0, <1>7, RetentionDone, Zenon
  <2>2. \A ev \in tasks'[h].list : Vault!Encrypted => ev.row.cid = ev.e
    BY <2>1, Zenon DEF PinInv, Holds
  <2>3. Carried(tasks'[h])
    BY <2>1, <2>2, Zenon DEF Carried, UnpinTask
  <2> QED BY <2>1, <2>3, HoldsOn, PinMoves, Zenon DEF Vault!Stored
<1>8. CASE Vault!unpinIfPinata(h)
  <2>1. /\ UNCHANGED rows
        /\ \A k \in Handler : k # h => tasks'[k] = tasks[k]
        /\ tasks[h] \in UnpinTask /\ tasks'[h] \in DeleteTask
    BY <1>0, <1>8, UnpinDone, Zenon
  <2>2. PICK ev \in tasks[h].list :
          /\ tasks'[h].list \subseteq tasks[h].list
          /\ pins \ {ev.row.cid} \subseteq pins'
          /\ history'.unpinned = history.unpinned \cup {[e |-> ev.e, cid |-> ev.row.cid]}
    BY <1>0, <1>8, UnpinDone, Zenon
  <2>3. \A v \in tasks[h].list : Vault!Encrypted => v.row.cid = v.e
    BY <1>0, <2>1, Zenon DEF Carried, UnpinTask
  <2>4. Carried(tasks'[h])
    BY <2>1, <2>2, <2>3, Zenon DEF Carried, DeleteTask
  <2>5. \A e, cid : Holds(e, cid) => Holds(e, cid)'
    BY <2>2, <2>3, HoldsOn, Zenon
  <2> QED BY <2>1, <2>4, <2>5, PinMoves, Zenon DEF Vault!Stored
<1>9. CASE Vault!deleteEvidence(h)
  <2>1. /\ UNCHANGED pins /\ history'.unpinned = history.unpinned
        /\ \A k \in Handler : k # h => tasks'[k] = tasks[k]
        /\ tasks[h] \in DeleteTask /\ tasks'[h] \in AuditTask /\ tasks'[h].list = tasks[h].list
        /\ rows'[tasks[h].e] = Vault!NoRow
        /\ \A e \in Evidence : e # tasks[h].e => rows'[e] = rows[e]
    BY <1>0, <1>9, DeleteDone, Zenon
  <2>2. Carried(tasks'[h])
    BY <1>0, <2>1, Zenon DEF Carried, DeleteTask, AuditTask
  <2>3. \A e \in Vault!Stored' : e \in Vault!Stored /\ rows'[e] = rows[e]
    BY <2>1, Zenon DEF Vault!Stored
  <2> QED BY <2>1, <2>2, <2>3, HoldsOn, PinMoves, Zenon
<1>10. CASE Vault!Audit(h)
  <2>1. /\ UNCHANGED <<rows, pins, history>>
        /\ \A k \in Handler : k # h => tasks'[k] = tasks[k]
        /\ tasks[h] \in AuditTask
        /\ tasks'[h] = Vault!Idle \/ (tasks'[h] \in UnpinTask /\ tasks'[h].list = tasks[h].list)
    BY <1>0, <1>10, AuditDone, Zenon
  <2>2. Carried(tasks'[h])
    BY <1>0, <1>a, <2>1, Zenon DEF Carried, AuditTask, UnpinTask
  <2> QED BY <2>1, <2>2, HoldsOn, PinMoves, Zenon DEF Vault!Stored
<1> QED BY <1>1, <1>2, <1>3, <1>4, <1>5, <1>6, <1>7, <1>8, <1>9, <1>10, Zenon

-----------------------------------------------------------------------------
(* The trail: what was uploaded and is gone has its purge on record.       *)

Writes(t, note, e) == t.pc = "audit" /\ t.note = note /\ t.e = e
OnRecord(note, e) == <<note, e>> \in audits \/ \E h \in Handler : Writes(tasks[h], note, e)

GoneInv ==
    used.faults = 0 =>
        \A e \in Evidence :
            OnRecord("uploaded", e) /\ rows[e] = Vault!NoRow => OnRecord("purged", e)

\* A request that has no entry to write leaves the trail alone.
LEMMA GoneMoves ==
    ASSUME GoneInv, NEW h \in Handler, \A k \in Handler : k # h => tasks'[k] = tasks[k],
           UNCHANGED <<rows, audits>>, used'.faults = 0 => used.faults = 0,
           tasks[h].pc # "audit", tasks'[h].pc # "audit"
    PROVE  GoneInv'
<1>1. ASSUME NEW note, NEW e PROVE OnRecord(note, e)' <=> OnRecord(note, e)
  <2>1. ASSUME NEW k \in Handler PROVE Writes(tasks[k], note, e)' <=> Writes(tasks[k], note, e)
    BY Zenon DEF Writes
  <2> QED BY <2>1, Zenon DEF OnRecord
<1> QED BY <1>1, Zenon DEF GoneInv

\* A row is written: what was just uploaded is there.
LEMMA SaveGone ==
    ASSUME FreshInv, GoneInv, NEW h \in Handler, Vault!saveEvidence(h)
    PROVE  GoneInv'
<1>1. /\ UNCHANGED <<audits, used>>
      /\ \A k \in Handler : k # h => tasks'[k] = tasks[k]
      /\ tasks[h] \in SaveTask /\ tasks'[h].e = tasks[h].e
      /\ rows'[tasks[h].e] = tasks[h].row
      /\ \A e \in Evidence : e # tasks[h].e => rows'[e] = rows[e]
  BY SaveRowDone, Zenon DEF FreshInv
<1>2. tasks[h].pc = "save" /\ tasks[h].row # Vault!NoRow
  BY <1>1, RowIsRow, Zenon DEF SaveTask
<1>3. ASSUME NEW e, NEW note, e # tasks[h].e PROVE OnRecord(note, e)' <=> OnRecord(note, e)
  <2>1. ASSUME NEW k \in Handler PROVE Writes(tasks[k], note, e)' <=> Writes(tasks[k], note, e)
    BY <1>1, <1>2, <1>3, Zenon DEF Writes
  <2> QED BY <1>1, <2>1, Zenon DEF OnRecord
<1> SUFFICES ASSUME used'.faults = 0, NEW e \in Evidence, OnRecord("uploaded", e)',
                    rows'[e] = Vault!NoRow
             PROVE  OnRecord("purged", e)'
  BY Zenon DEF GoneInv
<1>4. e # tasks[h].e /\ rows[e] = Vault!NoRow
  BY <1>1, <1>2, Zenon
<1> QED BY <1>1, <1>3, <1>4, Zenon DEF GoneInv

\* A row is deleted: its purge is to be written.
LEMMA DeleteGone ==
    ASSUME FreshInv, GoneInv, NEW h \in Handler, Vault!deleteEvidence(h)
    PROVE  GoneInv'
<1>1. /\ UNCHANGED <<audits, used>>
      /\ \A k \in Handler : k # h => tasks'[k] = tasks[k]
      /\ tasks[h] \in DeleteTask /\ tasks'[h] \in AuditTask
      /\ tasks'[h].e = tasks[h].e /\ tasks'[h].note = "purged"
      /\ \A e \in Evidence : e # tasks[h].e => rows'[e] = rows[e]
  BY DeleteDone, Zenon DEF FreshInv
<1>2. tasks[h].pc = "delete" /\ tasks'[h].pc = "audit"
  BY <1>1, Zenon DEF DeleteTask, AuditTask
<1>3. ASSUME NEW e, NEW note, e # tasks[h].e PROVE OnRecord(note, e)' <=> OnRecord(note, e)
  <2>1. ASSUME NEW k \in Handler PROVE Writes(tasks[k], note, e)' <=> Writes(tasks[k], note, e)
    BY <1>1, <1>2, <1>3, Zenon DEF Writes
  <2> QED BY <1>1, <2>1, Zenon DEF OnRecord
<1> SUFFICES ASSUME used'.faults = 0, NEW e \in Evidence, OnRecord("uploaded", e)',
                    rows'[e] = Vault!NoRow
             PROVE  OnRecord("purged", e)'
  BY Zenon DEF GoneInv
<1>4. CASE e = tasks[h].e
  BY <1>1, <1>2, <1>4, Zenon DEF OnRecord, Writes
<1>5. CASE e # tasks[h].e
  BY <1>1, <1>3, <1>5, Zenon DEF GoneInv
<1> QED BY <1>4, <1>5, Zenon

\* An entry is written: what was to be on record is.
LEMMA AuditGone ==
    ASSUME FreshInv, GoneInv, NEW h \in Handler, Vault!Audit(h)
    PROVE  GoneInv'
<1>1. /\ UNCHANGED <<rows, used>>
      /\ \A k \in Handler : k # h => tasks'[k] = tasks[k]
      /\ tasks[h] \in AuditTask
      /\ audits' = audits \cup {<<tasks[h].note, tasks[h].e>>}
      /\ tasks'[h] = Vault!Idle \/ tasks'[h] \in UnpinTask
  BY AuditDone, Zenon DEF FreshInv
<1>2. tasks[h].pc = "audit" /\ tasks'[h].pc # "audit"
  BY <1>1, IdleTask, Zenon DEF AuditTask, UnpinTask
<1>3. ASSUME NEW e, NEW note PROVE OnRecord(note, e)' <=> OnRecord(note, e)
  <2>1. <<note, e>> \in audits' <=> <<note, e>> \in audits \/ Writes(tasks[h], note, e)
    BY <1>1, <1>2, Zenon DEF Writes
  <2>2. ~Writes(tasks[h], note, e)'
    BY <1>2, Zenon DEF Writes
  <2>3. \A k \in Handler : k # h => (Writes(tasks[k], note, e)' <=> Writes(tasks[k], note, e))
    BY <1>1, Zenon DEF Writes
  <2> QED BY <2>1, <2>2, <2>3, Zenon DEF OnRecord
<1> QED BY <1>1, <1>3, Zenon DEF GoneInv

\* Every step of a request keeps the trail.
LEMMA GoneServe ==
    ASSUME Shelf, FreshInv, GoneInv, NEW h \in Handler,
           \/ Vault!handlePostEvidence(h) \/ Vault!uploadViaPinata(h) \/ Vault!PinFails(h)
           \/ Vault!CountVersion(h) \/ Vault!saveEvidence(h) \/ Vault!PatchMetadata(h)
           \/ Vault!RetentionRun(h) \/ Vault!unpinIfPinata(h) \/ Vault!deleteEvidence(h)
           \/ Vault!Audit(h)
    PROVE  GoneInv'
<1>0. VaultTypes
  BY Zenon DEF FreshInv
<1>1. CASE Vault!handlePostEvidence(h)
  BY <1>0, <1>1, PostDone, IdleTask, GoneMoves, Zenon
<1>2. CASE Vault!uploadViaPinata(h)
  BY <1>0, <1>2, UploadDone, GoneMoves, Zenon
<1>3. CASE Vault!PinFails(h)
  <2>1. used'.faults > 0
    BY <1>0, <1>3, PinFailsDone, Zenon
  <2>2. used'.faults # 0
    BY <2>1
  <2> QED BY <2>2, Zenon DEF GoneInv
<1>4. CASE Vault!CountVersion(h)
  <2>1. tasks[h].pc = "count"
    BY <1>4, Zenon DEF Vault!CountVersion
  <2>2. tasks[h] \in UploadTask
    BY <1>0, <2>1, Zenon DEF VaultTypes, TaskOfType
  <2>3. rows[tasks[h].e] = Vault!NoRow
    BY <2>1, <2>2, Zenon DEF FreshInv, Settled, Uploads, Vault!Stored, UploadTask
  <2>4. tasks'[h].pc # "audit"
    BY <1>0, <1>4, <2>3, CountDone, Zenon DEF SaveTask
  <2> QED BY <1>0, <1>4, <2>1, <2>3, <2>4, CountDone, GoneMoves, Zenon
<1>5. CASE Vault!saveEvidence(h)
  BY <1>5, SaveGone, Zenon
<1>6. CASE Vault!PatchMetadata(h)
  <2>1. tasks[h].pc # "audit" /\ tasks'[h].pc # "audit"
    BY <1>0, <1>6, PatchRowDone, IdleTask, Zenon DEF SaveTask
  <2> QED BY <1>0, <1>6, <2>1, PatchRowDone, GoneMoves, Zenon
<1>7. CASE Vault!RetentionRun(h)
  <2>1. tasks[h].pc # "audit" /\ tasks'[h].pc # "audit"
    BY <1>0, <1>7, RetentionDone, IdleTask, Zenon DEF UnpinTask
  <2> QED BY <1>0, <1>7, <2>1, RetentionDone, GoneMoves, Zenon
<1>8. CASE Vault!unpinIfPinata(h)
  <2>1. tasks[h].pc # "audit" /\ tasks'[h].pc # "audit"
    BY <1>0, <1>8, UnpinDone, Zenon DEF UnpinTask, DeleteTask
  <2>2. used.faults \in Nat /\ used'.faults >= used.faults
    BY <1>0, <1>8, UnpinDone, Zenon DEF VaultTypes
  <2>3. used'.faults = 0 => used.faults = 0
    BY <2>2
  <2> QED BY <1>0, <1>8, <2>1, <2>3, UnpinDone, GoneMoves, Zenon
<1>9. CASE Vault!deleteEvidence(h)
  BY <1>9, DeleteGone, Zenon
<1>10. CASE Vault!Audit(h)
  BY <1>10, AuditGone, Zenon
<1> QED BY <1>1, <1>2, <1>3, <1>4, <1>5, <1>6, <1>7, <1>8, <1>9, <1>10

-----------------------------------------------------------------------------
(* Holds: what a retention run has listed is free of holds and stays so.   *)

Clear(r, now) == ~Vault!evidenceBlockedFromRetentionPurge(r, now)

Listing(t, now) ==
    /\ t.pc = "delete" => Clear(t.row, now)
    /\ t.pc \in {"unpin", "audit", "delete"} => \A ev \in t.list : Clear(ev.row, now)

HeldInv == \A h \in Handler : Listing(tasks[h], clock)

\* Time puts no row under a hold.
LEMMA ClearStays ==
    ASSUME NEW r \in VaultRow, NEW n \in Nat, Clear(r, n)
    PROVE  Clear(r, n + 1)
<1>1. r.hold \in Nat
  BY Zenon DEF VaultRow
<1> QED BY <1>1 DEF Clear, Vault!evidenceBlockedFromRetentionPurge, Vault!None

\* The others keep their lists.
LEMMA HeldMoves ==
    ASSUME HeldInv, UNCHANGED clock, NEW h \in Handler,
           \A k \in Handler : k # h => tasks'[k] = tasks[k], Listing(tasks'[h], clock)
    PROVE  HeldInv'
<1>1. ASSUME NEW k \in Handler PROVE Listing(tasks[k], clock)'
  <2>1. Listing(tasks'[k], clock)
    BY Zenon DEF HeldInv
  <2> QED BY <2>1, Zenon DEF Listing, Clear, Vault!evidenceBlockedFromRetentionPurge, Vault!None
<1> QED BY <1>1, Zenon DEF HeldInv

\* A step that leaves the rows, or replaces one, deletes none.
LEMMA NonePurged ==
    ASSUME \A e \in Evidence : rows'[e] = rows[e] \/ rows'[e] # Vault!NoRow
    PROVE  Vault!HeldIsPurgedUnseen
BY Zenon DEF Vault!HeldIsPurgedUnseen

\* Every step of a request keeps to what is free of holds.
LEMMA HeldServe ==
    ASSUME Shelf, FreshInv, HeldInv, NEW h \in Handler,
           \/ Vault!handlePostEvidence(h) \/ Vault!uploadViaPinata(h) \/ Vault!PinFails(h)
           \/ Vault!CountVersion(h) \/ Vault!saveEvidence(h) \/ Vault!PatchMetadata(h)
           \/ Vault!RetentionRun(h) \/ Vault!unpinIfPinata(h) \/ Vault!deleteEvidence(h)
           \/ Vault!Audit(h)
    PROVE  HeldInv' /\ Vault!HeldIsPurgedUnseen
<1>0. VaultTypes /\ Listing(tasks[h], clock)
  BY Zenon DEF FreshInv, HeldInv
<1>a. Listing(Vault!Idle, clock)
  BY IdleTask, Zenon DEF Listing
<1>1. CASE Vault!handlePostEvidence(h)
  <2>1. Listing(tasks'[h], clock)
    BY <1>0, <1>1, PostDone, Zenon DEF Listing
  <2> QED BY <1>0, <1>1, <2>1, PostDone, HeldMoves, NonePurged, Zenon
<1>2. CASE Vault!uploadViaPinata(h)
  <2>1. Listing(tasks'[h], clock)
    BY <1>0, <1>2, UploadDone, Zenon DEF Listing
  <2> QED BY <1>0, <1>2, <2>1, UploadDone, HeldMoves, NonePurged, Zenon
<1>3. CASE Vault!PinFails(h)
  <2>1. Listing(tasks'[h], clock)
    BY <1>0, <1>a, <1>3, PinFailsDone, Zenon DEF Listing
  <2> QED BY <1>0, <1>3, <2>1, PinFailsDone, HeldMoves, NonePurged, Zenon
<1>4. CASE Vault!CountVersion(h)
  <2>1. tasks[h].pc = "count"
    BY <1>4, Zenon DEF Vault!CountVersion
  <2>2. tasks[h] \in UploadTask
    BY <1>0, <2>1, Zenon DEF VaultTypes, TaskOfType
  <2>3. rows[tasks[h].e] = Vault!NoRow
    BY <2>1, <2>2, Zenon DEF FreshInv, Settled, Uploads, Vault!Stored, UploadTask
  <2>4. tasks'[h].pc = "save"
    BY <1>0, <1>4, <2>3, CountDone, Zenon DEF SaveTask
  <2>5. Listing(tasks'[h], clock)
    BY <2>4, Zenon DEF Listing
  <2> QED BY <1>0, <1>4, <2>3, <2>5, CountDone, HeldMoves, NonePurged, Zenon
<1>5. CASE Vault!saveEvidence(h)
  <2>1. /\ UNCHANGED clock
        /\ \A k \in Handler : k # h => tasks'[k] = tasks[k]
        /\ tasks[h] \in SaveTask /\ tasks'[h] \in AuditTask /\ tasks'[h].list = {}
        /\ rows'[tasks[h].e] = tasks[h].row
        /\ \A e \in Evidence : e # tasks[h].e => rows'[e] = rows[e]
    BY <1>0, <1>5, SaveRowDone, Zenon
  <2>2. Listing(tasks'[h], clock)
    BY <2>1, Zenon DEF Listing, AuditTask
  <2>3. tasks[h].row # Vault!NoRow
    BY <2>1, RowIsRow, Zenon DEF SaveTask
  <2> QED BY <2>1, <2>2, <2>3, HeldMoves, NonePurged, Zenon
<1>6. CASE Vault!PatchMetadata(h)
  <2>1. tasks'[h].pc = "save"
    BY <1>0, <1>6, PatchRowDone, Zenon DEF SaveTask
  <2>2. Listing(tasks'[h], clock)
    BY <2>1, Zenon DEF Listing
  <2> QED BY <1>0, <1>6, <2>2, PatchRowDone, HeldMoves, NonePurged, Zenon
<1>7. CASE Vault!RetentionRun(h)
  <2>1. /\ UNCHANGED <<rows, clock>>
        /\ \A k \in Handler : k # h => tasks'[k] = tasks[k]
        /\ tasks'[h] \in UnpinTask
        /\ \A ev \in tasks'[h].list : ev.row = rows[ev.e] /\ Clear(rows[ev.e], clock)
    BY <1>0, <1>7, RetentionDone, Zenon DEF Clear
  <2>2. Listing(tasks'[h], clock)
    BY <2>1, Zenon DEF Listing, UnpinTask
  <2> QED BY <2>1, <2>2, HeldMoves, NonePurged, Zenon
<1>8. CASE Vault!unpinIfPinata(h)
  <2>1. /\ UNCHANGED <<rows, clock>>
        /\ \A k \in Handler : k # h => tasks'[k] = tasks[k]
        /\ tasks[h] \in UnpinTask /\ tasks'[h] \in DeleteTask
        /\ \E ev \in tasks[h].list : tasks'[h].row = ev.row /\ tasks'[h].list \subseteq tasks[h].list
    BY <1>0, <1>8, UnpinDone, Zenon
  <2>2. \A ev \in tasks[h].list : Clear(ev.row, clock)
    BY <1>0, <2>1, Zenon DEF Listing, UnpinTask
  <2>3. Listing(tasks'[h], clock)
    BY <2>1, <2>2, Zenon DEF Listing
  <2> QED BY <2>1, <2>3, HeldMoves, NonePurged, Zenon
<1>9. CASE Vault!deleteEvidence(h)
  <2>1. /\ UNCHANGED clock
        /\ \A k \in Handler : k # h => tasks'[k] = tasks[k]
        /\ tasks[h] \in DeleteTask /\ tasks'[h] \in AuditTask /\ tasks'[h].list = tasks[h].list
        /\ \A e \in Evidence : e # tasks[h].e => rows'[e] = rows[e]
    BY <1>0, <1>9, DeleteDone, Zenon
  <2>2. tasks[h].pc = "delete" /\ tasks'[h].pc = "audit"
    BY <2>1, Zenon DEF DeleteTask, AuditTask
  <2>3. Listing(tasks'[h], clock)
    BY <1>0, <2>1, <2>2, Zenon DEF Listing
  <2>4. Vault!HeldIsPurgedUnseen
    <3> SUFFICES ASSUME NEW e \in Evidence, rows[e] # Vault!NoRow, rows'[e] = Vault!NoRow,
                        Vault!evidenceBlockedFromRetentionPurge(rows[e], clock)
                 PROVE  tasks[h].pc = "delete" /\ tasks[h].e = e /\ tasks[h].row # rows[e]
      BY Zenon DEF Vault!HeldIsPurgedUnseen
    <3>1. tasks[h].e = e
      BY <2>1, Zenon
    <3>2. Clear(tasks[h].row, clock)
      BY <1>0, <2>2, Zenon DEF Listing
    <3> QED BY <2>2, <3>1, <3>2, Zenon DEF Clear
  <2> QED BY <2>1, <2>3, <2>4, HeldMoves, Zenon
<1>10. CASE Vault!Audit(h)
  <2>1. /\ UNCHANGED <<rows, clock>>
        /\ \A k \in Handler : k # h => tasks'[k] = tasks[k]
        /\ tasks[h] \in AuditTask
        /\ tasks'[h] = Vault!Idle \/ (tasks'[h] \in UnpinTask /\ tasks'[h].list = tasks[h].list)
    BY <1>0, <1>10, AuditDone, Zenon
  <2>2. Listing(tasks'[h], clock)
    BY <1>0, <1>a, <2>1, Zenon DEF Listing, AuditTask, UnpinTask
  <2> QED BY <2>1, <2>2, HeldMoves, NonePurged, Zenon
<1> QED BY <1>1, <1>2, <1>3, <1>4, <1>5, <1>6, <1>7, <1>8, <1>9, <1>10, Zenon

-----------------------------------------------------------------------------
(* The account as a whole.                                                 *)

VaultInv == FreshInv /\ VersionInv /\ PinInv /\ GoneInv /\ HeldInv

\* A step that is no request's, when rows, requests and history stay.
LEMMA QuietVault ==
    ASSUME VaultInv, VaultTypes', UNCHANGED <<rows, pins, tasks, history, used>>
    PROVE  FreshInv' /\ VersionInv' /\ PinInv' /\ Vault!HeldIsPurgedUnseen
<1>1. FreshInv'
  BY Zenon DEF VaultInv, FreshInv, Uploads, Updates, Settled, Vault!Stored
<1>2. VersionInv'
  <2>1. ASSUME NEW g PROVE Series(g)' = Series(g)
    BY Zenon DEF Series, Vault!Stored
  <2>2. ASSUME NEW g PROVE Numbered(g) => Numbered(g)'
    BY <2>1, Zenon DEF Numbered, Brings
  <2>3. ASSUME NEW h \in Handler PROVE Copied(h) => Copied(h)'
    BY Zenon DEF Copied, Updates, Vault!Stored
  <2> QED BY <2>2, <2>3, Zenon DEF VaultInv, VersionInv
<1>3. ASSUME NEW e, NEW cid PROVE Holds(e, cid)' <=> Holds(e, cid)
  BY Zenon DEF Holds, Vault!Encrypted
<1>4. PinInv'
  <2>1. ASSUME NEW e \in Vault!Stored' PROVE Holds(e, rows[e].cid)'
    BY Zenon DEF VaultInv, PinInv, Holds, Vault!Stored, Vault!Encrypted
  <2>2. ASSUME NEW h \in Handler PROVE Carried(tasks[h])'
    BY Zenon DEF VaultInv, PinInv, Carried, Holds, Vault!Cid, Vault!Encrypted
  <2> QED BY <2>1, <2>2, Zenon DEF PinInv
<1> QED BY <1>1, <1>2, <1>4, NonePurged, Zenon

\* A download adds an entry of its own kind.
LEMMA DownloadVault ==
    ASSUME Shelf, VaultInv, NEW e \in Evidence, Vault!DownloadContent(e)
    PROVE  VaultInv' /\ Vault!HeldIsPurgedUnseen
<1>1. /\ VaultTypes' /\ UNCHANGED <<rows, pins, tasks, clock, history, used>>
      /\ audits' = audits \cup {<<"downloaded", e>>}
  BY RestDone, Zenon DEF VaultInv, FreshInv
<1>2. ASSUME NEW note \in {"uploaded", "purged"}, NEW f PROVE OnRecord(note, f)' <=> OnRecord(note, f)
  <2>1. <<note, f>> \in audits' <=> <<note, f>> \in audits
    BY <1>1, Zenon
  <2> QED BY <1>1, <2>1, Zenon DEF OnRecord, Writes
<1>3. GoneInv'
  BY <1>1, <1>2, Zenon DEF VaultInv, GoneInv
<1>4. HeldInv'
  BY <1>1, Zenon DEF VaultInv, HeldInv, Listing, Clear, Vault!evidenceBlockedFromRetentionPurge, Vault!None
<1> QED BY <1>1, <1>3, <1>4, QuietVault, Zenon DEF VaultInv

\* Time passes.
LEMMA PassVault ==
    ASSUME Shelf, VaultInv, Vault!Pass
    PROVE  VaultInv' /\ Vault!HeldIsPurgedUnseen
<1>1. /\ VaultTypes' /\ UNCHANGED <<rows, pins, tasks, audits, history, used>>
      /\ clock \in Nat /\ clock' = clock + 1
  BY RestDone, Zenon DEF VaultInv, FreshInv
<1>2. GoneInv'
  BY <1>1, Zenon DEF VaultInv, GoneInv, OnRecord, Writes
<1>3. ASSUME NEW h \in Handler PROVE Listing(tasks[h], clock)'
  <2>1. TaskOfType(tasks[h]) /\ Listing(tasks[h], clock)
    BY Zenon DEF VaultInv, FreshInv, VaultTypes, HeldInv
  <2>2. tasks[h].pc = "delete" => tasks[h].row \in VaultRow
    BY <2>1, Zenon DEF TaskOfType, DeleteTask
  <2>3. tasks[h].pc \in {"unpin", "audit", "delete"} => tasks[h].list \subseteq Listed
    BY <2>1, Zenon DEF TaskOfType, UnpinTask, AuditTask, DeleteTask
  <2>4. \A ev \in Listed : ev.row \in VaultRow
    BY Zenon DEF Listed
  <2>5. PICK n \in Nat : n = clock
    BY <1>1, Zenon
  <2>6. \A r \in VaultRow : Clear(r, clock) => Clear(r, clock')
    BY <1>1, <2>5, ClearStays, Zenon
  <2>7. Listing(tasks[h], clock')
    BY <2>1, <2>2, <2>3, <2>4, <2>6, Zenon DEF Listing
  <2> QED BY <1>1, <2>7, Zenon DEF Listing, Clear, Vault!evidenceBlockedFromRetentionPurge, Vault!None
<1>4. HeldInv'
  BY <1>3, Zenon DEF HeldInv
<1> QED BY <1>1, <1>2, <1>4, QuietVault, Zenon DEF VaultInv

\* A restart forgets the requests.
LEMMA RestartVault ==
    ASSUME Shelf, VaultInv, Vault!Restart
    PROVE  VaultInv' /\ Vault!HeldIsPurgedUnseen
<1>1. /\ VaultTypes' /\ UNCHANGED <<rows, pins, clock, audits, history>>
      /\ used'.faults > 0 /\ \A h \in Handler : tasks'[h] = Vault!Idle
  BY RestDone, Zenon DEF VaultInv, FreshInv
<1>2. \A h \in Handler : tasks'[h].pc = "idle"
  BY <1>1, IdleTask, Zenon
<1>3. \A h \in Handler : ~Uploads(tasks[h])' /\ ~Updates(tasks[h])'
  BY <1>2, Zenon DEF Uploads, Updates
<1>4. FreshInv'
  <2>1. \A e \in Vault!Stored' : Settled(e)'
    BY <1>1, <1>3, Zenon DEF VaultInv, FreshInv, Settled, Vault!Stored
  <2> QED BY <1>1, <1>3, <2>1, Zenon DEF FreshInv
<1>5. VersionInv'
  <2>1. ASSUME history'.purged = {}, NEW g \in Category \ history'.overlapped PROVE Numbered(g)'
    <3>1. Numbered(g) /\ Series(g)' = Series(g)
      BY <1>1, <2>1, Zenon DEF VaultInv, VersionInv, Series, Vault!Stored
    <3>2. \A h \in Handler : ~Brings(tasks[h], g)'
      BY <1>2, Zenon DEF Brings
    <3> QED BY <1>1, <3>1, <3>2, Zenon DEF Numbered
  <2>2. \A h \in Handler : Copied(h)'
    BY <1>3, Zenon DEF Copied
  <2> QED BY <2>1, <2>2, Zenon DEF VersionInv
<1>6. PinInv'
  <2>1. \A e \in Vault!Stored' : Holds(e, rows[e].cid)'
    BY <1>1, Zenon DEF VaultInv, PinInv, Holds, Vault!Stored, Vault!Encrypted
  <2> QED BY <1>2, <2>1, Zenon DEF PinInv, Carried
<1>7. GoneInv'
  BY <1>1 DEF GoneInv
<1>8. HeldInv'
  BY <1>2, Zenon DEF HeldInv, Listing
<1> QED BY <1>1, <1>4, <1>5, <1>6, <1>7, <1>8, NonePurged, Zenon DEF VaultInv

\* Every step keeps the account, and purges what is held only unseen.
LEMMA VaultStep ==
    ASSUME Shelf, VaultInv, [Vault!Next]_Vault!vars
    PROVE  VaultInv' /\ Vault!HeldIsPurgedUnseen
<1>1. CASE UNCHANGED Vault!vars
  <2>1. UNCHANGED <<rows, pins, tasks, clock, audits, history, used>>
    BY <1>1, Zenon DEF Vault!vars
  <2>2. VaultTypes' /\ GoneInv'
    BY <2>1 DEF VaultInv, FreshInv, VaultTypes, GoneInv, OnRecord, Writes
  <2>3. HeldInv'
    BY <2>1, Zenon DEF VaultInv, HeldInv, Listing, Clear, Vault!evidenceBlockedFromRetentionPurge, Vault!None
  <2> QED BY <2>1, <2>2, <2>3, QuietVault, Zenon DEF VaultInv
<1>2. ASSUME NEW h \in Handler,
             \/ Vault!handlePostEvidence(h) \/ Vault!uploadViaPinata(h) \/ Vault!PinFails(h)
             \/ Vault!CountVersion(h) \/ Vault!saveEvidence(h) \/ Vault!PatchMetadata(h)
             \/ Vault!RetentionRun(h) \/ Vault!unpinIfPinata(h) \/ Vault!deleteEvidence(h)
             \/ Vault!Audit(h)
      PROVE  VaultInv' /\ Vault!HeldIsPurgedUnseen
  <2>1. FreshInv'
    BY <1>2, FreshServe, Zenon DEF VaultInv
  <2>2. VersionInv'
    BY <1>2, VersionServe, Zenon DEF VaultInv
  <2>3. PinInv'
    BY <1>2, PinServe, Zenon DEF VaultInv
  <2>4. GoneInv'
    BY <1>2, GoneServe, Zenon DEF VaultInv
  <2>5. HeldInv' /\ Vault!HeldIsPurgedUnseen
    BY <1>2, HeldServe, Zenon DEF VaultInv
  <2> QED BY <2>1, <2>2, <2>3, <2>4, <2>5, Zenon DEF VaultInv
<1>3. CASE Vault!Next
  BY <1>2, <1>3, DownloadVault, RestartVault, PassVault, Zenon DEF Vault!Next
<1> QED BY <1>1, <1>3, Zenon

\* The first state.
LEMMA VaultInit == Shelf /\ Vault!Init => VaultInv
<1> SUFFICES ASSUME Shelf, Vault!Init PROVE VaultInv
  BY Zenon
<1>1. /\ \A e \in Evidence : rows[e] = Vault!NoRow
      /\ \A h \in Handler : tasks[h] = Vault!Idle /\ tasks[h].pc = "idle"
      /\ audits = {} /\ Vault!Stored = {}
  BY IdleTask, Zenon DEF Vault!Init, Vault!Stored
<1>2. VaultTypes
  <2>1. /\ rows \in [Evidence -> VaultRow \cup {Vault!NoRow}] /\ pins \subseteq Content \cup Evidence
        /\ clock \in 1 .. MaxClock /\ history \in VaultHistory
        /\ used \in [faults : Nat, patches : Nat, runs : Nat]
    BY DEF Vault!Init, VaultHistory, Shelf
  <2>2. /\ DOMAIN tasks = Handler /\ \A h \in Handler : TaskOfType(tasks[h])
        /\ tasks = [h \in Handler |-> tasks[h]]
    BY <1>1, IdleTask, Zenon DEF Vault!Init
  <2> QED BY <2>1, <2>2, Zenon DEF VaultTypes
<1>3. FreshInv
  BY <1>1, <1>2, Zenon DEF FreshInv, Uploads, Updates
<1>4. VersionInv
  <2>1. \A g : Series(g) = {}
    BY <1>1, Zenon DEF Series
  <2> QED BY <1>1, <2>1, Zenon DEF VersionInv, Numbered, Copied, Brings, Updates
<1>5. PinInv /\ GoneInv /\ HeldInv
  BY <1>1, Zenon DEF PinInv, Carried, GoneInv, OnRecord, Writes, HeldInv, Listing
<1> QED BY <1>3, <1>4, <1>5, Zenon DEF VaultInv

\* The invariant gives the account.
LEMMA VaultAccount == VaultInv => Vault!VaultIsAccounted
<1> SUFFICES ASSUME VaultInv PROVE Vault!VaultIsAccounted
  BY Zenon
<1>0. VaultTypes /\ \A e \in Vault!Stored : rows[e] \in VaultRow
  BY Zenon DEF VaultInv, FreshInv, VaultTypes, Vault!Stored
<1>1. Vault!TypeOK
  <2>1. \A h \in Handler : tasks[h].pc \in {"idle", "pin", "count", "save", "audit", "unpin", "delete"}
    BY <1>0, IdleTask, Zenon DEF VaultTypes, TaskOfType
  <2> QED BY <1>0, <2>1, Zenon DEF VaultTypes, VaultRow, Vault!TypeOK
<1>2. Vault!UnpinnedHasCause
  BY Zenon DEF VaultInv, PinInv, Holds, Vault!UnpinnedHasCause
<1>3. Vault!RepeatedVersionHasCause
  <2> SUFFICES ASSUME NEW e \in Vault!Stored, NEW f \in Vault!Stored, e # f,
                      rows[e].category = rows[f].category, rows[e].version = rows[f].version,
                      rows[e].category \notin history.overlapped, history.purged = {}
               PROVE  FALSE
    BY Zenon DEF Vault!RepeatedVersionHasCause
  <2>1. PICK g \in Category : g = rows[e].category
    BY <1>0, Zenon DEF VaultRow
  <2>2. Numbered(g) /\ e \in Series(g) /\ f \in Series(g)
    BY <2>1, Zenon DEF VaultInv, VersionInv, Series
  <2> QED BY <2>2, Zenon DEF Numbered
<1>4. Vault!GoneIsAudited
  <2> SUFFICES ASSUME NEW e \in Evidence, <<"uploaded", e>> \in audits, rows[e] = Vault!NoRow,
                      ~(used.faults > 0)
               PROVE  \/ <<"purged", e>> \in audits
                      \/ \E h \in Handler : tasks[h].pc = "audit" /\ tasks[h].e = e
    BY Zenon DEF Vault!GoneIsAudited
  <2>1. used.faults = 0
    BY <1>0 DEF VaultTypes
  <2>2. OnRecord("purged", e)
    BY <2>1, Zenon DEF VaultInv, GoneInv, OnRecord
  <2> QED BY <2>2, Zenon DEF OnRecord, Writes
<1> QED BY <1>1, <1>2, <1>3, <1>4, Zenon DEF Vault!VaultIsAccounted

INSTANCE FiniteSetTheorems

\* Finitely many ids are counted.
LEMMA ShelvesAreCounted == VaultConstants => Shelf
<1> SUFFICES ASSUME VaultConstants PROVE Shelf
  BY Zenon
<1>1. ASSUME NEW S \in SUBSET Evidence
      PROVE  /\ Cardinality(S) \in Nat
             /\ \A e \in Evidence : e \notin S => Cardinality(S \cup {e}) = Cardinality(S) + 1
             /\ \A T \in SUBSET S : Cardinality(T) <= Cardinality(S)
  <2>1. IsFiniteSet(S)
    BY FS_Subset, Zenon DEF VaultConstants
  <2> QED BY <2>1, FS_Subset, FS_CardinalityType, FS_AddElement, Zenon
<1> QED BY <1>1, FS_EmptySet, Zenon DEF VaultConstants, Shelf

(***************************************************************************)
(* However uploads, patches, downloads and retention runs interleave,      *)
(* calls fail and processes restart: bytes that are missing were unpinned  *)
(* by a retention run (of the row itself, when files are encrypted), a     *)
(* version repeats only after a purge or when uploads of the series        *)
(* overlapped, and a row that is gone has its purge on record unless a     *)
(* call failed or a process stopped (handlePostEvidence, saveEvidence,     *)
(* POST /v1/evidences/retention-run).                                      *)
(***************************************************************************)
THEOREM VaultsAreAccounted ==
    ASSUME VaultConstants
    PROVE  Vault!Spec => []Vault!VaultIsAccounted
<1>1. Vault!Init => VaultInv
  BY ShelvesAreCounted, VaultInit, Zenon
<1>2. VaultInv /\ [Vault!Next]_Vault!vars => VaultInv'
  BY ShelvesAreCounted, VaultStep, Zenon
<1>3. VaultInv => Vault!VaultIsAccounted
  BY VaultAccount, Zenon
<1> QED BY <1>1, <1>2, <1>3, PTL DEF Vault!Spec

(***************************************************************************)
(* A retention run deletes a row under a hold only when the row was        *)
(* changed after the run had listed it, whatever time passes in between    *)
(* (listEvidencesPastRetention, deleteEvidence).                           *)
(***************************************************************************)
THEOREM HeldArePurgedUnseen ==
    ASSUME VaultConstants
    PROVE  Vault!Spec => [][Vault!HeldIsPurgedUnseen]_Vault!vars
<1>1. Vault!Init => VaultInv
  BY ShelvesAreCounted, VaultInit, Zenon
<1>2. VaultInv /\ [Vault!Next]_Vault!vars => VaultInv'
  BY ShelvesAreCounted, VaultStep, Zenon
<1>3. VaultInv /\ [Vault!Next]_Vault!vars => [Vault!HeldIsPurgedUnseen]_Vault!vars
  BY ShelvesAreCounted, VaultStep, Zenon
<1> QED BY <1>1, <1>2, <1>3, PTL DEF Vault!Spec

=============================================================================
