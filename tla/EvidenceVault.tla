---------------------------- MODULE EvidenceVault ----------------------------
(***************************************************************************)
(* The evidence vault of be2-ops: POST /v1/evidences pins a file and then  *)
(* stores a row for it, PATCH .../metadata rewrites the row, and POST      *)
(* .../retention-run unpins and deletes what is past retention and under   *)
(* no hold (index.ts, services/ipfs.service.ts, evidence-*.ts).            *)
(*                                                                         *)
(* Every await is a step boundary.  The rows are shared by all requests    *)
(* and nothing locks one between its read and its write.                   *)
(***************************************************************************)
EXTENDS Naturals, FiniteSets

CONSTANTS
  Evidence,        \* the ids randomId("evd") may hand out
  Content,         \* distinct files
  MimeOf,          \* the MIME type of each file
  Category,        \* categories of one contract and dispute: a version series each
  Handler,         \* requests in progress
  KeySource,       \* "env", "kms_stub", "kms_http" or "none" (evidence-dek.ts)
  Provider,        \* IPFS_MODE: "pinata" or "mock"
  MaxPinAttempts,  \* pinataMaxAttempts
  Days,            \* the retention periods uploads ask for, in clock units
  Patches,         \* the metadata patches operators send
  MaxClock,        \* bound on the clock
  MaxPatches,      \* bound on the metadata patches
  MaxRuns,         \* bound on the retention runs
  MaxFaults        \* bound on failed calls and restarts

VARIABLES
  rows,      \* the evidences table
  pins,      \* the CIDs pinned at the provider
  tasks,     \* what each request is doing
  clock,     \* now
  audits,    \* the audit entries <<action, id>>
  history,   \* ids given and purged, rows unpinned, categories whose uploads overlapped
  used       \* what has been spent of each bound

vars == <<rows, pins, tasks, clock, audits, history, used>>

None == 0
NoRow == [cid |-> "none"]
Idle == [pc |-> "idle"]
Stored == {e \in Evidence : rows[e] # NoRow}
Busy == {h \in Handler : tasks[h] # Idle}

\* The MIME types a category takes.
byCategory ==
  [contract_pdf |-> {"pdf"}, utility_bill |-> {"pdf", "jpeg", "png"},
   photo |-> {"jpeg", "png", "webp"}, receipt |-> {"pdf", "jpeg", "png"},
   other |-> {"pdf", "jpeg", "png", "webp", "plain", "markdown", "octet"}]

assertMimeAllowedForEvidenceCategory(c, category) ==
  MimeOf[c] \in byCategory[category]

Encrypted == KeySource # "none"

\* Mutant: an encrypted upload gets the CID of its plaintext.
MixedCid(e, c) == c

(***************************************************************************)
(* A CID names the bytes: the same plaintext has one CID, while encryption *)
(* under a fresh IV gives every upload its own.                            *)
(***************************************************************************)
Cid(e, c) == IF Encrypted THEN e ELSE c

countEvidenceVersions(category) ==
  Cardinality({e \in Stored : rows[e].category = category})

evidenceBlockedFromRetentionPurge(r, now) ==
  \/ r.class = "legal_hold" /\ (r.hold = None \/ r.hold >= now)
  \/ r.class # "legal_hold" /\ r.hold # None /\ r.hold >= now

listEvidencesPastRetention(now) ==
  {e \in Stored : /\ rows[e].retain # None /\ rows[e].retain < now
                  /\ ~evidenceBlockedFromRetentionPurge(rows[e], now)}

Init ==
  /\ rows = [e \in Evidence |-> NoRow]
  /\ pins = {}
  /\ tasks = [h \in Handler |-> Idle]
  /\ clock = 1
  /\ audits = {}
  /\ history = [given |-> {}, unpinned |-> {}, purged |-> {}, overlapped |-> {}]
  /\ used = [faults |-> 0, patches |-> 0, runs |-> 0]

Goto(h, t) == tasks' = [tasks EXCEPT ![h] = t]
Fault == used.faults < MaxFaults /\ used' = [used EXCEPT !.faults = @ + 1]

(***************************************************************************)
(* POST /v1/evidences.  The refusals before the key is resolved change     *)
(* nothing; a key that cannot be unwrapped refuses the upload as well.     *)
(***************************************************************************)
handlePostEvidence(h) ==
  /\ tasks[h] = Idle
  /\ \E e \in Evidence \ history.given, c \in Content, g \in Category, d \in Days \cup {None} :
       /\ assertMimeAllowedForEvidenceCategory(c, g)
       /\ Goto(h, [pc |-> "pin", e |-> e, content |-> c, category |-> g,
                   days |-> d, attempt |-> 1])
       /\ history' = [history EXCEPT !.given = @ \cup {e}]
  /\ UNCHANGED <<rows, pins, clock, audits, used>>

\* ipfsService.upload answers with a CID.
uploadViaPinata(h) ==
  /\ tasks[h].pc = "pin"
  /\ pins' = IF Provider = "pinata"
             THEN pins \cup {Cid(tasks[h].e, tasks[h].content)} ELSE pins
  /\ Goto(h, [tasks[h] EXCEPT !.pc = "count"])
  /\ UNCHANGED <<rows, clock, audits, history, used>>

\* An attempt fails, before or after the provider pinned; the last one refuses.
PinFails(h) ==
  /\ tasks[h].pc = "pin" /\ Provider = "pinata"
  /\ pins' \in {pins, pins \cup {Cid(tasks[h].e, tasks[h].content)}}
  /\ Goto(h, IF tasks[h].attempt < MaxPinAttempts
             THEN [tasks[h] EXCEPT !.attempt = @ + 1] ELSE Idle)
  /\ Fault
  /\ UNCHANGED <<rows, clock, audits, history>>

\* The version is the number of rows of the series plus one, the
\* retention end is counted from now.
CountVersion(h) ==
  /\ tasks[h].pc = "count"
  /\ LET t == tasks[h] IN
     /\ Goto(h, [pc |-> "save", e |-> t.e, note |-> "uploaded",
                 row |-> [cid |-> Cid(t.e, t.content), category |-> t.category,
                          version |-> countEvidenceVersions(t.category) + 1,
                          retain |-> IF t.days = None THEN None ELSE clock + t.days,
                          class |-> "standard", hold |-> None]])
     /\ history' = [history EXCEPT !.overlapped =
          IF \E k \in Busy \ {h} : tasks[k].pc = "save" /\ tasks[k].note = "uploaded"
                                   /\ tasks[k].row.category = t.category
          THEN @ \cup {t.category} ELSE @]
  /\ UNCHANGED <<rows, pins, clock, audits, used>>

\* saveEvidence inserts or replaces the whole row.
saveEvidence(h) ==
  /\ tasks[h].pc = "save"
  /\ rows' = [rows EXCEPT ![tasks[h].e] = tasks[h].row]
  /\ Goto(h, [pc |-> "audit", e |-> tasks[h].e, note |-> tasks[h].note, list |-> {}])
  /\ UNCHANGED <<pins, clock, audits, history, used>>

\* PATCH .../metadata reads the row and changes the copy.
PatchMetadata(h) ==
  /\ tasks[h] = Idle /\ used.patches < MaxPatches
  /\ \E e \in Stored, p \in Patches :
       Goto(h, [pc |-> "save", e |-> e, note |-> "updated",
                row |-> [rows[e] EXCEPT !.class = p.class, !.hold = p.hold, !.retain = p.retain]])
  /\ used' = [used EXCEPT !.patches = @ + 1]
  /\ UNCHANGED <<rows, pins, clock, audits, history>>

(***************************************************************************)
(* POST .../retention-run lists once and then takes the rows one by one.   *)
(***************************************************************************)
Copies(E) == {[e |-> e, row |-> rows[e]] : e \in E}

RetentionRun(h) ==
  /\ tasks[h] = Idle /\ used.runs < MaxRuns
  /\ LET past == listEvidencesPastRetention(clock) IN
     past # {} /\ Goto(h, [pc |-> "unpin", list |-> Copies(past)])
  /\ used' = [used EXCEPT !.runs = @ + 1]
  /\ UNCHANGED <<rows, pins, clock, audits, history>>

\* A failed unpin is logged and the row is deleted all the same.
unpinIfPinata(h) ==
  /\ tasks[h].pc = "unpin"
  /\ \E ev \in tasks[h].list :
       /\ Goto(h, [pc |-> "delete", e |-> ev.e, row |-> ev.row, list |-> tasks[h].list \ {ev}])
       /\ \/ pins' = pins \ {ev.row.cid} /\ UNCHANGED used
          \/ Fault /\ UNCHANGED pins
       /\ history' = [history EXCEPT !.unpinned = @ \cup {[e |-> ev.e, cid |-> ev.row.cid]}]
  /\ UNCHANGED <<rows, clock, audits>>

deleteEvidence(h) ==
  /\ tasks[h].pc = "delete"
  /\ rows' = [rows EXCEPT ![tasks[h].e] = NoRow]
  /\ history' = [history EXCEPT !.purged = @ \cup {tasks[h].e}]
  /\ Goto(h, [pc |-> "audit", e |-> tasks[h].e, note |-> "purged", list |-> tasks[h].list])
  /\ UNCHANGED <<pins, clock, audits, used>>

\* writeAudit and emitEvent; a retention run goes on with its list.
Audit(h) ==
  /\ tasks[h].pc = "audit"
  /\ audits' = audits \cup {<<tasks[h].note, tasks[h].e>>}
  /\ Goto(h, IF tasks[h].list = {} THEN Idle ELSE [pc |-> "unpin", list |-> tasks[h].list])
  /\ UNCHANGED <<rows, pins, clock, history, used>>

(***************************************************************************)
(* GET .../content.  The body of a mock row is made up on the spot, which  *)
(* no key decrypts; a pinned row is fetched by its CID.                    *)
(***************************************************************************)
ContentAnswer(r) ==
  CASE Provider = "pinata" /\ r.cid \notin pins -> "fetch_failed"
    [] Provider = "mock" /\ Encrypted -> "decrypt_failed"
    [] OTHER -> "sent"

DownloadContent(e) ==
  /\ e \in Stored /\ ContentAnswer(rows[e]) = "sent"
  /\ <<"downloaded", e>> \notin audits
  /\ audits' = audits \cup {<<"downloaded", e>>}
  /\ UNCHANGED <<rows, pins, tasks, clock, history, used>>

\* The process restarts and forgets its requests.
Restart ==
  /\ Busy # {} /\ Fault
  /\ tasks' = [h \in Handler |-> Idle]
  /\ UNCHANGED <<rows, pins, clock, audits, history>>

Pass ==
  /\ clock < MaxClock /\ clock' = clock + 1
  /\ UNCHANGED <<rows, pins, tasks, audits, history, used>>

Next ==
  \/ \E h \in Handler :
       \/ handlePostEvidence(h) \/ uploadViaPinata(h) \/ PinFails(h) \/ CountVersion(h)
       \/ saveEvidence(h) \/ PatchMetadata(h) \/ RetentionRun(h) \/ unpinIfPinata(h)
       \/ deleteEvidence(h) \/ Audit(h)
  \/ \E e \in Evidence : DownloadContent(e)
  \/ Restart \/ Pass

Spec == Init /\ [][Next]_vars

-----------------------------------------------------------------------------
\* Rows and requests have their shape, and versions count from one.
TypeOK ==
  /\ \A e \in Stored :
       /\ rows[e].category \in Category /\ rows[e].version \in 1 .. Cardinality(Evidence)
       /\ rows[e].retain \in Nat /\ rows[e].hold \in Nat
       /\ rows[e].class \in {"standard", "legal_hold"}
  /\ pins \subseteq Content \cup Evidence
  /\ \A h \in Handler :
       tasks[h].pc \in {"idle", "pin", "count", "save", "audit", "unpin", "delete"}
  /\ clock \in 1 .. MaxClock

(***************************************************************************)
(* A row under a hold is deleted only when it was changed after the        *)
(* retention run had listed it: a run never picks a held row, and the time *)
(* that passes while it works puts none of its rows under a hold           *)
(* (index.ts:2532-2540).                                                   *)
(***************************************************************************)
HeldIsPurgedUnseen ==
  \A e \in Evidence :
    rows[e] # NoRow /\ rows'[e] = NoRow /\ evidenceBlockedFromRetentionPurge(rows[e], clock)
    => \E h \in Handler : tasks[h].pc = "delete" /\ tasks[h].e = e /\ tasks[h].row # rows[e]

(***************************************************************************)
(* Stored evidence whose bytes are no longer pinned was itself taken by a  *)
(* retention run (which has yet to delete it, was interrupted, or deleted  *)
(* it before a patch put its copy back), or, when files are stored in the  *)
(* clear, another upload of the same file was.  Under encryption no upload *)
(* loses its bytes to the purge of another (index.ts:2536, 796).           *)
(***************************************************************************)
UnpinnedHasCause ==
  Provider = "pinata" =>
    \A e \in Stored : rows[e].cid \notin pins =>
      \E u \in history.unpinned : u.cid = rows[e].cid /\ (u.e = e \/ ~Encrypted)

(***************************************************************************)
(* Two stored rows of a series carry the same version only if uploads of   *)
(* the series overlapped between the count and the save, or if a row was   *)
(* purged, which lowers the count (index.ts:798-799).                      *)
(***************************************************************************)
RepeatedVersionHasCause ==
  \A e, f \in Stored :
    e # f /\ rows[e].category = rows[f].category /\ rows[e].version = rows[f].version
    => rows[e].category \in history.overlapped \/ history.purged # {}

(***************************************************************************)
(* Evidence recorded as uploaded that is gone has its purge in the audit   *)
(* trail, unless the entry is still to be written or a restart came in     *)
(* between.                                                                *)
(***************************************************************************)
GoneIsAudited ==
  \A e \in Evidence :
    <<"uploaded", e>> \in audits /\ rows[e] = NoRow =>
      \/ <<"purged", e>> \in audits
      \/ \E h \in Handler : tasks[h].pc = "audit" /\ tasks[h].e = e
      \/ used.faults > 0

\* The vault accounts for its evidence: bytes that are missing, versions that
\* repeat and rows that are gone have the causes that a purge, overlapping
\* uploads or a restart give them (handlePostEvidence, retention-run).
VaultIsAccounted ==
  /\ TypeOK
  /\ UnpinnedHasCause
  /\ RepeatedVersionHasCause
  /\ GoneIsAudited
=============================================================================
