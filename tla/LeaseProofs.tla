---------------------------- MODULE LeaseProofs ----------------------------
(***************************************************************************)
(* What a lock and a lease keep, for any number of requests, parties and   *)
(* contracts, any amounts and any number of failures: every step of        *)
(* ContractLock keeps LockInv, and every step of Lease keeps LeaseInv and  *)
(* is a step of ContractLock.  LeaseTheorems draws the conclusions.        *)
(***************************************************************************)
EXTENDS Lease, TLAPS

-----------------------------------------------------------------------------
(* ContractLock: where a request is tells what it has done.                *)

Account == [iou : Nat, objects : SUBSET {"line", "deposit", "stake", "signers"}]
Request == [pc : Pc, mode : {"XRP", "IOU"}, tenant : Party \cup {Operator},
            landlord : Party \cup {Operator}, ordered : BOOLEAN]

Unescrowed == {"idle", "lines", "wallet", "balance", "trust", "pay", "row", "deposit"}
Whole == {"deposit", "stake", "signers"}

ObjectsInv(l) ==
    /\ locks[l].pc \in Unescrowed => Whole \cap accounts[l].objects = {}
    /\ locks[l].pc = "stake" => "deposit" \in accounts[l].objects /\ "stake" \notin accounts[l].objects
    /\ locks[l].pc = "signers" => {"deposit", "stake"} \subseteq accounts[l].objects
    /\ locks[l].pc = "save" => Whole \subseteq accounts[l].objects /\ Cardinality(Signers(l)) = 3
    /\ locks[l].pc \in {"stake", "signers", "save"} => locks[l].ordered

RowInv(l) ==
    /\ rows[l] = "locked" => /\ locks[l].pc \in {"done", "failed"}
                             /\ Whole \subseteq accounts[l].objects
                             /\ Cardinality(Signers(l)) = 3
    /\ locks[l].pc = "done" => rows[l] = "locked"
    /\ locks[l].pc = "failed" /\ rows[l] = "locked" => lockFaults > 0
    /\ locks[l].pc = "failed" /\ "deposit" \in accounts[l].objects /\ rows[l] # "locked"
           => lockFaults > 0 \/ Cardinality(Signers(l)) < 3

Held(l) == accounts[l].iou + Escrowed(l)

IouInv(l) ==
    /\ locks[l].mode = "XRP" => /\ accounts[l].iou = 0
                                /\ locks[l].pc \notin {"balance", "trust", "pay"}
    /\ locks[l].mode = "IOU" =>
         /\ locks[l].pc \in {"lines", "wallet", "balance", "trust", "pay"} => accounts[l].iou = 0
         /\ locks[l].pc \in {"row", "deposit"} => accounts[l].iou = Total
         /\ locks[l].pc = "stake" => accounts[l].iou = Stake
         /\ Held(l) \in {0, Total}
    /\ locks[l].pc = "idle" => locks[l].mode = "XRP"

RequestInv(l) == ObjectsInv(l) /\ RowInv(l) /\ IouInv(l)

\* How requests are counted.  The facts hold of any finite set, which
\* LeaseTheorems takes from the library at the end.
Counting ==
    /\ Cardinality({}) = 0
    /\ \A S \in SUBSET Lock : Cardinality(S) \in Nat
    /\ \A S \in SUBSET Lock : \A l \in Lock \ S : Cardinality(S \cup {l}) = Cardinality(S) + 1

OperatorInv == ~IssuerSeed => operatorIou = OperatorFunds - Total * Cardinality(Paid)

LockInv ==
    /\ TypeOK
    /\ \A l \in Lock : RequestInv(l)
    /\ OperatorInv
    /\ Counting

\* A step of one request: the others are where they were.
Elsewhere(l) ==
    /\ \A k \in Lock \ {l} :
           locks'[k] = locks[k] /\ rows'[k] = rows[k] /\ accounts'[k] = accounts[k]
    /\ lockFaults' >= lockFaults

Addressed(l) ==
    \A f \in {"mode", "tenant", "landlord", "ordered"} : locks'[l][f] = locks[l][f]

\* A request at rest, whose account holds nothing.
LEMMA LockInit == Counting /\ Init => LockInv
<1> SUFFICES ASSUME Counting, Init PROVE LockInv
  BY Zenon
<1>1. TypeOK
  BY LockAssumption, Zenon DEF Init, TypeOK, Pc
<1>2. ASSUME NEW l \in Lock PROVE RequestInv(l) /\ Held(l) = 0
  <2>1. locks[l].pc = "idle" /\ locks[l].mode = "XRP" /\ rows[l] = "none"
        /\ accounts[l].iou = 0 /\ accounts[l].objects = {}
    BY Zenon DEF Init
  <2> QED BY <2>1 DEF RequestInv, ObjectsInv, RowInv, IouInv, Held, Escrowed, Unescrowed, Whole
<1>3. OperatorInv
  <2>1. Total \in Nat
    BY LockAssumption DEF Total
  <2>2. CASE Total = 0
    <3>1. Paid = Lock
      BY <1>2, <2>2, Zenon DEF Paid, Held
    <3>2. Cardinality(Paid) \in Nat
      BY <3>1, Zenon DEF Counting
    <3> QED BY <3>2, <2>2, LockAssumption DEF OperatorInv, Init
  <2>3. CASE Total # 0
    <3>1. Paid = {}
      BY <1>2, <2>3, Zenon DEF Paid, Held
    <3>2. Cardinality(Paid) = 0
      BY <3>1, Zenon DEF Counting
    <3> QED BY <3>2, <2>1, LockAssumption DEF OperatorInv, Init
  <2> QED BY <2>2, <2>3, Zenon
<1> QED BY <1>1, <1>2, <1>3, Zenon DEF LockInv

\* What a step of one request leaves of the others.
LEMMA OthersKept ==
    ASSUME LockInv, NEW l \in Lock, TypeOK', Elsewhere(l), NEW k \in Lock \ {l}
    PROVE  RequestInv(k)' /\ Held(k)' = Held(k)
<1>1. RequestInv(k) /\ lockFaults \in Nat /\ lockFaults' \in Nat
  BY Zenon DEF LockInv, TypeOK
<1>2. locks'[k] = locks[k] /\ rows'[k] = rows[k] /\ accounts'[k] = accounts[k]
      /\ lockFaults' >= lockFaults
  BY Zenon DEF Elsewhere
<1>3. Signers(k)' = Signers(k) /\ Escrowed(k)' = Escrowed(k)
  BY <1>2, Zenon DEF Signers, Escrowed
<1>4. Held(k)' = Held(k)
  BY <1>2, <1>3, Zenon DEF Held
<1>5. ObjectsInv(k)'
  BY <1>1, <1>2, <1>3, Zenon DEF RequestInv, ObjectsInv
<1>6. RowInv(k)'
  BY <1>1, <1>2, <1>3 DEF RequestInv, RowInv
<1>7. IouInv(k)'
  BY <1>1, <1>2, <1>4, Zenon DEF RequestInv, IouInv
<1> QED BY <1>4, <1>5, <1>6, <1>7, Zenon DEF RequestInv

\* A step that moves no tokens to or from an account.
LEMMA NoTokens ==
    ASSUME LockInv, NEW l \in Lock, TypeOK', Elsewhere(l), RequestInv(l)',
           Held(l)' = Held(l), operatorIou' = operatorIou
    PROVE  LockInv'
<1>1. \A k \in Lock : RequestInv(k)' /\ Held(k)' = Held(k)
  BY OthersKept, Zenon
<1>2. Paid' = Paid
  BY <1>1, Zenon DEF Paid, Held
<1>3. OperatorInv'
  BY <1>2, Zenon DEF LockInv, OperatorInv
<1> QED BY <1>1, <1>3, Zenon DEF LockInv, Counting

\* A step that only moves the request and its row.
LEMMA MoveKept ==
    ASSUME LockInv, NEW l \in Lock, NEW pc \in Pc, Go(l, pc), NEW r \in {"none", "pending", "locked"},
           rows' = [rows EXCEPT ![l] = r], accounts' = accounts,
           operatorIou' = operatorIou, lockFaults' \in {lockFaults, lockFaults + 1}
    PROVE  /\ TypeOK' /\ Elsewhere(l) /\ Held(l)' = Held(l)
           /\ locks'[l] = [locks[l] EXCEPT !.pc = pc]
           /\ rows'[l] = r /\ Signers(l)' = Signers(l) /\ Escrowed(l)' = Escrowed(l)
<1>1. TypeOK
  BY Zenon DEF LockInv
<1>2. locks' = [locks EXCEPT ![l] = [locks[l] EXCEPT !.pc = pc]]
  BY Zenon DEF Go
<1>3. TypeOK'
  <2>1. locks \in [Lock -> Request]
    BY <1>1, Zenon DEF TypeOK, Request
  <2>2. locks[l] \in Request
    BY <2>1, Zenon
  <2>3. PICK q : q = [locks[l] EXCEPT !.pc = pc]
    BY Zenon
  <2>4. q \in Request
    BY <2>2, <2>3, Zenon DEF Request
  <2>5. locks' \in [Lock -> Request]
    BY <1>2, <2>1, <2>3, <2>4, Zenon
  <2>6. rows' \in [Lock -> {"none", "pending", "locked"}] /\ lockFaults' \in Nat
    BY <1>1 DEF TypeOK
  <2> QED BY <1>1, <2>5, <2>6, Zenon DEF TypeOK, Request
<1>4. locks'[l] = [locks[l] EXCEPT !.pc = pc] /\ rows'[l] = r
  BY <1>1, <1>2, Zenon DEF TypeOK
<1>5. Elsewhere(l)
  BY <1>1, <1>2 DEF TypeOK, Elsewhere
<1>6. Signers(l)' = Signers(l) /\ Escrowed(l)' = Escrowed(l)
  BY <1>1, <1>4 DEF TypeOK, Signers, Escrowed
<1>7. Held(l)' = Held(l)
  BY <1>6, Zenon DEF Held
<1> QED BY <1>3, <1>4, <1>5, <1>6, <1>7, Zenon

\* The request throws: with a fault, before the deposit, or for its parties.
LEMMA ThrowInv ==
    ASSUME LockInv, NEW l \in Lock, Throw(l), UNCHANGED <<rows, accounts, operatorIou>>,
           \/ lockFaults' = lockFaults + 1
           \/ /\ lockFaults' = lockFaults
              /\ locks[l].pc \in Unescrowed \/ Cardinality(Signers(l)) < 3,
           locks[l].pc \notin {"idle", "done", "failed"}
    PROVE  LockInv'
<1>1. TypeOK /\ RequestInv(l)
  BY Zenon DEF LockInv
<1>2. /\ TypeOK' /\ Elsewhere(l) /\ Held(l)' = Held(l)
      /\ locks'[l] = [locks[l] EXCEPT !.pc = "failed"]
      /\ rows'[l] = rows[l] /\ Signers(l)' = Signers(l) /\ Escrowed(l)' = Escrowed(l)
  <2>1. rows[l] \in {"none", "pending", "locked"} /\ rows' = [rows EXCEPT ![l] = rows[l]]
    BY <1>1, Zenon DEF TypeOK
  <2>2. lockFaults' \in {lockFaults, lockFaults + 1} /\ "failed" \in Pc
    BY Zenon DEF Pc
  <2> QED BY <2>1, <2>2, MoveKept, Zenon DEF Throw
<1>3. /\ locks'[l].pc = "failed" /\ locks'[l].mode = locks[l].mode
      /\ locks[l].mode \in {"XRP", "IOU"} /\ accounts'[l] = accounts[l]
      /\ lockFaults \in Nat
  BY <1>1, <1>2 DEF TypeOK
<1>4. ObjectsInv(l)'
  BY <1>3, Zenon DEF ObjectsInv, Unescrowed
<1>5. RowInv(l)'
  BY <1>1, <1>2, <1>3 DEF RequestInv, ObjectsInv, RowInv, Whole
<1>6. IouInv(l)'
  BY <1>1, <1>2, <1>3, Zenon DEF RequestInv, IouInv, TypeOK
<1> QED BY <1>2, <1>4, <1>5, <1>6, NoTokens, Zenon DEF RequestInv

\* From one step to the next before the deposit.
LEMMA EarlyInv ==
    ASSUME LockInv, NEW l \in Lock, UNCHANGED <<accounts, operatorIou, lockFaults>>,
           NEW pc \in {"wallet", "balance", "trust", "row", "deposit"}, Go(l, pc),
           \/ locks[l].pc = "lines" /\ pc = "wallet" /\ UNCHANGED rows
           \/ locks[l].pc = "wallet" /\ pc = (IF locks[l].mode = "IOU" THEN "balance" ELSE "row")
              /\ UNCHANGED rows
           \/ locks[l].pc = "balance" /\ pc = "trust" /\ UNCHANGED rows
           \/ locks[l].pc = "row" /\ pc = "deposit" /\ rows' = [rows EXCEPT ![l] = "pending"]
    PROVE  LockInv'
<1>1. TypeOK /\ RequestInv(l)
  BY Zenon DEF LockInv
<1>2. PICK r \in {"none", "pending"} :
        /\ rows' = [rows EXCEPT ![l] = r]
        /\ r = rows[l] \/ locks[l].pc = "row"
  <2>1. rows \in [Lock -> {"none", "pending", "locked"}] /\ rows[l] # "locked"
    BY <1>1, Zenon DEF TypeOK, RequestInv, RowInv
  <2> QED BY <2>1, Zenon
<1>3. /\ TypeOK' /\ Elsewhere(l) /\ Held(l)' = Held(l)
      /\ locks'[l] = [locks[l] EXCEPT !.pc = pc]
      /\ rows'[l] = r /\ Signers(l)' = Signers(l) /\ Escrowed(l)' = Escrowed(l)
  <2>1. pc \in Pc /\ r \in {"none", "pending", "locked"} /\ accounts' = accounts
        /\ operatorIou' = operatorIou /\ lockFaults' \in {lockFaults, lockFaults + 1}
    BY Zenon DEF Pc
  <2> QED BY <1>2, <2>1, MoveKept, Zenon
<1>4. /\ locks'[l].pc = pc /\ locks'[l].mode = locks[l].mode
      /\ locks[l].mode \in {"XRP", "IOU"} /\ accounts'[l] = accounts[l]
      /\ locks[l].pc \in Unescrowed /\ pc \in Unescrowed
  BY <1>1, <1>3 DEF TypeOK, Unescrowed
<1>5. ObjectsInv(l)'
  BY <1>1, <1>4, Zenon DEF RequestInv, ObjectsInv, Unescrowed
<1>6. RowInv(l)'
  BY <1>3, <1>4, Zenon DEF RowInv
<1>7. IouInv(l)'
  <2>1. CASE locks[l].mode = "XRP"
    BY <1>1, <1>4, <2>1, Zenon DEF RequestInv, IouInv
  <2>2. CASE locks[l].mode = "IOU"
    <3>1. /\ locks[l].pc \in {"lines", "wallet", "balance", "trust", "pay"} => accounts[l].iou = 0
          /\ locks[l].pc \in {"row", "deposit"} => accounts[l].iou = Total
          /\ Held(l) \in {0, Total}
      BY <1>1, <2>2, Zenon DEF RequestInv, IouInv
    <3> QED BY <1>3, <1>4, <2>2, <3>1, Zenon DEF IouInv
  <2> QED BY <1>4, <2>1, <2>2, Zenon
<1> QED BY <1>3, <1>5, <1>6, <1>7, NoTokens, Zenon DEF RequestInv

\* The row is created, whether or not the answer arrives.
LEMMA RowCreated ==
    ASSUME LockInv, NEW l \in Lock, CreateRow(l)
    PROVE  LockInv'
<1>1. TypeOK /\ RequestInv(l) /\ locks[l].pc = "row" /\ UNCHANGED <<accounts, operatorIou>>
  BY Zenon DEF LockInv, CreateRow, At
<1>2. CASE Throw(l) /\ Fault /\ UNCHANGED rows
  BY <1>1, <1>2, ThrowInv, Zenon DEF Fault
<1>3. CASE rows' = [rows EXCEPT ![l] = "pending"] /\ Go(l, "deposit") /\ UNCHANGED lockFaults
  BY <1>1, <1>3, EarlyInv, Zenon
<1>4. CASE rows' = [rows EXCEPT ![l] = "pending"] /\ Throw(l) /\ Fault
  <2>1. lockFaults' \in {lockFaults, lockFaults + 1} /\ "failed" \in Pc /\ Go(l, "failed")
    BY <1>4, Zenon DEF Fault, Pc, Throw
  <2>2. /\ TypeOK' /\ Elsewhere(l) /\ Held(l)' = Held(l)
        /\ locks'[l] = [locks[l] EXCEPT !.pc = "failed"]
        /\ rows'[l] = "pending" /\ Signers(l)' = Signers(l) /\ Escrowed(l)' = Escrowed(l)
    BY <1>1, <1>4, <2>1, MoveKept, Zenon
  <2>3. /\ locks'[l].pc = "failed" /\ locks'[l].mode = locks[l].mode
        /\ locks[l].mode \in {"XRP", "IOU"} /\ accounts'[l] = accounts[l]
    BY <1>1, <2>2 DEF TypeOK
  <2>4. "deposit" \notin accounts[l].objects
    BY <1>1, Zenon DEF RequestInv, ObjectsInv, Unescrowed, Whole
  <2>5. ObjectsInv(l)'
    BY <2>3, Zenon DEF ObjectsInv, Unescrowed
  <2>6. RowInv(l)'
    BY <2>2, <2>3, <2>4, Zenon DEF RowInv
  <2>7. IouInv(l)'
    BY <1>1, <2>2, <2>3, Zenon DEF RequestInv, IouInv
  <2> QED BY <1>1, <2>2, <2>5, <2>6, <2>7, NoTokens, Zenon DEF RequestInv
<1> QED BY <1>2, <1>3, <1>4, Zenon DEF CreateRow, Answered

\* The row becomes locked, whether or not the answer arrives.
LEMMA SaveInv ==
    ASSUME LockInv, NEW l \in Lock, SaveLocked(l)
    PROVE  LockInv'
<1>1. TypeOK /\ RequestInv(l) /\ locks[l].pc = "save" /\ UNCHANGED <<accounts, operatorIou>>
  BY Zenon DEF LockInv, SaveLocked, At
<1>2. CASE Throw(l) /\ Fault /\ UNCHANGED rows
  BY <1>1, <1>2, ThrowInv, Zenon DEF Fault
<1>3. CASE rows' = [rows EXCEPT ![l] = "locked"] /\ Answered(l, "done")
  <2>1. PICK pc \in {"done", "failed"} : Go(l, pc) /\ (pc = "failed" => lockFaults' > 0)
    BY <1>1, <1>3 DEF Answered, Throw, Fault, TypeOK
  <2>2. lockFaults' \in {lockFaults, lockFaults + 1}
    BY <1>3, Zenon DEF Answered, Fault
  <2>3. /\ TypeOK' /\ Elsewhere(l) /\ Held(l)' = Held(l)
        /\ locks'[l] = [locks[l] EXCEPT !.pc = pc]
        /\ rows'[l] = "locked" /\ Signers(l)' = Signers(l) /\ Escrowed(l)' = Escrowed(l)
        /\ (pc = "failed" => lockFaults' > 0)
    <3>1. pc \in Pc /\ accounts' = accounts /\ operatorIou' = operatorIou
      BY <1>1, Zenon DEF Pc
    <3> QED BY <1>3, <2>1, <2>2, <3>1, MoveKept, Zenon
  <2>4. /\ locks'[l].pc = pc /\ locks'[l].mode = locks[l].mode
        /\ locks[l].mode \in {"XRP", "IOU"} /\ accounts'[l] = accounts[l]
    BY <1>1, <2>3 DEF TypeOK
  <2>5. ObjectsInv(l)'
    BY <2>4, Zenon DEF ObjectsInv, Unescrowed
  <2>6. RowInv(l)'
    BY <1>1, <2>3, <2>4, Zenon DEF RequestInv, ObjectsInv, RowInv
  <2>7. IouInv(l)'
    BY <1>1, <2>3, <2>4, Zenon DEF RequestInv, IouInv
  <2> QED BY <1>1, <2>3, <2>5, <2>6, <2>7, NoTokens, Zenon DEF RequestInv
<1> QED BY <1>2, <1>3, Zenon DEF SaveLocked

\* A submission the ledger takes, whether or not the answer arrives.
LEMMA TakenKept ==
    ASSUME LockInv, NEW l \in Lock, NEW next \in Pc, Answered(l, next), rows' = rows,
           NEW acc \in Account,
           accounts' = [accounts EXCEPT ![l] = acc], operatorIou' \in Nat
    PROVE  /\ TypeOK' /\ Elsewhere(l) /\ rows'[l] = rows[l]
           /\ accounts'[l] = acc /\ Signers(l)' = Signers(l)
           /\ locks'[l].pc \in {next, "failed"} /\ Addressed(l)
           /\ locks'[l].pc = "failed" /\ next # "failed" => lockFaults' > 0
<1>1. TypeOK
  BY Zenon DEF LockInv
<1>2. PICK pc \in {next, "failed"} :
        /\ locks' = [locks EXCEPT ![l] = [locks[l] EXCEPT !.pc = pc]]
        /\ \/ pc = next /\ lockFaults' = lockFaults
           \/ pc = "failed" /\ lockFaults' = lockFaults + 1
  BY Zenon DEF Answered, Go, Throw, Fault
<1>3. /\ locks \in [Lock -> Request]
      /\ accounts \in [Lock -> Account]
      /\ rows \in [Lock -> {"none", "pending", "locked"}] /\ lockFaults \in Nat
      /\ pc \in Pc
  <2>1. "failed" \in Pc
    BY Zenon DEF Pc
  <2> QED BY <1>1, <2>1, Zenon DEF TypeOK, Account, Request
<1>4. locks'[l] = [locks[l] EXCEPT !.pc = pc] /\ accounts'[l] = acc
  BY <1>2, <1>3, Zenon
<1>5. TypeOK'
  <2>1. locks' \in [Lock -> Request]
    BY <1>2, <1>3 DEF Request
  <2>2. accounts' \in [Lock -> Account]
    BY <1>3, Zenon
  <2>3. lockFaults' \in Nat
    BY <1>2, <1>3
  <2> QED BY <1>3, <2>1, <2>2, <2>3, Zenon DEF TypeOK, Account, Request
<1>6. Elsewhere(l)
  BY <1>2, <1>3 DEF Elsewhere
<1>7. Signers(l)' = Signers(l)
  BY <1>3, <1>4 DEF Signers, Request
<1>8. pc = "failed" /\ next # "failed" => lockFaults' > 0
  BY <1>2, <1>3
<1>9. locks'[l].pc = pc /\ Addressed(l)
  BY <1>3, <1>4 DEF Addressed, Request
<1> QED BY <1>4, <1>5, <1>6, <1>7, <1>8, <1>9, Zenon

\* The trust line: no escrow yet, and no tokens.
LEMMA TrustSetInv ==
    ASSUME LockInv, NEW l \in Lock, SubmitTrustSet(l)
    PROVE  LockInv'
<1>1. TypeOK /\ RequestInv(l) /\ locks[l].pc = "trust"
  BY Zenon DEF LockInv, SubmitTrustSet, At
<1>2. CASE Refused(l)
  BY <1>1, <1>2, ThrowInv, Zenon DEF Refused, Fault
<1>3. CASE /\ accounts' = [accounts EXCEPT ![l].objects = @ \cup {"line"}]
           /\ Answered(l, "pay") /\ UNCHANGED <<rows, operatorIou>>
  <2>0. PICK acc : acc = [accounts[l] EXCEPT !.objects = @ \cup {"line"}]
    BY Zenon
  <2>1. /\ accounts[l] \in Account
        /\ operatorIou' \in Nat /\ locks[l] \in Request
    BY <1>1, <1>3, Zenon DEF TypeOK, Account, Request
  <2>2. acc \in Account
    BY <2>0, <2>1, Zenon DEF Account
  <2>3. "pay" \in Pc /\ accounts' = [accounts EXCEPT ![l] = acc]
    BY <1>3, <2>0, Zenon DEF Pc
  <2>4. acc.iou = accounts[l].iou /\ acc.objects \cap Whole = accounts[l].objects \cap Whole
    BY <2>0, <2>1, Zenon DEF Whole, Account
  <2>5. /\ TypeOK' /\ Elsewhere(l) /\ rows'[l] = rows[l]
        /\ accounts'[l] = acc /\ Signers(l)' = Signers(l)
        /\ locks'[l].pc \in {"pay", "failed"} /\ Addressed(l)
    BY <1>3, <2>1, <2>2, <2>3, TakenKept, Zenon
  <2>6. /\ locks'[l].pc \in {"pay", "failed"} /\ locks'[l].mode = locks[l].mode
    BY <2>5, Zenon DEF Addressed
  <2>7. Whole \cap accounts[l].objects = {} /\ rows[l] # "locked"
    BY <1>1, Zenon DEF RequestInv, ObjectsInv, RowInv, Unescrowed
  <2>8. Whole \cap accounts'[l].objects = {} /\ "deposit" \notin accounts'[l].objects
        /\ "stake" \notin accounts'[l].objects /\ "stake" \notin accounts[l].objects
        /\ "deposit" \notin accounts[l].objects
    BY <2>4, <2>5, <2>7, Zenon DEF Whole
  <2>9. Held(l)' = Held(l)
    BY <2>4, <2>5, <2>6, <2>8, Zenon DEF Held, Escrowed
  <2>10. ObjectsInv(l)'
    BY <2>6, <2>8, Zenon DEF ObjectsInv, Unescrowed
  <2>11. RowInv(l)'
    BY <2>5, <2>6, <2>7, <2>8, Zenon DEF RowInv
  <2>12. IouInv(l)'
    BY <1>1, <2>1, <2>4, <2>5, <2>6, <2>9, Zenon DEF RequestInv, IouInv, Request
  <2> QED BY <1>3, <2>5, <2>9, <2>10, <2>11, <2>12, NoTokens, Zenon DEF RequestInv
<1> QED BY <1>2, <1>3, Zenon DEF SubmitTrustSet

\* The payment puts the account among those paid for, and takes its total off
\* the operator's balance.
LEMMA FundInv ==
    ASSUME LockInv, NEW l \in Lock, FundFromOperator(l)
    PROVE  LockInv'
<1>1. TypeOK /\ RequestInv(l) /\ locks[l].pc = "pay" /\ Total \in Nat
  BY LockAssumption DEF LockInv, FundFromOperator, At, Total
<1>2. CASE Refused(l)
  BY <1>1, <1>2, ThrowInv, Zenon DEF Refused, Fault
<1>3. CASE Throw(l) /\ UNCHANGED <<rows, accounts, operatorIou, lockFaults>>
  BY <1>1, <1>3, ThrowInv, Zenon DEF Unescrowed
<1>4. CASE /\ IssuerSeed \/ operatorIou >= Total
           /\ operatorIou' = IF IssuerSeed THEN operatorIou ELSE operatorIou - Total
           /\ accounts' = [accounts EXCEPT ![l].iou = Total]
           /\ Answered(l, "row") /\ UNCHANGED rows
  <2>0. PICK acc : acc = [accounts[l] EXCEPT !.iou = Total]
    BY Zenon
  <2>1. /\ accounts[l] \in Account
        /\ operatorIou \in Nat /\ locks[l] \in Request
    BY <1>1, Zenon DEF TypeOK, Account, Request
  <2>2. acc \in Account
    BY <2>0, <2>1, <1>1, Zenon DEF Account
  <2>3. "row" \in Pc /\ accounts' = [accounts EXCEPT ![l] = acc] /\ operatorIou' \in Nat
    BY <1>1, <1>4, <2>0, <2>1 DEF Pc
  <2>4. acc.iou = Total /\ acc.objects = accounts[l].objects
    BY <2>0, <2>1, Zenon DEF Account
  <2>5. /\ TypeOK' /\ Elsewhere(l) /\ rows'[l] = rows[l]
        /\ accounts'[l] = acc /\ Signers(l)' = Signers(l)
        /\ locks'[l].pc \in {"row", "failed"} /\ Addressed(l)
    BY <1>4, <2>1, <2>2, <2>3, TakenKept, Zenon
  <2>6. /\ locks'[l].pc \in {"row", "failed"} /\ locks'[l].mode = "IOU" /\ locks[l].mode = "IOU"
    BY <1>1, <2>1, <2>5, Zenon DEF RequestInv, IouInv, Request, Addressed
  <2>7. /\ Whole \cap accounts[l].objects = {} /\ rows[l] # "locked" /\ accounts[l].iou = 0
    BY <1>1, <2>6, Zenon DEF RequestInv, ObjectsInv, RowInv, IouInv, Unescrowed
  <2>8. "deposit" \notin accounts[l].objects /\ "stake" \notin accounts[l].objects
    BY <2>7, Zenon DEF Whole
  <2>9. Held(l) = 0 /\ Held(l)' = Total
    <3>1. Escrowed(l) = 0
      BY <2>8 DEF Escrowed
    <3>2. Escrowed(l)' = 0
      BY <2>4, <2>5, <2>8 DEF Escrowed
    <3> QED BY <1>1, <2>4, <2>5, <2>7, <3>1, <3>2 DEF Held
  <2>10. ObjectsInv(l)'
    BY <2>4, <2>5, <2>6, <2>7, Zenon DEF ObjectsInv, Unescrowed
  <2>11. RowInv(l)'
    BY <2>4, <2>5, <2>6, <2>7, <2>8, Zenon DEF RowInv
  <2>12. IouInv(l)'
    BY <2>4, <2>5, <2>6, <2>9, Zenon DEF IouInv
  <2>13. \A k \in Lock \ {l} : RequestInv(k)' /\ Held(k)' = Held(k)
    BY <2>5, OthersKept, Zenon
  <2>14. OperatorInv'
    <3>1. CASE Total = 0
      <4>1. Paid' = Paid
        BY <2>9, <2>13, <3>1, Zenon DEF Paid, Held
      <4> QED BY <1>4, <2>1, <3>1, <4>1 DEF LockInv, OperatorInv
    <3>2. CASE Total # 0
      <4>1. Paid' = Paid \cup {l} /\ l \notin Paid
        BY <2>9, <2>13, <3>2, Zenon DEF Paid, Held
      <4>2. Paid \subseteq Lock
        BY Zenon DEF Paid
      <4>3. Cardinality(Paid') = Cardinality(Paid) + 1 /\ Cardinality(Paid) \in Nat
        BY <4>1, <4>2, Zenon DEF LockInv, Counting
      <4>4. Total * (Cardinality(Paid) + 1) = Total * Cardinality(Paid) + Total
        BY <1>1, <4>3
      <4>5. Total * Cardinality(Paid) \in Nat
        BY <1>1, <4>3
      <4>6. ~IssuerSeed => /\ operatorIou = OperatorFunds - Total * Cardinality(Paid)
                           /\ operatorIou' = operatorIou - Total
        BY <1>4, Zenon DEF LockInv, OperatorInv
      <4>7. ~IssuerSeed => operatorIou' = OperatorFunds - (Total * Cardinality(Paid) + Total)
        BY <1>1, <4>5, <4>6, LockAssumption
      <4> QED BY <4>3, <4>4, <4>7, Zenon DEF OperatorInv
    <3> QED BY <3>1, <3>2, Zenon
  <2> QED BY <2>5, <2>10, <2>11, <2>12, <2>13, <2>14, Zenon DEF LockInv, RequestInv, Counting
<1> QED BY <1>2, <1>3, <1>4, Zenon DEF FundFromOperator

\* An escrow: its amount leaves the account's balance and stays the account's.
LEMMA EscrowInv ==
    ASSUME LockInv, NEW l \in Lock,
           NEW o, NEW amount \in Nat, NEW next,
           \/ o = "deposit" /\ amount = Deposit /\ next = "stake"
           \/ o = "stake" /\ amount = Stake /\ next = "signers",
           locks[l].pc = o, CreateEscrow(l, o, amount, next)
    PROVE  LockInv'
<1>1. TypeOK /\ RequestInv(l) /\ Total = Deposit + Stake /\ Deposit \in Nat /\ Stake \in Nat
  BY LockAssumption, Zenon DEF LockInv, Total
<1>2. CASE Refused(l)
  BY <1>1, <1>2, ThrowInv, Zenon DEF Refused, Fault
<1>3. CASE /\ ~locks[l].ordered /\ Throw(l)
           /\ UNCHANGED <<rows, accounts, operatorIou, lockFaults>>
  <2>1. o = "deposit"
    BY <1>1, <1>3, Zenon DEF RequestInv, ObjectsInv
  <2> QED BY <1>1, <1>3, <2>1, ThrowInv, Zenon DEF Unescrowed
<1>4. CASE /\ locks[l].ordered
           /\ accounts' = [accounts EXCEPT ![l] =
                  [iou |-> IF locks[l].mode = "IOU" THEN @.iou - amount ELSE @.iou,
                   objects |-> @.objects \cup {o}]]
           /\ Answered(l, next) /\ UNCHANGED <<rows, operatorIou>>
  <2>1. PICK acc : acc = [iou |-> IF locks[l].mode = "IOU" THEN accounts[l].iou - amount
                                  ELSE accounts[l].iou,
                          objects |-> accounts[l].objects \cup {o}]
    BY Zenon
  <2>2. accounts[l] \in Account /\ operatorIou' \in Nat /\ locks[l] \in Request
    BY <1>1, <1>4, Zenon DEF TypeOK, Account, Request
  <2>3. locks[l].mode = "IOU" =>
            accounts[l].iou = IF o = "deposit" THEN Deposit + Stake ELSE Stake
    BY <1>1, LockAssumption, Zenon DEF RequestInv, IouInv
  <2>4. acc \in Account
    <3>1. acc.iou \in Nat
      BY <1>1, <2>1, <2>2, <2>3 DEF Account
    <3>2. acc.objects \in SUBSET {"line", "deposit", "stake", "signers"}
      BY <2>1, <2>2, Zenon DEF Account
    <3> QED BY <2>1, <3>1, <3>2, Zenon DEF Account
  <2>5. next \in Pc /\ next # "failed" /\ accounts' = [accounts EXCEPT ![l] = acc]
    BY <1>4, <2>1, Zenon DEF Pc
  <2>6. /\ TypeOK' /\ Elsewhere(l) /\ rows'[l] = rows[l]
        /\ accounts'[l] = acc /\ Signers(l)' = Signers(l)
        /\ locks'[l].pc \in {next, "failed"} /\ Addressed(l)
        /\ locks'[l].pc = "failed" /\ next # "failed" => lockFaults' > 0
    BY <1>4, <2>2, <2>4, <2>5, TakenKept, Zenon
  <2>7. /\ locks'[l].mode = locks[l].mode /\ locks'[l].ordered = locks[l].ordered
        /\ locks[l].mode \in {"XRP", "IOU"}
    BY <2>2, <2>6, Zenon DEF Addressed, Request
  <2>8. o \notin accounts[l].objects /\ rows[l] # "locked"
        /\ (o = "deposit" => "stake" \notin accounts[l].objects)
        /\ (o = "stake" => "deposit" \in accounts[l].objects)
    BY <1>1, Zenon DEF RequestInv, ObjectsInv, RowInv, Unescrowed, Whole
  <2>9. accounts'[l].objects = accounts[l].objects \cup {o}
    <3>1. acc.objects = accounts[l].objects \cup {o}
      BY <2>1, Zenon
    <3> QED BY <2>6, <3>1, Zenon
  <2>10. accounts'[l].iou = IF locks[l].mode = "IOU" THEN accounts[l].iou - amount
                            ELSE accounts[l].iou
    BY <2>1, <2>6
  <2>11. accounts[l].iou \in Nat
    BY <2>2, Zenon DEF Account
  <2>12. Held(l)' = Held(l)
    <3>1. CASE locks[l].mode = "XRP"
      BY <2>7, <2>10, <3>1, Zenon DEF Held, Escrowed
    <3>2. CASE locks[l].mode = "IOU" /\ o = "deposit"
      BY <1>1, <2>7, <2>8, <2>9, <2>10, <2>11, <3>2 DEF Held, Escrowed
    <3>3. CASE locks[l].mode = "IOU" /\ o = "stake"
      BY <1>1, <2>7, <2>8, <2>9, <2>10, <2>11, <3>3 DEF Held, Escrowed
    <3> QED BY <2>7, <3>1, <3>2, <3>3, Zenon
  <2>13. ObjectsInv(l)'
    BY <1>4, <2>6, <2>7, <2>8, <2>9, Zenon DEF ObjectsInv, Unescrowed
  <2>14. RowInv(l)'
    BY <2>5, <2>6, <2>8, Zenon DEF RowInv
  <2>15. IouInv(l)'
    <3>1. CASE locks[l].mode = "XRP"
      BY <1>1, <2>6, <2>7, <2>10, <3>1, Zenon DEF RequestInv, IouInv
    <3>2. CASE locks[l].mode = "IOU"
      <4>1. Held(l)' \in {0, Total}
        BY <1>1, <2>12, <3>2, Zenon DEF RequestInv, IouInv
      <4>2. o = "deposit" => accounts'[l].iou = Stake
        BY <1>1, <2>3, <2>10, <3>2
      <4> QED BY <2>6, <2>7, <3>2, <4>1, <4>2, Zenon DEF IouInv
    <3> QED BY <2>7, <3>1, <3>2, Zenon
  <2> QED BY <1>4, <2>6, <2>12, <2>13, <2>14, <2>15, NoTokens, Zenon DEF RequestInv
<1> QED BY <1>2, <1>3, <1>4, Zenon DEF CreateEscrow

\* The signer list: three addresses, or the request fails for its parties.
LEMMA SignersInv ==
    ASSUME LockInv, NEW l \in Lock, SetSignerList(l)
    PROVE  LockInv'
<1>1. TypeOK /\ RequestInv(l) /\ locks[l].pc = "signers"
  BY Zenon DEF LockInv, SetSignerList, At
<1>2. CASE Refused(l)
  BY <1>1, <1>2, ThrowInv, Zenon DEF Refused, Fault
<1>3. CASE /\ Cardinality(Signers(l)) < 3 /\ Throw(l)
           /\ UNCHANGED <<rows, accounts, operatorIou, lockFaults>>
  BY <1>1, <1>3, ThrowInv, Zenon
<1>4. CASE /\ Cardinality(Signers(l)) = 3
           /\ accounts' = [accounts EXCEPT ![l].objects = @ \cup {"signers"}]
           /\ Answered(l, "save") /\ UNCHANGED <<rows, operatorIou>>
  <2>1. PICK acc : acc = [accounts[l] EXCEPT !.objects = @ \cup {"signers"}]
    BY Zenon
  <2>2. accounts[l] \in Account /\ operatorIou' \in Nat /\ locks[l] \in Request
    BY <1>1, <1>4, Zenon DEF TypeOK, Account, Request
  <2>3. acc \in Account /\ acc.iou = accounts[l].iou
        /\ acc.objects = accounts[l].objects \cup {"signers"}
    BY <2>1, <2>2, Zenon DEF Account
  <2>4. "save" \in Pc /\ accounts' = [accounts EXCEPT ![l] = acc]
    BY <1>4, <2>1, Zenon DEF Pc
  <2>5. /\ TypeOK' /\ Elsewhere(l) /\ rows'[l] = rows[l]
        /\ accounts'[l] = acc /\ Signers(l)' = Signers(l)
        /\ locks'[l].pc \in {"save", "failed"} /\ Addressed(l)
        /\ locks'[l].pc = "failed" /\ "save" # "failed" => lockFaults' > 0
    <3>1. rows' = rows /\ Answered(l, "save") /\ acc \in Account
      BY <1>4, <2>3, Zenon
    <3> QED BY <2>2, <2>4, <3>1, TakenKept, Zenon
  <2>6. /\ locks'[l].mode = locks[l].mode /\ locks'[l].ordered = locks[l].ordered
        /\ locks[l].mode \in {"XRP", "IOU"}
    BY <2>2, <2>5, Zenon DEF Addressed, Request
  <2>7. {"deposit", "stake"} \subseteq accounts[l].objects /\ rows[l] # "locked"
        /\ locks[l].ordered
    BY <1>1, Zenon DEF RequestInv, ObjectsInv, RowInv
  <2>8. Held(l)' = Held(l)
    <3>1. /\ "deposit" \in accounts'[l].objects <=> "deposit" \in accounts[l].objects
          /\ "stake" \in accounts'[l].objects <=> "stake" \in accounts[l].objects
      BY <2>3, <2>5
    <3> QED BY <2>3, <2>5, <2>6, <3>1, Zenon DEF Held, Escrowed
  <2>9. ObjectsInv(l)'
    <3>1. Whole \subseteq accounts'[l].objects
      BY <2>3, <2>5, <2>7, Zenon DEF Whole
    <3> QED BY <1>4, <2>5, <2>6, <2>7, <3>1, Zenon DEF ObjectsInv, Unescrowed
  <2>10. RowInv(l)'
    BY <2>5, <2>7, Zenon DEF RowInv
  <2>11. IouInv(l)'
    BY <1>1, <2>3, <2>5, <2>6, <2>8, Zenon DEF RequestInv, IouInv
  <2> QED BY <1>4, <2>5, <2>8, <2>9, <2>10, <2>11, NoTokens, Zenon DEF RequestInv
<1> QED BY <1>2, <1>3, <1>4, Zenon DEF SetSignerList

\* A request is made: its account holds nothing yet.
LEMMA CreateInv ==
    ASSUME LockInv, NEW l \in Lock, NEW mode \in {"XRP", "IOU"}, NEW tenant \in Party,
           NEW landlord \in Party, NEW ordered \in BOOLEAN,
           Create(l, mode, tenant, landlord, ordered)
    PROVE  LockInv'
<1>1. TypeOK /\ RequestInv(l) /\ locks[l].pc = "idle"
      /\ UNCHANGED <<rows, accounts, operatorIou, lockFaults>>
  BY Zenon DEF LockInv, Create, At
<1>2. PICK r : r = [pc |-> IF mode = "IOU" THEN "lines" ELSE "wallet", mode |-> mode,
                    tenant |-> tenant, landlord |-> landlord, ordered |-> ordered]
  BY Zenon
<1>3. locks' = [locks EXCEPT ![l] = r] /\ r \in Request
  BY <1>2, Zenon DEF Create, Request, Pc
<1>4. locks \in [Lock -> Request] /\ lockFaults \in Nat
  BY <1>1, Zenon DEF TypeOK, Request
<1>5. TypeOK'
  <2>1. locks' \in [Lock -> Request]
    BY <1>3, <1>4, Zenon
  <2> QED BY <1>1, <2>1, Zenon DEF TypeOK, Request
<1>6. Elsewhere(l) /\ locks'[l] = r
  BY <1>1, <1>3, <1>4 DEF Elsewhere
<1>7. /\ locks'[l].pc \in {"lines", "wallet"} /\ locks'[l].mode = mode
      /\ rows'[l] = rows[l] /\ accounts'[l] = accounts[l]
  BY <1>1, <1>2, <1>6
<1>8. /\ Whole \cap accounts[l].objects = {} /\ rows[l] # "locked"
      /\ accounts[l].iou = 0 /\ locks[l].mode = "XRP"
  BY <1>1, Zenon DEF RequestInv, ObjectsInv, RowInv, IouInv, Unescrowed
<1>9. "deposit" \notin accounts[l].objects /\ "stake" \notin accounts[l].objects
  BY <1>8, Zenon DEF Whole
<1>10. Held(l)' = 0 /\ Held(l) = 0
  BY <1>7, <1>8, <1>9 DEF Held, Escrowed
<1>11. ObjectsInv(l)'
  BY <1>7, <1>8, Zenon DEF ObjectsInv
<1>12. RowInv(l)'
  BY <1>7, <1>8, Zenon DEF RowInv
<1>13. IouInv(l)'
  BY <1>7, <1>8, <1>10, Zenon DEF IouInv
<1> QED BY <1>1, <1>5, <1>6, <1>10, <1>11, <1>12, <1>13, NoTokens, Zenon DEF RequestInv

\* The process stops: a fault, for every request in flight.
LEMMA StopInv ==
    ASSUME LockInv, Stop
    PROVE  LockInv'
<1>1. TypeOK /\ UNCHANGED <<rows, accounts, operatorIou>> /\ lockFaults' = lockFaults + 1
  BY Zenon DEF LockInv, Stop, Fault
<1>2. locks \in [Lock -> Request] /\ lockFaults \in Nat /\ lockFaults' > 0
  BY <1>1 DEF TypeOK, Request
<1>3. ASSUME NEW l \in Lock
      PROVE  /\ locks'[l] \in Request /\ Addressed(l)
             /\ \/ locks'[l] = locks[l] /\ locks[l].pc \in {"idle", "done", "failed"}
                \/ locks'[l].pc = "failed" /\ locks[l].pc \notin {"idle", "done", "failed"}
  <2>1. locks'[l] = IF locks[l].pc \in {"idle", "done", "failed"} THEN locks[l]
                    ELSE [locks[l] EXCEPT !.pc = "failed"]
    BY Zenon DEF Stop
  <2>2. locks[l] \in Request /\ "failed" \in Pc
    BY <1>2, Zenon DEF Pc
  <2> QED BY <2>1, <2>2 DEF Request, Addressed
<1>4. TypeOK'
  <2>1. locks' \in [Lock -> Request]
    <3>1. DOMAIN locks' = Lock /\ locks' = [l \in Lock |-> locks'[l]]
      BY Zenon DEF Stop
    <3> QED BY <1>3, <3>1, Zenon
  <2> QED BY <1>1, <1>2, <2>1 DEF TypeOK, Request
<1>5. ASSUME NEW l \in Lock PROVE RequestInv(l)' /\ Held(l)' = Held(l)
  <2>1. RequestInv(l) /\ locks[l] \in Request
    BY <1>2, Zenon DEF LockInv
  <2>2. /\ locks'[l].mode = locks[l].mode /\ accounts'[l] = accounts[l] /\ rows'[l] = rows[l]
        /\ Signers(l)' = Signers(l) /\ Escrowed(l)' = Escrowed(l)
    BY <1>1, <1>3, Zenon DEF Addressed, Signers, Escrowed
  <2>3. Held(l)' = Held(l)
    BY <2>2, Zenon DEF Held
  <2>4. ObjectsInv(l)'
    BY <1>3, <2>1, <2>2, Zenon DEF RequestInv, ObjectsInv, Unescrowed
  <2>5. RowInv(l)'
    BY <1>2, <1>3, <2>1, <2>2, Zenon DEF RequestInv, RowInv
  <2>6. IouInv(l)'
    BY <1>3, <2>1, <2>2, <2>3, Zenon DEF RequestInv, IouInv
  <2> QED BY <2>3, <2>4, <2>5, <2>6, Zenon DEF RequestInv
<1>6. OperatorInv'
  <2>1. Paid' = Paid
    BY <1>5, Zenon DEF Paid, Held
  <2> QED BY <1>1, <2>1, Zenon DEF LockInv, OperatorInv
<1> QED BY <1>4, <1>5, <1>6, Zenon DEF LockInv, Counting

\* Every step of be1-xrpl keeps the invariant.
LEMMA LockNext ==
    ASSUME LockInv, [Next]_vars
    PROVE  LockInv'
<1>1. CASE UNCHANGED vars
  <2>1. UNCHANGED <<locks, rows, accounts, operatorIou, lockFaults>>
    BY <1>1, Zenon DEF vars
  <2>2. TypeOK'
    BY <2>1, Zenon DEF LockInv, TypeOK
  <2>3. OperatorInv'
    BY <2>1, Zenon DEF LockInv, OperatorInv, Paid, Escrowed
  <2>4. ASSUME NEW l \in Lock PROVE RequestInv(l)'
    <3>1. RequestInv(l)
      BY Zenon DEF LockInv
    <3>2. ObjectsInv(l)'
      BY <2>1, <3>1, Zenon DEF RequestInv, ObjectsInv, Signers
    <3>3. RowInv(l)'
      BY <2>1, <3>1, Zenon DEF RequestInv, RowInv, Signers
    <3>4. IouInv(l)'
      BY <2>1, <3>1, Zenon DEF RequestInv, IouInv, Held, Escrowed
    <3> QED BY <3>2, <3>3, <3>4, Zenon DEF RequestInv
  <2> QED BY <2>2, <2>3, <2>4, Zenon DEF LockInv, Counting
<1>2. CASE Stop
  BY <1>2, StopInv, Zenon
<1>3. ASSUME NEW l \in Lock, NEW mode \in Modes, NEW tenant \in Party, NEW landlord \in Party,
             NEW ordered \in BOOLEAN, Create(l, mode, tenant, landlord, ordered)
      PROVE  LockInv'
  <2>1. mode \in {"XRP", "IOU"}
    BY LockAssumption, Zenon
  <2> QED BY <1>3, <2>1, CreateInv, Zenon
<1>4. ASSUME NEW l \in Lock, LockStep(l) PROVE LockInv'
  <2>1. CASE AssertCounterpartyTrustLines(l)
    <3>1. locks[l].pc = "lines" /\ UNCHANGED <<rows, accounts, operatorIou, lockFaults>>
      BY <2>1, Zenon DEF AssertCounterpartyTrustLines, At
    <3>2. CASE Go(l, "wallet")
      BY <3>1, <3>2, EarlyInv, Zenon
    <3>3. CASE Throw(l)
      BY <3>1, <3>3, ThrowInv, Zenon DEF Unescrowed
    <3> QED BY <2>1, <3>2, <3>3, Zenon DEF AssertCounterpartyTrustLines
  <2>2. CASE GenerateAndFundWallet(l)
    <3>1. locks[l].pc = "wallet" /\ UNCHANGED <<rows, accounts, operatorIou>>
      BY <2>2, Zenon DEF GenerateAndFundWallet, At
    <3>2. CASE /\ Go(l, IF locks[l].mode = "IOU" THEN "balance" ELSE "row")
               /\ UNCHANGED lockFaults
      <4>1. PICK pc \in {"wallet", "balance", "trust", "row", "deposit"} :
                pc = IF locks[l].mode = "IOU" THEN "balance" ELSE "row"
        BY Zenon
      <4>2. Go(l, pc)
        BY <3>2, <4>1, Zenon
      <4> QED BY <3>1, <3>2, <4>1, <4>2, EarlyInv, Zenon
    <3>3. CASE Throw(l) /\ Fault
      BY <3>1, <3>3, ThrowInv, Zenon DEF Fault
    <3> QED BY <2>2, <3>2, <3>3, Zenon DEF GenerateAndFundWallet
  <2>3. CASE CheckOperatorBalance(l)
    <3>1. locks[l].pc = "balance" /\ UNCHANGED <<rows, accounts, operatorIou, lockFaults>>
      BY <2>3, Zenon DEF CheckOperatorBalance, At
    <3>2. CASE Go(l, "trust")
      BY <3>1, <3>2, EarlyInv, Zenon
    <3>3. CASE Throw(l)
      <4>1. locks[l].pc \in Unescrowed /\ locks[l].pc \notin {"idle", "done", "failed"}
        BY <3>1, Zenon DEF Unescrowed
      <4> QED BY <3>1, <3>3, <4>1, ThrowInv, Zenon
    <3> QED BY <2>3, <3>2, <3>3, Zenon DEF CheckOperatorBalance
  <2>4. CASE SubmitTrustSet(l)
    BY <2>4, TrustSetInv, Zenon
  <2>5. CASE FundFromOperator(l)
    BY <2>5, FundInv, Zenon
  <2>6. CASE CreateRow(l)
    BY <2>6, RowCreated, Zenon
  <2>7. CASE LockDeposit(l)
    BY <2>7, EscrowInv, LockAssumption, Zenon DEF LockDeposit, At
  <2>8. CASE LockStake(l)
    BY <2>8, EscrowInv, LockAssumption, Zenon DEF LockStake, At
  <2>9. CASE SetSignerList(l)
    BY <2>9, SignersInv, Zenon
  <2>10. CASE SaveLocked(l)
    BY <2>10, SaveInv, Zenon
  <2> QED BY <1>4, <2>1, <2>2, <2>3, <2>4, <2>5, <2>6, <2>7, <2>8, <2>9, <2>10, Zenon DEF LockStep
<1> QED BY <1>1, <1>2, <1>3, <1>4, Zenon DEF Next

-----------------------------------------------------------------------------
(* Lease: what the app, its tasks and be2-ops hold, as long as be1-xrpl    *)
(* keeps LockInv.                                                          *)

Address == Party \cup {NoTx}
Hash == Lock \cup {NoTx}
Id == Contract \cup {NoTx}
Pair == Address \X Address
Kind == {"none", "connect", "counterparty", "create", "sign", "lock", "load"}
HandlerType == [pc : {"free", "look", "save", "announce"}, id : Id, row : Be2!Row, tx : Hash]
TaskType == [kind : Kind, pc : {"idle", "sent", "asked", "answered"},
             role : {"tenant", "landlord"}, id : Id, lock : Hash, row : Be2!Row, pair : Pair]
AppType == [role : {"tenant", "landlord"}, tenant : Address, landlord : Address,
            contract : Id, status : Be2!Status \cup {"none"}, escrow : Hash]
PastType == [taps : Nat, mishaps : Nat, switched : BOOLEAN, overlapped : BOOLEAN]

LeaseTypes ==
    /\ contracts \in [Contract -> Be2!Row]
    /\ handlers \in [Task \cup Desk -> HandlerType]
    /\ app \in AppType
    /\ tasks \in [Task -> TaskType]
    /\ parties \in [Contract -> Pair]
    /\ lockedFor \in [Lock -> Id]
    /\ past \in PastType

Locked(l) == l # NoTx => rows[l] = "locked"

\* Only locked deposits are known: to the app, to be2-ops and to its requests.
AppKnows == Locked(app.escrow)
ContractKnows(c) == Locked(contracts[c].hash)
HandlerKnows(h) ==
    /\ Locked(handlers[h].row.hash)
    /\ handlers[h].pc # "free" => handlers[h].id \in Contract
TaskKnows(t) ==
    /\ tasks[t].pc # "idle" /\ tasks[t].kind = "lock"
           => tasks[t].lock \in Lock /\ tasks[t].id \in Contract
    /\ tasks[t].pc \in {"asked", "answered"} /\ tasks[t].kind = "lock" => rows[tasks[t].lock] = "locked"

Knowing ==
    /\ AppKnows
    /\ \A c \in Contract : ContractKnows(c)
    /\ \A h \in Task \cup Desk : HandlerKnows(h)
    /\ \A t \in Task : TaskKnows(t)

\* While no role was switched under a wallet on its way, each address is the
\* wallet of its role, and what is made for the parties is made for these two.
Parties == <<WalletOf["tenant"], WalletOf["landlord"]>>

TaskPaired(t) ==
    /\ Waiting(t, "connect") => tasks[t].role = app.role
    /\ tasks[t].pc # "idle" /\ tasks[t].kind \in {"create", "sign"} => tasks[t].pair = Parties

Paired ==
    ~past.switched =>
        /\ app.tenant \in {NoTx, WalletOf["tenant"]} /\ app.landlord \in {NoTx, WalletOf["landlord"]}
        /\ \A t \in Task : TaskPaired(t)
        /\ \A c \in Contract : contracts[c].status # "none" => parties[c] = Parties
        /\ \A l \in Lock : locks[l].pc # "idle" => <<locks[l].tenant, locks[l].landlord>> = Parties

\* A row and a request that hold a hash belong to a contract.
Made ==
    /\ \A c \in Contract : contracts[c].hash # NoTx => contracts[c].status # "none"
    /\ \A h \in Task \cup Desk : handlers[h].pc # "free" =>
           contracts[handlers[h].id].status # "none" /\ handlers[h].row.status # "none"

LeaseInv ==
    /\ LockInv
    /\ LeaseTypes
    /\ Knowing
    /\ Made
    /\ Paired

-----------------------------------------------------------------------------
(* Orphans.                                                                *)

Calm == past.mishaps + lockFaults = 0 /\ ~past.overlapped
Ended == {"active", "closed", "cancelled"}

\* What is locked for a contract stays with it.
ForContract(c) == contracts[c].hash # NoTx => lockedFor[contracts[c].hash] = c
ForHandler(h) == handlers[h].row.hash # NoTx => lockedFor[handlers[h].row.hash] = handlers[h].id
ForTask(t) == tasks[t].pc # "idle" /\ tasks[t].kind = "lock" => lockedFor[tasks[t].lock] = tasks[t].id

ForInv ==
    /\ \A l \in Lock : locks[l].pc = "idle" <=> lockedFor[l] = NoTx
    /\ \A c \in Contract : ForContract(c)
    /\ \A h \in Task \cup Desk : ForHandler(h)
    /\ \A t \in Task : ForTask(t)

\* In calm, one request is in flight, with the row as the table has it.
FreshRow(h) ==
    IF handlers[h].tx = NoTx
    THEN /\ handlers[h].pc = "save"
         /\ handlers[h].row.hash = contracts[handlers[h].id].hash
         /\ handlers[h].row.status \in Be2!Allowed[contracts[handlers[h].id].status]
    ELSE /\ handlers[h].row.hash = handlers[h].tx
         /\ contracts[handlers[h].id].status \notin Ended
         /\ h \in Task

FreshInv ==
    \A h \in Task \cup Desk : handlers[h].pc # "free" =>
        /\ \A g \in Task \cup Desk : handlers[g].pc # "free" => g = h
        /\ handlers[h].pc \in {"look", "save"} => FreshRow(h)

\* Where the deposit of a lock is, or why it is nowhere.
Tracked(l) ==
    \/ \E t \in Task : tasks[t].kind = "lock" /\ tasks[t].lock = l /\ tasks[t].pc = "sent"
    \/ \E t \in Task : handlers[t].tx = l /\ handlers[t].pc \in {"look", "save"}
    \/ contracts[lockedFor[l]].hash = l
    \/ \E k \in Lock \ {l} : lockedFor[k] = lockedFor[l]
    \/ contracts[lockedFor[l]].status \in Ended

TrackedInv == \A l \in Lock : locks[l].pc \notin {"idle", "failed"} => Tracked(l)

OrphanInv ==
    /\ ForInv
    /\ Calm => FreshInv /\ TrackedInv

-----------------------------------------------------------------------------
(* Types.                                                                  *)

\* A task as it is sent.
LEMMA SentFields ==
    ASSUME LeaseTypes, NEW kind \in Kind
    PROVE  /\ Sent(kind) \in TaskType
           /\ Sent(kind).kind = kind /\ Sent(kind).pc = "sent" /\ Sent(kind).role = app.role
           /\ Sent(kind).id = app.contract /\ Sent(kind).pair = <<app.tenant, app.landlord>>
<1>1. Rest \in TaskType /\ Rest.row \in Be2!Row
  BY Zenon DEF Rest, TaskType, Kind, Id, Hash, Pair, Address, Be2!Row, Be2!Absent
<1>2. app \in AppType
  BY Zenon DEF LeaseTypes
<1> QED BY <1>1, <1>2, Zenon DEF Sent, TaskType, AppType, Pair, Be2!Row

\* A task at rest.
LEMMA RestFields == Rest \in TaskType /\ Rest.pc = "idle" /\ Rest.kind = "none"
  BY Zenon DEF Rest, TaskType, Kind, Id, Hash, Pair, Address, Be2!Row, Be2!Absent

\* No request at all.
LEMMA FreeFields ==
    /\ Be2!Free \in HandlerType /\ Be2!Free.pc = "free" /\ Be2!Free.row.hash = NoTx
    /\ Be2!Free.tx = NoTx
  BY Zenon DEF Be2!Free, Be2!Absent, Be2!Row, HandlerType, Id, Hash

\* Tapping keeps the types.
LEMMA TapTypes ==
    ASSUME LeaseTypes, NEW t \in Task, NEW task \in TaskType, Tap(t, task)
    PROVE  /\ tasks' \in [Task -> TaskType] /\ past' \in PastType
           /\ tasks'[t] = task /\ tasks[t].pc = "idle" /\ handlers[t].pc = "free"
           /\ \A u \in Task \ {t} : tasks'[u] = tasks[u]
           /\ past'.mishaps = past.mishaps /\ past'.switched = past.switched
           /\ past'.overlapped = past.overlapped
<1>1. tasks \in [Task -> TaskType] /\ past \in PastType
  BY Zenon DEF LeaseTypes
<1>2. tasks' = [tasks EXCEPT ![t] = task] /\ past' = [past EXCEPT !.taps = @ + 1]
      /\ tasks[t].pc = "idle" /\ handlers[t].pc = "free"
  BY Zenon DEF Tap
<1>3. /\ tasks' \in [Task -> TaskType] /\ tasks'[t] = task
      /\ \A u \in Task \ {t} : tasks'[u] = tasks[u]
  BY <1>1, <1>2, Zenon
<1>4. /\ past' \in PastType /\ past'.mishaps = past.mishaps /\ past'.switched = past.switched
      /\ past'.overlapped = past.overlapped
  BY <1>1, <1>2 DEF PastType
<1> QED BY <1>2, <1>3, <1>4, Zenon

\* So does ending a task.
LEMMA EndTypes ==
    ASSUME LeaseTypes, NEW t \in Task, End(t)
    PROVE  /\ tasks' \in [Task -> TaskType] /\ tasks'[t] = Rest
           /\ \A u \in Task \ {t} : tasks'[u] = tasks[u]
  BY RestFields, Zenon DEF LeaseTypes, End

-----------------------------------------------------------------------------
(* What the other parts may rely on of be1-xrpl.                           *)

\* A step of a request moves it on, or ends it.
LEMMA LockStepMoves ==
    ASSUME LockInv, NEW l \in Lock, LockStep(l)
    PROVE  /\ locks[l].pc \notin {"idle", "done", "failed"}
           /\ \E pc : pc # "idle" /\ Go(l, pc)
           /\ \E r : rows' = [rows EXCEPT ![l] = r]
           /\ lockFaults' \in {lockFaults, lockFaults + 1}
<1> USE DEF At, Answered, Throw, Refused, Fault
<1>1. rows = [rows EXCEPT ![l] = rows[l]]
  BY Zenon DEF LockInv, TypeOK
<1>2. CASE AssertCounterpartyTrustLines(l) \/ CheckOperatorBalance(l)
  BY <1>1, <1>2, Zenon DEF AssertCounterpartyTrustLines, CheckOperatorBalance
<1>3. CASE GenerateAndFundWallet(l)
  BY <1>1, <1>3, Zenon DEF GenerateAndFundWallet
<1>4. CASE SubmitTrustSet(l)
  BY <1>1, <1>4, Zenon DEF SubmitTrustSet
<1>5. CASE FundFromOperator(l)
  BY <1>1, <1>5, Zenon DEF FundFromOperator
<1>6. CASE CreateRow(l)
  BY <1>1, <1>6, Zenon DEF CreateRow
<1>7. CASE LockDeposit(l)
  BY <1>1, <1>7, Zenon DEF LockDeposit, CreateEscrow
<1>8. CASE LockStake(l)
  BY <1>1, <1>8, Zenon DEF LockStake, CreateEscrow
<1>9. CASE SetSignerList(l)
  BY <1>1, <1>9, Zenon DEF SetSignerList
<1>10. CASE SaveLocked(l)
  BY <1>1, <1>10, Zenon DEF SaveLocked
<1> QED BY <1>2, <1>3, <1>4, <1>5, <1>6, <1>7, <1>8, <1>9, <1>10, Zenon DEF LockStep

Steady(l) ==
    /\ rows[l] = "locked" => rows'[l] = "locked"
    /\ locks[l].pc # "idle" =>
         /\ locks'[l].pc # "idle"
         /\ locks'[l].tenant = locks[l].tenant /\ locks'[l].landlord = locks[l].landlord
    /\ locks[l].pc = "failed" => locks'[l].pc = "failed"

\* A locked row stays locked; a request that was made keeps its parties, and
\* one that failed stays failed.
LEMMA LockSteady ==
    ASSUME LockInv, [Next]_vars
    PROVE  (\A l \in Lock : Steady(l)) /\ lockFaults' >= lockFaults
<1>1. locks \in [Lock -> Request] /\ rows \in [Lock -> {"none", "pending", "locked"}]
      /\ lockFaults \in Nat
  BY Zenon DEF LockInv, TypeOK, Request
<1>2. CASE UNCHANGED vars
  BY <1>1, <1>2 DEF vars, Steady
<1>3. CASE Stop
  <2>1. rows' = rows /\ lockFaults' = lockFaults + 1
    BY <1>3, Zenon DEF Stop, Fault
  <2>2. ASSUME NEW l \in Lock PROVE Steady(l)
    <3>1. locks'[l] = IF locks[l].pc \in {"idle", "done", "failed"} THEN locks[l]
                      ELSE [locks[l] EXCEPT !.pc = "failed"]
      BY <1>3, Zenon DEF Stop
    <3> QED BY <1>1, <2>1, <3>1, Zenon DEF Steady, Request
  <2> QED BY <1>1, <2>1, <2>2
<1>4. ASSUME NEW l \in Lock, NEW mode, NEW tenant, NEW landlord, NEW ordered,
             Create(l, mode, tenant, landlord, ordered)
      PROVE  (\A k \in Lock : Steady(k)) /\ lockFaults' >= lockFaults
  <2>1. rows' = rows /\ lockFaults' = lockFaults /\ locks[l].pc = "idle"
        /\ \A k \in Lock \ {l} : locks'[k] = locks[k]
    BY <1>1, <1>4, Zenon DEF Create, At
  <2> QED BY <1>1, <2>1 DEF Steady
<1>5. ASSUME NEW l \in Lock, LockStep(l)
      PROVE  (\A k \in Lock : Steady(k)) /\ lockFaults' >= lockFaults
  <2>1. locks[l].pc \notin {"idle", "done", "failed"} /\ rows[l] # "locked"
        /\ lockFaults' \in {lockFaults, lockFaults + 1}
    BY <1>5, LockStepMoves, Zenon DEF LockInv, RequestInv, RowInv
  <2>2. PICK pc : pc # "idle" /\ locks' = [locks EXCEPT ![l].pc = pc]
    BY <1>5, LockStepMoves, Zenon DEF Go
  <2>3. PICK r : rows' = [rows EXCEPT ![l] = r]
    BY <1>5, LockStepMoves, Zenon
  <2>4. ASSUME NEW k \in Lock PROVE Steady(k)
    BY <1>1, <2>1, <2>2, <2>3 DEF Steady, Request
  <2> QED BY <1>1, <2>1, <2>4
<1> QED BY <1>2, <1>3, <1>4, <1>5, Zenon DEF Next

\* Nothing moves at be1-xrpl.
LEMMA Be1Quiet ==
    ASSUME LeaseInv, UNCHANGED vars
    PROVE  /\ LockInv' /\ locks' = locks /\ rows' = rows /\ accounts' = accounts
           /\ lockFaults' = lockFaults /\ \A l \in Hash : Locked(l)' <=> Locked(l)
  BY LockNext, Zenon DEF LeaseInv, vars, Locked

-----------------------------------------------------------------------------
(* Steps of the app.                                                       *)

TaskKept(t) ==
    \/ tasks'[t] = tasks[t]
    \/ TaskKnows(t)' /\ (~past.switched => TaskPaired(t)')

\* A step that changes tasks only.
LEMMA TasksKept ==
    ASSUME LeaseInv, UNCHANGED <<vars, contracts, handlers, app, parties, lockedFor>>,
           tasks' \in [Task -> TaskType], past' \in PastType, past'.switched = past.switched,
           \A t \in Task : TaskKept(t)
    PROVE  LeaseInv'
<1>1. /\ LockInv' /\ locks' = locks /\ rows' = rows
      /\ \A l \in Hash : Locked(l)' <=> Locked(l)
  BY Be1Quiet, Zenon
<1>2. LeaseTypes'
  BY Zenon DEF LeaseInv, LeaseTypes
<1>3. Knowing'
  <2>1. AppKnows'
    BY <1>1, Zenon DEF LeaseInv, Knowing, AppKnows, Locked
  <2>2. ASSUME NEW c \in Contract PROVE ContractKnows(c)'
    BY <1>1, Zenon DEF LeaseInv, Knowing, ContractKnows, Locked
  <2>3. ASSUME NEW h \in Task \cup Desk PROVE HandlerKnows(h)'
    BY <1>1, Zenon DEF LeaseInv, Knowing, HandlerKnows, Locked
  <2>4. ASSUME NEW t \in Task PROVE TaskKnows(t)'
    <3>1. TaskKept(t) /\ TaskKnows(t)
      BY Zenon DEF LeaseInv, Knowing
    <3> QED BY <1>1, <3>1, Zenon DEF TaskKept, TaskKnows
  <2> QED BY <2>1, <2>2, <2>3, <2>4, Zenon DEF Knowing
<1>4. Made'
  BY Zenon DEF LeaseInv, Made
<1>5. Paired'
  <2>1. ASSUME Paired, ~past.switched, NEW t \in Task PROVE TaskPaired(t)'
    <3>1. TaskKept(t) /\ TaskPaired(t)
      BY <2>1, Zenon DEF Paired
    <3> QED BY <2>1, <3>1, Zenon DEF TaskKept, TaskPaired, Waiting
  <2> QED BY <1>1, <2>1, Zenon DEF LeaseInv, Paired
<1> QED BY <1>1, <1>2, <1>3, <1>4, <1>5, Zenon DEF LeaseInv

\* A task that rests knows and promises nothing.
LEMMA EndInv ==
    ASSUME LeaseInv, NEW t \in Task, End(t),
           UNCHANGED <<vars, contracts, handlers, app, parties, lockedFor>>,
           past' \in PastType, past'.switched = past.switched
    PROVE  LeaseInv'
<1>1. /\ tasks' \in [Task -> TaskType] /\ tasks'[t] = Rest
      /\ \A u \in Task \ {t} : tasks'[u] = tasks[u]
  BY EndTypes, Zenon DEF LeaseInv
<1>2. TaskKnows(t)' /\ TaskPaired(t)'
  BY <1>1, RestFields, Zenon DEF TaskKnows, TaskPaired, Waiting
<1>3. \A u \in Task : TaskKept(u)
  BY <1>1, <1>2, Zenon DEF TaskKept
<1> QED BY <1>1, <1>3, TasksKept, Zenon

\* The addresses of the app, while no role was switched.
LEMMA BothParties ==
    ASSUME LeaseInv, Both, ~past.switched
    PROVE  <<app.tenant, app.landlord>> = Parties
  BY Zenon DEF LeaseInv, Paired, Both, Parties

\* A tap of a button, the deposit's excepted.
LEMMA TapInv ==
    ASSUME LeaseInv, NEW t \in Task,
           \/ ConnectWallet(t) \/ ConnectCounterpartyWallet(t)
           \/ \E kind \in {"create", "sign"} : CreateDraftContract(t, kind)
           \/ LandlordSignContract(t) \/ LoadSettlements(t)
    PROVE  LeaseInv'
<1> DEFINE Good(kind, task) ==
        /\ Tap(t, task) /\ UNCHANGED <<vars, contracts, handlers, app, parties, lockedFor>>
        /\ task.kind = kind /\ task.pc = "sent" /\ task.pair = <<app.tenant, app.landlord>>
        /\ kind = "connect" => task.role = app.role
        /\ kind \in {"create", "sign"} => Both
<1>1. PICK kind \in Kind \ {"none", "lock"}, task \in TaskType : Good(kind, task)
  <2>1. LeaseTypes
    BY Zenon DEF LeaseInv
  <2>2. CASE ConnectWallet(t)
    <3>1. "connect" \in Kind \ {"none", "lock"}
      BY Zenon DEF Kind
    <3> QED BY <2>1, <2>2, <3>1, SentFields, Zenon DEF ConnectWallet, be2Vars
  <2>3. CASE ConnectCounterpartyWallet(t)
    <3>1. "counterparty" \in Kind \ {"none", "lock"}
      BY Zenon DEF Kind
    <3>2. PICK task : task = [Sent("counterparty") EXCEPT !.role = Other(app.role)]
      BY Zenon
    <3>3. Other(app.role) \in {"tenant", "landlord"}
      BY Zenon DEF Other
    <3>4. task \in TaskType /\ task.kind = "counterparty" /\ task.pc = "sent"
          /\ task.pair = <<app.tenant, app.landlord>>
      BY <2>1, <3>1, <3>2, <3>3, SentFields DEF TaskType
    <3> QED BY <2>3, <3>1, <3>2, <3>4, Zenon DEF ConnectCounterpartyWallet, be2Vars
  <2>4. ASSUME NEW kind \in {"create", "sign"}, CreateDraftContract(t, kind)
        PROVE  \E task \in TaskType : Good(kind, task)
    <3>1. kind \in Kind
      BY Zenon DEF Kind
    <3> QED BY <2>1, <2>4, <3>1, SentFields, Zenon DEF CreateDraftContract, be2Vars
  <2>5. CASE LandlordSignContract(t)
    <3>1. "sign" \in Kind \ {"none", "lock"}
      BY Zenon DEF Kind
    <3> QED BY <2>1, <2>5, <3>1, SentFields, Zenon DEF LandlordSignContract, be2Vars
  <2>6. CASE LoadSettlements(t)
    <3>1. "load" \in Kind \ {"none", "lock"}
      BY Zenon DEF Kind
    <3> QED BY <2>1, <2>6, <3>1, SentFields, Zenon DEF LoadSettlements, be2Vars
  <2>7. {"create", "sign"} \subseteq Kind \ {"none", "lock"}
    BY Zenon DEF Kind
  <2> QED BY <2>2, <2>3, <2>4, <2>5, <2>6, <2>7, Zenon
<1>2. /\ tasks' \in [Task -> TaskType] /\ past' \in PastType
      /\ tasks'[t] = task /\ \A u \in Task \ {t} : tasks'[u] = tasks[u]
      /\ past'.switched = past.switched
  BY <1>1, TapTypes, Zenon DEF LeaseInv
<1>3. TaskKnows(t)'
  BY <1>1, <1>2, Zenon DEF TaskKnows
<1>4. ASSUME ~past.switched PROVE TaskPaired(t)'
  <2>1. kind \in {"create", "sign"} => task.pair = Parties
    BY <1>1, <1>4, BothParties, Zenon
  <2>2. app' = app /\ kind # "connect" => task.kind # "connect"
    BY <1>1, Zenon
  <2> QED BY <1>1, <1>2, <2>1, Zenon DEF TaskPaired, Waiting, Parties
<1>5. \A u \in Task : TaskKept(u)
  BY <1>2, <1>3, <1>4, Zenon DEF TaskKept
<1> QED BY <1>1, <1>2, <1>5, TasksKept, Zenon

AppPaired ==
    ~past.switched => /\ app.tenant \in {NoTx, WalletOf["tenant"]}
                      /\ app.landlord \in {NoTx, WalletOf["landlord"]}
                      /\ \A t \in Task : TaskPaired(t)

\* A step that changes the app and its tasks only.
LEMMA AppKept ==
    ASSUME LeaseInv, UNCHANGED <<vars, contracts, handlers, parties, lockedFor>>,
           app' \in AppType, tasks' \in [Task -> TaskType], past' \in PastType,
           past.switched => past'.switched,
           AppKnows', \A t \in Task : tasks'[t] \in {tasks[t], Rest}, AppPaired'
    PROVE  LeaseInv'
<1>1. /\ LockInv' /\ locks' = locks /\ rows' = rows
      /\ \A l \in Hash : Locked(l)' <=> Locked(l)
  BY Be1Quiet, Zenon
<1>2. LeaseTypes'
  BY Zenon DEF LeaseInv, LeaseTypes
<1>3. Knowing'
  <2>1. ASSUME NEW c \in Contract PROVE ContractKnows(c)'
    BY <1>1, Zenon DEF LeaseInv, Knowing, ContractKnows, Locked
  <2>2. ASSUME NEW h \in Task \cup Desk PROVE HandlerKnows(h)'
    BY <1>1, Zenon DEF LeaseInv, Knowing, HandlerKnows, Locked
  <2>3. ASSUME NEW t \in Task PROVE TaskKnows(t)'
    <3>1. TaskKnows(t) /\ tasks'[t] \in {tasks[t], Rest}
      BY Zenon DEF LeaseInv, Knowing
    <3> QED BY <1>1, <3>1, RestFields, Zenon DEF TaskKnows
  <2> QED BY <2>1, <2>2, <2>3, Zenon DEF Knowing
<1>4. Made'
  BY Zenon DEF LeaseInv, Made
<1>5. Paired'
  BY <1>1, Zenon DEF LeaseInv, Paired, AppPaired
<1> QED BY <1>1, <1>2, <1>3, <1>4, <1>5, Zenon DEF LeaseInv

\* The other role is chosen; a wallet on its way makes that a switch.
LEMMA SelectInv ==
    ASSUME LeaseInv, NEW role \in {"tenant", "landlord"}, SelectRole(role)
    PROVE  LeaseInv'
<1>1. /\ app \in AppType /\ past \in PastType /\ tasks \in [Task -> TaskType]
      /\ AppKnows /\ Paired
  BY Zenon DEF LeaseInv, LeaseTypes, Knowing
<1>2. /\ app' = [app EXCEPT !.role = role] /\ tasks' = tasks
      /\ past' = [past EXCEPT !.switched = @ \/ \E t \in Task : Waiting(t, "connect")]
      /\ UNCHANGED <<vars, contracts, handlers, parties, lockedFor>>
  BY Zenon DEF SelectRole, be2Vars
<1>3. /\ app' \in AppType /\ app'.role = role /\ app'.tenant = app.tenant
      /\ app'.landlord = app.landlord /\ app'.escrow = app.escrow
  BY <1>1, <1>2, Zenon DEF AppType
<1>4. past' \in PastType
      /\ past'.switched = (past.switched \/ \E t \in Task : Waiting(t, "connect"))
  BY <1>1, <1>2, Zenon DEF PastType
<1>5. AppKnows'
  BY <1>1, <1>2, <1>3, Zenon DEF AppKnows, Locked, vars
<1>6. AppPaired'
  <2> SUFFICES ASSUME ~past'.switched PROVE /\ app'.tenant \in {NoTx, WalletOf["tenant"]}
                                            /\ app'.landlord \in {NoTx, WalletOf["landlord"]}
                                            /\ \A t \in Task : TaskPaired(t)'
    BY Zenon DEF AppPaired
  <2>1. ~past.switched /\ \A t \in Task : ~Waiting(t, "connect")
    BY <1>4, Zenon
  <2>2. \A t \in Task : TaskPaired(t)'
    BY <1>1, <1>2, <2>1, Zenon DEF Paired, TaskPaired, Waiting
  <2> QED BY <1>1, <1>3, <2>1, <2>2, Zenon DEF Paired
<1> QED BY <1>1, <1>2, <1>3, <1>4, <1>5, <1>6, AppKept, Zenon

\* A wallet arrives for the role it was asked for, unless the role was switched.
LEMMA ConnectedInv ==
    ASSUME LeaseInv, NEW t \in Task, WalletConnected(t) \/ CounterpartyConnected(t)
    PROVE  LeaseInv'
<1>1. /\ app \in AppType /\ past \in PastType /\ tasks \in [Task -> TaskType]
      /\ AppKnows /\ Paired
  BY Zenon DEF LeaseInv, LeaseTypes, Knowing
<1>2. PICK r \in {"tenant", "landlord"} :
        /\ app' = [app EXCEPT ![r] = WalletOf[tasks[t].role]]
        /\ ~past.switched => tasks[t].role = r
  <2>1. CASE WalletConnected(t)
    <3>1. app.role \in {"tenant", "landlord"} /\ (~past.switched => tasks[t].role = app.role)
      BY <1>1, <2>1, Zenon DEF WalletConnected, Paired, TaskPaired, AppType
    <3> QED BY <2>1, <3>1, Zenon DEF WalletConnected
  <2>2. CASE CounterpartyConnected(t)
    <3>1. tasks[t].role \in {"tenant", "landlord"}
      BY <1>1, Zenon DEF TaskType
    <3> QED BY <2>2, <3>1, Zenon DEF CounterpartyConnected
  <2> QED BY <2>1, <2>2, Zenon
<1>3. End(t) /\ UNCHANGED <<vars, contracts, handlers, parties, lockedFor, past>>
  BY Zenon DEF WalletConnected, CounterpartyConnected, be2Vars
<1>4. /\ tasks' \in [Task -> TaskType] /\ tasks'[t] = Rest
      /\ \A u \in Task \ {t} : tasks'[u] = tasks[u]
  BY <1>3, EndTypes, Zenon DEF LeaseInv
<1>5. WalletOf[tasks[t].role] \in Address
  <2>1. tasks[t].role \in {"tenant", "landlord"}
    BY <1>1, Zenon DEF TaskType
  <2> QED BY <2>1, LeaseAssumption, Zenon DEF Address
<1>6. /\ app' \in AppType /\ app'.role = app.role /\ app'.escrow = app.escrow
      /\ app'.tenant = IF r = "tenant" THEN WalletOf[tasks[t].role] ELSE app.tenant
      /\ app'.landlord = IF r = "landlord" THEN WalletOf[tasks[t].role] ELSE app.landlord
  <2>1. CASE r = "tenant"
    BY <1>1, <1>2, <1>5, <2>1, Zenon DEF AppType
  <2>2. CASE r = "landlord"
    BY <1>1, <1>2, <1>5, <2>2, Zenon DEF AppType
  <2> QED BY <2>1, <2>2, Zenon
<1>7. AppKnows'
  BY <1>1, <1>3, <1>6, Zenon DEF AppKnows, Locked, vars
<1>8. AppPaired'
  <2> SUFFICES ASSUME ~past'.switched PROVE /\ app'.tenant \in {NoTx, WalletOf["tenant"]}
                                            /\ app'.landlord \in {NoTx, WalletOf["landlord"]}
                                            /\ \A u \in Task : TaskPaired(u)'
    BY Zenon DEF AppPaired
  <2>1. ~past.switched /\ \A u \in Task : TaskPaired(u)
    BY <1>1, <1>3, Zenon DEF Paired
  <2>2. ASSUME NEW u \in Task PROVE TaskPaired(u)'
    BY <1>4, <1>6, <2>1, RestFields, Zenon DEF TaskPaired, Waiting
  <2> QED BY <1>1, <1>2, <1>6, <2>1, <2>2, Zenon DEF Paired
<1>9. \A u \in Task : tasks'[u] \in {tasks[u], Rest}
  BY <1>4, Zenon
<1> QED BY <1>1, <1>3, <1>4, <1>6, <1>7, <1>8, <1>9, AppKept, Zenon

\* The answer of be2-ops: the app learns of an escrow only from a lock task.
LEMMA AnswerInv ==
    ASSUME LeaseInv, NEW t \in Task, Answer(t)
    PROVE  LeaseInv'
<1>1. /\ app \in AppType /\ past \in PastType /\ tasks \in [Task -> TaskType]
      /\ AppKnows /\ Paired /\ TaskKnows(t)
  BY Zenon DEF LeaseInv, LeaseTypes, Knowing
<1>2. /\ app' = [app EXCEPT !.contract = tasks[t].id, !.status = tasks[t].row.status,
                            !.escrow = IF tasks[t].kind = "lock" THEN tasks[t].lock ELSE @]
      /\ End(t) /\ UNCHANGED <<vars, contracts, handlers, parties, lockedFor, past>>
      /\ tasks[t].pc = "answered"
  BY Zenon DEF Answer, be2Vars
<1>3. /\ tasks' \in [Task -> TaskType] /\ tasks'[t] = Rest
      /\ \A u \in Task \ {t} : tasks'[u] = tasks[u]
  BY <1>2, EndTypes, Zenon DEF LeaseInv
<1>4. /\ app' \in AppType /\ app'.role = app.role /\ app'.tenant = app.tenant
      /\ app'.landlord = app.landlord
      /\ app'.escrow = IF tasks[t].kind = "lock" THEN tasks[t].lock ELSE app.escrow
  <2>1. tasks[t] \in TaskType
    BY <1>1, Zenon
  <2> QED BY <1>1, <1>2, <2>1, Zenon DEF AppType, TaskType, Be2!Row
<1>5. AppKnows'
  BY <1>1, <1>2, <1>4, Zenon DEF AppKnows, Locked, TaskKnows, vars
<1>6. AppPaired'
  <2>1. ASSUME ~past'.switched, NEW u \in Task PROVE TaskPaired(u)'
    BY <1>1, <1>2, <1>3, <1>4, <2>1, RestFields DEF Paired, TaskPaired, Waiting
  <2> QED BY <1>1, <1>2, <1>4, <2>1, Zenon DEF AppPaired, Paired
<1>7. \A u \in Task : tasks'[u] \in {tasks[u], Rest}
  BY <1>3, Zenon
<1> QED BY <1>1, <1>2, <1>3, <1>4, <1>5, <1>6, <1>7, AppKept, Zenon

-----------------------------------------------------------------------------
(* Steps of be2-ops.                                                       *)

HandlerMade(h) ==
    handlers[h].pc # "free" =>
        contracts[handlers[h].id].status # "none" /\ handlers[h].row.status # "none"

HandlerKept(h) == handlers'[h] = handlers[h] \/ (HandlerKnows(h)' /\ HandlerMade(h)')

\* A step that changes requests and tasks only.
LEMMA RequestsKept ==
    ASSUME LeaseInv, UNCHANGED <<vars, contracts, app, parties, lockedFor>>,
           handlers' \in [Task \cup Desk -> HandlerType],
           tasks' \in [Task -> TaskType], past' \in PastType, past'.switched = past.switched,
           \A h \in Task \cup Desk : HandlerKept(h), \A t \in Task : TaskKept(t)
    PROVE  LeaseInv'
<1>1. /\ LockInv' /\ locks' = locks /\ rows' = rows
      /\ \A l \in Hash : Locked(l)' <=> Locked(l)
  BY Be1Quiet, Zenon
<1>2. LeaseTypes'
  BY Zenon DEF LeaseInv, LeaseTypes
<1>3. Knowing'
  <2>1. AppKnows'
    BY <1>1, Zenon DEF LeaseInv, Knowing, AppKnows, Locked
  <2>2. ASSUME NEW c \in Contract PROVE ContractKnows(c)'
    BY <1>1, Zenon DEF LeaseInv, Knowing, ContractKnows, Locked
  <2>3. ASSUME NEW h \in Task \cup Desk PROVE HandlerKnows(h)'
    <3>1. HandlerKept(h) /\ HandlerKnows(h)
      BY Zenon DEF LeaseInv, Knowing
    <3> QED BY <1>1, <3>1, Zenon DEF HandlerKept, HandlerKnows, Locked
  <2>4. ASSUME NEW t \in Task PROVE TaskKnows(t)'
    <3>1. TaskKept(t) /\ TaskKnows(t)
      BY Zenon DEF LeaseInv, Knowing
    <3> QED BY <1>1, <3>1, Zenon DEF TaskKept, TaskKnows
  <2> QED BY <2>1, <2>2, <2>3, <2>4, Zenon DEF Knowing
<1>4. Made'
  <2>1. ASSUME NEW h \in Task \cup Desk PROVE HandlerMade(h)'
    <3>1. HandlerKept(h) /\ HandlerMade(h)
      BY Zenon DEF LeaseInv, Made, HandlerMade
    <3> QED BY <3>1, Zenon DEF HandlerKept, HandlerMade
  <2> QED BY <2>1, Zenon DEF LeaseInv, Made, HandlerMade
<1>5. Paired'
  <2>1. ASSUME Paired, ~past.switched, NEW t \in Task PROVE TaskPaired(t)'
    <3>1. TaskKept(t) /\ TaskPaired(t)
      BY <2>1, Zenon DEF Paired
    <3> QED BY <2>1, <3>1, Zenon DEF TaskKept, TaskPaired, Waiting
  <2> QED BY <1>1, <2>1, Zenon DEF LeaseInv, Paired
<1> QED BY <1>1, <1>2, <1>3, <1>4, <1>5, Zenon DEF LeaseInv

\* A request to be2-ops works on a contract that exists, with a hash that is
\* the contract's or a locked deposit's.
LEMMA TakenRow ==
    ASSUME LeaseInv, NEW h \in Task \cup Desk, NEW c \in Contract,
           NEW pc \in {"look", "save"}, NEW row \in Be2!Row, NEW tx \in Hash,
           Be2!Take(h, c), Be2!Hold(h, pc, c, row, tx),
           row.status # "none", Locked(row.hash), UNCHANGED vars
    PROVE  /\ handlers' \in [Task \cup Desk -> HandlerType]
           /\ contracts' = contracts /\ \A g \in Task \cup Desk : HandlerKept(g)
           /\ handlers[h].pc = "free"
           /\ handlers'[h] = [pc |-> pc, id |-> c, row |-> row, tx |-> tx]
           /\ \A g \in (Task \cup Desk) \ {h} : handlers'[g] = handlers[g]
<1>1. handlers \in [Task \cup Desk -> HandlerType]
  BY Zenon DEF LeaseInv, LeaseTypes
<1>2. PICK new : new = [pc |-> pc, id |-> c, row |-> row, tx |-> tx]
  BY Zenon
<1>3. new \in HandlerType
  BY <1>2, Zenon DEF HandlerType, Id
<1>4. handlers' = [handlers EXCEPT ![h] = new] /\ contracts' = contracts
      /\ contracts[c].status # "none" /\ handlers[h].pc = "free"
  BY <1>2, Zenon DEF Be2!Take, Be2!Hold
<1>5. /\ handlers' \in [Task \cup Desk -> HandlerType] /\ handlers'[h] = new
      /\ \A g \in (Task \cup Desk) \ {h} : handlers'[g] = handlers[g]
  BY <1>1, <1>3, <1>4, Zenon
<1>6. HandlerKnows(h)' /\ HandlerMade(h)'
  <2>1. rows' = rows
    BY Zenon DEF vars
  <2> QED BY <1>2, <1>4, <1>5, <2>1, Zenon DEF HandlerKnows, HandlerMade, Locked
<1> QED BY <1>2, <1>4, <1>5, <1>6, Zenon DEF HandlerKept

\* Asking changes no switch.
LEMMA AskTypes ==
    ASSUME LeaseTypes, Ask
    PROVE  /\ past' \in PastType /\ past'.switched = past.switched
           /\ past'.mishaps = past.mishaps
           /\ past'.overlapped = (past.overlapped
                  \/ \E h \in Task \cup Desk : handlers[h].pc # "free")
  BY Zenon DEF LeaseTypes, Ask, PastType

\* A status request.
LEMMA PatchTaken ==
    ASSUME LeaseInv, NEW h \in Task \cup Desk, NEW c \in Contract, NEW to \in Be2!Status,
           Be2!PatchStatus(h, c, to), UNCHANGED vars
    PROVE  /\ handlers' \in [Task \cup Desk -> HandlerType]
           /\ contracts' = contracts /\ \A g \in Task \cup Desk : HandlerKept(g)
           /\ handlers[h].pc = "free"
           /\ handlers'[h] = [pc |-> "save", id |-> c,
                              row |-> [contracts[c] EXCEPT !.status = to], tx |-> NoTx]
           /\ \A g \in (Task \cup Desk) \ {h} : handlers'[g] = handlers[g]
<1>1. contracts[c] \in Be2!Row /\ Locked(contracts[c].hash)
  BY Zenon DEF LeaseInv, LeaseTypes, Knowing, ContractKnows
<1>2. PICK row : row = [contracts[c] EXCEPT !.status = to]
  BY Zenon
<1>3. row \in Be2!Row /\ row.status = to /\ row.hash = contracts[c].hash /\ to # "none"
  BY <1>1, <1>2, Zenon DEF Be2!Row, Be2!Status
<1>4. Be2!Take(h, c) /\ Be2!Hold(h, "save", c, row, NoTx) /\ NoTx \in Hash
  BY <1>2, Zenon DEF Be2!PatchStatus, Hash
<1> QED BY <1>1, <1>2, <1>3, <1>4, TakenRow, Zenon

\* An anchor request for a deposit that is locked.
LEMMA AnchorTaken ==
    ASSUME LeaseInv, NEW h \in Task, NEW c \in Contract, NEW l \in Lock,
           Be2!AnchorEscrow(h, c, l), rows[l] = "locked", UNCHANGED vars
    PROVE  /\ handlers' \in [Task \cup Desk -> HandlerType]
           /\ contracts' = contracts /\ \A g \in Task \cup Desk : HandlerKept(g)
           /\ handlers[h].pc = "free"
           /\ handlers'[h] = [pc |-> "look", id |-> c, row |-> Be2!Anchored(contracts[c], l),
                              tx |-> l]
           /\ \A g \in (Task \cup Desk) \ {h} : handlers'[g] = handlers[g]
<1>1. contracts[c] \in Be2!Row
  BY Zenon DEF LeaseInv, LeaseTypes
<1>2. PICK row : row = Be2!Anchored(contracts[c], l)
  BY Zenon
<1>3. Be2!Take(h, c) /\ Be2!Hold(h, "look", c, row, l) /\ l \in Hash /\ contracts[c].status # "none"
  BY <1>2, Zenon DEF Be2!AnchorEscrow, Be2!Take, Hash
<1>4. row \in Be2!Row /\ row.hash = l /\ row.status # "none"
  BY <1>1, <1>2, <1>3, Zenon DEF Be2!Row, Be2!Status, Be2!Anchored, Hash
<1>5. Locked(row.hash)
  BY <1>4, Zenon DEF Locked
<1> QED BY <1>2, <1>3, <1>4, <1>5, TakenRow, Zenon

\* The task waits for be2-ops now.
LEMMA AskedKept ==
    ASSUME LeaseInv, NEW t \in Task, tasks' = [tasks EXCEPT ![t].pc = "asked"],
           UNCHANGED <<vars, app>>,
           tasks[t].pc = "sent", tasks[t].kind = "lock" => rows[tasks[t].lock] = "locked"
    PROVE  /\ tasks' \in [Task -> TaskType] /\ \A u \in Task : TaskKept(u)
           /\ tasks'[t].kind = tasks[t].kind /\ tasks'[t].lock = tasks[t].lock
           /\ tasks'[t].id = tasks[t].id /\ tasks'[t].pc = "asked"
           /\ \A u \in Task \ {t} : tasks'[u] = tasks[u]
<1>1. tasks \in [Task -> TaskType] /\ TaskKnows(t) /\ (~past.switched => TaskPaired(t))
  BY Zenon DEF LeaseInv, LeaseTypes, Knowing, Paired
<1>2. /\ tasks' \in [Task -> TaskType] /\ tasks'[t] = [tasks[t] EXCEPT !.pc = "asked"]
      /\ \A u \in Task \ {t} : tasks'[u] = tasks[u]
  BY <1>1 DEF TaskType
<1>3. /\ tasks'[t].kind = tasks[t].kind /\ tasks'[t].lock = tasks[t].lock
      /\ tasks'[t].id = tasks[t].id /\ tasks'[t].pair = tasks[t].pair /\ tasks'[t].pc = "asked"
  BY <1>1, <1>2 DEF TaskType
<1>4. TaskKnows(t)' /\ (~past.switched => TaskPaired(t)')
  BY <1>1, <1>3, Zenon DEF TaskKnows, TaskPaired, Waiting, vars
<1> QED BY <1>2, <1>3, <1>4, Zenon DEF TaskKept

\* Signing.
LEMMA SignatureInv ==
    ASSUME LeaseInv, NEW t \in Task, SendSignature(t)
    PROVE  LeaseInv'
<1>1. /\ tasks[t].pc = "sent" /\ tasks[t].kind = "sign" /\ tasks[t].id \in Contract
      /\ UNCHANGED <<vars, app, parties, lockedFor>> /\ LeaseTypes
  BY Zenon DEF SendSignature, Waiting, LeaseInv, LeaseTypes, TaskType, Id
<1>2. CASE /\ Be2!PatchStatus(t, tasks[t].id, "escrow_pending")
           /\ tasks' = [tasks EXCEPT ![t].pc = "asked"] /\ Ask
  <2>1. t \in Task \cup Desk /\ "escrow_pending" \in Be2!Status
    BY Zenon DEF Be2!Status
  <2>2. /\ handlers' \in [Task \cup Desk -> HandlerType]
        /\ contracts' = contracts /\ \A g \in Task \cup Desk : HandlerKept(g)
    BY <1>1, <1>2, <2>1, PatchTaken, Zenon
  <2>3. tasks' \in [Task -> TaskType] /\ \A u \in Task : TaskKept(u)
    BY <1>1, <1>2, AskedKept, Zenon
  <2>4. past' \in PastType /\ past'.switched = past.switched
    BY <1>1, <1>2, AskTypes, Zenon
  <2> QED BY <1>1, <2>2, <2>3, <2>4, RequestsKept, Zenon
<1>3. CASE End(t) /\ UNCHANGED <<be2Vars, past>>
  BY <1>1, <1>3, EndInv, Zenon DEF be2Vars, LeaseTypes
<1> QED BY <1>2, <1>3, Zenon DEF SendSignature

\* Anchoring: the request to be1-xrpl is done, so its row is locked.
LEMMA AnchorInv ==
    ASSUME LeaseInv, NEW t \in Task, Anchor(t)
    PROVE  LeaseInv'
<1>1. /\ tasks[t].pc = "sent" /\ tasks[t].kind = "lock" /\ tasks[t].id \in Contract
      /\ tasks[t].lock \in Lock
      /\ UNCHANGED <<vars, app, parties, lockedFor>> /\ LeaseTypes
  BY Zenon DEF Anchor, Waiting, LeaseInv, Knowing, TaskKnows
<1>2. CASE /\ At(tasks[t].lock, "done") /\ Be2!AnchorEscrow(t, tasks[t].id, tasks[t].lock)
           /\ tasks' = [tasks EXCEPT ![t].pc = "asked"] /\ Ask
  <2>1. rows[tasks[t].lock] = "locked"
    BY <1>1, <1>2, Zenon DEF LeaseInv, LockInv, RequestInv, RowInv, At
  <2>2. /\ handlers' \in [Task \cup Desk -> HandlerType]
        /\ contracts' = contracts /\ \A g \in Task \cup Desk : HandlerKept(g)
    BY <1>1, <1>2, <2>1, AnchorTaken, Zenon
  <2>3. tasks' \in [Task -> TaskType] /\ \A u \in Task : TaskKept(u)
    BY <1>1, <1>2, <2>1, AskedKept, Zenon
  <2>4. past' \in PastType /\ past'.switched = past.switched
    BY <1>1, <1>2, AskTypes, Zenon
  <2> QED BY <1>1, <2>2, <2>3, <2>4, RequestsKept, Zenon
<1>3. CASE End(t) /\ UNCHANGED <<be2Vars, past>>
  BY <1>1, <1>3, EndInv, Zenon DEF be2Vars, LeaseTypes
<1> QED BY <1>2, <1>3, Zenon DEF Anchor

\* An operator's request.
LEMMA DeskInv ==
    ASSUME LeaseInv, NEW h \in Desk, DeskPatches(h)
    PROVE  LeaseInv'
<1>1. UNCHANGED <<vars, app, tasks, parties, lockedFor>> /\ Ask /\ LeaseTypes
      /\ h \in Task \cup Desk
  BY Zenon DEF DeskPatches, LeaseInv
<1>2. PICK c \in Contract, to \in Be2!Status : Be2!PatchStatus(h, c, to)
  BY Zenon DEF DeskPatches
<1>3. /\ handlers' \in [Task \cup Desk -> HandlerType]
      /\ contracts' = contracts /\ \A g \in Task \cup Desk : HandlerKept(g)
  BY <1>1, <1>2, PatchTaken, Zenon
<1>4. past' \in PastType /\ past'.switched = past.switched
  BY <1>1, AskTypes, Zenon
<1>5. tasks' \in [Task -> TaskType] /\ \A u \in Task : TaskKept(u)
  BY <1>1, Zenon DEF LeaseTypes, TaskKept
<1> QED BY <1>1, <1>3, <1>4, <1>5, RequestsKept, Zenon

\* A request that is over holds nothing.
LEMMA FreedInv ==
    ASSUME LeaseInv, NEW h \in Task \cup Desk, handlers' = [handlers EXCEPT ![h] = Be2!Free],
           UNCHANGED <<vars, contracts, app, parties, lockedFor>>,
           tasks' \in [Task -> TaskType], past' \in PastType, past'.switched = past.switched,
           \A t \in Task : TaskKept(t)
    PROVE  LeaseInv'
<1>1. handlers \in [Task \cup Desk -> HandlerType]
  BY Zenon DEF LeaseInv, LeaseTypes
<1>2. /\ handlers' \in [Task \cup Desk -> HandlerType] /\ handlers'[h] = Be2!Free
      /\ \A g \in (Task \cup Desk) \ {h} : handlers'[g] = handlers[g]
  BY <1>1, FreeFields, Zenon
<1>3. HandlerKnows(h)' /\ HandlerMade(h)'
  BY <1>2, FreeFields, Zenon DEF HandlerKnows, HandlerMade, Locked
<1>4. \A g \in Task \cup Desk : HandlerKept(g)
  BY <1>2, <1>3, Zenon DEF HandlerKept
<1> QED BY <1>2, <1>4, RequestsKept, Zenon

\* A lookup and an announcement.
LEMMA Be2StepInv ==
    ASSUME LeaseInv, NEW h \in Task \cup Desk, Be2Step(h)
    PROVE  LeaseInv'
<1>1. /\ UNCHANGED <<vars, contracts, app, tasks, parties, lockedFor, past>> /\ LeaseTypes
      /\ Knowing /\ Made
  BY Zenon DEF Be2Step, LeaseInv, Be2!LookUp, Be2!Announce, appVars
<1>2. handlers \in [Task \cup Desk -> HandlerType] /\ HandlerKnows(h) /\ HandlerMade(h)
  BY <1>1, Zenon DEF LeaseTypes, Knowing, Made, HandlerMade
<1>3. CASE Be2!LookUp(h)
  <2>1. PICK s : /\ handlers' = [handlers EXCEPT ![h].pc = "save", ![h].row.status = s]
                 /\ s = handlers[h].row.status \/ s = "escrow_validated"
    BY <1>3, Zenon DEF Be2!LookUp
  <2>2. handlers[h].pc = "look"
    BY <1>3, Zenon DEF Be2!LookUp
  <2>3. PICK new : new = [handlers[h] EXCEPT !.pc = "save", !.row = [handlers[h].row EXCEPT !.status = s]]
    BY Zenon
  <2>4. handlers' = [handlers EXCEPT ![h] = new]
    BY <1>2, <2>1, <2>3, Zenon
  <2>5. handlers[h] \in HandlerType /\ s \in Be2!Status \cup {"none"}
    BY <1>2, <2>1, Zenon DEF HandlerType, Be2!Row, Be2!Status
  <2>6. /\ new \in HandlerType /\ new.pc = "save" /\ new.id = handlers[h].id
        /\ new.row.hash = handlers[h].row.hash /\ new.row.status = s
    BY <2>3, <2>5, Zenon DEF HandlerType, Be2!Row
  <2>7. /\ handlers' \in [Task \cup Desk -> HandlerType] /\ handlers'[h] = new
        /\ \A g \in (Task \cup Desk) \ {h} : handlers'[g] = handlers[g]
    BY <1>2, <2>4, <2>6, Zenon
  <2>8. HandlerKnows(h)' /\ HandlerMade(h)'
    BY <1>1, <1>2, <2>1, <2>2, <2>6, <2>7 DEF HandlerKnows, HandlerMade, Locked, vars
  <2>9. /\ \A g \in Task \cup Desk : HandlerKept(g)
        /\ tasks' \in [Task -> TaskType] /\ past' \in PastType /\ past'.switched = past.switched
        /\ \A t \in Task : TaskKept(t)
    BY <1>1, <2>7, <2>8, Zenon DEF HandlerKept, TaskKept, LeaseTypes
  <2> QED BY <1>1, <2>7, <2>9, RequestsKept, Zenon
<1>4. CASE Be2!Announce(h)
  <2>1. handlers' = [handlers EXCEPT ![h] = Be2!Free]
    BY <1>4, Zenon DEF Be2!Announce
  <2>2. tasks' \in [Task -> TaskType] /\ past' \in PastType /\ past'.switched = past.switched
        /\ \A t \in Task : TaskKept(t)
    BY <1>1, Zenon DEF TaskKept, LeaseTypes
  <2> QED BY <1>1, <2>1, <2>2, FreedInv, Zenon
<1> QED BY <1>3, <1>4, Zenon DEF Be2Step

\* Something goes wrong.
LEMMA MishapTypes ==
    ASSUME LeaseTypes, Mishap
    PROVE  /\ past' \in PastType /\ past'.switched = past.switched
           /\ past'.mishaps = past.mishaps + 1 /\ past.mishaps \in Nat
  BY DEF LeaseTypes, Mishap, PastType

\* A request dies, and the task that waits for it.
LEMMA DiesInv ==
    ASSUME LeaseInv, NEW h \in Task \cup Desk, Be2Dies(h)
    PROVE  LeaseInv'
<1>1. /\ UNCHANGED <<vars, contracts, app, parties, lockedFor>> /\ Mishap /\ LeaseTypes
      /\ handlers' = [handlers EXCEPT ![h] = Be2!Free]
  BY Zenon DEF Be2Dies, Be2!HandlerDies, LeaseInv
<1>2. past' \in PastType /\ past'.switched = past.switched
  BY <1>1, MishapTypes, Zenon
<1>3. CASE UNCHANGED tasks
  <2>1. tasks' \in [Task -> TaskType] /\ \A t \in Task : TaskKept(t)
    BY <1>1, <1>3, Zenon DEF LeaseTypes, TaskKept
  <2> QED BY <1>1, <1>2, <2>1, FreedInv, Zenon
<1>4. CASE h \in Task /\ End(h)
  <2>1. /\ tasks' \in [Task -> TaskType] /\ tasks'[h] = Rest
        /\ \A u \in Task \ {h} : tasks'[u] = tasks[u]
    BY <1>1, <1>4, EndTypes, Zenon
  <2>2. TaskKnows(h)' /\ TaskPaired(h)'
    BY <2>1, RestFields, Zenon DEF TaskKnows, TaskPaired, Waiting
  <2>3. \A t \in Task : TaskKept(t)
    BY <2>1, <2>2, Zenon DEF TaskKept
  <2> QED BY <1>1, <1>2, <2>1, <2>3, FreedInv, Zenon
<1> QED BY <1>3, <1>4, Zenon DEF Be2Dies

\* What a save writes: the row the request holds.
LEMMA SaveFields ==
    ASSUME LeaseInv, NEW h \in Task \cup Desk, Be2Saves(h)
    PROVE  /\ handlers[h].pc = "save" /\ handlers[h].id \in Contract
           /\ contracts' \in [Contract -> Be2!Row]
           /\ contracts'[handlers[h].id] = handlers[h].row
           /\ \A c \in Contract \ {handlers[h].id} : contracts'[c] = contracts[c]
           /\ handlers' \in [Task \cup Desk -> HandlerType]
           /\ handlers'[h].pc \in {"free", "announce"}
           /\ handlers'[h].pc = "announce" =>
                  handlers'[h].row = handlers[h].row /\ handlers'[h].id = handlers[h].id
           /\ handlers'[h].pc = "free" => handlers'[h].row.hash = NoTx
           /\ \A g \in (Task \cup Desk) \ {h} : handlers'[g] = handlers[g]
           /\ tasks' \in [Task -> TaskType]
           /\ \A t \in Task :
                 \/ tasks'[t] = tasks[t]
                 \/ /\ tasks[t].pc = "asked" /\ tasks'[t].pc = "answered"
                    /\ \A f \in {"kind", "lock", "id", "pair", "role"} :
                          tasks'[t][f] = tasks[t][f]
<1>1. /\ contracts \in [Contract -> Be2!Row] /\ handlers \in [Task \cup Desk -> HandlerType]
      /\ tasks \in [Task -> TaskType] /\ HandlerKnows(h)
  BY Zenon DEF LeaseInv, LeaseTypes, Knowing
<1>2. handlers[h].pc = "save" /\ handlers[h].row \in Be2!Row /\ handlers[h] \in HandlerType
  BY <1>1, Zenon DEF Be2Saves, Be2!SaveContract, HandlerType
<1>3. handlers[h].id \in Contract
  BY <1>1, <1>2, Zenon DEF HandlerKnows
<1>4. /\ contracts' \in [Contract -> Be2!Row]
      /\ contracts'[handlers[h].id] = handlers[h].row
      /\ \A c \in Contract \ {handlers[h].id} : contracts'[c] = contracts[c]
  BY <1>1, <1>2, <1>3, Zenon DEF Be2Saves, Be2!SaveContract
<1>5. PICK new : /\ handlers' = [handlers EXCEPT ![h] = new]
                 /\ new = Be2!Free \/ new = [handlers[h] EXCEPT !.pc = "announce"]
  BY Zenon DEF Be2Saves, Be2!SaveContract
<1>6. /\ new \in HandlerType /\ new.pc \in {"free", "announce"}
      /\ new.pc = "announce" => new.row = handlers[h].row /\ new.id = handlers[h].id
      /\ new.pc = "free" => new.row.hash = NoTx
  <2>1. CASE new = Be2!Free
    BY <2>1, FreeFields, Zenon
  <2>2. CASE new = [handlers[h] EXCEPT !.pc = "announce"]
    BY <1>2, <2>2, Zenon DEF HandlerType
  <2> QED BY <1>5, <2>1, <2>2, Zenon
<1>7. /\ handlers' \in [Task \cup Desk -> HandlerType] /\ handlers'[h] = new
      /\ \A g \in (Task \cup Desk) \ {h} : handlers'[g] = handlers[g]
  BY <1>1, <1>5, <1>6, Zenon
<1>8. /\ tasks' \in [Task -> TaskType]
      /\ \A t \in Task :
            \/ tasks'[t] = tasks[t]
            \/ /\ tasks[t].pc = "asked" /\ tasks'[t].pc = "answered"
               /\ \A f \in {"kind", "lock", "id", "pair", "role"} :
                     tasks'[t][f] = tasks[t][f]
  <2>1. CASE UNCHANGED tasks
    BY <1>1, <2>1, Zenon
  <2>2. CASE /\ h \in Task /\ tasks[h].pc = "asked"
             /\ tasks' = [tasks EXCEPT ![h].pc = "answered", ![h].row = handlers[h].row]
    <3>1. PICK task : task = [tasks[h] EXCEPT !.pc = "answered", !.row = handlers[h].row]
      BY Zenon
    <3>2. tasks' = [tasks EXCEPT ![h] = task] /\ tasks[h] \in TaskType
      BY <1>1, <2>2, <3>1, Zenon
    <3>3. /\ task \in TaskType /\ task.pc = "answered"
          /\ \A f \in {"kind", "lock", "id", "pair", "role"} : task[f] = tasks[h][f]
      BY <1>2, <3>1, <3>2, Zenon DEF TaskType
    <3> QED BY <1>1, <2>2, <3>2, <3>3, Zenon
  <2> QED BY <2>1, <2>2, Zenon DEF Be2Saves
<1> QED BY <1>2, <1>3, <1>4, <1>6, <1>7, <1>8, Zenon

\* The table holds what the request held, which only knew a locked deposit.
LEMMA SavesInv ==
    ASSUME LeaseInv, NEW h \in Task \cup Desk, Be2Saves(h)
    PROVE  LeaseInv'
<1> DEFINE d == handlers[h].id
<1>1. /\ UNCHANGED <<vars, app, parties, lockedFor, past>> /\ LeaseTypes /\ Knowing /\ Made
      /\ Paired
  BY Zenon DEF Be2Saves, LeaseInv
<1>2. /\ LockInv' /\ locks' = locks /\ rows' = rows
      /\ \A l \in Hash : Locked(l)' <=> Locked(l)
  BY <1>1, Be1Quiet, Zenon
<1>3. /\ handlers[h].pc = "save" /\ d \in Contract /\ contracts'[d] = handlers[h].row
      /\ \A c \in Contract \ {d} : contracts'[c] = contracts[c]
  BY SaveFields, Zenon
<1>4. HandlerKnows(h) /\ contracts[d].status # "none" /\ handlers[h].row.status # "none"
  BY <1>1, <1>3, Zenon DEF Knowing, Made
<1>11. \A g \in (Task \cup Desk) \ {h} : handlers'[g] = handlers[g]
  BY SaveFields, Zenon
<1>5. \A c \in Contract : contracts[c].status # "none" => contracts'[c].status # "none"
  BY <1>3, <1>4, Zenon
<1>6. \A c \in Contract : contracts'[c].status # "none" => contracts[c].status # "none"
  BY <1>3, <1>4, Zenon
<1>7. LeaseTypes'
  BY <1>1, SaveFields, Zenon DEF LeaseTypes
<1>8. Knowing'
  <2>1. AppKnows'
    BY <1>1, <1>2, Zenon DEF Knowing, AppKnows, Locked
  <2>2. ASSUME NEW c \in Contract PROVE ContractKnows(c)'
    BY <1>1, <1>2, <1>3, <1>4, Zenon DEF Knowing, ContractKnows, HandlerKnows, Locked
  <2>3. ASSUME NEW g \in Task \cup Desk PROVE HandlerKnows(g)'
    <3>1. CASE g = h
      <4>1. /\ handlers'[h].pc \in {"free", "announce"}
            /\ handlers'[h].pc = "announce" =>
                   handlers'[h].row = handlers[h].row /\ handlers'[h].id = handlers[h].id
            /\ handlers'[h].pc = "free" => handlers'[h].row.hash = NoTx
        BY SaveFields, Zenon
      <4> QED BY <1>2, <1>3, <1>4, <3>1, <4>1, Zenon DEF HandlerKnows, Locked
    <3>2. CASE g # h
      <4>1. handlers'[g] = handlers[g] /\ HandlerKnows(g)
        BY <1>1, <1>11, <3>2, Zenon DEF Knowing
      <4> QED BY <1>2, <4>1, Zenon DEF HandlerKnows, Locked
    <3> QED BY <3>1, <3>2, Zenon
  <2>4. ASSUME NEW t \in Task PROVE TaskKnows(t)'
    <3>1. TaskKnows(t)
      BY <1>1, Zenon DEF Knowing
    <3>2. \/ tasks'[t] = tasks[t]
          \/ /\ tasks[t].pc = "asked" /\ tasks'[t].pc = "answered"
             /\ \A f \in {"kind", "lock", "id", "pair", "role"} : tasks'[t][f] = tasks[t][f]
      BY SaveFields, Zenon
    <3> QED BY <1>2, <3>1, <3>2, Zenon DEF TaskKnows
  <2> QED BY <2>1, <2>2, <2>3, <2>4, Zenon DEF Knowing
<1>9. Made'
  <2>1. ASSUME NEW c \in Contract PROVE contracts'[c].hash # NoTx => contracts'[c].status # "none"
    BY <1>1, <1>3, <1>4, Zenon DEF Made
  <2>2. ASSUME NEW g \in Task \cup Desk, handlers'[g].pc # "free"
        PROVE  contracts'[handlers'[g].id].status # "none" /\ handlers'[g].row.status # "none"
    <3>1. CASE g = h
      <4>1. handlers'[h].row = handlers[h].row /\ handlers'[h].id = handlers[h].id
        BY <2>2, <3>1, SaveFields, Zenon
      <4> QED BY <1>3, <1>4, <3>1, <4>1, Zenon
    <3>2. CASE g # h
      <4>1. handlers'[g] = handlers[g]
        BY <1>11, <3>2, Zenon
      <4>2. handlers[g].id \in Contract
        BY <1>1, <2>2, <4>1, Zenon DEF Knowing, HandlerKnows
      <4> QED BY <1>1, <1>5, <2>2, <4>1, <4>2, Zenon DEF Made
    <3> QED BY <3>1, <3>2, Zenon
  <2> QED BY <2>1, <2>2, Zenon DEF Made
<1>10. Paired'
  <2> SUFFICES ASSUME ~past.switched
               PROVE  /\ \A t \in Task : TaskPaired(t)'
                      /\ \A c \in Contract : contracts'[c].status # "none" => parties'[c] = Parties
    BY <1>1, <1>2, Zenon DEF Paired
  <2>1. ASSUME NEW t \in Task PROVE TaskPaired(t)'
    <3>1. TaskPaired(t)
      BY <1>1, Zenon DEF Paired
    <3>2. \/ tasks'[t] = tasks[t]
          \/ /\ tasks[t].pc = "asked" /\ tasks'[t].pc = "answered"
             /\ \A f \in {"kind", "lock", "id", "pair", "role"} : tasks'[t][f] = tasks[t][f]
      BY SaveFields, Zenon
    <3> QED BY <1>1, <3>1, <3>2, Zenon DEF TaskPaired, Waiting
  <2> QED BY <1>1, <1>6, <2>1, Zenon DEF Paired
<1> QED BY <1>2, <1>7, <1>8, <1>9, <1>10, Zenon DEF LeaseInv

\* What be2-ops creates is for the parties of the task.
LEMMA DraftInv ==
    ASSUME LeaseInv, NEW t \in Task, DraftCreated(t)
    PROVE  LeaseInv'
<1>1. /\ UNCHANGED <<vars, handlers, lockedFor, past>> /\ LeaseTypes /\ Knowing /\ Made /\ Paired
      /\ tasks[t].pc = "sent" /\ tasks[t].kind \in {"create", "sign"}
  BY Zenon DEF DraftCreated, LeaseInv, Be2!CreateContract, Waiting
<1>2. PICK c \in Contract :
        /\ Be2!CreateContract(c)
        /\ parties' = [parties EXCEPT ![c] = tasks[t].pair]
        /\ app' = [app EXCEPT !.contract = c, !.status = "draft"]
        /\ IF tasks[t].kind = "create" THEN End(t)
           ELSE tasks' = [tasks EXCEPT ![t].id = c, ![t].row.status = "draft"]
  BY Zenon DEF DraftCreated
<1>3. /\ LockInv' /\ locks' = locks /\ rows' = rows
      /\ \A l \in Hash : Locked(l)' <=> Locked(l)
  BY <1>1, Be1Quiet, Zenon
<1>4. /\ contracts' \in [Contract -> Be2!Row] /\ contracts'[c].status = "draft"
      /\ contracts'[c].hash = contracts[c].hash
      /\ \A d \in Contract \ {c} : contracts'[d] = contracts[d]
  BY <1>1, <1>2 DEF Be2!CreateContract, LeaseTypes, Be2!Row, Be2!Status
<1>5. /\ app' \in AppType /\ app'.role = app.role /\ app'.escrow = app.escrow
      /\ app'.tenant = app.tenant /\ app'.landlord = app.landlord
  BY <1>1, <1>2, Zenon DEF LeaseTypes, AppType, Id, Be2!Status
<1>6. /\ tasks' \in [Task -> TaskType] /\ \A u \in Task \ {t} : tasks'[u] = tasks[u]
      /\ \/ tasks'[t] = Rest
         \/ tasks'[t].kind = tasks[t].kind /\ tasks'[t].pair = tasks[t].pair
  <2>1. CASE tasks[t].kind = "create"
    BY <1>1, <1>2, <2>1, EndTypes, Zenon
  <2>2. CASE tasks[t].kind # "create"
    <3>1. tasks[t] \in TaskType
      BY <1>1, Zenon DEF LeaseTypes
    <3>2. PICK row : row = [tasks[t].row EXCEPT !.status = "draft"]
      BY Zenon
    <3>3. row \in Be2!Row
      BY <3>1, <3>2, Zenon DEF TaskType, Be2!Row, Be2!Status
    <3>4. PICK task : task = [tasks[t] EXCEPT !.id = c, !.row = row]
      BY Zenon
    <3>5. tasks' = [tasks EXCEPT ![t] = task]
      BY <1>1, <1>2, <2>2, <3>1, <3>2, <3>4, Zenon DEF LeaseTypes, TaskType
    <3>6. task \in TaskType /\ task.kind = tasks[t].kind /\ task.pair = tasks[t].pair
      BY <3>1, <3>3, <3>4, Zenon DEF TaskType, Id
    <3> QED BY <1>1, <3>5, <3>6, Zenon DEF LeaseTypes
  <2> QED BY <2>1, <2>2, Zenon
<1>7. LeaseTypes'
  <2>1. tasks[t].pair \in Pair
    BY <1>1, Zenon DEF LeaseTypes, TaskType
  <2>2. parties' \in [Contract -> Pair]
    BY <1>1, <1>2, <2>1 DEF LeaseTypes
  <2> QED BY <1>1, <1>4, <1>5, <1>6, <2>2 DEF LeaseTypes
<1>8. Knowing'
  <2>1. AppKnows'
    BY <1>1, <1>3, <1>5, Zenon DEF Knowing, AppKnows, Locked
  <2>2. ASSUME NEW d \in Contract PROVE ContractKnows(d)'
    <3>1. contracts'[d].hash = contracts[d].hash /\ ContractKnows(d)
      BY <1>1, <1>4, Zenon DEF Knowing
    <3> QED BY <1>3, <3>1, Zenon DEF ContractKnows, Locked
  <2>3. ASSUME NEW h \in Task \cup Desk PROVE HandlerKnows(h)'
    BY <1>1, <1>3, Zenon DEF Knowing, HandlerKnows, Locked
  <2>4. ASSUME NEW u \in Task PROVE TaskKnows(u)'
    BY <1>1, <1>3, <1>6, RestFields, Zenon DEF Knowing, TaskKnows
  <2> QED BY <2>1, <2>2, <2>3, <2>4, Zenon DEF Knowing
<1>9. Made'
  <2>1. ASSUME NEW d \in Contract PROVE contracts'[d].hash # NoTx => contracts'[d].status # "none"
    BY <1>1, <1>4, Zenon DEF Made
  <2>2. ASSUME NEW h \in Task \cup Desk, handlers[h].pc # "free"
        PROVE  contracts'[handlers[h].id].status # "none" /\ handlers[h].row.status # "none"
    <3>1. handlers[h].id \in Contract /\ contracts[handlers[h].id].status # "none"
          /\ handlers[h].row.status # "none"
      BY <1>1, <2>2, Zenon DEF Knowing, HandlerKnows, Made
    <3> QED BY <1>4, <3>1, Zenon
  <2> QED BY <1>1, <2>1, <2>2, Zenon DEF Made
<1>10. Paired'
  <2> SUFFICES ASSUME ~past.switched
               PROVE  /\ \A u \in Task : TaskPaired(u)'
                      /\ \A d \in Contract : contracts'[d].status # "none" => parties'[d] = Parties
    BY <1>1, <1>3, <1>5, Zenon DEF Paired
  <2>1. \A u \in Task : TaskPaired(u)
    BY <1>1, Zenon DEF Paired
  <2>2. ASSUME NEW u \in Task PROVE TaskPaired(u)'
    BY <1>1, <1>5, <1>6, <2>1, RestFields, Zenon DEF TaskPaired, Waiting
  <2>3. tasks[t].pair = Parties
    BY <1>1, <2>1, Zenon DEF TaskPaired
  <2>4. ASSUME NEW d \in Contract, contracts'[d].status # "none" PROVE parties'[d] = Parties
    BY <1>1, <1>2, <1>4, <2>3, <2>4, Zenon DEF Paired, LeaseTypes
  <2> QED BY <2>2, <2>4, Zenon
<1> QED BY <1>3, <1>7, <1>8, <1>9, <1>10, Zenon DEF LeaseInv

\* The deposit's button: a request to be1-xrpl for the parties of the app.
LEMMA DepositInv ==
    ASSUME LeaseInv, NEW t \in Task, LockDepositTapped(t)
    PROVE  LeaseInv' /\ [Next]_vars
<1>1. /\ UNCHANGED <<contracts, handlers, app, parties>> /\ Both /\ app.contract # NoTx
      /\ LeaseTypes /\ Knowing /\ Made /\ Paired /\ LockInv
  BY Zenon DEF LockDepositTapped, LeaseInv, be2Vars
<1>2. PICK l \in Lock : /\ Create(l, "XRP", app.tenant, app.landlord, TRUE)
                       /\ Tap(t, [Sent("lock") EXCEPT !.lock = l])
                       /\ lockedFor' = [lockedFor EXCEPT ![l] = app.contract]
  BY Zenon DEF LockDepositTapped
<1>3. app.tenant \in Party /\ app.landlord \in Party /\ app.contract \in Contract
  BY <1>1, Zenon DEF LeaseTypes, AppType, Address, Id, Both
<1>4. [Next]_vars
  BY <1>2, <1>3, LeaseAssumption, Zenon DEF Next
<1>5. LockInv' /\ \A k \in Lock : Steady(k)
  BY <1>1, <1>4, LockNext, LockSteady, Zenon
<1>6. \A k \in Hash : Locked(k) => Locked(k)'
  BY <1>5, Zenon DEF Locked, Steady, Hash
<1>7. PICK task : task = [Sent("lock") EXCEPT !.lock = l]
  BY Zenon
<1>8. /\ task \in TaskType /\ task.kind = "lock" /\ task.lock = l /\ task.pc = "sent"
      /\ task.id = app.contract
  <2>1. "lock" \in Kind
    BY Zenon DEF Kind
  <2> QED BY <1>1, <1>7, <2>1, SentFields DEF TaskType, Hash
<1>9. /\ tasks' \in [Task -> TaskType] /\ past' \in PastType
      /\ tasks'[t] = task /\ \A u \in Task \ {t} : tasks'[u] = tasks[u]
      /\ past'.switched = past.switched
  BY <1>1, <1>2, <1>7, <1>8, TapTypes, Zenon
<1>10. LeaseTypes'
  <2>1. lockedFor' \in [Lock -> Id]
    BY <1>1, <1>2, <1>3, Zenon DEF LeaseTypes, Id
  <2> QED BY <1>1, <1>9, <2>1, Zenon DEF LeaseTypes
<1>11. Knowing'
  <2>1. AppKnows'
    BY <1>1, <1>6, Zenon DEF Knowing, AppKnows, LeaseTypes, AppType
  <2>2. ASSUME NEW c \in Contract PROVE ContractKnows(c)'
    <3>1. contracts[c].hash \in Hash
      BY <1>1, Zenon DEF LeaseTypes, Be2!Row, Hash
    <3> QED BY <1>1, <1>6, <3>1, Zenon DEF Knowing, ContractKnows
  <2>3. ASSUME NEW h \in Task \cup Desk PROVE HandlerKnows(h)'
    <3>1. handlers[h].row.hash \in Hash
      BY <1>1, Zenon DEF LeaseTypes, HandlerType, Be2!Row, Hash
    <3> QED BY <1>1, <1>6, <3>1, Zenon DEF Knowing, HandlerKnows
  <2>4. ASSUME NEW u \in Task PROVE TaskKnows(u)'
    <3>1. CASE u = t
      BY <1>3, <1>8, <1>9, <3>1, Zenon DEF TaskKnows
    <3>2. CASE u # t
      <4>1. tasks'[u] = tasks[u] /\ TaskKnows(u)
        BY <1>1, <1>9, <3>2, Zenon DEF Knowing
      <4> QED BY <1>5, <4>1 DEF TaskKnows, Steady
    <3> QED BY <3>1, <3>2, Zenon
  <2> QED BY <2>1, <2>2, <2>3, <2>4, Zenon DEF Knowing
<1>12. Made'
  BY <1>1, Zenon DEF Made
<1>13. Paired'
  <2> SUFFICES ASSUME ~past.switched
               PROVE  /\ \A u \in Task : TaskPaired(u)'
                      /\ \A k \in Lock : locks'[k].pc # "idle"
                             => <<locks'[k].tenant, locks'[k].landlord>> = Parties
    BY <1>1, <1>9, Zenon DEF Paired
  <2>1. ASSUME NEW u \in Task PROVE TaskPaired(u)'
    BY <1>1, <1>8, <1>9, Zenon DEF Paired, TaskPaired, Waiting
  <2>2. <<app.tenant, app.landlord>> = Parties
    BY <1>1, BothParties, Zenon
  <2>3. ASSUME NEW k \in Lock, locks'[k].pc # "idle"
        PROVE  <<locks'[k].tenant, locks'[k].landlord>> = Parties
    <3>1. locks'[k] = IF k = l THEN [pc |-> "wallet", mode |-> "XRP", tenant |-> app.tenant,
                                     landlord |-> app.landlord, ordered |-> TRUE]
                      ELSE locks[k]
      BY <1>1, <1>2, Zenon DEF Create, LockInv, TypeOK
    <3>2. CASE k = l
      BY <2>2, <3>1, <3>2
    <3>3. CASE k # l
      <4>1. locks'[k] = locks[k]
        BY <3>1, <3>3, Zenon
      <4> QED BY <1>1, <2>3, <4>1, Zenon DEF Paired
    <3> QED BY <3>2, <3>3, Zenon
  <2> QED BY <2>1, <2>3, Zenon
<1> QED BY <1>4, <1>5, <1>10, <1>11, <1>12, <1>13 DEF LeaseInv

\* be1-xrpl starts no request of its own.
LEMMA StartedByTap ==
    ASSUME LockInv, Be1Step, NEW k \in Lock, locks'[k].pc # "idle"
    PROVE  locks[k].pc # "idle"
<1>1. locks \in [Lock -> Request]
  BY Zenon DEF LockInv, TypeOK, Request
<1>2. CASE Stop
  BY <1>1, <1>2, Zenon DEF Stop
<1>3. ASSUME NEW l \in Lock, LockStep(l) PROVE locks[k].pc # "idle"
  <2>1. locks[l].pc # "idle" /\ \E pc : Go(l, pc)
    BY <1>3, LockStepMoves, Zenon
  <2> QED BY <1>1, <2>1, Zenon DEF Go
<1> QED BY <1>2, <1>3, Zenon DEF Be1Step

\* A step of be1-xrpl: what is known stays locked, and parties stay.
LEMMA Be1Inv ==
    ASSUME LeaseInv, Be1Step
    PROVE  LeaseInv' /\ [Next]_vars
<1>1. /\ UNCHANGED <<contracts, handlers, app, tasks, parties, lockedFor, past>>
      /\ LeaseTypes /\ Knowing /\ Made /\ Paired /\ LockInv
  BY Zenon DEF Be1Step, LeaseInv, be2Vars, appVars
<1>2. [Next]_vars
  BY Zenon DEF Be1Step, Next
<1>3. LockInv' /\ \A k \in Lock : Steady(k)
  BY <1>1, <1>2, LockNext, LockSteady, Zenon
<1>4. \A k \in Hash : Locked(k) => Locked(k)'
  BY <1>3, Zenon DEF Locked, Steady, Hash
<1>5. LeaseTypes' /\ Made'
  BY <1>1, Zenon DEF LeaseTypes, Made
<1>6. Knowing'
  <2>1. AppKnows'
    BY <1>1, <1>4, Zenon DEF Knowing, AppKnows, LeaseTypes, AppType
  <2>2. ASSUME NEW c \in Contract PROVE ContractKnows(c)'
    <3>1. contracts[c].hash \in Hash
      BY <1>1, Zenon DEF LeaseTypes, Be2!Row, Hash
    <3> QED BY <1>1, <1>4, <3>1, Zenon DEF Knowing, ContractKnows
  <2>3. ASSUME NEW h \in Task \cup Desk PROVE HandlerKnows(h)'
    <3>1. handlers[h].row.hash \in Hash
      BY <1>1, Zenon DEF LeaseTypes, HandlerType, Be2!Row, Hash
    <3> QED BY <1>1, <1>4, <3>1, Zenon DEF Knowing, HandlerKnows
  <2>4. ASSUME NEW u \in Task PROVE TaskKnows(u)'
    BY <1>1, <1>3, Zenon DEF Knowing, TaskKnows, Steady
  <2> QED BY <2>1, <2>2, <2>3, <2>4, Zenon DEF Knowing
<1>7. Paired'
  <2> SUFFICES ASSUME ~past.switched, NEW k \in Lock, locks'[k].pc # "idle"
               PROVE  <<locks'[k].tenant, locks'[k].landlord>> = Parties
    <3>1. ~past.switched => \A t \in Task : TaskPaired(t)'
      BY <1>1, Zenon DEF Paired, TaskPaired, Waiting
    <3> QED BY <1>1, <3>1, Zenon DEF Paired
  <2>1. locks[k].pc # "idle"
    BY <1>1, StartedByTap, Zenon
  <2> QED BY <1>1, <1>3, <2>1, Zenon DEF Paired, Steady
<1> QED BY <1>2, <1>3, <1>5, <1>6, <1>7, Zenon DEF LeaseInv

\* The page is reloaded, or an answer lost.
LEMMA LostInv ==
    ASSUME LeaseInv, Reload \/ \E t \in Task : AnswerLost(t)
    PROVE  LeaseInv'
<1>1. Mishap /\ UNCHANGED <<vars, contracts, handlers, app, parties, lockedFor>> /\ LeaseTypes
  BY Zenon DEF Reload, AnswerLost, be2Vars, LeaseInv
<1>2. past' \in PastType /\ past'.switched = past.switched
  BY <1>1, MishapTypes, Zenon
<1>3. ASSUME NEW t \in Task, AnswerLost(t) PROVE LeaseInv'
  BY <1>1, <1>2, <1>3, EndInv, Zenon DEF AnswerLost
<1>4. CASE Reload
  <2>1. tasks' = [t \in Task |-> Rest]
    BY <1>4, Zenon DEF Reload
  <2>2. tasks' \in [Task -> TaskType]
    BY <2>1, RestFields, Zenon
  <2>3. ASSUME NEW t \in Task PROVE TaskKept(t)
    BY <2>1, RestFields, Zenon DEF TaskKept, TaskKnows, TaskPaired, Waiting
  <2> QED BY <1>1, <1>2, <2>2, <2>3, TasksKept, Zenon
<1> QED BY <1>3, <1>4, Zenon

\* Nothing is there at first.
LEMMA LeaseStart == Counting /\ LeaseInit => LeaseInv
<1> SUFFICES ASSUME Counting, LeaseInit PROVE LeaseInv
  BY Zenon
<1>1. LockInv /\ \A l \in Lock : locks[l].pc = "idle"
  BY LockInit, Zenon DEF LeaseInit, Init
<1>2. /\ contracts = [c \in Contract |-> Be2!Absent] /\ handlers = [h \in Task \cup Desk |-> Be2!Free]
      /\ tasks = [t \in Task |-> Rest]
  BY Zenon DEF LeaseInit, Be2!Init
<1>3. Be2!Absent \in Be2!Row /\ Be2!Absent.status = "none" /\ Be2!Absent.hash = NoTx
  BY Zenon DEF Be2!Absent, Be2!Row
<1>4. LeaseTypes
  <2>1. app \in AppType /\ past \in PastType
    BY Zenon DEF LeaseInit, AppType, PastType, Address, Id, Hash
  <2>2. parties \in [Contract -> Pair] /\ lockedFor \in [Lock -> Id]
    BY Zenon DEF LeaseInit, Pair, Address, Id
  <2> QED BY <1>2, <1>3, <2>1, <2>2, RestFields, FreeFields, Zenon DEF LeaseTypes
<1>5. Knowing
  <2>1. AppKnows
    BY Zenon DEF LeaseInit, AppKnows, Locked
  <2> QED BY <1>2, <1>3, <2>1, RestFields, FreeFields, Zenon
          DEF Knowing, ContractKnows, HandlerKnows, TaskKnows, Locked
<1>6. Made
  BY <1>2, <1>3, FreeFields, Zenon DEF Made
<1>7. Paired
  <2>1. app.tenant = NoTx /\ app.landlord = NoTx
    BY Zenon DEF LeaseInit
  <2> QED BY <1>1, <1>2, <1>3, <2>1, RestFields, Zenon DEF Paired, TaskPaired, Waiting
<1> QED BY <1>1, <1>4, <1>5, <1>6, <1>7, Zenon DEF LeaseInv

\* Every step of the lease keeps the invariant, and is a step of be1-xrpl or
\* none of its business.
LEMMA LeaseStep ==
    ASSUME LeaseInv, [LeaseNext]_leaseVars
    PROVE  LeaseInv' /\ [Next]_vars
<1>1. CASE UNCHANGED leaseVars
  <2>1. /\ UNCHANGED <<vars, contracts, handlers, app, parties, lockedFor>>
        /\ tasks' = tasks /\ past' = past /\ UNCHANGED vars
    BY <1>1, Zenon DEF leaseVars, be2Vars, appVars
  <2>2. tasks' \in [Task -> TaskType] /\ past' \in PastType /\ \A t \in Task : TaskKept(t)
    BY <2>1, Zenon DEF LeaseInv, LeaseTypes, TaskKept
  <2> QED BY <2>1, <2>2, TasksKept, Zenon
<1>2. ASSUME NEW role \in {"tenant", "landlord"}, SelectRole(role) PROVE LeaseInv' /\ [Next]_vars
  BY <1>2, SelectInv, Zenon DEF SelectRole
<1>3. ASSUME NEW t \in Task, UserStep(t) PROVE LeaseInv' /\ [Next]_vars
  <2>1. CASE LockDepositTapped(t)
    BY <2>1, DepositInv, Zenon
  <2>2. CASE ~LockDepositTapped(t)
    <3>1. LeaseInv'
      BY <1>3, <2>2, TapInv, Zenon DEF UserStep
    <3>2. UNCHANGED vars
      BY <1>3, <2>2, Zenon DEF UserStep, ConnectWallet, ConnectCounterpartyWallet, CreateDraftContract,
                        LandlordSignContract, LoadSettlements
    <3> QED BY <3>1, <3>2, Zenon
  <2> QED BY <2>1, <2>2, Zenon
<1>4. ASSUME NEW t \in Task, TaskStep(t) PROVE LeaseInv' /\ [Next]_vars
  <2>1. UNCHANGED vars
    BY <1>4, Zenon DEF TaskStep, WalletConnected, CounterpartyConnected, DraftCreated, SendSignature,
                Anchor, Answer, SettlementsLoaded
  <2>2. CASE WalletConnected(t) \/ CounterpartyConnected(t)
    BY <2>1, <2>2, ConnectedInv, Zenon
  <2>3. CASE DraftCreated(t)
    BY <2>1, <2>3, DraftInv, Zenon
  <2>4. CASE SendSignature(t)
    BY <2>1, <2>4, SignatureInv, Zenon
  <2>5. CASE Anchor(t)
    BY <2>1, <2>5, AnchorInv, Zenon
  <2>6. CASE Answer(t)
    BY <2>1, <2>6, AnswerInv, Zenon
  <2>7. CASE SettlementsLoaded(t)
    <3>1. End(t) /\ past' = past /\ UNCHANGED <<vars, contracts, handlers, app, parties, lockedFor>>
      BY <2>7, Zenon DEF SettlementsLoaded, be2Vars
    <3>2. past' \in PastType
      BY <3>1, Zenon DEF LeaseInv, LeaseTypes
    <3> QED BY <2>1, <3>1, <3>2, EndInv, Zenon
  <2> QED BY <1>4, <2>2, <2>3, <2>4, <2>5, <2>6, <2>7, Zenon DEF TaskStep
<1>5. CASE Reload \/ \E t \in Task : AnswerLost(t)
  BY <1>5, LostInv, Zenon DEF Reload, AnswerLost
<1>6. ASSUME NEW h \in Task \cup Desk, Be2Saves(h) \/ Be2Dies(h) \/ Be2Step(h)
      PROVE  LeaseInv' /\ [Next]_vars
  BY <1>6, SavesInv, DiesInv, Be2StepInv, Zenon DEF Be2Saves, Be2Dies, Be2Step
<1>7. ASSUME NEW h \in Desk, DeskPatches(h) PROVE LeaseInv' /\ [Next]_vars
  BY <1>7, DeskInv, Zenon DEF DeskPatches
<1>8. CASE Be1Step
  BY <1>8, Be1Inv, Zenon
<1> QED BY <1>1, <1>2, <1>3, <1>4, <1>5, <1>6, <1>7, <1>8, Zenon DEF LeaseNext

=============================================================================
