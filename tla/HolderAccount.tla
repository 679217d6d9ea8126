---------------------------- MODULE HolderAccount ----------------------------
(***************************************************************************)
(* xrpl-core's escrow and multisig services around one lease: the deposit  *)
(* and stake escrows with their windows (EscrowService), the preimage      *)
(* condition a deposit may carry (condition.ts), and the holder account    *)
(* whose funds two of the three parties move together (MultisigService):   *)
(* a transaction is prepared on the account's current sequence, signed     *)
(* party by party off the ledger and broadcast later.                      *)
(* The ledger's own rules are external.                                    *)
(***************************************************************************)
EXTENDS Integers, Sequences, FiniteSets, FiniteSetsExt

CONSTANTS
  Draft,      \* transactions prepared for multisigning
  Lengths,    \* lengths of the preimages a deposit's condition is built from
  LeaseEnd,   \* the day the lease ends
  Prepared,   \* what is prepared for multisigning, of Op
  MaxSeq      \* bound on the holder account's transactions

VARIABLES
  day,        \* the ledger's close time, in days
  escrows,    \* the deposit and the stake escrow
  holder,     \* the holder account: signer list, master key, sequence, funds
  drafts,     \* the prepared transactions and the blobs collected for them
  log         \* what the holder account's last submission came to

vars == <<day, escrows, holder, drafts, log>>

Parties == {"tenant", "landlord", "bluesafe"}
Wallets == Parties \cup {"other"}
Op == {"pay", "clear", "disable", "list"}
NoList == [entries |-> {}, quorum |-> 0]
NoEscrow == [status |-> "none"]
NoDraft == [op |-> "none"]
NoCondition == << >>
Nothing == [what |-> "nothing"]

-----------------------------------------------------------------------------
\* lib/condition.ts: bytes as numbers.  Sha256 is injective on what it is given.
Sha256(preimage) == <<"sha256", preimage>>

buildPreimageCondition(preimage) ==
  [condition |-> <<160, 37, 128, 32, Sha256(preimage), 129, 1, Len(preimage)>>,
   fulfillment |-> <<160, Len(preimage) + 2, 128, Len(preimage)>> \o preimage]

\* Mutant: the preimage is read one byte short.
DropLastByte(f) == buildPreimageCondition(SubSeq(f, 5, 3 + f[4])).condition

\* EscrowService: the condition is derived again from the fulfillment.
restoreConditionFromFulfillment(f) == buildPreimageCondition(SubSeq(f, 5, 4 + f[4])).condition

Preimage(n) == [i \in 1..n |-> i % 256]

\* An escrow carries the condition of a preimage of that length, 0 for none.
Condition(e) ==
  IF e.preimage = 0 THEN NoCondition ELSE buildPreimageCondition(Preimage(e.preimage)).condition

buildDepositEscrow(n) ==
  [status |-> "pending", finishAfter |-> LeaseEnd + 7, cancelAfter |-> LeaseEnd + 30,
   preimage |-> n]

buildStakeEscrow ==
  [status |-> "pending", finishAfter |-> LeaseEnd + 7, cancelAfter |-> LeaseEnd + 30,
   preimage |-> 0]

\* buildFinish: fulfillment and condition go together, or neither.
buildFinish(fulfillment) ==
  [fulfillment |-> fulfillment,
   condition |-> IF fulfillment = << >> THEN NoCondition
                 ELSE restoreConditionFromFulfillment(fulfillment)]

-----------------------------------------------------------------------------
\* The ledger.  A DER length is one byte up to 127; the condition sent must be
\* the escrow's and the fulfillment must be a preimage of it.
Parses(f) ==
  /\ f[2] <= 127 /\ f[4] <= 127
  /\ f[2] = Len(f) - 2 /\ f[4] = Len(f) - 4

Matches(e, tx) ==
  IF e.preimage = 0 THEN tx.fulfillment = << >>
  ELSE /\ tx.fulfillment # << >> /\ tx.condition = Condition(e)
       /\ Parses(tx.fulfillment)
       /\ Condition(e)[5] = Sha256(SubSeq(tx.fulfillment, 5, Len(tx.fulfillment)))

Finishable(e) == day > e.finishAfter /\ day <= e.cancelAfter
Cancellable(e) == day > e.cancelAfter

Init ==
  /\ day = 0
  /\ escrows = [k \in {"deposit", "stake"} |-> NoEscrow]
  /\ holder = [list |-> NoList, master |-> TRUE, seq |-> 1, funds |-> 0]
  /\ drafts = [d \in Draft |-> NoDraft]
  /\ log = Nothing

\* Days pass, and with them the LastLedgerSequence of whatever is prepared.
Stale == [d \in Draft |-> IF drafts[d] = NoDraft THEN NoDraft ELSE [drafts[d] EXCEPT !.fresh = FALSE]]

Tick ==
  /\ day < LeaseEnd + 31
  /\ day' = Min({LeaseEnd + n : n \in {7, 8, 30, 31}} \cap (day + 1 .. LeaseEnd + 31))
  /\ drafts' = Stale
  /\ UNCHANGED <<escrows, holder, log>>

LedgersClose ==
  /\ drafts # Stale /\ drafts' = Stale
  /\ UNCHANGED <<day, escrows, holder, log>>

\* EscrowService.submit of the two creates.
CreateDeposit ==
  /\ escrows["deposit"] = NoEscrow /\ day < LeaseEnd
  /\ \E n \in Lengths \cup {0} : escrows' = [escrows EXCEPT !["deposit"] = buildDepositEscrow(n)]
  /\ UNCHANGED <<day, holder, drafts, log>>

CreateStake ==
  /\ escrows["stake"] = NoEscrow /\ day < LeaseEnd
  /\ escrows' = [escrows EXCEPT !["stake"] = buildStakeEscrow]
  /\ UNCHANGED <<day, holder, drafts, log>>

\* Any wallet may finish within the window, the deposit with its fulfillment,
\* or cancel after it.
Fulfillment(e) ==
  IF e.preimage = 0 THEN << >> ELSE buildPreimageCondition(Preimage(e.preimage)).fulfillment

Finish(k) ==
  LET e == escrows[k] IN
  /\ e.status = "pending" /\ Finishable(e) /\ Matches(e, buildFinish(Fulfillment(e)))
  /\ escrows' = [escrows EXCEPT ![k].status = "finished"]
  /\ holder' = IF k = "stake" THEN [holder EXCEPT !.funds = 1] ELSE holder
  /\ UNCHANGED <<day, drafts, log>>

Cancel(k) ==
  /\ escrows[k].status = "pending" /\ Cancellable(escrows[k])
  /\ escrows' = [escrows EXCEPT ![k].status = "cancelled"]
  /\ UNCHANGED <<day, holder, drafts, log>>

-----------------------------------------------------------------------------

\* Mutant: a third party is put on the signer list.
BystanderListed == [entries |-> Wallets, quorum |-> 2]

\* MultisigService.
buildSignerListSet == [entries |-> Parties, quorum |-> 2]

\* What an applied transaction of the holder account does: the account's last
\* means of signing cannot be removed, and nothing is paid from nothing.
Apply(op, by) ==
  /\ holder' = [holder EXCEPT
       !.seq = @ + 1,
       !.list = CASE op = "list" -> buildSignerListSet
                  [] op = "clear" /\ holder.master -> NoList
                  [] OTHER -> @,
       !.master = IF op = "disable" /\ holder.list # NoList THEN FALSE ELSE @,
       !.funds = IF op = "pay" THEN 0 ELSE @]
  /\ log' = IF op = "pay" /\ holder.funds > 0
            THEN [what |-> "paid", by |-> by, master |-> holder.master] ELSE Nothing

\* submitSignerList and signAndSubmit with the holder's own wallet.
signAndSubmit(op) ==
  /\ holder.master /\ holder.seq < MaxSeq
  /\ Apply(op, {"master"})
  /\ UNCHANGED <<day, escrows, drafts>>

prepare(d, op) ==
  /\ drafts[d] = NoDraft
  /\ drafts' = [drafts EXCEPT ![d] = [op |-> op, seq |-> holder.seq, blobs |-> 0, signers |-> {}, fresh |-> TRUE]]
  /\ UNCHANGED <<day, escrows, holder, log>>

signFor(d, w) ==
  /\ drafts[d] # NoDraft /\ drafts[d].blobs < 3
  /\ drafts' = [drafts EXCEPT ![d].blobs = @ + 1, ![d].signers = @ \cup {w}]
  /\ UNCHANGED <<day, escrows, holder, log>>

Accepts(t) ==
  /\ t.fresh /\ t.seq = holder.seq
  /\ t.blobs = Cardinality(t.signers) /\ t.signers \subseteq holder.list.entries
  /\ holder.list # NoList /\ t.blobs >= holder.list.quorum

\* broadcast throws below two blobs; the ledger decides about the rest.
broadcast(d) ==
  LET t == drafts[d]  by == t.signers IN
  /\ t # NoDraft /\ t.blobs >= 2 /\ holder.seq < MaxSeq
  /\ drafts' = [drafts EXCEPT ![d] = NoDraft]
  /\ IF Accepts(t) THEN Apply(t.op, by)
     ELSE /\ log' = [what |-> "refused", parties |-> by \subseteq Parties /\ t.blobs = Cardinality(by),
                      listed |-> holder.list # NoList, stale |-> ~t.fresh \/ t.seq # holder.seq]
          /\ UNCHANGED holder
  /\ UNCHANGED <<day, escrows>>

Next ==
  \/ Tick \/ LedgersClose \/ CreateDeposit \/ CreateStake
  \/ \E k \in {"deposit", "stake"} : Finish(k) \/ Cancel(k)
  \/ \E op \in Op : signAndSubmit(op)
  \/ \E d \in Draft :
       \/ \E op \in Prepared : prepare(d, op)
       \/ \E w \in Wallets : signFor(d, w)
       \/ broadcast(d)

Spec == Init /\ [][Next]_vars

-----------------------------------------------------------------------------
(***************************************************************************)
(* "BlueSafe alone can never move funds" (MultisigService.ts:19): a        *)
(* payment out of the holder account is signed by two different parties of *)
(* the lease, or was made while the master key was still on.               *)
(***************************************************************************)
TwoPartiesMove ==
  log.what = "paid" => (log.master \/ Cardinality(log.by \cap Parties) >= 2)

(***************************************************************************)
(* Two signatures suffice: a broadcast carrying different parties' blobs   *)
(* is refused only if no signer list was installed, or the draft's         *)
(* sequence or LastLedgerSequence had passed while it was being signed     *)
(* (MultisigService.ts:80-99).                                             *)
(***************************************************************************)
RefusedHasCause ==
  (log.what = "refused" /\ log.parties) => (~log.listed \/ log.stale)

(***************************************************************************)
(* The two escrows of a lease expire together (EscrowService.ts:50): while *)
(* both are pending, either both can be cancelled or neither can.          *)
(***************************************************************************)
ExpireTogether ==
  (\A k \in {"deposit", "stake"} : escrows[k].status = "pending") =>
     (Cancellable(escrows["deposit"]) <=> Cancellable(escrows["stake"]))

(***************************************************************************)
(* Whoever holds the fulfillment can release the deposit: within the       *)
(* window the finish built from it is accepted by the ledger               *)
(* (EscrowService.ts:120-166, condition.ts:24-47).                         *)
(***************************************************************************)
FulfillmentReleases ==
  LET e == escrows["deposit"] IN
  (e.status = "pending" /\ Finishable(e)) => Matches(e, buildFinish(Fulfillment(e)))

\* Two of the three parties are needed to move the holder account, and suffice
\* (MultisigService).
TwoOfThreeMove ==
  /\ TwoPartiesMove
  /\ RefusedHasCause

\* The escrows of a lease expire together, and before that the fulfillment
\* releases the deposit (EscrowService, condition.ts).
EscrowsEndAsAgreed ==
  /\ ExpireTogether
  /\ FulfillmentReleases
=============================================================================
