------------------------ MODULE VerifierPanelProofs ------------------------
(***************************************************************************)
(* What a judgment pays, how verifiers are counted and what a ruling rests *)
(* on, for any rosters, panels, disputes, leases, stakes and overlapping   *)
(* executeJudgment calls and any number of faults.                         *)
(***************************************************************************)
EXTENDS VerifierPanel, FiniteSetTheorems, TLAPS

\* The transactions a call may have left: of a slashed stake, and of the rest.
Slashing == {<<"cancelDeposit", "finishStake", "payTenant", "payPool", "mint">>,
             <<"finishStake", "payTenant", "payPool", "mint">>,
             <<"payTenant", "payPool", "mint">>, <<"payPool", "mint">>}
OwesTenant(s) == s \in Slashing /\ s # <<"payPool", "mint">>
Other == {<< >>, <<"mint">>, <<"cancelDeposit">>, <<"finishStake", "mint">>,
          <<"finishDeposit", "finishStake", "mint">>, <<"cancelDeposit", "finishStake", "mint">>}

Working(p) == call[p].txs # << >>

Fields == {"open", "lease", "claimant", "panel", "votes", "stake", "expired", "withdrawn",
           "ruling"}

Tables ==
    /\ DOMAIN disputes = Dispute
    /\ \A d \in Dispute : /\ DOMAIN disputes[d] = Fields
                          /\ disputes[d].stake \in Stakes \cup {NoStake}
    /\ DOMAIN call = Caller /\ \A p \in Caller : DOMAIN call[p] = {"d", "txs"}
    /\ paid \in [Dispute -> [tenant : Nat, pool : Nat]]

\* A call works on a dispute it alone has ruled, and owes what it has not paid.
CallInv(p) ==
    /\ call[p].txs \in Slashing \cup Other
    /\ Working(p) =>
         /\ call[p].d \in Dispute /\ disputes[call[p].d].ruling # None
         /\ \A q \in Caller \ {p} : Working(q) => call[q].d # call[p].d
    /\ call[p].txs \in Slashing =>
         /\ disputes[call[p].d].ruling = "TENANT_WINS"
         /\ disputes[call[p].d].stake \in Stakes
         /\ paid[call[p].d].pool = 0
    /\ OwesTenant(call[p].txs) => paid[call[p].d].tenant = 0

\* The payments of a dispute are none or its share of the stake.
PaidInv(d) ==
    /\ ~disputes[d].open => disputes[d].ruling = None
    /\ paid[d].tenant > 0 \/ paid[d].pool > 0 =>
         disputes[d].ruling = "TENANT_WINS" /\ disputes[d].stake \in Stakes
    /\ paid[d].tenant > 0 => paid[d].tenant = toTenant(disputes[d].stake)
    /\ paid[d].pool > 0 => paid[d].pool = toInsurance(disputes[d].stake)

PayoutInv ==
    /\ Tables
    /\ \A p \in Caller : CallInv(p)
    /\ \A d \in Dispute : PaidInv(d)

-----------------------------------------------------------------------------
(* The split and the transactions.                                         *)

\* The two parts of a stake add up to it.
LEMMA SplitAddsUp ==
    ASSUME NEW total \in Nat
    PROVE  /\ toTenant(total) \in Nat /\ toInsurance(total) \in Nat
           /\ toTenant(total) + toInsurance(total) = total
<1>1. (total * 7000) \div 10000 \in Nat /\ (total * 7000) \div 10000 <= total
  OBVIOUS
<1> QED BY <1>1 DEF toTenant, toInsurance

\* What the transactions of a ruling are.
LEMMA ConsequencesKnown ==
    ASSUME NEW r \in Ruling, NEW s
    PROVE  /\ Consequences(r, s) \in Slashing \cup Other
           /\ Consequences(r, s) \in Slashing => r = "TENANT_WINS" /\ s # NoStake
  BY Zenon DEF Consequences, Slashing, Other, Ruling

\* What is left after the first transaction.
LEMMA TailKnown ==
    ASSUME NEW s \in Slashing \cup Other, s # << >>
    PROVE  /\ Tail(s) \in Slashing \cup Other
           /\ Tail(s) \in Slashing => s \in Slashing
           /\ OwesTenant(Tail(s)) => OwesTenant(s)
           /\ Head(s) = "payTenant" => OwesTenant(s) /\ ~OwesTenant(Tail(s))
           /\ Head(s) = "payPool" => s \in Slashing /\ Tail(s) \notin Slashing
<1>1. CASE s = <<"cancelDeposit", "finishStake", "payTenant", "payPool", "mint">>
  <2>1. Head(s) = "cancelDeposit" /\ Tail(s) = <<"finishStake", "payTenant", "payPool", "mint">>
    BY <1>1
  <2> QED BY <1>1, <2>1, Zenon DEF Slashing, Other, OwesTenant
<1>2. CASE s = <<"finishStake", "payTenant", "payPool", "mint">>
  <2>1. Head(s) = "finishStake" /\ Tail(s) = <<"payTenant", "payPool", "mint">>
    BY <1>2
  <2> QED BY <1>2, <2>1, Zenon DEF Slashing, Other, OwesTenant
<1>3. CASE s = <<"payTenant", "payPool", "mint">>
  <2>1. Head(s) = "payTenant" /\ Tail(s) = <<"payPool", "mint">>
    BY <1>3
  <2> QED BY <1>3, <2>1, Zenon DEF Slashing, Other, OwesTenant
<1>4. CASE s = <<"payPool", "mint">>
  <2>1. Head(s) = "payPool" /\ Tail(s) = <<"mint">>
    BY <1>4
  <2> QED BY <1>4, <2>1 DEF Slashing, Other, OwesTenant
<1>5. CASE s = <<"mint">>
  <2>1. Head(s) = "mint" /\ Tail(s) = << >>
    BY <1>5
  <2> QED BY <1>5, <2>1 DEF Slashing, Other, OwesTenant
<1>6. CASE s = <<"cancelDeposit">>
  <2>1. Head(s) = "cancelDeposit" /\ Tail(s) = << >>
    BY <1>6
  <2> QED BY <1>6, <2>1 DEF Slashing, Other, OwesTenant
<1>7. CASE s = <<"finishStake", "mint">>
  <2>1. Head(s) = "finishStake" /\ Tail(s) = <<"mint">>
    BY <1>7
  <2> QED BY <1>7, <2>1 DEF Slashing, Other, OwesTenant
<1>8. CASE s = <<"finishDeposit", "finishStake", "mint">>
  <2>1. Head(s) = "finishDeposit" /\ Tail(s) = <<"finishStake", "mint">>
    BY <1>8
  <2> QED BY <1>8, <2>1 DEF Slashing, Other, OwesTenant
<1>9. CASE s = <<"cancelDeposit", "finishStake", "mint">>
  <2>1. Head(s) = "cancelDeposit" /\ Tail(s) = <<"finishStake", "mint">>
    BY <1>9
  <2> QED BY <1>9, <2>1 DEF Slashing, Other, OwesTenant
<1> QED BY <1>1, <1>2, <1>3, <1>4, <1>5, <1>6, <1>7, <1>8, <1>9, Zenon DEF Slashing, Other

\* A call that has payments left has transactions left.
LEMMA SlashingWorks == \A s \in Slashing : s # << >>
<1>1. << >> \notin Slashing
  BY Zenon DEF Slashing
<1> QED BY <1>1, Zenon

-----------------------------------------------------------------------------
(* Steps that pay nothing.                                                 *)

\* While a dispute is submitted, voted on or withdrawn, rulings stay, and so do the
\* stakes of ruled disputes.
LEMMA NoPayInv ==
    ASSUME PayoutInv, Tables', UNCHANGED <<call, paid>>,
           \A d \in Dispute :
               /\ disputes'[d].ruling = disputes[d].ruling
               /\ disputes[d].ruling # None => disputes'[d].stake = disputes[d].stake
               /\ disputes[d].open => disputes'[d].open
    PROVE  PayoutInv'
<1>1. None # "TENANT_WINS"
  BY PanelAssumption, Zenon
<1>2. ASSUME NEW p \in Caller PROVE CallInv(p)'
  <2>1. CallInv(p)
    BY Zenon DEF PayoutInv
  <2>2. \A q \in Caller : Working(q)' <=> Working(q)
    BY Zenon DEF Working
  <2>3. call[p].txs \in Slashing => Working(p) /\ call[p].d \in Dispute
    BY <2>1, SlashingWorks, Zenon DEF CallInv, Working
  <2>4. OwesTenant(call[p].txs) => call[p].txs \in Slashing
    BY Zenon DEF OwesTenant
  <2> QED BY <2>1, <2>2, <2>3, <2>4, <1>1, Zenon DEF CallInv
<1>3. ASSUME NEW d \in Dispute PROVE PaidInv(d)'
  <2>1. PaidInv(d)
    BY Zenon DEF PayoutInv
  <2> QED BY <2>1, <1>1, Zenon DEF PaidInv
<1> QED BY <1>2, <1>3, Zenon DEF PayoutInv

\* Roster, votes, withdrawals and deadlines.
LEMMA VoteInv ==
    ASSUME PayoutInv, NEW d \in Dispute, NEW v, NEW r,
           collectVote(d, v, r) \/ withdrawDispute(d) \/ VotingDeadline(d)
    PROVE  PayoutInv'
<1>1. Tables /\ UNCHANGED <<call, paid>>
  BY Zenon DEF PayoutInv, collectVote, withdrawDispute, VotingDeadline, ledger
<1>2. \E x, f : f \in {"votes", "withdrawn", "expired"}
                /\ disputes' = [disputes EXCEPT ![d] = [disputes[d] EXCEPT ![f] = x]]
  <2>1. CASE collectVote(d, v, r)
    <3>1. disputes' = [disputes EXCEPT ![d] =
             [disputes[d] EXCEPT !["votes"] = [disputes[d].votes EXCEPT ![v] = r]]]
      BY <2>1, Zenon DEF collectVote
    <3> QED BY <3>1, Zenon
  <2>2. CASE withdrawDispute(d)
    <3>1. disputes' = [disputes EXCEPT ![d] = [disputes[d] EXCEPT !["withdrawn"] = TRUE]]
      BY <2>2, Zenon DEF withdrawDispute
    <3> QED BY <3>1, Zenon
  <2>3. CASE VotingDeadline(d)
    <3>1. disputes' = [disputes EXCEPT ![d] = [disputes[d] EXCEPT !["expired"] = TRUE]]
      BY <2>3, Zenon DEF VotingDeadline
    <3> QED BY <3>1, Zenon
  <2> QED BY <2>1, <2>2, <2>3, Zenon
<1>3. /\ DOMAIN disputes' = Dispute
      /\ \A e \in Dispute : /\ DOMAIN disputes'[e] = Fields
                            /\ disputes'[e].ruling = disputes[e].ruling
                            /\ disputes'[e].stake = disputes[e].stake
                            /\ disputes'[e].open = disputes[e].open
  <2>1. PICK x, f : f \in {"votes", "withdrawn", "expired"}
                    /\ disputes' = [disputes EXCEPT ![d] = [disputes[d] EXCEPT ![f] = x]]
    BY <1>2, Zenon
  <2>2. /\ DOMAIN disputes' = Dispute
        /\ \A e \in Dispute : e # d => disputes'[e] = disputes[e]
        /\ disputes'[d] = [disputes[d] EXCEPT ![f] = x]
    BY <2>1, <1>1, Zenon DEF Tables
  <2>3. DOMAIN disputes[d] = Fields
    BY <1>1, Zenon DEF Tables
  <2>4. /\ DOMAIN disputes'[d] = Fields
        /\ disputes'[d].ruling = disputes[d].ruling
        /\ disputes'[d].stake = disputes[d].stake
        /\ disputes'[d].open = disputes[d].open
    BY <2>1, <2>2, <2>3, Zenon DEF Fields
  <2> QED BY <2>2, <2>4, <1>1, Zenon DEF Tables
<1>4. Tables'
  BY <1>1, <1>3, Zenon DEF Tables
<1> QED BY <1>1, <1>3, <1>4, NoPayInv, Zenon

\* A dispute that is submitted was not open, and so not ruled and not paid for.
LEMMA SubmitInv ==
    ASSUME PayoutInv, NEW d \in Dispute, NEW l, NEW c, NEW ex, NEW k,
           NEW st \in Stakes \cup {NoStake}, submitDispute(d, l, c, ex, k, st)
    PROVE  PayoutInv'
<1>1. Tables /\ UNCHANGED <<call, paid>> /\ disputes[d].ruling = None /\ ~disputes[d].open
  BY Zenon DEF PayoutInv, PaidInv, submitDispute, ledger
<1>2. PICK panel : disputes' = [disputes EXCEPT ![d] =
             [NoSubmission EXCEPT !.open = TRUE, !.lease = l, !.claimant = c,
                                  !.panel = panel, !.stake = st]]
  BY Zenon DEF submitDispute
<1>3. PICK row : row = [NoSubmission EXCEPT !.open = TRUE, !.lease = l, !.claimant = c,
                                            !.panel = panel, !.stake = st]
  BY Zenon
<1>4. DOMAIN row = Fields /\ row.ruling = None /\ row.stake = st
  BY <1>3, Zenon DEF NoSubmission, Fields
<1>5. /\ DOMAIN disputes' = Dispute /\ disputes'[d] = row
      /\ \A e \in Dispute : e # d => disputes'[e] = disputes[e]
  BY <1>1, <1>2, <1>3, Zenon DEF Tables
<1>6. Tables'
  BY <1>1, <1>4, <1>5, Zenon DEF Tables
<1>7. ASSUME NEW e \in Dispute
      PROVE  /\ disputes'[e].ruling = disputes[e].ruling
             /\ disputes[e].ruling # None => disputes'[e].stake = disputes[e].stake
             /\ disputes[e].open => disputes'[e].open
  BY <1>1, <1>4, <1>5, Zenon
<1> QED BY <1>1, <1>6, <1>7, NoPayInv, Zenon

-----------------------------------------------------------------------------
(* The judgment.                                                           *)

\* A call takes a dispute that nobody has ruled and nobody was paid for.
LEMMA ExecuteInv ==
    ASSUME PayoutInv, NEW p \in Caller, NEW d \in Dispute, executeJudgment(p, d)
    PROVE  PayoutInv'
<1> DEFINE r == computeRuling(disputes[d])
           txs == Consequences(r, disputes[d].stake)
<1>1. Tables /\ UNCHANGED paid /\ disputes[d].ruling = None /\ disputes[d].open
  BY Zenon DEF PayoutInv, executeJudgment, requireOpen, ledger
<1>2. r \in Ruling
  <2>1. r # None
    BY Zenon DEF executeJudgment
  <2>2. r \in Ruling \cup {None}
    BY Zenon DEF computeRuling, Ruling
  <2> QED BY <2>1, <2>2, Zenon
<1>3. None \notin Ruling
  BY PanelAssumption, Zenon DEF Ruling
<1>4. /\ disputes' = [disputes EXCEPT ![d] = [disputes[d] EXCEPT !.ruling = r]]
      /\ call' = [call EXCEPT ![p] = [d |-> d, txs |-> txs]]
      /\ call[p].txs = << >>
  BY Zenon DEF executeJudgment
<1>5. /\ txs \in Slashing \cup Other
      /\ txs \in Slashing => r = "TENANT_WINS" /\ disputes[d].stake # NoStake
  BY <1>2, ConsequencesKnown, Zenon
<1> HIDE DEF txs, r
<1>6. /\ DOMAIN disputes' = Dispute
      /\ \A e \in Dispute : e # d => disputes'[e] = disputes[e]
      /\ disputes'[d] = [disputes[d] EXCEPT !.ruling = r]
  BY <1>1, <1>4, Zenon DEF Tables
<1>7. /\ DOMAIN disputes'[d] = Fields /\ disputes'[d].ruling = r
      /\ disputes'[d].stake = disputes[d].stake /\ disputes'[d].open = disputes[d].open
  <2>1. DOMAIN disputes[d] = Fields
    BY <1>1, Zenon DEF Tables
  <2>2. DOMAIN disputes'[d] = Fields
    BY <2>1, <1>6, Zenon
  <2>3. "ruling" \in Fields /\ "stake" \in Fields /\ "open" \in Fields
    BY Zenon DEF Fields
  <2> QED BY <2>1, <2>2, <2>3, <1>6, Zenon
<1>8. /\ DOMAIN call' = Caller /\ call'[p] = [d |-> d, txs |-> txs]
      /\ \A q \in Caller : q # p => call'[q] = call[q]
  BY <1>1, <1>4, Zenon DEF Tables
<1>9. DOMAIN call'[p] = {"d", "txs"} /\ call'[p].d = d /\ call'[p].txs = txs
  BY <1>8
<1>10. Tables'
  <2>1. \A e \in Dispute : /\ DOMAIN disputes'[e] = Fields
                           /\ disputes'[e].stake \in Stakes \cup {NoStake}
    BY <1>1, <1>6, <1>7, Zenon DEF Tables
  <2>2. \A q \in Caller : DOMAIN call'[q] = {"d", "txs"}
    BY <1>1, <1>8, <1>9, Zenon DEF Tables
  <2> QED BY <2>1, <2>2, <1>1, <1>6, <1>8, Zenon DEF Tables
<1>11. /\ paid[d].tenant = 0 /\ paid[d].pool = 0
       /\ \A q \in Caller : Working(q) => call[q].d # d
  <2>1. PaidInv(d) /\ \A q \in Caller : CallInv(q)
    BY Zenon DEF PayoutInv
  <2>2. paid[d].tenant \in Nat /\ paid[d].pool \in Nat
    BY <1>1, Zenon DEF Tables
  <2>3. ~(paid[d].tenant > 0 \/ paid[d].pool > 0)
    BY <2>1, <1>1, <1>3, Zenon DEF PaidInv, Ruling
  <2> QED BY <2>1, <2>2, <2>3, <1>1 DEF CallInv
<1>12. CallInv(p)'
  <2>1. /\ \A q \in Caller \ {p} : Working(q)' <=> Working(q)
        /\ OwesTenant(txs) => txs \in Slashing
    BY <1>8, Zenon DEF Working, OwesTenant
  <2>2. txs \in Slashing => disputes'[d].ruling = "TENANT_WINS" /\ disputes'[d].stake \in Stakes
    BY <1>1, <1>5, <1>7, Zenon DEF Tables
  <2> QED BY <2>1, <2>2, <1>1, <1>2, <1>3, <1>5, <1>7, <1>8, <1>9, <1>11, Zenon DEF CallInv
<1>13. ASSUME NEW q \in Caller, q # p PROVE CallInv(q)'
  <2>1. CallInv(q) /\ call'[q] = call[q]
    BY <1>8, <1>13, Zenon DEF PayoutInv
  <2>2. Working(q) => call[q].d # d
    BY <1>11, Zenon
  <2>3. /\ Working(q)' <=> Working(q)
        /\ \A o \in Caller \ {p} : Working(o)' <=> Working(o)
    BY <1>8, <1>13, Zenon DEF Working
  <2>4. /\ call[q].txs \in Slashing => Working(q)
        /\ OwesTenant(call[q].txs) => Working(q)
    BY SlashingWorks, Zenon DEF Working, OwesTenant
  <2> QED BY <2>1, <2>2, <2>3, <2>4, <1>1, <1>6, <1>8, <1>9 DEF CallInv
<1>14. ASSUME NEW e \in Dispute PROVE PaidInv(e)'
  <2>1. PaidInv(e)
    BY Zenon DEF PayoutInv
  <2>2. CASE e # d
    BY <2>1, <2>2, <1>1, <1>6, Zenon DEF PaidInv
  <2>3. CASE e = d
    BY <2>3, <1>1, <1>7, <1>11 DEF PaidInv
  <2> QED BY <2>2, <2>3, Zenon
<1> QED BY <1>10, <1>12, <1>13, <1>14, Zenon DEF PayoutInv

\* What a transaction of a call that owes it pays: one part of the stake, or nothing.
LEMMA ApplyPays ==
    ASSUME PayoutInv, NEW p \in Caller, Working(p), Apply(Head(call[p].txs), call[p].d)
    PROVE  /\ paid' \in [Dispute -> [tenant : Nat, pool : Nat]]
           /\ \A e \in Dispute : e # call[p].d => paid'[e] = paid[e]
           /\ paid'[call[p].d].tenant =
                IF Head(call[p].txs) = "payTenant" THEN toTenant(disputes[call[p].d].stake)
                ELSE paid[call[p].d].tenant
           /\ paid'[call[p].d].pool =
                IF Head(call[p].txs) = "payPool" THEN toInsurance(disputes[call[p].d].stake)
                ELSE paid[call[p].d].pool
<1>1. PICK d \in Dispute : d = call[p].d
  BY Zenon DEF PayoutInv, CallInv
<1>2. PICK tx : tx = Head(call[p].txs)
  BY Zenon
<1>3. PICK total : total = disputes[d].stake
  BY Zenon
<1>4. CallInv(p) /\ call[p].txs \in Slashing \cup Other /\ call[p].txs # << >>
  BY Zenon DEF PayoutInv, CallInv, Working
<1>5. paid \in [Dispute -> [tenant : Nat, pool : Nat]]
  BY Zenon DEF PayoutInv, Tables
<1>6. tx = "payTenant" => total \in Nat /\ paid[d].tenant = 0
  BY <1>1, <1>2, <1>3, <1>4, TailKnown, PanelAssumption, Zenon DEF CallInv, OwesTenant
<1>7. tx = "payPool" => total \in Nat /\ paid[d].pool = 0
  BY <1>1, <1>2, <1>3, <1>4, TailKnown, PanelAssumption, Zenon DEF CallInv
<1>8. paid[d] \in [tenant : Nat, pool : Nat]
  BY <1>5, Zenon
<1>9. /\ tx = "payTenant" => toTenant(total) \in Nat /\ paid[d].tenant = 0
      /\ tx = "payPool" => toInsurance(total) \in Nat /\ paid[d].pool = 0
  BY <1>6, <1>7, SplitAddsUp, Zenon
<1>10. PICK row : row =
         [tenant |-> paid[d].tenant + IF tx = "payTenant" THEN toTenant(total) ELSE 0,
          pool |-> paid[d].pool + IF tx = "payPool" THEN toInsurance(total) ELSE 0]
  BY Zenon
<1>11. paid' = [paid EXCEPT ![d] = row]
  BY <1>1, <1>2, <1>3, <1>5, <1>10, Zenon DEF Apply
<1>12. /\ row \in [tenant : Nat, pool : Nat]
       /\ row.tenant = IF tx = "payTenant" THEN toTenant(total) ELSE paid[d].tenant
       /\ row.pool = IF tx = "payPool" THEN toInsurance(total) ELSE paid[d].pool
  BY <1>8, <1>9, <1>10
<1>13. /\ paid' \in [Dispute -> [tenant : Nat, pool : Nat]]
       /\ paid'[d] = row /\ \A e \in Dispute : e # d => paid'[e] = paid[e]
  BY <1>5, <1>11, <1>12, Zenon
<1> QED BY <1>1, <1>2, <1>3, <1>12, <1>13, Zenon

\* A transaction of a call, whether it succeeds, has no effect or throws.
LEMMA SubmittedInv ==
    ASSUME PayoutInv, NEW p \in Caller, Submitted(p) \/ SubmitThrows(p)
    PROVE  PayoutInv'
<1>1. Tables /\ Working(p) /\ UNCHANGED disputes /\ CallInv(p)
  BY Zenon DEF PayoutInv, Submitted, SubmitThrows, Working
<1>2. PICK d \in Dispute : d = call[p].d
  BY <1>1, Zenon DEF CallInv
<1>3. PICK rest \in {Tail(call[p].txs), << >>} : call' = [call EXCEPT ![p].txs = rest]
  BY Zenon DEF Submitted, SubmitThrows
<1>4. /\ DOMAIN call' = Caller /\ \A q \in Caller : q # p => call'[q] = call[q]
      /\ call'[p] = [call[p] EXCEPT !.txs = rest]
  BY <1>1, <1>3, Zenon DEF Tables
<1>5. DOMAIN call'[p] = {"d", "txs"} /\ call'[p].d = d /\ call'[p].txs = rest
  BY <1>1, <1>2, <1>4, Zenon DEF Tables
<1>6. /\ rest \in Slashing \cup Other
      /\ rest \in Slashing => call[p].txs \in Slashing /\ Head(call[p].txs) # "payPool"
      /\ OwesTenant(rest) => OwesTenant(call[p].txs) /\ Head(call[p].txs) # "payTenant"
  <2>1. call[p].txs \in Slashing \cup Other /\ call[p].txs # << >>
    BY <1>1, Zenon DEF CallInv, Working
  <2>2. << >> \in Other /\ << >> \notin Slashing /\ ~OwesTenant(<< >>)
    BY SlashingWorks, Zenon DEF Other, OwesTenant
  <2>3. CASE rest = << >>
    BY <2>2, <2>3, Zenon
  <2>4. CASE rest = Tail(call[p].txs)
    BY <2>1, <2>4, TailKnown, Zenon
  <2> QED BY <2>3, <2>4, Zenon
<1>7. /\ paid' \in [Dispute -> [tenant : Nat, pool : Nat]]
      /\ \A e \in Dispute : e # d => paid'[e] = paid[e]
      /\ \/ paid'[d].tenant = paid[d].tenant
         \/ /\ Head(call[p].txs) = "payTenant"
            /\ paid'[d].tenant = toTenant(disputes[d].stake)
      /\ \/ paid'[d].pool = paid[d].pool
         \/ /\ Head(call[p].txs) = "payPool"
            /\ paid'[d].pool = toInsurance(disputes[d].stake)
  <2>1. CASE UNCHANGED paid
    BY <2>1, <1>1, Zenon DEF Tables
  <2>2. CASE Apply(Head(call[p].txs), call[p].d)
    BY <2>2, <1>1, <1>2, ApplyPays, Zenon
  <2> QED BY <2>1, <2>2, Zenon DEF Submitted, SubmitThrows
<1>8. Tables'
  BY <1>1, <1>4, <1>5, <1>7, Zenon DEF Tables
<1>9. CallInv(p)'
  <2>1. \A q \in Caller \ {p} : (Working(q)' <=> Working(q)) /\ call'[q].d = call[q].d
    BY <1>4, Zenon DEF Working
  <2>2. rest \in Slashing => paid'[d].pool = 0
    BY <1>1, <1>2, <1>6, <1>7, Zenon DEF CallInv
  <2>3. OwesTenant(rest) => paid'[d].tenant = 0
    BY <1>1, <1>2, <1>6, <1>7, Zenon DEF CallInv
  <2> QED BY <2>1, <2>2, <2>3, <1>1, <1>2, <1>5, <1>6, Zenon DEF CallInv
<1>10. ASSUME NEW q \in Caller, q # p PROVE CallInv(q)'
  <2>1. CallInv(q) /\ call'[q] = call[q]
    BY <1>4, <1>10, Zenon DEF PayoutInv
  <2>2. /\ Working(q)' <=> Working(q)
        /\ \A o \in Caller \ {p} : Working(o)' <=> Working(o)
    BY <1>4, <1>10, Zenon DEF Working
  <2>3. Working(q) => call[q].d # d /\ call[q].d \in Dispute
    BY <2>1, <1>1, <1>2, <1>10, Zenon DEF CallInv
  <2>4. /\ call[q].txs \in Slashing => Working(q)
        /\ OwesTenant(call[q].txs) => Working(q)
    BY SlashingWorks, Zenon DEF Working, OwesTenant
  <2>5. /\ call[q].txs \in Slashing => paid'[call[q].d].pool = 0
        /\ OwesTenant(call[q].txs) => paid'[call[q].d].tenant = 0
    BY <2>1, <2>3, <2>4, <1>7, Zenon DEF CallInv
  <2>6. Working(q) => \A o \in Caller \ {q} : Working(o)' => call'[o].d # call[q].d
    BY <2>1, <2>2, <2>3, <1>4, <1>5, Zenon DEF CallInv
  <2>7. call[q].txs \in Slashing => /\ disputes[call[q].d].ruling = "TENANT_WINS"
                                   /\ disputes[call[q].d].stake \in Stakes
    BY <2>1, Zenon DEF CallInv
  <2>8. /\ call[q].txs \in Slashing \cup Other
        /\ Working(q) => call[q].d \in Dispute /\ disputes[call[q].d].ruling # None
    BY <2>1, Zenon DEF CallInv
  <2> QED BY <2>1, <2>2, <2>5, <2>6, <2>7, <2>8, <1>1, Zenon DEF CallInv
<1>11. ASSUME NEW e \in Dispute PROVE PaidInv(e)'
  <2>1. PaidInv(e)
    BY Zenon DEF PayoutInv
  <2>2. CASE e # d
    BY <2>1, <2>2, <1>1, <1>7, Zenon DEF PaidInv
  <2>3. CASE e = d
    <3>1. Head(call[p].txs) \in {"payTenant", "payPool"} => call[p].txs \in Slashing
      BY <1>1, TailKnown, Zenon DEF CallInv, Working, OwesTenant
    <3>2. Head(call[p].txs) \in {"payTenant", "payPool"} =>
            disputes[d].ruling = "TENANT_WINS" /\ disputes[d].stake \in Stakes
      BY <3>1, <1>1, <1>2, Zenon DEF CallInv
    <3> QED BY <2>1, <2>3, <3>2, <1>1, <1>7, Zenon DEF PaidInv
  <2> QED BY <2>2, <2>3, Zenon
<1> QED BY <1>8, <1>9, <1>10, <1>11, Zenon DEF PayoutInv

\* Verifiers come and go.
LEMMA RosterInv ==
    ASSUME PayoutInv, NEW v \in Candidate, registerVerifier(v) \/ deactivateVerifier(v)
    PROVE  PayoutInv'
<1>1. UNCHANGED <<disputes, call, paid>>
  BY Zenon DEF registerVerifier, deactivateVerifier, ledger
<1>2. Tables'
  BY <1>1, Zenon DEF PayoutInv, Tables
<1> QED BY <1>1, <1>2, NoPayInv, Zenon

-----------------------------------------------------------------------------
(* Every reachable state.                                                  *)

\* Nobody is paid at the start.
LEMMA PayoutInit == Init => PayoutInv
<1> SUFFICES ASSUME Init PROVE PayoutInv
  BY Zenon
<1>1. /\ DOMAIN disputes = Dispute /\ DOMAIN call = Caller
      /\ \A d \in Dispute : disputes[d] = NoSubmission
      /\ \A p \in Caller : DOMAIN call[p] = {"d", "txs"} /\ call[p].txs = << >>
      /\ paid \in [Dispute -> [tenant : Nat, pool : Nat]]
      /\ \A d \in Dispute : paid[d].tenant = 0 /\ paid[d].pool = 0
  BY Zenon DEF Init
<1>2. /\ DOMAIN NoSubmission = Fields /\ NoSubmission.stake = NoStake
      /\ NoSubmission.ruling = None
  BY Zenon DEF NoSubmission, Fields
<1>3. Tables
  BY <1>1, <1>2, Zenon DEF Tables
<1>4. << >> \in Other /\ << >> \notin Slashing /\ ~OwesTenant(<< >>)
  BY SlashingWorks, Zenon DEF Other, OwesTenant
<1>5. \A p \in Caller : CallInv(p)
  BY <1>1, <1>4, Zenon DEF CallInv, Working
<1>6. \A d \in Dispute : PaidInv(d)
  BY <1>1, <1>2 DEF PaidInv
<1> QED BY <1>3, <1>5, <1>6, Zenon DEF PayoutInv

\* Every step keeps the books of the payments.
LEMMA PayoutStep == PayoutInv /\ [Next]_vars => PayoutInv'
<1> SUFFICES ASSUME PayoutInv, [Next]_vars PROVE PayoutInv'
  BY Zenon
<1>1. CASE RosterNext
  BY <1>1, RosterInv, Zenon DEF RosterNext
<1>2. CASE DisputeNext
  BY <1>2, SubmitInv, VoteInv, Zenon DEF DisputeNext
<1>3. CASE CallNext
  BY <1>3, ExecuteInv, SubmittedInv, Zenon DEF CallNext
<1>4. CASE UNCHANGED vars
  <2>1. UNCHANGED <<disputes, call, paid>>
    BY <1>4, Zenon DEF vars
  <2>2. Tables'
    BY <2>1, Zenon DEF PayoutInv, Tables
  <2> QED BY <2>1, <2>2, NoPayInv, Zenon
<1> QED BY <1>1, <1>2, <1>3, <1>4, Zenon DEF Next

\* A judgment never pays the tenant and the insurance pool more than the stake
\* it slashes, and pays only where the tenant won, whatever calls of
\* executeJudgment overlap and whichever of their transactions fail.
THEOREM PayoutsWithinStake == Spec => []PayoutWithinStake
<1>1. PayoutInv => PayoutWithinStake
  <2> SUFFICES ASSUME PayoutInv, NEW d \in Dispute, paid[d].tenant + paid[d].pool > 0
               PROVE  /\ disputes[d].ruling = "TENANT_WINS"
                      /\ paid[d].tenant + paid[d].pool <= disputes[d].stake
    BY Zenon DEF PayoutWithinStake
  <2>1. paid[d].tenant \in Nat /\ paid[d].pool \in Nat
    BY Zenon DEF PayoutInv, Tables
  <2>2. paid[d].tenant > 0 \/ paid[d].pool > 0
    BY <2>1
  <2>3. disputes[d].ruling = "TENANT_WINS" /\ disputes[d].stake \in Nat
    BY <2>2, PanelAssumption, Zenon DEF PayoutInv, PaidInv
  <2>4. /\ paid[d].tenant > 0 => paid[d].tenant = toTenant(disputes[d].stake)
        /\ paid[d].pool > 0 => paid[d].pool = toInsurance(disputes[d].stake)
    BY Zenon DEF PayoutInv, PaidInv
  <2>5. /\ toTenant(disputes[d].stake) \in Nat /\ toInsurance(disputes[d].stake) \in Nat
        /\ toTenant(disputes[d].stake) + toInsurance(disputes[d].stake) = disputes[d].stake
    BY <2>3, SplitAddsUp, Zenon
  <2>6. /\ paid[d].tenant <= toTenant(disputes[d].stake)
        /\ paid[d].pool <= toInsurance(disputes[d].stake)
    BY <2>1, <2>4, <2>5
  <2> QED BY <2>1, <2>3, <2>5, <2>6
<1> QED BY <1>1, PayoutInit, PayoutStep, PTL DEF Spec

-----------------------------------------------------------------------------
(* The draw.                                                               *)

\* A set of naturals has a least element.
LEMMA Least ==
    ASSUME NEW T, T \subseteq Nat, T # {}
    PROVE  \E x \in T : \A y \in T : x <= y
<1>1. IsWellFoundedOn(OpToRel(<, Nat), Nat)
  BY NatLessThanWellFounded, Zenon
<1>2. PICK x \in T : \A y \in T : ~(<<y, x>> \in OpToRel(<, Nat))
  BY <1>1, WFMin, Zenon
<1>3. \A y \in T : ~(y < x)
  BY <1>2, Zenon DEF OpToRel
<1> QED BY <1>3

\* g is the partial shuffle of arr up to its m-th swap.
Shuffling(arr, js, m, g) ==
    g = [s \in 0 .. m |->
           IF s = 0 THEN arr ELSE Swap(g[s - 1], Len(arr) - s + 1, js[s])]

\* There is a partial shuffle of any length.
LEMMA ShuffleExists ==
    ASSUME NEW arr, NEW js, NEW k \in Nat
    PROVE  \E g : Shuffling(arr, js, k, g)
<1> DEFINE Bad == {m \in Nat : ~ \E g : Shuffling(arr, js, m, g)}
<1> SUFFICES ASSUME k \in Bad PROVE FALSE
  BY Zenon
<1>1. PICK m \in Bad : \A y \in Bad : m <= y
  <2>1. Bad \subseteq Nat /\ Bad # {}
    BY Zenon
  <2> HIDE DEF Bad
  <2> QED BY <2>1, Least, Zenon
<1>2. m \in Nat /\ ~ \E g : Shuffling(arr, js, m, g)
  BY Zenon
<1>3. m # 0
  <2>1. PICK g : g = [s \in 0 .. 0 |-> arr]
    BY Zenon
  <2>2. Shuffling(arr, js, 0, g)
    BY <2>1 DEF Shuffling
  <2> QED BY <1>2, <2>2, Zenon
<1>4. m - 1 \in Nat /\ m - 1 \notin Bad
  BY <1>1, <1>2, <1>3
<1>5. PICK g : Shuffling(arr, js, m - 1, g)
  BY <1>4, Zenon
<1>6. PICK h : h = [s \in 0 .. m |-> IF s = m THEN Swap(g[m - 1], Len(arr) - m + 1, js[m]) ELSE g[s]]
  BY Zenon
<1>7. ASSUME NEW s \in 0 .. m
      PROVE  h[s] = IF s = 0 THEN arr ELSE Swap(h[s - 1], Len(arr) - s + 1, js[s])
  <2>1. CASE s = 0
    BY <1>2, <1>3, <1>5, <1>6, <2>1 DEF Shuffling
  <2>2. CASE s # 0 /\ s # m
    <3>1. s \in 0 .. m - 1 /\ s - 1 \in 0 .. m - 1 /\ s - 1 \in 0 .. m /\ s - 1 # m
      BY <1>2, <2>2
    <3>2. g[s] = Swap(g[s - 1], Len(arr) - s + 1, js[s])
      BY <1>5, <2>2, <3>1, Zenon DEF Shuffling
    <3>3. h[s] = g[s] /\ h[s - 1] = g[s - 1]
      BY <1>6, <2>2, <3>1, Zenon
    <3> QED BY <2>2, <3>2, <3>3, Zenon
  <2>3. CASE s = m
    <3>1. s - 1 \in 0 .. m /\ s - 1 # m /\ s # 0
      BY <1>2, <1>3, <2>3
    <3>2. h[s - 1] = g[s - 1] /\ h[s] = Swap(g[m - 1], Len(arr) - m + 1, js[m])
      BY <1>6, <2>3, <3>1, Zenon
    <3> QED BY <2>3, <3>1, <3>2, Zenon
  <2> QED BY <2>1, <2>2, <2>3, Zenon
<1>8. Shuffling(arr, js, m, h)
  BY <1>6, <1>7, Zenon DEF Shuffling
<1> QED BY <1>2, <1>8, Zenon

\* Swapping two places permutes what is there.
LEMMA SwapWithin ==
    ASSUME NEW S, NEW n \in Nat, NEW a \in [1 .. n -> S], NEW i \in 1 .. n, NEW j \in 1 .. n
    PROVE  Swap(a, i, j) \in [1 .. n -> S]
BY Zenon DEF Swap

\* A partial shuffle moves elements and brings in none.
LEMMA ShuffleWithin ==
    ASSUME NEW S, NEW arr, NEW n \in Nat, arr \in [1 .. n -> S], Len(arr) = n,
           NEW k \in Nat, NEW js \in Draws(n, k), NEW g, Shuffling(arr, js, k, g),
           NEW s \in 0 .. k
    PROVE  g[s] \in [1 .. n -> S]
<1> DEFINE Bad == {m \in 0 .. k : g[m] \notin [1 .. n -> S]}
<1> SUFFICES ASSUME s \in Bad PROVE FALSE
  BY Zenon
<1>1. PICK m \in Bad : \A y \in Bad : m <= y
  <2>1. Bad \subseteq Nat /\ Bad # {}
    OBVIOUS
  <2> HIDE DEF Bad
  <2> QED BY <2>1, Least, Zenon
<1>2. CASE m = 0
  <2>1. 0 \in 0 .. k
    OBVIOUS
  <2>2. g[0] = arr
    BY <2>1, Zenon DEF Shuffling
  <2> QED BY <1>2, <2>2, Zenon
<1>3. CASE m # 0
  <2>1. m \in 1 .. k /\ m - 1 \in 0 .. k /\ m - 1 \notin Bad
    BY <1>1, <1>3
  <2>2. js[m] \in 1 .. n /\ js[m] <= n - m + 1
    BY <2>1, Zenon DEF Draws
  <2>3. n - m + 1 \in 1 .. n
    BY <2>1, <2>2
  <2>4. Swap(g[m - 1], n - m + 1, js[m]) \in [1 .. n -> S]
    BY <2>1, <2>2, <2>3, SwapWithin, Zenon
  <2>5. g[m] = Swap(g[m - 1], n - m + 1, js[m])
    BY <1>3, Zenon DEF Shuffling
  <2> QED BY <2>4, <2>5, Zenon
<1> QED BY <1>2, <1>3, Zenon

\* Pool lists a finite set.
LEMMA ListsTheSet ==
    ASSUME NEW S, IsFiniteSet(S)
    PROVE  /\ Pool(S) \in [1 .. Cardinality(S) -> S] /\ Cardinality(S) \in Nat
           /\ Len(Pool(S)) = Cardinality(S)
<1>1. Cardinality(S) \in Nat /\ ExistsBijection(1 .. Cardinality(S), S)
  BY FS_CardinalityType, Zenon
<1>2. PICK f \in [1 .. Cardinality(S) -> S] : IsInjective(f)
  BY <1>1, Zenon DEF ExistsBijection, Bijection, Injection, IsInjective
<1>3. Pool(S) \in [1 .. Cardinality(S) -> S]
  BY <1>2, Zenon DEF Pool, Injection
<1>4. PICK n \in Nat : n = Cardinality(S)
  BY <1>1, Zenon
<1>5. PICK q \in [1 .. n -> S] : q = Pool(S)
  BY <1>3, <1>4, Zenon
<1>6. Len(q) = n
  OBVIOUS
<1> QED BY <1>3, <1>4, <1>5, <1>6, Zenon

\* A panel is drawn from those who are eligible (selectVerifiers).
LEMMA DrawnWithin ==
    ASSUME NEW S, IsFiniteSet(S), NEW k \in Nat, NEW js \in Draws(Len(Pool(S)), k)
    PROVE  Drawn(Pool(S), js) \subseteq S
<1>1. PICK arr : arr = Pool(S)
  BY Zenon
<1>2. PICK n \in Nat : n = Cardinality(S)
  BY FS_CardinalityType, Zenon
<1>3. arr \in [1 .. n -> S] /\ Len(arr) = n /\ js \in Draws(n, k)
  BY <1>1, <1>2, ListsTheSet, Zenon
<1>4. js \in [1 .. k -> 1 .. n] /\ Len(js) = k
  BY <1>3 DEF Draws
<1>5. PICK g : g = CHOOSE f : Shuffling(arr, js, k, f)
  BY Zenon
<1>6. Shuffling(arr, js, k, g)
  BY <1>5, ShuffleExists, Zenon
<1>7. PICK a \in [1 .. n -> S] : a = g[k]
  <2>1. k \in 0 .. k
    OBVIOUS
  <2> QED BY <1>3, <1>6, <2>1, ShuffleWithin, Zenon
<1>8. Drawn(arr, js) = Range(SubSeq(a, n - k + 1, n))
  BY <1>3, <1>4, <1>5, <1>7, Zenon DEF Drawn, Shuffling
<1>9. k <= n
  <2>1. CASE k # 0
    <3>1. js[k] \in 1 .. n /\ js[k] <= n - k + 1
      BY <1>3, <2>1 DEF Draws
    <3> QED BY <3>1
  <2> QED BY <2>1
<1>10. Range(SubSeq(a, n - k + 1, n)) \subseteq S
  <2>1. PICK lo \in 1 .. n + 1 : lo = n - k + 1
    BY <1>9
  <2>2. PICK q : q = SubSeq(a, lo, n)
    BY Zenon
  <2>3. \A i \in DOMAIN q : q[i] \in S
    BY <2>1, <2>2
  <2> QED BY <2>1, <2>2, <2>3, Zenon DEF Range
<1> QED BY <1>1, <1>8, <1>10, Zenon

-----------------------------------------------------------------------------
(* The counts of the verifiers.                                            *)

\* The votes of a dispute are cast by its panel, which was drawn from the roster.
VotesInv(d) ==
    /\ disputes[d].panel \subseteq {v \in Candidate : roster[v] # "unknown"}
    /\ disputes[d].votes \in [Candidate -> Ruling \cup {None}]
    /\ \A v \in Candidate : disputes[d].votes[v] # None => v \in disputes[d].panel
    /\ ~disputes[d].open => \A v \in Candidate : disputes[d].votes[v] = None

\* Disputes that may still add to the majority votes of a verifier: voted on and
\* not ruled yet, or ruled by a call with transactions left.
Pending(v) ==
    {d \in Dispute : /\ disputes[d].votes[v] # None
                     /\ \/ disputes[d].ruling = None
                        \/ \E p \in Caller : Working(p) /\ call[p].d = d}

CountInv(v) == IsFiniteSet(Pending(v)) /\ agreed[v] + Cardinality(Pending(v)) <= cases[v]

RosterTypes ==
    /\ roster \in [Candidate -> {"unknown", "active", "inactive"}]
    /\ cases \in [Candidate -> Nat] /\ agreed \in [Candidate -> Nat]

BookInv ==
    /\ RosterTypes
    /\ \A d \in Dispute : VotesInv(d)
    /\ \A v \in Candidate : CountInv(v)

\* Fewer disputes are pending and nobody gains a vote or loses a case.
LEMMA CountKept ==
    ASSUME NEW v, agreed[v] \in Nat, cases[v] \in Nat, CountInv(v),
           Pending(v)' \subseteq Pending(v), agreed'[v] = agreed[v], cases'[v] = cases[v]
    PROVE  CountInv(v)'
<1>1. PICK S : S = Pending(v)
  BY Zenon
<1>2. PICK T : T = Pending(v)'
  BY Zenon
<1>3. /\ IsFiniteSet(S) /\ IsFiniteSet(T) /\ Cardinality(S) \in Nat /\ Cardinality(T) \in Nat
      /\ Cardinality(T) <= Cardinality(S) /\ agreed[v] + Cardinality(S) <= cases[v]
  BY <1>1, <1>2, FS_Subset, FS_CardinalityType, Zenon DEF CountInv
<1>4. agreed'[v] + Cardinality(T) <= cases'[v]
  BY <1>3
<1> QED BY <1>2, <1>3, <1>4, Zenon DEF CountInv

\* A verifier is credited for a dispute that is not pending any more.
LEMMA CountCredited ==
    ASSUME NEW v, agreed[v] \in Nat, cases[v] \in Nat, CountInv(v), NEW d \in Pending(v),
           Pending(v)' \subseteq Pending(v) \ {d}, agreed'[v] = agreed[v] + 1,
           cases'[v] = cases[v]
    PROVE  CountInv(v)'
<1>1. PICK S : S = Pending(v)
  BY Zenon
<1>2. PICK T : T = Pending(v)'
  BY Zenon
<1>3. PICK U : U = S \ {d}
  BY Zenon
<1>4. /\ IsFiniteSet(S) /\ Cardinality(S) \in Nat /\ agreed[v] + Cardinality(S) <= cases[v]
  BY <1>1, FS_CardinalityType, Zenon DEF CountInv
<1>5. IsFiniteSet(U) /\ Cardinality(U) = Cardinality(S) - 1
  <2>1. d \in S
    BY <1>1, Zenon
  <2> QED BY <1>3, <1>4, <2>1, FS_RemoveElement, Zenon
<1>6. IsFiniteSet(T) /\ Cardinality(T) <= Cardinality(U) /\ Cardinality(T) \in Nat
  BY <1>1, <1>2, <1>3, <1>5, FS_Subset, FS_CardinalityType, Zenon
<1>7. agreed'[v] + Cardinality(T) <= cases'[v]
  BY <1>4, <1>5, <1>6
<1> QED BY <1>2, <1>6, <1>7, Zenon DEF CountInv

\* A verifier votes: one case and one pending dispute more.
LEMMA CountVoted ==
    ASSUME NEW v, agreed[v] \in Nat, cases[v] \in Nat, CountInv(v), NEW d,
           Pending(v)' \subseteq Pending(v) \cup {d}, agreed'[v] = agreed[v],
           cases'[v] = cases[v] + 1
    PROVE  CountInv(v)'
<1>1. PICK S : S = Pending(v)
  BY Zenon
<1>2. PICK T : T = Pending(v)'
  BY Zenon
<1>3. PICK U : U = S \cup {d}
  BY Zenon
<1>4. /\ IsFiniteSet(S) /\ Cardinality(S) \in Nat /\ agreed[v] + Cardinality(S) <= cases[v]
  BY <1>1, FS_CardinalityType, Zenon DEF CountInv
<1>5. IsFiniteSet(U) /\ Cardinality(U) \in Nat /\ Cardinality(U) <= Cardinality(S) + 1
  <2>1. /\ IsFiniteSet(U)
        /\ Cardinality(U) = IF d \in S THEN Cardinality(S) ELSE Cardinality(S) + 1
    BY <1>3, <1>4, FS_AddElement, Zenon
  <2> QED BY <1>4, <2>1, FS_CardinalityType
<1>6. IsFiniteSet(T) /\ Cardinality(T) <= Cardinality(U) /\ Cardinality(T) \in Nat
  BY <1>1, <1>2, <1>3, <1>5, FS_Subset, FS_CardinalityType, Zenon
<1>7. agreed'[v] + Cardinality(T) <= cases'[v]
  BY <1>4, <1>5, <1>6
<1> QED BY <1>2, <1>6, <1>7, Zenon DEF CountInv

-----------------------------------------------------------------------------
(* Every step keeps the counts.                                            *)

\* One field of one dispute changes.
LEMMA FieldSet ==
    ASSUME Tables, NEW d \in Dispute, NEW f \in Fields, NEW x,
           disputes' = [disputes EXCEPT ![d] = [disputes[d] EXCEPT ![f] = x]]
    PROVE  /\ \A e \in Dispute : e # d => disputes'[e] = disputes[e]
           /\ disputes'[d][f] = x
           /\ \A h \in Fields : h # f => disputes'[d][h] = disputes[d][h]
<1>1. /\ \A e \in Dispute : e # d => disputes'[e] = disputes[e]
      /\ disputes'[d] = [disputes[d] EXCEPT ![f] = x]
  BY Zenon DEF Tables
<1>2. DOMAIN disputes[d] = Fields
  BY Zenon DEF Tables
<1>3. disputes'[d][f] = x /\ \A h \in Fields : h # f => disputes'[d][h] = disputes[d][h]
  BY <1>1, <1>2, Zenon
<1> QED BY <1>1, <1>3, Zenon

\* A dispute whose panel and votes stay.
LEMMA VotesKept ==
    ASSUME NEW d, VotesInv(d), disputes'[d].panel = disputes[d].panel,
           disputes'[d].votes = disputes[d].votes, disputes[d].open => disputes'[d].open,
           \A v \in Candidate : roster[v] # "unknown" => roster'[v] # "unknown"
    PROVE  VotesInv(d)'
BY Zenon DEF VotesInv

\* Where rulings and votes stay and no call takes up work, no more is pending.
LEMMA PendingKept ==
    ASSUME NEW v, \A d \in Dispute : /\ disputes'[d].ruling = disputes[d].ruling
                                     /\ disputes'[d].votes[v] = disputes[d].votes[v],
           \A p \in Caller : Working(p)' => Working(p) /\ call'[p].d = call[p].d
    PROVE  Pending(v)' \subseteq Pending(v)
BY Zenon DEF Pending

\* registerVerifier and deactivateVerifier.
LEMMA RosterBooks ==
    ASSUME BookInv, NEW w \in Candidate, registerVerifier(w) \/ deactivateVerifier(w)
    PROVE  BookInv'
<1>1. UNCHANGED <<cases, agreed, disputes, call>>
  BY Zenon DEF registerVerifier, deactivateVerifier
<1>2. RosterTypes' /\ \A v \in Candidate : roster[v] # "unknown" => roster'[v] # "unknown"
  BY <1>1, Zenon DEF BookInv, RosterTypes, registerVerifier, deactivateVerifier
<1>3. ASSUME NEW d \in Dispute PROVE VotesInv(d)'
  BY <1>1, <1>2, VotesKept, Zenon DEF BookInv
<1>4. ASSUME NEW v \in Candidate PROVE CountInv(v)'
  <2>1. Pending(v)' \subseteq Pending(v)
    BY <1>1, Zenon DEF Pending, Working
  <2> QED BY <1>1, <2>1, CountKept, Zenon DEF BookInv, RosterTypes
<1> QED BY <1>2, <1>3, <1>4, Zenon DEF BookInv

\* withdrawDispute and the deadline.
LEMMA CloseBooks ==
    ASSUME BookInv, Tables, NEW d \in Dispute, withdrawDispute(d) \/ VotingDeadline(d)
    PROVE  BookInv'
<1>1. UNCHANGED <<roster, cases, agreed, call>>
  BY Zenon DEF withdrawDispute, VotingDeadline
<1>2. PICK f \in {"withdrawn", "expired"} :
         disputes' = [disputes EXCEPT ![d] = [disputes[d] EXCEPT ![f] = TRUE]]
  <2>1. CASE withdrawDispute(d)
    <3>1. disputes' = [disputes EXCEPT ![d] = [disputes[d] EXCEPT !["withdrawn"] = TRUE]]
      BY <2>1, Zenon DEF withdrawDispute
    <3> QED BY <3>1, Zenon
  <2>2. CASE VotingDeadline(d)
    <3>1. disputes' = [disputes EXCEPT ![d] = [disputes[d] EXCEPT !["expired"] = TRUE]]
      BY <2>2, Zenon DEF VotingDeadline
    <3> QED BY <3>1, Zenon
  <2> QED BY <2>1, <2>2, Zenon
<1>3. f \in Fields /\ f \notin {"panel", "votes", "open", "ruling"}
  BY Zenon DEF Fields
<1>4. ASSUME NEW e \in Dispute
      PROVE  /\ disputes'[e].panel = disputes[e].panel /\ disputes'[e].votes = disputes[e].votes
             /\ disputes'[e].open = disputes[e].open /\ disputes'[e].ruling = disputes[e].ruling
  <2>1. {"panel", "votes", "open", "ruling"} \subseteq Fields
    BY Zenon DEF Fields
  <2>2. /\ \A g \in Dispute : g # d => disputes'[g] = disputes[g]
        /\ \A h \in Fields : h # f => disputes'[d][h] = disputes[d][h]
    BY <1>2, <1>3, FieldSet, Zenon
  <2>3. CASE e = d
    BY <1>3, <2>1, <2>2, <2>3, Zenon
  <2>4. CASE e # d
    BY <2>2, <2>4, Zenon
  <2> QED BY <2>3, <2>4, Zenon
<1>5. ASSUME NEW e \in Dispute PROVE VotesInv(e)'
  BY <1>1, <1>4, VotesKept, Zenon DEF BookInv
<1>6. ASSUME NEW v \in Candidate PROVE CountInv(v)'
  <2>1. Pending(v)' \subseteq Pending(v)
    BY <1>1, <1>4, PendingKept, Zenon DEF Working
  <2> QED BY <1>1, <2>1, CountKept, Zenon DEF BookInv, RosterTypes
<1> QED BY <1>1, <1>5, <1>6, Zenon DEF BookInv, RosterTypes

\* collectVote counts the case of a verifier on the roster.
LEMMA VoteBooks ==
    ASSUME BookInv, Tables, NEW d \in Dispute, NEW w \in Candidate, NEW r \in Ruling,
           collectVote(d, w, r)
    PROVE  BookInv'
<1>1. /\ UNCHANGED <<roster, agreed, call>> /\ requireOpen(d)
      /\ w \in disputes[d].panel /\ disputes[d].votes[w] = None
      /\ cases' = [cases EXCEPT ![w] = IF roster[w] # "unknown" THEN @ + 1 ELSE @]
  BY Zenon DEF collectVote
<1>2. VotesInv(d) /\ roster[w] # "unknown"
  BY <1>1, Zenon DEF BookInv, VotesInv
<1>3. PICK votes : votes = [disputes[d].votes EXCEPT ![w] = r]
  BY Zenon
<1>4. disputes' = [disputes EXCEPT ![d] = [disputes[d] EXCEPT !["votes"] = votes]]
  BY <1>3, Zenon DEF collectVote
<1>5. "votes" \in Fields /\ {"panel", "open", "ruling"} \subseteq Fields
  BY Zenon DEF Fields
<1>6. /\ \A e \in Dispute : e # d => disputes'[e] = disputes[e]
      /\ disputes'[d].votes = votes /\ disputes'[d].panel = disputes[d].panel
      /\ disputes'[d].open = disputes[d].open /\ disputes'[d].ruling = disputes[d].ruling
  <2>1. /\ \A e \in Dispute : e # d => disputes'[e] = disputes[e]
        /\ disputes'[d]["votes"] = votes
        /\ \A h \in Fields : h # "votes" => disputes'[d][h] = disputes[d][h]
    BY <1>4, <1>5, FieldSet, Zenon
  <2> QED BY <1>5, <2>1, Zenon
<1>7. /\ votes \in [Candidate -> Ruling \cup {None}] /\ votes[w] = r
      /\ \A v \in Candidate : v # w => votes[v] = disputes[d].votes[v]
  BY <1>2, <1>3, Zenon DEF VotesInv
<1>8. ASSUME NEW e \in Dispute PROVE VotesInv(e)'
  <2>1. CASE e # d
    BY <1>1, <1>6, <2>1, VotesKept, Zenon DEF BookInv
  <2>2. CASE e = d
    <3>1. \A v \in Candidate : votes[v] # None => v \in disputes[d].panel
      BY <1>1, <1>2, <1>7, Zenon DEF VotesInv
    <3> QED BY <1>1, <1>2, <1>6, <1>7, <2>2, <3>1, Zenon DEF VotesInv, requireOpen
  <2> QED BY <2>1, <2>2, Zenon
<1>9. /\ RosterTypes' /\ cases'[w] = cases[w] + 1
      /\ \A v \in Candidate : v # w => cases'[v] = cases[v]
  BY <1>1, <1>2 DEF BookInv, RosterTypes
<1>10. ASSUME NEW v \in Candidate, v # w PROVE CountInv(v)'
  <2>1. Pending(v)' \subseteq Pending(v)
    BY <1>1, <1>6, <1>7, <1>10, PendingKept, Zenon DEF Working
  <2> QED BY <1>1, <1>9, <1>10, <2>1, CountKept, Zenon DEF BookInv, RosterTypes
<1>11. CountInv(w)'
  <2>1. Pending(w)' \subseteq Pending(w) \cup {d}
    BY <1>1, <1>6, Zenon DEF Pending, Working
  <2> QED BY <1>1, <1>9, <2>1, CountVoted, Zenon DEF BookInv, RosterTypes
<1> QED BY <1>8, <1>9, <1>10, <1>11, Zenon DEF BookInv

\* A dispute is submitted with a panel of verifiers on the roster and without votes.
LEMMA SubmitBooks ==
    ASSUME BookInv, Tables, NEW d \in Dispute, NEW l, NEW c, NEW ex, NEW k \in PanelSizes,
           NEW st, submitDispute(d, l, c, ex, k, st)
    PROVE  BookInv'
<1>1. UNCHANGED <<roster, cases, agreed, call>>
  BY Zenon DEF submitDispute
<1>2. PICK S : S = Eligible(ex \cup {Tenant, Landlord})
  BY Zenon
<1>3. PICK panel \in selectVerifiers(ex \cup {Tenant, Landlord}, k) :
         disputes' = [disputes EXCEPT ![d] =
             [NoSubmission EXCEPT !.open = TRUE, !.lease = l, !.claimant = c,
                                  !.panel = panel, !.stake = st]]
  BY Zenon DEF submitDispute
<1>4. panel \subseteq S
  <2>1. S \subseteq Candidate
    BY <1>2, Zenon DEF Eligible
  <2>2. IsFiniteSet(S)
    BY <2>1, PanelAssumption, FS_Subset, Zenon
  <2>3. k \in Nat
    BY PanelAssumption, Zenon
  <2>4. PICK js \in Draws(Len(Pool(S)), k) : panel = Drawn(Pool(S), js)
    BY <1>2, <1>3, Zenon DEF selectVerifiers
  <2> QED BY <2>2, <2>3, <2>4, DrawnWithin, Zenon
<1>5. \A v \in S : v \in Candidate /\ roster[v] # "unknown"
  BY <1>2, Zenon DEF Eligible
<1>6. PICK row : row = [NoSubmission EXCEPT !.open = TRUE, !.lease = l, !.claimant = c,
                                            !.panel = panel, !.stake = st]
  BY Zenon
<1>7. /\ row.panel = panel /\ row.votes = [v \in Candidate |-> None] /\ row.open
  BY <1>6, Zenon DEF NoSubmission
<1>8. /\ disputes'[d] = row /\ \A e \in Dispute : e # d => disputes'[e] = disputes[e]
  BY <1>3, <1>6, Zenon DEF Tables
<1>9. ASSUME NEW e \in Dispute PROVE VotesInv(e)'
  <2>1. CASE e # d
    BY <1>1, <1>8, <2>1, VotesKept, Zenon DEF BookInv
  <2>2. CASE e = d
    <3>1. /\ disputes'[e].panel = panel /\ disputes'[e].open
          /\ disputes'[e].votes = [v \in Candidate |-> None]
      BY <1>7, <1>8, <2>2, Zenon
    <3>2. panel \subseteq {v \in Candidate : roster'[v] # "unknown"}
      BY <1>1, <1>4, <1>5, Zenon
    <3>3. disputes'[e].votes \in [Candidate -> Ruling \cup {None}]
      BY <3>1, Zenon
    <3>4. \A v \in Candidate : disputes'[e].votes[v] = None
      BY <3>1, Zenon
    <3> QED BY <3>1, <3>2, <3>3, <3>4, Zenon DEF VotesInv
  <2> QED BY <2>1, <2>2, Zenon
<1>10. ASSUME NEW v \in Candidate PROVE CountInv(v)'
  <2>1. disputes'[d].votes[v] = None
    BY <1>7, <1>8, Zenon
  <2>2. Pending(v)' \subseteq Pending(v)
    BY <1>1, <1>8, <2>1, Zenon DEF Pending, Working
  <2> QED BY <1>1, <2>2, CountKept, Zenon DEF BookInv, RosterTypes
<1> QED BY <1>1, <1>9, <1>10, Zenon DEF BookInv, RosterTypes

\* A dispute that is ruled stays pending for the call that ruled it.
LEMMA ExecuteBooks ==
    ASSUME BookInv, PayoutInv, NEW p \in Caller, NEW d \in Dispute, executeJudgment(p, d)
    PROVE  BookInv'
<1>1. /\ UNCHANGED <<roster, cases, agreed>> /\ Tables /\ disputes[d].ruling = None
      /\ ~Working(p)
  BY Zenon DEF executeJudgment, PayoutInv, requireOpen, Working
<1>2. PICK r : r = computeRuling(disputes[d])
  BY Zenon
<1>3. disputes' = [disputes EXCEPT ![d] = [disputes[d] EXCEPT !["ruling"] = r]]
  BY <1>2, Zenon DEF executeJudgment
<1>4. "ruling" \in Fields /\ {"panel", "open", "votes"} \subseteq Fields
  BY Zenon DEF Fields
<1>5. /\ \A e \in Dispute : e # d => disputes'[e] = disputes[e]
      /\ disputes'[d].votes = disputes[d].votes /\ disputes'[d].panel = disputes[d].panel
      /\ disputes'[d].open = disputes[d].open
  <2>1. /\ \A e \in Dispute : e # d => disputes'[e] = disputes[e]
        /\ \A h \in Fields : h # "ruling" => disputes'[d][h] = disputes[d][h]
    BY <1>1, <1>3, <1>4, FieldSet
  <2> QED BY <1>4, <2>1, Zenon
<1>6. \E txs : call' = [call EXCEPT ![p] = [d |-> d, txs |-> txs]]
  BY Zenon DEF executeJudgment
<1>7. call'[p].d = d /\ \A q \in Caller : q # p => call'[q] = call[q]
  BY <1>1, <1>6 DEF Tables
<1>8. ASSUME NEW e \in Dispute PROVE VotesInv(e)'
  BY <1>1, <1>5, VotesKept, Zenon DEF BookInv
<1>9. ASSUME NEW v \in Candidate PROVE CountInv(v)'
  <2>1. ASSUME NEW e \in Pending(v)' PROVE e \in Pending(v)
    <3>1. e \in Dispute /\ disputes[e].votes[v] # None
      BY <1>5, <2>1, Zenon DEF Pending
    <3>2. CASE e = d
      BY <1>1, <3>1, <3>2, Zenon DEF Pending
    <3>3. CASE e # d
      <4>1. \A q \in Caller : (Working(q)' /\ call'[q].d = e) => Working(q) /\ call[q].d = e
        BY <1>7, <3>3, Zenon DEF Working
      <4> QED BY <1>5, <2>1, <3>1, <3>3, <4>1, Zenon DEF Pending
    <3> QED BY <3>2, <3>3, Zenon
  <2> QED BY <1>1, <2>1, CountKept, Zenon DEF BookInv, RosterTypes
<1> QED BY <1>1, <1>8, <1>9, Zenon DEF BookInv, RosterTypes

\* The mint is the last transaction of every list.
LEMMA MintIsLast ==
    ASSUME NEW s \in Slashing \cup Other, s # << >>, Head(s) = "mint"
    PROVE  Tail(s) = << >>
<1>1. s = <<"mint">>
  <2>1. CASE s \in Slashing
    <3>1. Head(s) \in {"cancelDeposit", "finishStake", "payTenant", "payPool"}
      BY <2>1 DEF Slashing
    <3> QED BY <3>1, Zenon
  <2>2. CASE s \in Other \ {<< >>, <<"mint">>}
    <3>1. Head(s) \in {"cancelDeposit", "finishStake", "finishDeposit"}
      BY <2>2 DEF Other
    <3> QED BY <3>1, Zenon
  <2> QED BY <2>1, <2>2, Zenon
<1> QED BY <1>1

\* A transaction of a call.  The mint ends the call and credits those of its
\* dispute who voted as it was ruled.
LEMMA SubmittedBooks ==
    ASSUME BookInv, PayoutInv, NEW p \in Caller, Submitted(p) \/ SubmitThrows(p)
    PROVE  BookInv'
<1>1. /\ UNCHANGED <<roster, cases, disputes>> /\ Tables /\ Working(p) /\ CallInv(p)
  BY Zenon DEF Submitted, SubmitThrows, Working, PayoutInv
<1>2. PICK d \in Dispute : d = call[p].d
  BY <1>1, Zenon DEF CallInv
<1>3. PICK rest \in {Tail(call[p].txs), << >>} : call' = [call EXCEPT ![p].txs = rest]
  BY Zenon DEF Submitted, SubmitThrows
<1>4. /\ \A q \in Caller : q # p => call'[q] = call[q]
      /\ call'[p].d = d /\ call'[p].txs = rest
  BY <1>1, <1>2, <1>3, Zenon DEF Tables
<1>5. ASSUME NEW v \in Candidate PROVE Pending(v)' \subseteq Pending(v)
  <2>1. \A q \in Caller : Working(q)' => Working(q) /\ call'[q].d = call[q].d
    BY <1>1, <1>2, <1>4, Zenon DEF Working
  <2> QED BY <1>1, <2>1, PendingKept, Zenon
<1>6. ASSUME NEW v \in Candidate
      PROVE  \/ agreed'[v] = agreed[v]
             \/ /\ agreed'[v] = agreed[v] + 1 /\ Head(call[p].txs) = "mint"
                /\ disputes[d].votes[v] # None /\ disputes[d].votes[v] = disputes[d].ruling
                /\ Submitted(p)
  BY <1>2, Zenon DEF Submitted, SubmitThrows, TrackAccuracy
<1>7. RosterTypes'
  <2>1. agreed' \in [Candidate -> Nat]
    <3>1. agreed' = [v \in Candidate |-> agreed'[v]]
      BY Zenon DEF BookInv, RosterTypes, Submitted, SubmitThrows, TrackAccuracy
    <3>2. \A v \in Candidate : agreed'[v] \in Nat
      BY <1>6 DEF BookInv, RosterTypes
    <3> QED BY <3>1, <3>2, Zenon
  <2> QED BY <1>1, <2>1, Zenon DEF BookInv, RosterTypes
<1>8. ASSUME NEW e \in Dispute PROVE VotesInv(e)'
  BY <1>1, VotesKept, Zenon DEF BookInv
<1>9. ASSUME NEW v \in Candidate PROVE CountInv(v)'
  <2>1. CASE agreed'[v] = agreed[v]
    BY <1>1, <1>5, <2>1, CountKept, Zenon DEF BookInv, RosterTypes
  <2>2. CASE agreed'[v] # agreed[v]
    <3>1. /\ agreed'[v] = agreed[v] + 1 /\ Head(call[p].txs) = "mint" /\ Submitted(p)
          /\ disputes[d].votes[v] # None /\ disputes[d].votes[v] = disputes[d].ruling
      BY <1>6, <2>2, Zenon
    <3>2. d \in Pending(v)
      BY <1>1, <1>2, <3>1, Zenon DEF Pending
    <3>3. call[p].txs \in Slashing \cup Other /\ call[p].txs # << >>
      BY <1>1, Zenon DEF CallInv, Working
    <3>4. rest = << >>
      BY <3>1, <3>3, MintIsLast, Zenon
    <3>5. d \notin Pending(v)'
      <4>1. \A q \in Caller : q # p => ~(Working(q) /\ call[q].d = d)
        BY <1>1, <1>2, Zenon DEF CallInv
      <4>2. \A q \in Caller : ~(Working(q)' /\ call'[q].d = d)
        BY <1>4, <3>4, <4>1, Zenon DEF Working
      <4>3. disputes'[d].ruling # None
        BY <1>1, <3>1, Zenon
      <4> QED BY <4>2, <4>3, Zenon DEF Pending
    <3>6. Pending(v)' \subseteq Pending(v) \ {d}
      BY <1>5, <3>5, Zenon
    <3> QED BY <1>1, <3>1, <3>2, <3>6, CountCredited, Zenon DEF BookInv, RosterTypes
  <2> QED BY <2>1, <2>2, Zenon
<1> QED BY <1>7, <1>8, <1>9, Zenon DEF BookInv

\* No verifier has voted at the start.
LEMMA BookInit == Init => BookInv
<1> SUFFICES ASSUME Init PROVE BookInv
  BY Zenon
<1>1. RosterTypes
  BY Zenon DEF Init, RosterTypes
<1>2. ASSUME NEW d \in Dispute
      PROVE  disputes[d].panel = {} /\ disputes[d].votes = [v \in Candidate |-> None]
  BY Zenon DEF Init, NoSubmission
<1>3. ASSUME NEW d \in Dispute PROVE VotesInv(d)
  BY <1>2, Zenon DEF VotesInv
<1>4. ASSUME NEW v \in Candidate PROVE CountInv(v)
  <2>1. Pending(v) = {}
    BY <1>2 DEF Pending
  <2>2. agreed[v] = 0 /\ cases[v] = 0
    BY Zenon DEF Init
  <2>3. Cardinality({}) = 0 /\ IsFiniteSet({})
    BY FS_EmptySet, Zenon
  <2> QED BY <2>1, <2>2, <2>3 DEF CountInv
<1> QED BY <1>1, <1>3, <1>4, Zenon DEF BookInv

\* Every step keeps the counts.
LEMMA BookStep == BookInv /\ PayoutInv /\ [Next]_vars => BookInv'
<1> SUFFICES ASSUME BookInv, PayoutInv, [Next]_vars PROVE BookInv'
  BY Zenon
<1>1. CASE RosterNext
  BY <1>1, RosterBooks, Zenon DEF RosterNext
<1>2. CASE DisputeNext
  BY <1>2, SubmitBooks, VoteBooks, CloseBooks, Zenon DEF DisputeNext, PayoutInv
<1>3. CASE CallNext
  BY <1>3, ExecuteBooks, SubmittedBooks, Zenon DEF CallNext
<1>4. CASE UNCHANGED vars
  <2>1. UNCHANGED <<roster, cases, agreed, disputes, call>>
    BY <1>4, Zenon DEF vars
  <2>2. RosterTypes'
    BY <2>1, Zenon DEF BookInv, RosterTypes
  <2>3. ASSUME NEW d \in Dispute PROVE VotesInv(d)'
    BY <2>1, VotesKept, Zenon DEF BookInv
  <2>4. ASSUME NEW v \in Candidate PROVE CountInv(v)'
    <3>1. Pending(v)' = Pending(v)
      BY <2>1, Zenon DEF Pending, Working
    <3> QED BY <2>1, <3>1, Zenon DEF BookInv, CountInv
  <2> QED BY <2>2, <2>3, <2>4, Zenon DEF BookInv
<1> QED BY <1>1, <1>2, <1>3, <1>4, Zenon DEF Next

\* No verifier is credited with more majority votes than cases, over any number of
\* disputes and overlapping judgments, whoever is deactivated and whatever fails.
THEOREM AgreedAreCases == Spec => []AgreedWithinCases
<1>1. BookInv => AgreedWithinCases
  <2> SUFFICES ASSUME BookInv, NEW v \in Candidate PROVE agreed[v] <= cases[v]
    BY Zenon DEF AgreedWithinCases
  <2>1. PICK n : n = Cardinality(Pending(v))
    BY Zenon
  <2>2. n \in Nat /\ agreed[v] + n <= cases[v] /\ agreed[v] \in Nat /\ cases[v] \in Nat
    BY <2>1, FS_CardinalityType, Zenon DEF BookInv, CountInv, RosterTypes
  <2> QED BY <2>2
<1> QED BY <1>1, PayoutInit, PayoutStep, BookInit, BookStep, PTL DEF Spec

-----------------------------------------------------------------------------
(* What a ruling rests on.                                                 *)

\* More than half of a panel outnumbers any of the rest.
LEMMA MajorityOutnumbers ==
    ASSUME NEW P, IsFiniteSet(P), NEW A, NEW B, A \subseteq P, B \subseteq P, A \cap B = {},
           Cardinality(A) >= Cardinality(P) \div 2 + 1
    PROVE  Cardinality(A) > Cardinality(B)
<1>1. IsFiniteSet(A) /\ IsFiniteSet(B) /\ A \cup B \in SUBSET P
  BY FS_Subset, Zenon
<1>2. Cardinality(A \cup B) = Cardinality(A) + Cardinality(B) - Cardinality({})
  BY <1>1, FS_Union
<1>3. Cardinality({}) = 0
  BY FS_EmptySet, Zenon
<1>4. Cardinality(A \cup B) <= Cardinality(P)
  BY <1>1, FS_Subset, Zenon
<1>5. Cardinality(A) \in Nat /\ Cardinality(B) \in Nat /\ Cardinality(P) \in Nat
  BY <1>1, FS_CardinalityType, Zenon
<1>6. PICK a \in Nat, b \in Nat, c \in Nat :
         a = Cardinality(A) /\ b = Cardinality(B) /\ c = Cardinality(P)
  BY <1>5, Zenon
<1>7. a + b <= c /\ a >= c \div 2 + 1
  BY <1>2, <1>3, <1>4, <1>6
<1>8. a > b
  BY <1>7
<1> QED BY <1>6, <1>8, Zenon

\* A majority of the panel is ahead, whoever else has voted.
LEMMA MajorityAhead ==
    ASSUME NEW votes \in [Candidate -> Ruling \cup {None}], NEW panel, panel \subseteq Candidate,
           \A v \in Candidate : votes[v] # None => v \in panel,
           NEW r \in Ruling, Majority(votes, panel, r)
    PROVE  Ahead(votes, r)
<1>1. None \notin Ruling /\ IsFiniteSet(panel)
  BY PanelAssumption, FS_Subset, Zenon DEF Ruling
<1>2. SUFFICES ASSUME NEW o \in Ruling \ {r} PROVE countVotes(votes, r) > countVotes(votes, o)
  BY Zenon DEF Ahead, Ruling
<1>3. PICK A : A = {v \in DOMAIN votes : votes[v] = r}
  BY Zenon
<1>4. PICK B : B = {v \in DOMAIN votes : votes[v] = o}
  BY Zenon
<1>5. A \subseteq panel /\ B \subseteq panel /\ A \cap B = {}
  BY <1>1, <1>2, <1>3, <1>4, Zenon
<1>6. Cardinality(A) >= Cardinality(panel) \div 2 + 1
  BY <1>3, Zenon DEF Majority, countVotes
<1>7. Cardinality(A) > Cardinality(B)
  BY <1>1, <1>5, <1>6, MajorityOutnumbers, Zenon
<1> QED BY <1>3, <1>4, <1>7, Zenon DEF countVotes

\* computeRuling names a party only if it is ahead, and nothing before the deadline
\* without a majority.
LEMMA RulingBacked ==
    ASSUME NEW s, s.votes \in [Candidate -> Ruling \cup {None}], s.panel \subseteq Candidate,
           \A v \in Candidate : s.votes[v] # None => v \in s.panel
    PROVE  /\ computeRuling(s) \in Ruling \cup {None}
           /\ computeRuling(s) \in {"TENANT_WINS", "LANDLORD_WINS"} =>
                Ahead(s.votes, computeRuling(s))
           /\ computeRuling(s) # None /\ ~s.expired =>
                Majority(s.votes, s.panel, computeRuling(s))
<1>1. PICK r : r = computeRuling(s)
  BY Zenon
<1>2. r \in Ruling \cup {None}
  BY <1>1, Zenon DEF computeRuling, Ruling
<1>3. \/ Majority(s.votes, s.panel, r) \/ r = None \/ s.expired
  BY <1>1, Zenon DEF computeRuling
<1>4. \/ Majority(s.votes, s.panel, r) \/ Ahead(s.votes, r) \/ r = None \/ r = "SYSTEM_FAULT"
  BY <1>1, Zenon DEF computeRuling
<1>5. ASSUME r \in {"TENANT_WINS", "LANDLORD_WINS"} PROVE Ahead(s.votes, r)
  <2>1. r \in Ruling /\ r # None /\ r # "SYSTEM_FAULT"
    BY <1>5, PanelAssumption, Zenon DEF Ruling
  <2>2. Majority(s.votes, s.panel, r) => Ahead(s.votes, r)
    BY <2>1, MajorityAhead, Zenon
  <2> QED BY <1>4, <2>1, <2>2, Zenon
<1> QED BY <1>1, <1>2, <1>3, <1>5, Zenon

\* A ruled dispute stays, and a dispute is ruled as computeRuling says of it.
RulingStep(d) ==
    /\ disputes[d].ruling # None =>
         /\ disputes'[d].ruling = disputes[d].ruling /\ disputes'[d].votes = disputes[d].votes
         /\ disputes'[d].panel = disputes[d].panel
         /\ disputes'[d].withdrawn = disputes[d].withdrawn
    /\ disputes[d].ruling = None /\ disputes'[d].ruling # None =>
         /\ disputes'[d].ruling = computeRuling(disputes[d])
         /\ disputes'[d].votes = disputes[d].votes /\ disputes'[d].panel = disputes[d].panel

\* What every step does to a dispute.
LEMMA EveryRulingStep ==
    ASSUME PayoutInv, [Next]_vars, NEW d \in Dispute
    PROVE  RulingStep(d)
<1>1. Tables /\ PaidInv(d)
  BY Zenon DEF PayoutInv
<1>2. CASE UNCHANGED disputes
  BY <1>2, Zenon DEF RulingStep
<1>3. ASSUME NEW e \in Dispute, NEW l, NEW c, NEW ex, NEW k, NEW st, submitDispute(e, l, c, ex, k, st)
      PROVE  RulingStep(d)
  <2>1. PICK panel : disputes' = [disputes EXCEPT ![e] =
             [NoSubmission EXCEPT !.open = TRUE, !.lease = l, !.claimant = c,
                                  !.panel = panel, !.stake = st]]
    BY <1>3, Zenon DEF submitDispute
  <2>2. CASE d # e
    <3>1. disputes'[d] = disputes[d]
      BY <1>1, <2>1, <2>2, Zenon DEF Tables
    <3> QED BY <3>1, Zenon DEF RulingStep
  <2>3. CASE d = e
    <3>1. disputes[d].ruling = None
      BY <1>1, <1>3, <2>3, Zenon DEF PaidInv, submitDispute
    <3>2. PICK row : row = [NoSubmission EXCEPT !.open = TRUE, !.lease = l, !.claimant = c,
                                                !.panel = panel, !.stake = st]
      BY Zenon
    <3>3. row.ruling = None
      BY <3>2, Zenon DEF NoSubmission
    <3>4. disputes'[d] = row
      BY <1>1, <2>1, <2>3, <3>2, Zenon DEF Tables
    <3> QED BY <3>1, <3>3, <3>4, Zenon DEF RulingStep
  <2> QED BY <2>2, <2>3, Zenon
<1>4. ASSUME NEW e \in Dispute, NEW f \in Fields \ {"ruling"}, NEW x,
             disputes[e].ruling = None \/ f = "expired",
             disputes' = [disputes EXCEPT ![e] = [disputes[e] EXCEPT ![f] = x]]
      PROVE  RulingStep(d)
  <2>1. /\ d # e => disputes'[d] = disputes[d]
        /\ \A h \in Fields : h # f => disputes'[e][h] = disputes[e][h]
    BY <1>1, <1>4, FieldSet
  <2>2. {"ruling", "votes", "panel", "withdrawn"} \subseteq Fields
    BY Zenon DEF Fields
  <2>3. CASE d # e
    BY <2>1, <2>3, Zenon DEF RulingStep
  <2>4. CASE d = e
    BY <1>4, <2>1, <2>2, <2>4, Zenon DEF RulingStep
  <2> QED BY <2>3, <2>4, Zenon
<1>5. ASSUME NEW e \in Dispute, NEW v, NEW r, collectVote(e, v, r) PROVE RulingStep(d)
  <2>1. disputes[e].ruling = None
    BY <1>5, Zenon DEF collectVote, requireOpen
  <2>2. PICK votes : votes = [disputes[e].votes EXCEPT ![v] = r]
    BY Zenon
  <2>3. disputes' = [disputes EXCEPT ![e] = [disputes[e] EXCEPT !["votes"] = votes]]
    BY <1>5, <2>2, Zenon DEF collectVote
  <2>4. "votes" \in Fields \ {"ruling"}
    BY Zenon DEF Fields
  <2> QED BY <1>4, <2>1, <2>3, <2>4, Zenon
<1>6. ASSUME NEW e \in Dispute, withdrawDispute(e) PROVE RulingStep(d)
  <2>1. /\ disputes[e].ruling = None
        /\ disputes' = [disputes EXCEPT ![e] = [disputes[e] EXCEPT !["withdrawn"] = TRUE]]
    BY <1>6, Zenon DEF withdrawDispute, requireOpen
  <2>2. "withdrawn" \in Fields \ {"ruling"}
    BY Zenon DEF Fields
  <2> QED BY <1>4, <2>1, <2>2, Zenon
<1>7. ASSUME NEW e \in Dispute, VotingDeadline(e) PROVE RulingStep(d)
  <2>1. disputes' = [disputes EXCEPT ![e] = [disputes[e] EXCEPT !["expired"] = TRUE]]
    BY <1>7, Zenon DEF VotingDeadline
  <2>2. "expired" \in Fields \ {"ruling"}
    BY Zenon DEF Fields
  <2> QED BY <1>4, <2>1, <2>2, Zenon
<1>8. ASSUME NEW p \in Caller, NEW e \in Dispute, executeJudgment(p, e) PROVE RulingStep(d)
  <2>1. PICK r : r = computeRuling(disputes[e])
    BY Zenon
  <2>2. /\ disputes[e].ruling = None
        /\ disputes' = [disputes EXCEPT ![e] = [disputes[e] EXCEPT !["ruling"] = r]]
    BY <1>8, <2>1, Zenon DEF executeJudgment, requireOpen
  <2>3. "ruling" \in Fields /\ {"votes", "panel"} \subseteq Fields
    BY Zenon DEF Fields
  <2>4. /\ \A o \in Dispute : o # e => disputes'[o] = disputes[o]
        /\ disputes'[e]["ruling"] = r
        /\ \A h \in Fields : h # "ruling" => disputes'[e][h] = disputes[e][h]
    BY <1>1, <2>2, <2>3, FieldSet, ZenonT(40)
  <2>5. CASE d # e
    BY <2>4, <2>5, Zenon DEF RulingStep
  <2>6. CASE d = e
    <3>1. /\ disputes'[d].ruling = r /\ disputes'[d].votes = disputes[d].votes
          /\ disputes'[d].panel = disputes[d].panel
      BY <2>3, <2>4, <2>6, Zenon
    <3> QED BY <2>1, <2>2, <2>6, <3>1, Zenon DEF RulingStep
  <2> QED BY <2>5, <2>6, Zenon
<1>9. CASE RosterNext
  BY <1>2, <1>9, Zenon DEF RosterNext, registerVerifier, deactivateVerifier
<1>10. CASE DisputeNext
  BY <1>3, <1>5, <1>6, <1>7, <1>10, Zenon DEF DisputeNext
<1>11. CASE CallNext
  BY <1>2, <1>8, <1>11, Zenon DEF CallNext, Submitted, SubmitThrows
<1>12. CASE UNCHANGED vars
  BY <1>2, <1>12, Zenon DEF vars
<1> QED BY <1>9, <1>10, <1>11, <1>12, Zenon DEF Next

\* While the transactions of a ruling are awaited, no vote, withdrawal or second
\* judgment changes the ruling or what it rests on.
THEOREM RulingsKept == Spec => [][RulingKept]_vars
<1>1. PayoutInv /\ [Next]_vars => RulingKept
  BY EveryRulingStep, Zenon DEF RulingKept, RulingStep
<1> QED BY <1>1, PayoutInit, PayoutStep, PTL DEF Spec

\* A ruling before the deadline is the one the complete vote gives, however the
\* rest of the panel would have voted.
THEOREM EarlyRulingsStand == Spec => [][RulesEarly]_vars
<1>1. BookInv /\ PayoutInv /\ [Next]_vars => RulesEarly
  <2> SUFFICES ASSUME BookInv, PayoutInv, [Next]_vars, NEW d \in Dispute,
                      disputes[d].ruling = None, disputes'[d].ruling # None,
                      ~disputes[d].expired,
                      NEW rest \in [{v \in disputes[d].panel : disputes[d].votes[v] = None}
                                      -> Ruling]
               PROVE  Ahead([v \in Candidate |->
                              IF v \in {w \in disputes[d].panel : disputes[d].votes[w] = None}
                              THEN rest[v] ELSE disputes[d].votes[v]], disputes'[d].ruling)
    BY Zenon DEF RulesEarly
  <2>1. PICK s : s = disputes[d]
    BY Zenon
  <2>2. PICK r : r = computeRuling(s)
    BY Zenon
  <2>3. disputes'[d].ruling = r
    BY <2>1, <2>2, EveryRulingStep, Zenon DEF RulingStep
  <2>4. /\ s.votes \in [Candidate -> Ruling \cup {None}] /\ s.panel \subseteq Candidate
        /\ \A v \in Candidate : s.votes[v] # None => v \in s.panel
    BY <2>1, Zenon DEF BookInv, VotesInv
  <2>5. r \in Ruling /\ Majority(s.votes, s.panel, r)
    BY <2>1, <2>2, <2>3, <2>4, RulingBacked, Zenon
  <2>6. PICK all : all = [v \in Candidate |->
                           IF v \in {w \in s.panel : s.votes[w] = None}
                           THEN rest[v] ELSE s.votes[v]]
    BY Zenon
  <2>7. /\ all \in [Candidate -> Ruling \cup {None}]
        /\ \A v \in Candidate : all[v] # None => v \in s.panel
        /\ \A v \in Candidate : s.votes[v] = r => all[v] = r
    <3>1. None \notin Ruling
      BY PanelAssumption, Zenon DEF Ruling
    <3>2. ASSUME NEW v \in Candidate
          PROVE  /\ all[v] \in Ruling \cup {None} /\ (all[v] # None => v \in s.panel)
                 /\ s.votes[v] = r => all[v] = r
      BY <2>1, <2>4, <2>5, <2>6, <3>1, Zenon
    <3> QED BY <2>6, <3>2, Zenon
  <2>8. Majority(all, s.panel, r)
    <3>1. PICK A : A = {v \in DOMAIN s.votes : s.votes[v] = r}
      BY Zenon
    <3>2. PICK B : B = {v \in DOMAIN all : all[v] = r}
      BY Zenon
    <3>3. A \subseteq B /\ B \subseteq Candidate
      BY <2>4, <2>7, <3>1, <3>2, Zenon
    <3>4. IsFiniteSet(B) /\ Cardinality(A) <= Cardinality(B)
      BY <3>3, PanelAssumption, FS_Subset, Zenon
    <3>5. Cardinality(A) >= Cardinality(s.panel) \div 2 + 1
      BY <2>5, <3>1, Zenon DEF Majority, countVotes
    <3>6. /\ IsFiniteSet(A) /\ IsFiniteSet(s.panel)
          /\ Cardinality(A) \in Nat /\ Cardinality(B) \in Nat /\ Cardinality(s.panel) \in Nat
      BY <2>4, <3>3, <3>4, PanelAssumption, FS_Subset, FS_CardinalityType, Zenon
    <3>7. Cardinality(B) >= Cardinality(s.panel) \div 2 + 1
      BY <3>4, <3>5, <3>6
    <3> QED BY <3>2, <3>7, Zenon DEF Majority, countVotes
  <2>9. Ahead(all, r)
    BY <2>4, <2>5, <2>7, <2>8, MajorityAhead, Zenon
  <2> QED BY <2>1, <2>3, <2>6, <2>9, Zenon
<1> QED BY <1>1, PayoutInit, PayoutStep, BookInit, BookStep, PTL DEF Spec

\* A party that wins is ahead of the other rulings.
WinInv ==
    \A d \in Dispute : disputes[d].ruling \in {"TENANT_WINS", "LANDLORD_WINS"} =>
        Ahead(disputes[d].votes, disputes[d].ruling)

\* A party wins only with more votes of the panel than every other ruling has; a
\* tie slashes nobody.
THEOREM PartiesWinAhead == Spec => []PartyWinsOnlyAhead
<1>1. Init => WinInv
  <2> SUFFICES ASSUME Init, NEW d \in Dispute
               PROVE  disputes[d].ruling \notin {"TENANT_WINS", "LANDLORD_WINS"}
    BY Zenon DEF WinInv
  <2>1. disputes[d].ruling = None
    BY Zenon DEF Init, NoSubmission
  <2> QED BY <2>1, PanelAssumption, Zenon
<1>2. WinInv /\ BookInv /\ PayoutInv /\ [Next]_vars => WinInv'
  <2> SUFFICES ASSUME WinInv, BookInv, PayoutInv, [Next]_vars, NEW d \in Dispute,
                      disputes'[d].ruling \in {"TENANT_WINS", "LANDLORD_WINS"}
               PROVE  Ahead(disputes'[d].votes, disputes'[d].ruling)
    BY Zenon DEF WinInv
  <2>1. RulingStep(d) /\ disputes'[d].ruling # None
    BY EveryRulingStep, PanelAssumption, Zenon
  <2>2. CASE disputes[d].ruling # None
    BY <2>1, <2>2, Zenon DEF RulingStep, WinInv
  <2>3. CASE disputes[d].ruling = None
    <3>1. PICK s : s = disputes[d]
      BY Zenon
    <3>2. disputes'[d].ruling = computeRuling(s) /\ disputes'[d].votes = s.votes
      BY <2>1, <2>3, <3>1, Zenon DEF RulingStep
    <3>3. /\ s.votes \in [Candidate -> Ruling \cup {None}] /\ s.panel \subseteq Candidate
          /\ \A v \in Candidate : s.votes[v] # None => v \in s.panel
      BY <3>1, Zenon DEF BookInv, VotesInv
    <3> QED BY <3>2, <3>3, RulingBacked, Zenon
  <2> QED BY <2>2, <2>3, Zenon
<1>3. WinInv /\ BookInv => PartyWinsOnlyAhead
  <2> SUFFICES ASSUME WinInv, BookInv, NEW d \in Dispute,
                      disputes[d].ruling \in {"TENANT_WINS", "LANDLORD_WINS"},
                      NEW r \in Ruling \ {disputes[d].ruling}
               PROVE  Cardinality({v \in disputes[d].panel :
                                     disputes[d].votes[v] = disputes[d].ruling})
                        > Cardinality({v \in disputes[d].panel : disputes[d].votes[v] = r})
    BY Zenon DEF PartyWinsOnlyAhead
  <2>1. PICK votes, panel, w : /\ votes = disputes[d].votes /\ panel = disputes[d].panel
                               /\ w = disputes[d].ruling
    BY Zenon
  <2>2. /\ votes \in [Candidate -> Ruling \cup {None}] /\ panel \subseteq Candidate
        /\ \A v \in Candidate : votes[v] # None => v \in panel
    BY <2>1, Zenon DEF BookInv, VotesInv
  <2>3. None \notin Ruling /\ w \in Ruling /\ r \in Ruling
    BY <2>1, PanelAssumption, Zenon DEF Ruling
  <2>4. ASSUME NEW o \in Ruling
        PROVE  {v \in panel : votes[v] = o} = {v \in DOMAIN votes : votes[v] = o}
    BY <2>2, <2>3, Zenon
  <2>5. countVotes(votes, w) > countVotes(votes, r)
    BY <2>1, <2>3, Zenon DEF WinInv, Ahead, Ruling
  <2> QED BY <2>1, <2>3, <2>4, <2>5, Zenon DEF countVotes
<1> QED BY <1>1, <1>2, <1>3, PayoutInit, PayoutStep, BookInit, BookStep, PTL DEF Spec

=============================================================================
