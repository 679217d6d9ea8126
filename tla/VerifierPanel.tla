--------------------------- MODULE VerifierPanel ---------------------------
(***************************************************************************)
(* DisputeService of packages/xrpl-core: the roster of verifiers, the      *)
(* panel drawn for a dispute, its votes, the ruling and the transactions   *)
(* that carry the ruling out.  Every method but executeJudgment runs to    *)
(* its end without an await.  executeJudgment awaits each transaction, so  *)
(* that other calls run between two of them.                               *)
(***************************************************************************)
EXTENDS Integers, FiniteSets, Sequences, Functions

CONSTANTS
    Candidate,   \* addresses that may register as verifiers
    Tenant,      \* meta.parties.tenant; may be a candidate as well
    Landlord,    \* meta.parties.landlord
    Dispute,     \* the identifiers randomDisputeId hands out
    Lease,       \* leases, each with a deposit and a stake escrow
    Caller,      \* concurrent executeJudgment calls
    PanelSizes,  \* values of panelSize
    Stakes,      \* values of meta.stakeAmountDrops
    NoStake,     \* meta.stakeAmountDrops is not set
    None,        \* no ruling, no vote, no claimant
    MaxFaults    \* transactions that do not simply succeed

ASSUME PanelAssumption ==
    /\ PanelSizes \subseteq Nat /\ Stakes \subseteq Nat /\ MaxFaults \in Nat
    /\ NoStake \notin Stakes /\ IsFiniteSet(Candidate)
    /\ None \notin {"TENANT_WINS", "LANDLORD_WINS", "SYSTEM_FAULT", Tenant, Landlord}

VARIABLES
    roster,     \* verifiers: "unknown", "active" or "inactive"
    cases,      \* VerifierEntry.casesHandled
    agreed,     \* VerifierEntry.votesWithMajority
    disputes,   \* the map of submissions
    call,       \* executeJudgment calls: the dispute and the transactions left
    escrow,     \* ledger: the deposit and the stake of each lease
    paid,       \* ledger: drops of the stake split paid for each dispute
    minted,     \* ledger: the judgment NFTs of each dispute
    faults

vars == <<roster, cases, agreed, disputes, call, escrow, paid, minted, faults>>
ledger == <<escrow, paid, minted, faults>>

Ruling == {"TENANT_WINS", "LANDLORD_WINS", "SYSTEM_FAULT"}

Submission ==
    [open: BOOLEAN, lease: Lease, claimant: {Tenant, Landlord, None},
     panel: SUBSET Candidate, votes: [Candidate -> Ruling \cup {None}],
     stake: Stakes \cup {NoStake}, expired: BOOLEAN, withdrawn: BOOLEAN,
     ruling: Ruling \cup {None}]

NoSubmission ==
    [open |-> FALSE, lease |-> CHOOSE l \in Lease : TRUE, claimant |-> None,
     panel |-> {}, votes |-> [v \in Candidate |-> None], stake |-> NoStake,
     expired |-> FALSE, withdrawn |-> FALSE, ruling |-> None]

Tx == {"cancelDeposit", "finishDeposit", "finishStake", "payTenant", "payPool", "mint"}

\* The type of every variable.
TypeOK ==
    /\ roster \in [Candidate -> {"unknown", "active", "inactive"}]
    /\ cases \in [Candidate -> Nat] /\ agreed \in [Candidate -> Nat]
    /\ disputes \in [Dispute -> Submission]
    /\ call \in [Caller -> [d: Dispute, txs: Seq(Tx)]]
    /\ escrow \in [Lease -> [deposit: {"held", "cancelled", "finished"},
                             stake: {"held", "finished"}]]
    /\ paid \in [Dispute -> [tenant: Nat, pool: Nat]]
    /\ minted \in [Dispute -> Nat]
    /\ faults \in Nat

Init ==
    /\ roster = [v \in Candidate |-> "unknown"]
    /\ cases = [v \in Candidate |-> 0] /\ agreed = [v \in Candidate |-> 0]
    /\ disputes = [d \in Dispute |-> NoSubmission]
    /\ call = [p \in Caller |-> [d |-> CHOOSE d \in Dispute : TRUE, txs |-> << >>]]
    /\ escrow = [l \in Lease |-> [deposit |-> "held", stake |-> "held"]]
    /\ paid = [d \in Dispute |-> [tenant |-> 0, pool |-> 0]]
    /\ minted = [d \in Dispute |-> 0]
    /\ faults = 0

-----------------------------------------------------------------------------
(* Roster.                                                                 *)

registerVerifier(v) ==
    /\ roster[v] = "unknown"
    /\ roster' = [roster EXCEPT ![v] = "active"]
    /\ UNCHANGED <<cases, agreed, disputes, call, ledger>>

deactivateVerifier(v) ==
    /\ roster[v] # "unknown"
    /\ roster' = [roster EXCEPT ![v] = "inactive"]
    /\ UNCHANGED <<cases, agreed, disputes, call, ledger>>

-----------------------------------------------------------------------------
(* The draw.  A draw of k out of n is the list of the k random indices j   *)
(* of the partial shuffle, which swaps the places n, n-1, ..., n-k+1 in    *)
(* turn with a place that is not above them.                               *)

Eligible(exclude) == {v \in Candidate : roster[v] = "active" /\ v \notin exclude}

\* Mutant: an index is drawn from the whole pool at every place.
AnyPlaceDraws(n, k) == [1..k -> 1..n]

Draws(n, k) == {js \in [1..k -> 1..n] : \A s \in 1..k : js[s] <= n - s + 1}

Swap(arr, i, j) == [arr EXCEPT ![i] = arr[j], ![j] = arr[i]]

\* arr.slice(arr.length - panelSize) after the shuffle
Drawn(arr, js) ==
    LET n == Len(arr)
        k == Len(js)
        shuffled[s \in 0..k] == IF s = 0 THEN arr ELSE Swap(shuffled[s - 1], n - s + 1, js[s])
    IN  Range(SubSeq(shuffled[k], n - k + 1, n))

\* The addresses of the pool as an array, in the order the map iterates.
Pool(S) == CHOOSE arr \in Injection(1..Cardinality(S), S) : TRUE

selectVerifiers(exclude, k) ==
    LET arr == Pool(Eligible(exclude))
    IN  {Drawn(arr, js) : js \in Draws(Len(arr), k)}

submitDispute(d, lease, claimant, exclude, k, stake) ==
    /\ ~disputes[d].open
    /\ Cardinality(Eligible(exclude \cup {Tenant, Landlord})) >= k
    /\ \E panel \in selectVerifiers(exclude \cup {Tenant, Landlord}, k) :
         disputes' = [disputes EXCEPT ![d] =
             [NoSubmission EXCEPT !.open = TRUE, !.lease = lease, !.claimant = claimant,
                                  !.panel = panel, !.stake = stake]]
    /\ UNCHANGED <<roster, cases, agreed, call, ledger>>

-----------------------------------------------------------------------------
(* Votes.  collectVote does not look at the deadline.                      *)

requireOpen(d) == disputes[d].open /\ ~disputes[d].withdrawn /\ disputes[d].ruling = None

\* Mutant: only an active verifier's case is counted.
CollectVoteOfActive(d, v, r) ==
    /\ requireOpen(d)
    /\ v \in disputes[d].panel /\ disputes[d].votes[v] = None
    /\ disputes' = [disputes EXCEPT ![d].votes[v] = r]
    /\ cases' = [cases EXCEPT ![v] = IF roster[v] = "active" THEN @ + 1 ELSE @]
    /\ UNCHANGED <<roster, agreed, call, ledger>>

collectVote(d, v, r) ==
    /\ requireOpen(d)
    /\ v \in disputes[d].panel /\ disputes[d].votes[v] = None
    /\ disputes' = [disputes EXCEPT ![d].votes[v] = r]
    /\ cases' = [cases EXCEPT ![v] = IF roster[v] # "unknown" THEN @ + 1 ELSE @]
    /\ UNCHANGED <<roster, agreed, call, ledger>>

withdrawDispute(d) ==
    /\ requireOpen(d)
    /\ disputes' = [disputes EXCEPT ![d].withdrawn = TRUE]
    /\ UNCHANGED <<roster, cases, agreed, call, ledger>>

\* The clock passes votingDeadlineUnix.
VotingDeadline(d) ==
    /\ disputes[d].open /\ ~disputes[d].expired
    /\ disputes' = [disputes EXCEPT ![d].expired = TRUE]
    /\ UNCHANGED <<roster, cases, agreed, call, ledger>>

-----------------------------------------------------------------------------
(* The ruling.                                                             *)

countVotes(votes, r) == Cardinality({v \in DOMAIN votes : votes[v] = r})

\* Mutant: half of the panel is a majority.
HalfIsMajority(votes, panel, r) == countVotes(votes, r) >= Cardinality(panel) \div 2

Majority(votes, panel, r) == countVotes(votes, r) >= Cardinality(panel) \div 2 + 1

Ahead(votes, r) ==
    \A o \in {"TENANT_WINS", "LANDLORD_WINS", "SYSTEM_FAULT"} \ {r} :
        countVotes(votes, r) > countVotes(votes, o)

\* None: computeRuling throws, no majority yet and voting still open.
computeRuling(s) ==
    LET major(r) == Majority(s.votes, s.panel, r)
    IN  IF major("TENANT_WINS") THEN "TENANT_WINS"
        ELSE IF major("LANDLORD_WINS") THEN "LANDLORD_WINS"
        ELSE IF major("SYSTEM_FAULT") THEN "SYSTEM_FAULT"
        ELSE IF ~s.expired THEN None
        ELSE IF Ahead(s.votes, "TENANT_WINS") THEN "TENANT_WINS"
        ELSE IF Ahead(s.votes, "LANDLORD_WINS") THEN "LANDLORD_WINS"
        ELSE "SYSTEM_FAULT"

-----------------------------------------------------------------------------
(* Carrying the ruling out.                                                *)

\* The transactions of a ruling in order.  slashStake throws when the amount
\* of the stake is missing: nothing follows the cancelled deposit.
Consequences(ruling, stake) ==
    CASE ruling = "TENANT_WINS" /\ stake # NoStake ->
           <<"cancelDeposit", "finishStake", "payTenant", "payPool", "mint">>
      [] ruling = "TENANT_WINS" /\ stake = NoStake -> <<"cancelDeposit">>
      [] ruling = "LANDLORD_WINS" -> <<"finishDeposit", "finishStake", "mint">>
      [] ruling = "SYSTEM_FAULT" -> <<"cancelDeposit", "finishStake", "mint">>

\* The split of the stake: SLASH_TENANT_BPS of BPS_DENOM, rounded down, and the rest.
toTenant(total) == (total * 7000) \div 10000

toInsurance(total) == total - toTenant(total)

\* Mutant: the case stays open after its judgment.
ExecuteKeepsOpen(p, d) ==
    /\ call[p].txs = << >>
    /\ requireOpen(d) /\ computeRuling(disputes[d]) # None
    /\ call' = [call EXCEPT ![p] =
                  [d |-> d, txs |-> Consequences(computeRuling(disputes[d]), disputes[d].stake)]]
    /\ UNCHANGED <<roster, cases, agreed, disputes, ledger>>

executeJudgment(p, d) ==
    /\ call[p].txs = << >>
    /\ requireOpen(d) /\ computeRuling(disputes[d]) # None
    /\ disputes' = [disputes EXCEPT ![d].ruling = computeRuling(disputes[d])]
    /\ call' = [call EXCEPT ![p] =
                  [d |-> d, txs |-> Consequences(computeRuling(disputes[d]), disputes[d].stake)]]
    /\ UNCHANGED <<roster, cases, agreed, ledger>>

\* What a transaction that succeeds does on the ledger.  An escrow that is no
\* longer held is no target: the transaction is validated with a tec code.
Apply(tx, d) ==
    LET l == disputes[d].lease
        total == disputes[d].stake
    IN  /\ escrow' = [escrow EXCEPT ![l] =
              CASE tx = "cancelDeposit" /\ @.deposit = "held" -> [@ EXCEPT !.deposit = "cancelled"]
                [] tx = "finishDeposit" /\ @.deposit = "held" -> [@ EXCEPT !.deposit = "finished"]
                [] tx = "finishStake" -> [@ EXCEPT !.stake = "finished"]
                [] OTHER -> @]
        /\ paid' = [paid EXCEPT ![d] =
              [tenant |-> @.tenant + IF tx = "payTenant" THEN toTenant(total) ELSE 0,
               pool |-> @.pool + IF tx = "payPool" THEN toInsurance(total) ELSE 0]]
        /\ minted' = [minted EXCEPT ![d] = IF tx = "mint" THEN @ + 1 ELSE @]

\* Verifier accuracy, after the mint has returned.
TrackAccuracy(tx, d) ==
    agreed' = [v \in Candidate |->
        IF /\ tx = "mint" /\ roster[v] # "unknown"
           /\ disputes[d].votes[v] # None /\ disputes[d].votes[v] = disputes[d].ruling
        THEN agreed[v] + 1 ELSE agreed[v]]

\* signAndSubmit returns every validated result and looks at no result code.
Submitted(p) ==
    LET tx == Head(call[p].txs) IN
    /\ call[p].txs # << >>
    /\ \/ Apply(tx, call[p].d) /\ UNCHANGED faults
       \/ /\ faults < MaxFaults /\ faults' = faults + 1      \* a tec code
          /\ UNCHANGED <<escrow, paid, minted>>
    /\ TrackAccuracy(tx, call[p].d)
    /\ call' = [call EXCEPT ![p].txs = Tail(@)]
    /\ UNCHANGED <<roster, cases, disputes>>

\* signAndSubmit throws, whether or not the transaction has been applied, and
\* executeJudgment ends there.
SubmitThrows(p) ==
    /\ call[p].txs # << >>
    /\ faults < MaxFaults /\ faults' = faults + 1
    /\ \/ Apply(Head(call[p].txs), call[p].d)
       \/ UNCHANGED <<escrow, paid, minted>>
    /\ call' = [call EXCEPT ![p].txs = << >>]
    /\ UNCHANGED <<roster, cases, agreed, disputes>>

-----------------------------------------------------------------------------

RosterNext == \E v \in Candidate : registerVerifier(v) \/ deactivateVerifier(v)

DisputeNext == \E d \in Dispute :
    \/ \E l \in Lease, c \in {Tenant, Landlord}, ex \in SUBSET Candidate, k \in PanelSizes,
          s \in Stakes \cup {NoStake} : submitDispute(d, l, c, ex, k, s)
    \/ \E v \in Candidate, r \in Ruling : collectVote(d, v, r)
    \/ withdrawDispute(d)
    \/ VotingDeadline(d)

CallNext == \E p \in Caller :
    \/ \E d \in Dispute : executeJudgment(p, d)
    \/ Submitted(p)
    \/ SubmitThrows(p)

Next == RosterNext \/ DisputeNext \/ CallNext

Spec == Init /\ [][Next]_vars

-----------------------------------------------------------------------------
(* Properties.                                                             *)

\* A dispute that executeJudgment has ruled on stays as it was ruled: while its
\* transactions are awaited no vote, withdrawal or second execution changes it
\* (requireOpen, and d.ruling set before the first await).
RulingKept ==
    \A d \in Dispute : disputes[d].ruling # None =>
      /\ disputes'[d].ruling = disputes[d].ruling
      /\ disputes'[d].votes = disputes[d].votes
      /\ disputes'[d].withdrawn = disputes[d].withdrawn

\* computeRuling before the deadline anticipates only what is settled: however the
\* rest of the panel would have voted, the ruling of the complete vote is the same.
RulesEarly ==
    \A d \in Dispute :
      disputes[d].ruling = None /\ disputes'[d].ruling # None /\ ~disputes[d].expired =>
        LET s == disputes[d]
            missing == {v \in s.panel : s.votes[v] = None}
        IN  \A rest \in [missing -> Ruling] :
              LET all == [v \in Candidate |-> IF v \in missing THEN rest[v] ELSE s.votes[v]]
              IN  Ahead(all, disputes'[d].ruling)

\* A ruling for a party is backed by more votes than every other ruling has; with
\* a tie the dispute is a system fault, which slashes nobody (computeRuling).
PartyWinsOnlyAhead ==
    \A d \in Dispute : disputes[d].ruling \in {"TENANT_WINS", "LANDLORD_WINS"} =>
        \A r \in Ruling \ {disputes[d].ruling} :
            Cardinality({v \in disputes[d].panel : disputes[d].votes[v] = disputes[d].ruling})
              > Cardinality({v \in disputes[d].panel : disputes[d].votes[v] = r})

\* Whatever fails half-way and whoever calls executeJudgment again, the payments of
\* one dispute never exceed its stake, and only a tenant who has won is paid.
PayoutWithinStake ==
    \A d \in Dispute : paid[d].tenant + paid[d].pool > 0 =>
        /\ disputes[d].ruling = "TENANT_WINS"
        /\ paid[d].tenant + paid[d].pool <= disputes[d].stake

\* A verifier is never credited with more majority votes than cases, over all
\* disputes and after any deactivation (collectVote, executeJudgment step 3).
AgreedWithinCases == \A v \in Candidate : agreed[v] <= cases[v]

\* The partial shuffle of selectVerifiers gives every panel of the wanted size the
\* same number of draws, whoever is on the roster.
DrawIsUniform ==
    LET arr == Pool(Eligible({Tenant, Landlord})) IN
    \A k \in PanelSizes : k <= Len(arr) =>
        \A A, B \in {S \in SUBSET Range(arr) : Cardinality(S) = k} :
            LET ways(S) == Cardinality({js \in Draws(Len(arr), k) : Drawn(arr, js) = S})
            IN  ways(A) = ways(B) /\ ways(A) > 0

\* DisputeService.ts:318-320: the stake is finished into the funder's account first
\* and then split, so that no payment of the split is made out of other money.
StakeFundsTheSplit ==
    \A d \in Dispute : paid[d].tenant + paid[d].pool > 0 =>
        escrow[disputes[d].lease].stake = "finished"

\* DisputeService.ts:30-31: the judgment NFT is minted in every case.  A ruled
\* dispute that no call is working on any more has its NFT.
RulingIsMinted ==
    \A d \in Dispute :
        /\ disputes[d].ruling # None
        /\ \A p \in Caller : call[p].txs # << >> => call[p].d # d
        => minted[d] > 0
=============================================================================
