---------------------------- MODULE DisputeReview ----------------------------
(***************************************************************************)
(* The review of one dispute at be2-ops: verifiers' recommendations (POST  *)
(* .../verifier-votes), the tally and quorum of GET .../review-state, and  *)
(* the registry of verifiers.  A vote is checked against the votes already *)
(* there and appended later; the table has no unique key on the verifier.  *)
(* The registry is kept beside the votes and is not consulted by them.     *)
(***************************************************************************)
EXTENDS Naturals, Sequences, FiniteSets, SequencesExt, FiniteSetsExt

CONSTANTS
  Verifier,        \* who votes
  Recommendation,  \* what a vote recommends
  Handler,         \* requests in progress
  QuorumK,         \* config.dispute.verifierQuorumK
  MaxVotes,        \* bound on the vote requests
  MaxUpserts       \* bound on the registry requests

VARIABLES
  status,     \* the dispute's status
  votes,      \* the dispute_verifier_votes rows, oldest first
  registry,   \* the registry: one entry per verifier
  requests,   \* what each handler is doing
  answers,    \* the registry ids that were answered, per verifier
  seen        \* requests so far; did votes, decision or upserts overlap

vars == <<status, votes, registry, requests, answers, seen>>

Idle == [pc |-> "idle"]
NoEntry == [id |-> 0]
Vote == [verifierId : Verifier, recommendation : Recommendation]

Init ==
  /\ status = "filed"
  /\ votes = << >>
  /\ registry = [v \in Verifier |-> NoEntry]
  /\ requests = [h \in Handler |-> Idle]
  /\ answers = [v \in Verifier |-> {}]
  /\ seen = [votes |-> 0, upserts |-> 0, sameVoter |-> FALSE, decided |-> FALSE, sameEntry |-> FALSE]

Open == status \in {"filed", "under_review"}
Goto(h, r) == requests' = [requests EXCEPT ![h] = r]

\* The request reads the dispute and refuses unless it is open.
ReadDispute(h) ==
  /\ requests[h] = Idle /\ seen.votes < MaxVotes /\ Open
  /\ \E vote \in Vote : Goto(h, [pc |-> "list", vote |-> vote])
  /\ seen' = [seen EXCEPT !.votes = @ + 1]
  /\ UNCHANGED <<status, votes, registry, answers>>

\* Mutant: the earlier votes are not looked at.
ListAndTrust(h) ==
  /\ requests[h].pc = "list"
  /\ Goto(h, [requests[h] EXCEPT !.pc = "append"])
  /\ UNCHANGED <<status, votes, registry, answers, seen>>

\* It lists the prior votes and refuses a verifier who has one.
listDisputeVerifierVotes(h) ==
  /\ requests[h].pc = "list"
  /\ LET v == requests[h].vote.verifierId IN
     IF \E i \in DOMAIN votes : votes[i].verifierId = v
     THEN Goto(h, Idle) /\ UNCHANGED seen
     ELSE /\ Goto(h, [requests[h] EXCEPT !.pc = "append"])
          /\ seen' = [seen EXCEPT !.sameVoter = @ \/ \E k \in Handler :
               requests[k].pc = "append" /\ requests[k].vote.verifierId = v]
  /\ UNCHANGED <<status, votes, registry, answers>>

\* INSERT, then the event and the audit entry.
appendDisputeVerifierVote(h) ==
  /\ requests[h].pc = "append"
  /\ votes' = Append(votes, requests[h].vote)
  /\ Goto(h, Idle)
  /\ UNCHANGED <<status, registry, answers, seen>>

\* PATCH .../status and POST .../decision move the dispute meanwhile.
StartReview ==
  /\ status = "filed" /\ status' = "under_review"
  /\ UNCHANGED <<votes, registry, requests, answers, seen>>

Decide ==
  /\ Open /\ status' = "decided"
  /\ seen' = [seen EXCEPT !.decided = \E h \in Handler : requests[h].pc \in {"list", "append"}]
  /\ UNCHANGED <<votes, registry, requests, answers>>

\* POST .../dispute-verifier-registry looks for the entry and keeps its id.
FindEntry(h) ==
  /\ requests[h] = Idle /\ seen.upserts < MaxUpserts
  /\ \E v \in Verifier, active \in BOOLEAN :
       /\ Goto(h, [pc |-> "upsert", verifier |-> v, active |-> active,
                   id |-> IF registry[v] = NoEntry THEN seen.upserts + 1 ELSE registry[v].id])
       /\ seen' = [seen EXCEPT !.upserts = @ + 1, !.sameEntry = @ \/
            (registry[v] = NoEntry /\ \E k \in Handler :
               requests[k].pc = "upsert" /\ requests[k].verifier = v)]
  /\ UNCHANGED <<status, votes, registry, answers>>

\* ON CONFLICT (verifier_id) updates the label and the flag only.
upsertDisputeVerifierRegistryEntry(h) ==
  /\ requests[h].pc = "upsert"
  /\ LET r == requests[h]  old == registry[r.verifier] IN
     /\ registry' = [registry EXCEPT ![r.verifier] =
          [id |-> IF old = NoEntry THEN r.id ELSE old.id, active |-> r.active]]
     /\ answers' = [answers EXCEPT ![r.verifier] = @ \cup {r.id}]
  /\ Goto(h, Idle)
  /\ UNCHANGED <<status, votes, seen>>

Next ==
  \/ \E h \in Handler :
       \/ ReadDispute(h) \/ listDisputeVerifierVotes(h) \/ appendDisputeVerifierVote(h)
       \/ FindEntry(h) \/ upsertDisputeVerifierRegistryEntry(h)
  \/ StartReview \/ Decide

Spec == Init /\ [][Next]_vars

-----------------------------------------------------------------------------
\* GET .../review-state: the tally and whether some recommendation has K votes.
tally == [r \in Recommendation |-> Len(SelectSeq(votes, LAMBDA v : v.recommendation = r))]
quorumMet == Max({0} \cup {tally[r] : r \in Recommendation}) >= QuorumK

\* The type of every variable.
TypeOK ==
  /\ status \in {"filed", "under_review", "decided"}
  /\ votes \in Seq(Vote) /\ Len(votes) <= MaxVotes
  /\ \A v \in Verifier : registry[v] = NoEntry \/ registry[v].active \in BOOLEAN

Supporters(r) == {v \in Verifier : \E i \in DOMAIN votes :
                    votes[i] = [verifierId |-> v, recommendation |-> r]}

(***************************************************************************)
(* A quorum is a quorum of people: when some recommendation has K votes, K *)
(* different verifiers gave it, unless two requests of the same verifier   *)
(* were both past the check before either was appended (index.ts:1301-1316)*)
(***************************************************************************)
QuorumHasVoters ==
  quorumMet => \/ \E r \in Recommendation : Cardinality(Supporters(r)) >= QuorumK
               \/ seen.sameVoter

(***************************************************************************)
(* Nothing is added to the votes of a decided dispute except by a request  *)
(* that had read the dispute while it was open (index.ts:1294).            *)
(***************************************************************************)
VotesWhileOpen ==
  votes' # votes => Open \/ seen.decided

(***************************************************************************)
(* The id a registry request answers, and writes into the audit trail, is  *)
(* the id stored, unless two first entries of one verifier overlapped: the *)
(* upsert keeps the first (index.ts:2606-2617).                            *)
(***************************************************************************)
AnsweredIdStands ==
  seen.sameEntry \/ \A v \in Verifier : answers[v] # {} => answers[v] = {registry[v].id}

\* What a review answers is true of its tables: a quorum has that many voters
\* and a registry id is the one stored, unless requests of one verifier
\* overlapped (POST verifier-votes, POST dispute-verifier-registry).
ReviewAnswersStand ==
  /\ TypeOK
  /\ QuorumHasVoters
  /\ AnsweredIdStands
=============================================================================
