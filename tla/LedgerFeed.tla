----------------------------- MODULE LedgerFeed -----------------------------
(***************************************************************************)
(* The subscription worker of be2-ops: a loop that connects, subscribes    *)
(* and waits for the connection to drop, and a timer that subscribes again *)
(* when the list of accounts has changed.  A subscription run that is      *)
(* awaiting its list or an answer may meet another one, a dropped          *)
(* connection, or the connection after it; a request on a dropped          *)
(* connection rejects, and a rejection outside the loop ends the process.  *)
(***************************************************************************)
EXTENDS Integers, FiniteSets

CONSTANTS
    Account,
    First,                \* the run the loop itself awaits
    Timer,                \* runs of the timer that may overlap
    MaxDrops,             \* bound on dropped connections
    MaxChanges            \* bound on changes of the list of accounts

VARIABLES
    feed,                 \* [alive, at, gen]: the loop connects, syncs or waits
    prev,                 \* prevAccounts and prevLedgerSubscribed
    remote,               \* what the server has subscribed on the connection
    wanted,               \* listXrplSubscribeAccounts
    runs,                 \* subscription runs in flight
    changes

vars == <<feed, prev, remote, wanted, runs, changes>>

None == [accounts |-> {}, ledger |-> FALSE]
Off == [pc |-> "off", list |-> {}, gen |-> 0]

Init ==
    /\ feed = [alive |-> TRUE, at |-> "connect", gen |-> 0]
    /\ prev = None
    /\ remote = None
    /\ wanted = {}
    /\ runs = [r \in {First} \cup Timer |-> Off]
    /\ changes = 0

Connected(r) == runs[r].gen = feed.gen /\ feed.at # "connect"

\* client.connect succeeds, after as many attempts as it takes.
Connect ==
    /\ feed.alive /\ feed.at = "connect"
    /\ feed' = [feed EXCEPT !.at = "sync", !.gen = @ + 1]
    /\ remote' = None
    /\ runs' = [runs EXCEPT ![First] = [pc |-> "list", list |-> {}, gen |-> feed.gen + 1]]
    /\ UNCHANGED <<prev, wanted, changes>>

\* Mutant: the accounts are refreshed only while none is subscribed.
RefreshOnce(r) ==
    /\ feed.alive /\ feed.at = "wait"
    /\ r \in Timer /\ runs[r].pc = "off"
    /\ wanted # prev.accounts /\ prev.accounts = {}
    /\ runs' = [runs EXCEPT ![r] = [pc |-> "list", list |-> {}, gen |-> feed.gen]]
    /\ UNCHANGED <<feed, prev, remote, wanted, changes>>

\* The timer starts a run whether or not the last one is over.
StartRefresh(r) ==
    /\ feed.alive /\ feed.at = "wait"
    /\ r \in Timer /\ runs[r].pc = "off"
    /\ wanted # prev.accounts
    /\ runs' = [runs EXCEPT ![r] = [pc |-> "list", list |-> {}, gen |-> feed.gen]]
    /\ UNCHANGED <<feed, prev, remote, wanted, changes>>

ReadAccounts(r) ==
    /\ feed.alive /\ runs[r].pc = "list"
    /\ runs' = [runs EXCEPT ![r].pc = "compare", ![r].list = wanted]
    /\ UNCHANGED <<feed, prev, remote, wanted, changes>>

\* The first run over lets the loop wait.
Finish(r) ==
    /\ runs' = [runs EXCEPT ![r] = Off]
    /\ feed' = IF r = First THEN [feed EXCEPT !.at = "wait"] ELSE feed

Subscribe(r) ==
    /\ prev' = [accounts |-> runs[r].list, ledger |-> TRUE]
    /\ remote' = [accounts |-> remote.accounts \cup runs[r].list, ledger |-> TRUE]
    /\ runs' = [runs EXCEPT ![r].pc = "answer"]
    /\ UNCHANGED feed

\* The list is the one subscribed already, the old subscription is taken back
\* first, or there is none.
Compare(r) ==
    /\ feed.alive /\ runs[r].pc = "compare"
    /\ \/ /\ runs[r].list = prev.accounts /\ prev.ledger
          /\ Finish(r)
          /\ UNCHANGED <<prev, remote>>
       \/ /\ runs[r].list # prev.accounts /\ prev.ledger /\ Connected(r)
          /\ remote' = [accounts |-> remote.accounts \ prev.accounts, ledger |-> FALSE]
          /\ runs' = [runs EXCEPT ![r].pc = "subscribe"]
          /\ UNCHANGED <<feed, prev>>
       \/ ~prev.ledger /\ Connected(r) /\ Subscribe(r)
    /\ UNCHANGED <<wanted, changes>>

SubscribeAgain(r) ==
    /\ feed.alive /\ runs[r].pc = "subscribe" /\ Connected(r)
    /\ Subscribe(r)
    /\ UNCHANGED <<wanted, changes>>

SubscribeAnswered(r) ==
    /\ feed.alive /\ runs[r].pc = "answer"
    /\ Finish(r)
    /\ UNCHANGED <<prev, remote, wanted, changes>>

\* A run of an earlier connection goes on to a request: the process ends.
RejectedLate(r) ==
    /\ feed.alive /\ runs[r].pc = "compare" /\ ~Connected(r)
    /\ runs[r].list # prev.accounts \/ ~prev.ledger
    /\ feed' = [feed EXCEPT !.alive = FALSE]
    /\ UNCHANGED <<prev, remote, wanted, runs, changes>>

\* The connection drops: requests in flight reject.  The loop starts over; a
\* rejection in a run of the timer ends the process.
Drop ==
    /\ feed.alive /\ feed.at # "connect" /\ feed.gen <= MaxDrops
    /\ feed' = [feed EXCEPT !.at = "connect",
                            !.alive = \A r \in Timer :
                                          runs[r].pc \notin {"subscribe", "answer"}]
    /\ prev' = None
    /\ remote' = None
    /\ runs' = [runs EXCEPT ![First] = Off]
    /\ UNCHANGED <<wanted, changes>>

AccountsChange(accounts) ==
    /\ changes < MaxChanges
    /\ changes' = changes + 1
    /\ wanted' = accounts
    /\ UNCHANGED <<feed, prev, remote, runs>>

RunStep(r) ==
    \/ ReadAccounts(r) \/ Compare(r) \/ SubscribeAgain(r) \/ SubscribeAnswered(r)
    \/ RejectedLate(r)

Next ==
    \/ Connect \/ Drop
    \/ \E r \in Timer : StartRefresh(r)
    \/ \E r \in {First} \cup Timer : RunStep(r)
    \/ \E accounts \in SUBSET Account : AccountsChange(accounts)

\* The loop goes on, the timer keeps firing, answers come.
Fairness ==
    /\ WF_vars(Connect)
    /\ \A r \in {First} \cup Timer : WF_vars(StartRefresh(r)) /\ WF_vars(RunStep(r))

Spec == Init /\ [][Next]_vars /\ Fairness

-----------------------------------------------------------------------------

Subscribed == feed.alive => remote.ledger /\ wanted \subseteq remote.accounts

\* Through drops, changes of the list and overlapping runs, the worker ends up
\* subscribed to the ledger and to every account of the list, unless a
\* rejection has ended the process.
FeedConverges == <>[]Subscribed
=============================================================================
