----------------------------- MODULE MCDaemons -----------------------------
(***************************************************************************)
(* The background loops under fairness: the policy worker of be2-ops, its  *)
(* subscription worker, and the monthly run of be1-xrpl with its retry     *)
(* queue.  They share no state, so a behaviour exercises one of them, the  *)
(* desk it is at, and fairness is asked of that desk only.  Away from the  *)
(* policy worker, the variables of the part are the cells x1, x2, ...      *)
(***************************************************************************)
EXTENDS DisputeExecution

CONSTANTS h1, r1, w1, a1, a2, first, c1, c2, m1, cron, j1, j2

VARIABLES desk, x1, x2, x3, x4, x5, x6, x7, x8

cells == <<x1, x2, x3, x4, x5, x6, x7, x8>>

Feed == INSTANCE LedgerFeed WITH
    Account <- {a1, a2}, First <- first, Timer <- {j1, j2}, MaxDrops <- 1, MaxChanges <- 3,
    feed <- x1, prev <- x2, remote <- x3, wanted <- x4, runs <- x5, changes <- x6

Monthly == INSTANCE Reconciler WITH
    Contract <- {c1, c2}, Month <- {m1}, WithEmail <- {}, Cron <- {cron}, Handler <- {},
    Worker <- {w1}, Job <- {j1, j2}, Attempts <- 2, Overlap <- TRUE,
    MaxManual <- 0, MaxRejects <- 3, MaxLosses <- 1, MaxOutages <- 0,
    status <- x1, rows <- x2, paid <- x3, emails <- x4, jobs <- x5, local <- x6, fired <- x7,
    used <- x8

DeskInit ==
    /\ Init
    /\ \/ /\ desk = "policy"
          /\ x1 = 0 /\ x2 = 0 /\ x3 = 0 /\ x4 = 0 /\ x5 = 0 /\ x6 = 0 /\ x7 = 0 /\ x8 = 0
       \/ desk = "feed" /\ Feed!Init /\ x7 = 0 /\ x8 = 0
       \/ desk = "monthly" /\ Monthly!Init

DeskNext ==
    /\ UNCHANGED desk
    /\ \/ desk = "policy" /\ Next /\ UNCHANGED cells
       \/ desk = "feed" /\ Feed!Next /\ UNCHANGED <<x7, x8, vars>>
       \/ desk = "monthly" /\ Monthly!Next /\ UNCHANGED vars

feedVars == Feed!vars

\* The fairness of each part, asked of the behaviours at its desk.
DeskFairness ==
    /\ \A p \in Handler : WF_vars(desk = "policy" /\ HandlerStep(p))
    /\ \A p \in Worker : WF_vars(desk = "policy" /\ WorkerStep(p))
    /\ \A h \in Hash : /\ WF_vars(desk = "policy" /\ Age(h))
                       /\ WF_vars(desk = "policy" /\ BecomeDue(h))
                       /\ WF_vars(desk = "policy" /\ LedgerSettle(h))
    /\ WF_feedVars(desk = "feed" /\ Feed!Connect)
    /\ \A r \in {j1, j2} : WF_feedVars(desk = "feed" /\ Feed!StartRefresh(r))
    /\ \A r \in {first, j1, j2} : WF_feedVars(desk = "feed" /\ Feed!RunStep(r))
    /\ \A p \in {cron, w1} : WF_cells(desk = "monthly" /\ Monthly!Step(p))
    /\ WF_cells(desk = "monthly" /\ \E j \in {j1, j2} : Monthly!process(w1, j))

DeskSpec == DeskInit /\ [][DeskNext]_<<desk, cells, vars>> /\ DeskFairness
-----------------------------------------------------------------------------
(* The properties of the parts that are at a desk of their own.            *)

\* Through drops, changes of the list and overlapping runs, the subscription worker
\* ends up subscribed to the ledger and to every account of the list, unless a
\* rejection has ended the process (startXrplSubscribeWorker).
FeedConverges == <>[](desk = "feed" => Feed!Subscribed)

\* A contract that the cron has listed ends up matched or on a retry job that has
\* used its attempts, unless the process dies (runMonthlyReconcile,
\* XrplTxRetryProcessor).
ListedIsSettled ==
    \A c \in {c1, c2} :
        desk = "monthly" /\ Monthly!Listed(c, m1)
            ~> desk = "monthly" /\ (Monthly!Settled(c, m1) \/ x8["losses"] > 0)
=============================================================================
