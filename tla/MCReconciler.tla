---------------------------- MODULE MCReconciler ----------------------------
(***************************************************************************)
(* Instances of Reconciler for TLC.                                        *)
(***************************************************************************)
EXTENDS Reconciler, TLC

CONSTANTS c1, c2, m1, m2, cron, h1, h2, w1, w2, j1, j2, j3

\* Requests, workers and jobs are interchangeable, and so are contracts that
\* agree on having an address to mail to.
Interchangeable ==
    Permutations(Handler) \cup Permutations(Worker) \cup Permutations(Job)
        \cup Permutations(WithEmail) \cup Permutations(Contract \ WithEmail)
=============================================================================
