------------------------- MODULE MCDisputeExecution -------------------------
(***************************************************************************)
(* Instances of DisputeExecution for TLC.                                  *)
(***************************************************************************)
EXTENDS DisputeExecution, TLC

CONSTANTS d1, h1, h2, hs, r1, r2, w1, w2, s1

\* Calls of the same kind are interchangeable, and so are ordinary hashes.
Interchangeable ==
    Permutations(Handler) \cup Permutations(Worker)
        \cup Permutations(Hash \ (Synthetic \cup WrongType))
=============================================================================
