-------------------------- MODULE MCVerifierPanel --------------------------
(***************************************************************************)
(* Instances of VerifierPanel for TLC.                                     *)
(***************************************************************************)
EXTENDS VerifierPanel, TLC

CONSTANTS v1, v2, v3, v4, d1, d2, l1, l2, p1, p2, land

\* Verifiers, disputes, leases and calls are interchangeable.
Interchangeable ==
    Permutations(Candidate \ {Tenant}) \cup Permutations(Dispute)
        \cup Permutations(Caller)
=============================================================================
