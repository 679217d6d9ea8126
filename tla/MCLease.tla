------------------------------ MODULE MCLease ------------------------------
(***************************************************************************)
(* An instance of Lease for TLC: the tenant's phone, be1-xrpl and be2-ops, *)
(* with two taps, two locks and two contracts in flight.                   *)
(***************************************************************************)
EXTENDS Lease, TLC

CONSTANTS l1, l2, tw, lw, op, c1, c2, t1, t2, d1

Wallets == [tenant |-> tw, landlord |-> lw]

\* Taps, locks and contract ids are interchangeable.
Interchangeable == Permutations(Task) \cup Permutations(Lock) \cup Permutations(Contract)
=============================================================================
