------------------------------ MODULE MCLease ------------------------------
(* A small instance of Lease for TLC: three calls contend for one key that *)
(* guards one row.                                                        *)
EXTENDS Lease, TLC

CONSTANTS h1, h2, h3, r1

MCHolder == {h1, h2, h3}
MCRow == {r1}

\* Calls are interchangeable.
Symmetry == Permutations(MCHolder)
=============================================================================
