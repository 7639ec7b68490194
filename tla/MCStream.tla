------------------------------ MODULE MCStream ------------------------------
(* Two requests of one client, which may hold one stream.                  *)
EXTENDS Stream, TLC

CONSTANTS r1, r2, i1

MCRequest == {r1, r2}
MCIdentity == {i1}
MCIdentityOf == [r \in MCRequest |-> i1]
Symmetry == Permutations(MCRequest)
=============================================================================
