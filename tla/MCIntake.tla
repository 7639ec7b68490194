------------------------------ MODULE MCIntake ------------------------------
(* A small instance of Intake for TLC.                                     *)
EXTENDS Intake, TLC

CONSTANTS d1, d2, x1, x2, k1, k2

MCDelivery == {d1, d2}
MCDigest == {x1, x2}
MCWorker == {k1, k2}
MCJob == 1 .. MaxRev
\* The work of the first revision is claimed or renewed twice, that of the
\* second three times.
MCMaxToken == [j \in MCJob |-> j + 1]

\* Deliveries, contents and workers are interchangeable.
Symmetry == Permutations(MCDelivery) \cup Permutations(MCDigest)
               \cup Permutations(MCWorker)
=============================================================================
