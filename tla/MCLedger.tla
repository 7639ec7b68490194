------------------------------ MODULE MCLedger ------------------------------
(* A small instance of Ledger for TLC: a fresh chain, three appends, two of *)
(* them of one id with different contents, and two sealers.                *)
EXTENDS Ledger, TLC

CONSTANTS c1, c2, c3, g, i1, i2, i3, x, y, s1, s2

MCCall == {c1, c2, c3}
MCId == {g, i1, i2}
MCContent == {x, y}
MCSealer == {s1, s2}
MCWants ==
    [c \in MCCall |-> CASE c = c1 -> [id |-> i1, content |-> x]
                        [] c = c2 -> [id |-> i1, content |-> y]
                        [] c = c3 -> [id |-> i2, content |-> x]]
\* Three decisions: one may stay behind while the other two land.
MCDistinctId == {g, i1, i2, i3}
MCDistinctWants ==
    [c \in MCCall |-> CASE c = c1 -> [id |-> i1, content |-> x]
                        [] c = c2 -> [id |-> i2, content |-> x]
                        [] c = c3 -> [id |-> i3, content |-> x]]
MCGenesisDecision == [id |-> g, content |-> x]

\* Sealers are interchangeable.
Symmetry == Permutations(MCSealer)
=============================================================================
