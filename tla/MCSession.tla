----------------------------- MODULE MCSession -----------------------------
\* A small instance of Session for TLC: two requests in flight, in behaviours
\* about the browser and behaviours about the bearer client.
EXTENDS Session, TLC
CONSTANTS r1, r2
Symmetry == Permutations(Slots)
MCScenes ==
  {[time |-> 4, logins |-> 1, roles |-> 0, tokens |-> 0, kids |-> 1, faults |-> 1, revokes |-> 0],
   [time |-> 3, logins |-> 1, roles |-> 1, tokens |-> 0, kids |-> 1, faults |-> 0, revokes |-> 0],
   [time |-> 3, logins |-> 1, roles |-> 0, tokens |-> 0, kids |-> 1, faults |-> 0, revokes |-> 1],
   [time |-> 1, logins |-> 2, roles |-> 0, tokens |-> 0, kids |-> 1, faults |-> 0, revokes |-> 0],
   [time |-> 3, logins |-> 0, roles |-> 0, tokens |-> 1, kids |-> 1, faults |-> 0, revokes |-> 2],
   [time |-> 3, logins |-> 0, roles |-> 0, tokens |-> 1, kids |-> 2, faults |-> 1, revokes |-> 1]}
\* One rotation of the signing key, and nothing that restarts the cell.
MCKeyScene ==
  {[time |-> 2, logins |-> 0, roles |-> 0, tokens |-> 1, kids |-> 2, faults |-> 0, revokes |-> 0]}
=============================================================================
