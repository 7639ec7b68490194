----------------------------- MODULE MCLineage -----------------------------
(* Instance of Lineage for TLC.                                            *)
EXTENDS Lineage, TLC

CONSTANTS n1, n2, r, c1, c2, c3, c4, c5, c6, g, x, y, z, w, a, b, m0, m1, m2, e1, e2

MCGenesis == [id |-> g, content |-> m0]
MCWants == (c1 :> [id |-> x, content |-> a]) @@ (c2 :> [id |-> x, content |-> b])
           @@ (c3 :> [id |-> y, content |-> a]) @@ (c4 :> [id |-> z, content |-> m1])
           @@ (c5 :> [id |-> w, content |-> e1]) @@ (c6 :> [id |-> y, content |-> m2])

Quiet == [name |-> "", calls |-> {}, nodes |-> {n1}, looks |-> {}, looker |-> {}, old |-> {},
          oldSeals |-> 0, losses |-> 0, crashes |-> 0, damage |-> 0]
Old(i, content) == [id |-> i, content |-> content]

(* Two stamping replicas, two decisions under one id, a lost answer.       *)
Fleet == [Quiet EXCEPT !.name = "fleet", !.calls = {c1, c2, c3}, !.nodes = {n1, n2},
                       !.losses = 1]
(* An answer lost with the process that waited for it, and the decision    *)
(* offered again.                                                          *)
Restart == [Quiet EXCEPT !.name = "restart", !.calls = {c1, c2, c3}, !.nodes = {n1},
                         !.losses = 1, !.crashes = 1]
(* A reader beside appends, seals and damage.                              *)
Readers == [Quiet EXCEPT !.name = "readers", !.calls = {c1, c2, c3, c4}, !.nodes = {n1},
                         !.looker = {n1}, !.looks = {g, x}, !.damage = 1]
(* An older binary appends and seals beside a stamping one.                *)
Mixed == [Quiet EXCEPT !.name = "mixed", !.calls = {c1, c3}, !.nodes = {n1},
                       !.old = {Old(x, b), Old(z, a)}, !.oldSeals = 1, !.crashes = 1]
(* The same, and the repair verb over whole and damaged bodies.            *)
Repair == [Quiet EXCEPT !.name = "repair", !.calls = {c1}, !.nodes = {n1, r},
                        !.old = {Old(x, b), Old(z, a)}, !.oldSeals = 1, !.damage = 1]
(* Two decisions of stamping replicas, one of an older binary, damaged.    *)
RepairFew == [Repair EXCEPT !.name = "repair few", !.calls = {c1, c3}, !.old = {Old(x, b)}]
(* An operator asks for an id while the chain is being repaired.           *)
Asking == [Quiet EXCEPT !.name = "asking", !.calls = {c3}, !.nodes = {n1, r},
                        !.old = {Old(x, b), Old(z, a)}, !.oldSeals = 1, !.looker = {n1, r},
                        !.looks = {x}]
(* Transitions and epochs, sealed by stamping and by older binaries.       *)
Deploys == [Quiet EXCEPT !.name = "deploys", !.calls = {c1, c4, c5, c6}, !.nodes = {n1},
                         !.oldSeals = 1]
(* The same beside two decisions, one of them written by an older binary.  *)
DeploysMixed == [Deploys EXCEPT !.name = "deploys mixed", !.calls = {c3, c4, c5},
                                !.old = {Old(x, b)}]
MCScenes == {Fleet, Restart, Readers, Mixed, Repair, RepairFew, Asking, Deploys, DeploysMixed}
MCTwinScene == {[Repair EXCEPT !.calls = {c1, c3}, !.damage = 0]}
=============================================================================
