----------------------------- MODULE MCRecovery -----------------------------
(* Instance of Recovery for TLC.                                           *)
EXTENDS Recovery, TLC

CONSTANTS d1, d2, old, new, newer, branch, edited, slim, h1, h2, h3, h4, h5,
          sa, sb, sc, sk, sx, ar1, ar2, k1, k2

M(v, sum, add, req) == [v |-> v, sum |-> sum, add |-> add, req |-> req]
App1 == M(1, sa, TRUE, {})
App2 == M(2, sb, TRUE, {[set |-> "kit", min |-> 1]})
App3 == M(3, sc, FALSE, {[set |-> "kit", min |-> 2]})
Kit1 == M(1, sk, TRUE, {})
Kit2 == M(2, sk, FALSE, {})

(* old < new < newer; branch skipped a version, edited rewrote one, and    *)
(* slim no longer carries the second set.                                  *)
MCSets == (old :> [s \in {"app"} |-> {App1}])
          @@ (new :> [s \in {"app", "kit"} |->
                         IF s = "app" THEN {App1, App2} ELSE {Kit1}])
          @@ (newer :> [s \in {"app", "kit"} |->
                         IF s = "app" THEN {App1, App2, App3} ELSE {Kit1, Kit2}])
          @@ (branch :> [s \in {"app"} |-> {App1, M(3, sc, FALSE, {})}])
          @@ (edited :> [s \in {"app"} |-> {M(1, sx, TRUE, {})}])
          @@ (slim :> [s \in {"app"} |-> {App1, M(2, sb, TRUE, {}), M(3, sc, FALSE, {})}])
MCNeeds == [x \in Binary |-> [s \in DOMAIN MCSets[x] |-> {}]]
MCRank == ("app" :> 1) @@ ("kit" :> 2)
MCCeiling == (old :> h1) @@ (new :> h2) @@ (newer :> h3) @@ (branch :> h4) @@ (edited :> h5)
             @@ (slim :> h3)

Runs(x, y) == (d1 :> x) @@ (d2 :> y)
RowsOf(x) == UNION {{RowOf(s, m) : m \in MCSets[x][s]} : s \in DOMAIN MCSets[x]}
Served(x) == [EMPTY EXCEPT !.rows = RowsOf(x), !.first = MCCeiling[x], !.key = k1]

Quiet == [name |-> "", deploys |-> {}, bin |-> Runs(new, new), adopts |-> Runs(TRUE, TRUE),
          bins |-> {}, db |-> Served(old), key |-> k1,
          faults |-> [ddl |-> 0, crashes |-> 0, reruns |-> 0],
          archives |-> {}, serves |-> {}, binary |-> new, saves |-> FALSE, restores |-> 0,
          adopting |-> FALSE, outside |-> FALSE, rollback |-> FALSE,
          until |-> 0, writes |-> 0]
Faults(ddl, crashes, reruns) == [ddl |-> ddl, crashes |-> crashes, reruns |-> reruns]

(* Two replicas deploy one build, with a refused statement and a crash.    *)
Upgrade == [Quiet EXCEPT !.name = "upgrade", !.deploys = {d1, d2}, !.bins = {new},
                         !.faults = Faults(1, 1, 2), !.serves = {new}]
(* Two builds are deployed at once, and one of the steps dies or is run    *)
(* again.                                                                  *)
Rivals == [Quiet EXCEPT !.name = "rivals", !.deploys = {d1, d2}, !.bin = Runs(new, newer),
                        !.bins = {new, newer}, !.faults = Faults(0, 1, 0),
                        !.serves = {new, newer}]
RivalsAgain == [Rivals EXCEPT !.name = "rivals again", !.faults = Faults(0, 0, 1)]
(* An older build over a newer store, and one that dropped a set.          *)
Rollback == [Quiet EXCEPT !.name = "rollback", !.deploys = {d1, d2}, !.bin = Runs(newer, old),
                          !.bins = {newer, old, new}, !.faults = Faults(1, 0, 1),
                          !.serves = {old, slim, newer}]
(* A build that skipped a version, and one that rewrote it.                *)
Branch == [Quiet EXCEPT !.name = "branch", !.deploys = {d1, d2}, !.bin = Runs(new, branch),
                        !.bins = {new, branch}, !.adopts = Runs(TRUE, FALSE),
                        !.serves = {branch, edited, new}]
Edition == [Branch EXCEPT !.name = "edition", !.bin = Runs(edited, new), !.bins = {new, edited}]
(* A store whose rows were written before checksums.                       *)
Legacy == [Quiet EXCEPT !.name = "legacy", !.deploys = {d1, d2}, !.bin = Runs(new, edited),
                        !.adopts = Runs(FALSE, FALSE),
                        !.db = [Served(old) EXCEPT
                                 !.rows = {[set |-> "app", v |-> 1, sum |-> NoSum,
                                            add |-> FALSE]}],
                        !.bins = {new, edited}, !.serves = {old, edited}]
(* Backups beside outside requests, writes and a clock set back.           *)
Snapshots == [Quiet EXCEPT !.name = "snapshots", !.binary = old, !.saves = TRUE,
                           !.serves = {old}, !.outside = TRUE, !.rollback = TRUE,
                           !.until = 2, !.writes = 1]
(* A backup beside a deploy.                                               *)
Saving == [Quiet EXCEPT !.name = "saving", !.saves = TRUE, !.deploys = {d1}, !.bins = {new},
                        !.serves = {old}, !.until = 1]

ArchiveOf(name, x, key, floor) ==
    [name |-> name, snap |-> [Served(x) EXCEPT !.key = key, !.floor = floor],
     rauthy |-> [src |-> None, data |-> 0], key |-> KeySet(key), mh |-> MCCeiling[x], epoch |-> 0,
     rows |-> RowsOf(x), intact |-> TRUE]
(* Restores that die, the start that follows, and restores over it.        *)
Restores == [Quiet EXCEPT !.name = "restores", !.faults = Faults(0, 2, 0),
                          !.db = Served(new),
                          !.archives = {ArchiveOf(ar1, new, k1, 0), ArchiveOf(ar2, new, k2, 1)},
                          !.serves = {new}, !.restores = 3, !.until = 1, !.writes = 1]
(* A damaged archive.                                                      *)
Damaged == [Restores EXCEPT !.name = "damaged", !.restores = 2, !.until = 0,
                            !.archives = {ArchiveOf(ar1, new, k1, 0),
                                          [ArchiveOf(ar2, new, k2, 1) EXCEPT !.intact = FALSE]}]
(* An older archive, adopted, migrated and recorded.                       *)
Adopting == [Restores EXCEPT !.name = "adopting", !.faults = Faults(0, 1, 1),
                             !.archives = {ArchiveOf(ar1, old, k1, 0), ArchiveOf(ar2, newer, k1, 0)},
                             !.restores = 2, !.adopting = TRUE, !.deploys = {d1}, !.bins = {new},
                             !.until = 0, !.writes = 0]
(* An archive of the cell's own, taken beside it and restored into it.     *)
Round == [Quiet EXCEPT !.name = "round", !.db = Served(new), !.serves = {new}, !.saves = TRUE,
                       !.restores = 1, !.faults = Faults(0, 1, 0), !.until = 1, !.writes = 1]
MCScenes == {Upgrade, Rivals, RivalsAgain, Rollback, Branch, Edition, Legacy, Snapshots, Saving,
             Restores, Damaged, Adopting, Round}
MCRerunScene == {[Restores EXCEPT !.serves = {}]}
=============================================================================
