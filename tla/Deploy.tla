------------------------------- MODULE Deploy -------------------------------
(***************************************************************************)
(* The deploy step of a cell: migration sets with their requirements       *)
(* (rahi-store migrate.rs, migration_set.rs), `rahi migrate` and           *)
(* `--adopt-manifest` (rahi-ops migrate.rs), and the transition and epoch  *)
(* records it appends (rahi-ledger transition.rs, epoch.rs).               *)
(*                                                                         *)
(* The chain never forks (Ledger.tla) and a sealed record stays readable   *)
(* (Lineage.tla), so it is here the sequence of its transitions and        *)
(* epochs, and a record's hash is its place.                               *)
(***************************************************************************)
EXTENDS Integers, FiniteSetsExt, Sequences, Relation

CONSTANTS
    Binary,    \* builds of the cell
    Sets,      \* Sets[b]: the migrations b carries, per set it carries
    Needs,     \* Needs[b]: what every migration of a set needs (requires)
    Rank,      \* Rank[s]: the place of set s in the ready-together order
    Ceiling,   \* Ceiling[b]: the hash of b's manifest
    Fits,      \* manifests whose transition fits ledger.max_record_bytes
    Step,      \* runs of `rahi migrate`
    NoOne,     \* no process
    NoSum,     \* a row written before checksums
    None,      \* no restore marker, no manifest, no epoch
    Unreadable, \* a restore marker, or a key file, that does not parse
    Scenes     \* what one behaviour may do, and its bounds

ASSUME BinaryAssumption ==
    /\ DOMAIN Sets = Binary /\ DOMAIN Needs = Binary /\ DOMAIN Ceiling = Binary
    /\ \A b \in Binary :
          /\ DOMAIN Needs[b] = DOMAIN Sets[b] /\ IsFiniteSet(DOMAIN Sets[b])
          /\ "app" \in DOMAIN Sets[b] /\ DOMAIN Sets[b] \subseteq DOMAIN Rank
          /\ Ceiling[b] # None
    /\ \A s \in DOMAIN Rank : Rank[s] \in Nat
ASSUME ListAssumption ==
    \A b \in Binary : \A s \in DOMAIN Sets[b] :
        /\ IsFiniteSet(Sets[b][s])
        /\ \A m \in Sets[b][s] :
              /\ m.v \in Nat \ {0} /\ m.add \in BOOLEAN /\ m.sum # NoSum
              /\ \A q \in Needs[b][s] \cup m.req : q.min \in Nat
        /\ \A m, n \in Sets[b][s] : m.v = n.v => m = n
ASSUME StepAssumption ==
    /\ NoOne \notin Step \cup {"cell", "backup", "restore"}
    /\ Step \cap {"cell", "backup", "restore"} = {}

VARIABLES
    scene,    \* the bounds this behaviour runs under
    db,       \* the app store: histories, chain, floor, data
    keys,     \* the key files the volume holds
    marker,   \* the restore marker
    owner,    \* the process holding the cell's locks
    lockFile,     \* hiqlite's lock file: held by a node, left by a crash
    deploy,   \* each deploy step
    faults    \* refused statements, crashes and reruns left

-----------------------------------------------------------------------------
(* Migration histories.                                                    *)

RowOf(s, m) == [set |-> s, v |-> m.v, sum |-> m.sum, add |-> m.add]
Top(rows, s) == Max({0} \cup {r.v : r \in {q \in rows : q.set = s}})
Newest(b, s) == Max({0} \cup {m.v : m \in Sets[b][s]})
Carried(b) == DOMAIN Sets[b]

(* An applied version whose checksum is not the one b carries.             *)
Edited(rows, b, among) ==
    \E r \in rows : /\ r.set \in among /\ r.sum # NoSum
                    /\ \E m \in Sets[b][r.set] : m.v = r.v /\ m.sum # r.sum

Behind(rows, b) == \E s \in Carried(b) : Top(rows, s) < Newest(b, s)

(* Mutant of Ahead: a set that b has dropped is not judged.                *)
AheadCarried(rows, b) ==
    \E r \in rows : ~r.add /\ r.set \in Carried(b) /\ r.v > Newest(b, r.set)

(* An applied version above b's last that did not declare itself additive; *)
(* a set b does not carry is ahead from version 1.                         *)
Ahead(rows, b) ==
    \E r \in rows : ~r.add /\ r.v > (IF r.set \in Carried(b) THEN Newest(b, r.set) ELSE 0)

Judgement(rows, b) ==
    CASE Edited(rows, b, Carried(b)) -> "integrity"
      [] ~Edited(rows, b, Carried(b)) /\ (Behind(rows, b) \/ Ahead(rows, b)) -> "stale"
      [] OTHER -> "ok"

(* Restore judges checksums of the named sets only, and admits a set that  *)
(* is behind.                                                              *)
Restorable(rows, b) == ~Edited(rows, b, Carried(b) \ {"app"}) /\ ~Ahead(rows, b)

(* The mark on rows written before checksums, for versions b carries.      *)
Marks(rows, b) ==
    {RowOf("app", m) : m \in {k \in Sets[b]["app"] :
        \E r \in rows : r.set = "app" /\ r.v = k.v /\ r.sum = NoSum}}
BackfilledBeside(rows, b) == rows \cup Marks(rows, b)
Backfilled(rows, b) ==
    {r \in rows : \A m \in Marks(rows, b) : r.set # "app" \/ r.v # m.v} \cup Marks(rows, b)

-----------------------------------------------------------------------------
(* The cross-set plan.                                                     *)

RequirementsOf(b, s, m) ==
    Needs[b][s] \cup UNION {n.req : n \in {k \in Sets[b][s] : k.v <= m.v}}

(* Requirements name sets b carries at versions it has, and form no cycle. *)
ValidSets(b) ==
    LET reqs(s) == Needs[b][s] \cup UNION {m.req : m \in Sets[b][s]}
        edge == [p \in Carried(b) \X Carried(b) |-> \E q \in reqs(p[1]) : q.set = p[2]]
    IN /\ \A s \in Carried(b) : \A q \in reqs(s) :
              q.set \in Carried(b) \ {s} /\ q.min <= Newest(b, q.set)
       /\ IsIrreflexive(TransitiveClosure(edge, Carried(b)), Carried(b))

Pending(rows, b, s) == {m \in Sets[b][s] : \A r \in rows : r.set # s \/ r.v # m.v}
Missed(rows, b) == \E s \in Carried(b) : \E m \in Pending(rows, b, s) : m.v < Top(rows, s)
HeadOf(rows, b, s) ==
    CHOOSE m \in Pending(rows, b, s) : \A n \in Pending(rows, b, s) : m.v <= n.v
Ready(rows, b) ==
    {s \in Carried(b) : /\ Pending(rows, b, s) # {}
                        /\ \A q \in RequirementsOf(b, s, HeadOf(rows, b, s)) :
                               Top(rows, q.set) >= q.min}
Foremost(ready) == CHOOSE s \in ready : \A t \in ready : Rank[s] <= Rank[t]

(* Every pending migration in the order it runs, as far as one exists.     *)
Plan(rows, b) ==
    LET total == Cardinality(UNION {{s} \X Pending(rows, b, s) : s \in Carried(b)})
        run[n \in 0..total] ==
            IF n = 0 THEN [steps |-> << >>, rows |-> rows]
            ELSE LET p == run[n - 1] IN
                 IF Ready(p.rows, b) = {} THEN p
                 ELSE LET s == Foremost(Ready(p.rows, b))
                          row == RowOf(s, HeadOf(p.rows, b, s))
                      IN [steps |-> Append(p.steps, row), rows |-> p.rows \cup {row}]
    IN run[total]

Plannable(rows, b) ==
    /\ ValidSets(b)
    /\ ~Edited(rows, b, Carried(b))
    /\ ~Missed(rows, b)
    /\ \A s \in Carried(b) : Pending(Plan(rows, b).rows, b, s) = {}

-----------------------------------------------------------------------------
(* The chain: transitions and epochs.                                      *)

Places(chain, kind) == {i \in DOMAIN chain : chain[i].kind = kind}
CurrentManifest(d) ==
    LET at == Places(d.chain, "transition")
    IN IF at = {} THEN d.first ELSE d.chain[Max(at)].to

Genesis == [n |-> 0, hash |-> 0, fp |-> None, restore |-> None]
CurrentEpoch(d) ==
    LET at == Places(d.chain, "epoch")
        restores == {i \in at : d.chain[i].restore # None}
    IN IF at = {} THEN Genesis
       ELSE [n |-> d.chain[Max(at)].n, hash |-> Max(at), fp |-> d.chain[Max(at)].fp,
             restore |-> IF restores = {} THEN None ELSE d.chain[Max(restores)].restore]

(* Ledger::open on a store without a chain writes the genesis record.      *)
WithGenesis(d, b) ==
    IF d.first = None THEN [d EXCEPT !.first = Ceiling[b], !.key = keys["ledger"]] ELSE d
ChainVerifies(d) ==
    /\ keys["ledger"] # Unreadable
    /\ d.first = None \/ d.key = keys["ledger"]

(* The files of the key set: the one the chain is verified against, and the*)
(* rest, which nothing compares; the store secrets stand for it.           *)
KeyFile == {"ledger", "secrets"}
KeySet(k) == [f \in KeyFile |-> k]

EMPTY == [rows |-> {}, chain |-> << >>, first |-> None, key |-> None, floor |-> 0,
          data |-> 0, src |-> None, since |-> 0]

-----------------------------------------------------------------------------
(* The node.  The process that opens it holds the cell's locks; a deploy   *)
(* step or a backup that finds it held attaches to it.                     *)

(* Mutant of Owed: the floor is owed until the restore is applied.         *)
OwedOnce == IF marker \in {None, Unreadable} \/ marker.applied THEN 0 ELSE marker.owed
(* The revocation floor a restore marker asks for, applied or not.         *)
Owed == IF marker \in {None, Unreadable} THEN 0 ELSE marker.owed
FloorRaised(d) == [d EXCEPT !.floor = Max({@, Owed})]
NodeUp == lockFile = "held"

(* What the store is once a process has opened it or attached to it.       *)
Opened == IF owner = NoOne THEN FloorRaised(db) ELSE db
CanOpen ==
    /\ keys["secrets"] # Unreadable                  \* the secrets parse before any open
    /\ NodeUp \/ (owner = NoOne /\ marker # Unreadable)

Idle == [pc |-> "idle", owns |-> FALSE, plan |-> << >>, from |-> None, head |-> 0,
         epoch |-> None]

DeployAt(d, pc) == [deploy EXCEPT ![d].pc = pc]

Oversize(store, b) == CurrentManifest(store) # Ceiling[b] /\ Ceiling[b] \notin Fits

(* Booted::open_or_attach; with --adopt-manifest the chain is opened too,  *)
(* and a manifest too large to be kept is refused before anything moves.   *)
DeployOpen(d) ==
    LET b == scene.bin[d]
        store == IF scene.adopts[d] THEN WithGenesis(Opened, b) ELSE Opened
        refused == scene.adopts[d] /\ (~ChainVerifies(db) \/ Oversize(store, b))
    IN /\ d \in scene.deploys /\ deploy[d].pc = "idle" /\ CanOpen
       /\ owner' = IF owner = NoOne THEN d ELSE owner
       /\ lockFile' = "held"
       /\ deploy' = [deploy EXCEPT ![d] = [@ EXCEPT
                        !.owns = (owner = NoOne),
                        !.pc = IF refused THEN "refused" ELSE "plan"]]
       /\ db' = IF ChainVerifies(db) THEN store ELSE Opened
       /\ UNCHANGED <<scene, keys, marker, faults>>

(* The baseline, the checksum check, the backfill and the plan.  Another   *)
(* step's backfill between this one's read and its own is left out.        *)
DeployPlan(d) ==
    LET b == scene.bin[d]
        marked == ValidSets(b) /\ ~Edited(db.rows, b, Carried(b))
        rows == IF marked THEN Backfilled(db.rows, b) ELSE db.rows
    IN /\ deploy[d].pc = "plan" /\ NodeUp
       /\ db' = [db EXCEPT !.rows = rows]
       /\ deploy' = IF Plannable(db.rows, b)
                    THEN [deploy EXCEPT ![d] = [@ EXCEPT !.pc = "apply",
                                                         !.plan = Plan(db.rows, b).steps]]
                    ELSE DeployAt(d, "refused")
       /\ UNCHANGED <<scene, keys, marker, owner, lockFile, faults>>

Registered(row) == \E r \in db.rows : r.set = row.set /\ r.v = row.v

(* One migration and its record, in one transaction; a version another     *)
(* step recorded meanwhile breaks the primary key, and rolls back.         *)
DeployApply(d) ==
    /\ deploy[d].pc = "apply" /\ deploy[d].plan # << >> /\ NodeUp
    /\ LET row == Head(deploy[d].plan) IN
       \/ /\ ~Registered(row)
          /\ db' = [db EXCEPT !.rows = @ \cup {row}]
          /\ deploy' = [deploy EXCEPT ![d].plan = Tail(@)]
          /\ UNCHANGED faults
       \/ /\ Registered(row)
          /\ deploy' = DeployAt(d, "failed")
          /\ UNCHANGED <<db, faults>>
       \/ /\ faults.ddl > 0
          /\ faults' = [faults EXCEPT !.ddl = @ - 1]
          /\ deploy' = DeployAt(d, "failed")
          /\ UNCHANGED db
    /\ UNCHANGED <<scene, keys, marker, owner, lockFile>>

(* The chain is read again once the migrations ran, and its head with it.  *)
DeployReread(d) ==
    /\ deploy[d].pc = "apply" /\ deploy[d].plan = << >> /\ NodeUp
    /\ deploy' = IF ~scene.adopts[d] THEN DeployAt(d, "done")
                 ELSE [deploy EXCEPT ![d] = [@ EXCEPT
                         !.pc = IF CurrentManifest(db) = Ceiling[scene.bin[d]]
                                THEN "epoch" ELSE "append",
                         !.from = CurrentManifest(db), !.head = Len(db.chain)]]
    /\ UNCHANGED <<scene, db, keys, marker, owner, lockFile, faults>>

(* A transition's id is made of the head it was built on and the manifest  *)
(* it adopts.                                                              *)
TransitionOf(d) ==
    [kind |-> "transition", head |-> deploy[d].head, from |-> deploy[d].from,
     to |-> Ceiling[scene.bin[d]], schema |-> Top(db.rows, "app")]

(* append_transition: a second step that read the same head meets its own  *)
(* record or a conflict.                                                   *)
DeployAppend(d) ==
    LET t == TransitionOf(d)
        twins == {i \in Places(db.chain, "transition") :
                      db.chain[i].head = t.head /\ db.chain[i].to = t.to}
    IN /\ deploy[d].pc = "append" /\ NodeUp
       /\ IF t.to \notin Fits THEN deploy' = DeployAt(d, "refused") /\ UNCHANGED db
          ELSE IF twins = {}
          THEN deploy' = DeployAt(d, "epoch") /\ db' = [db EXCEPT !.chain = Append(@, t)]
          ELSE /\ deploy' = DeployAt(d, IF \A i \in twins : db.chain[i] = t
                                        THEN "epoch" ELSE "failed")
               /\ UNCHANGED db
       /\ UNCHANGED <<scene, keys, marker, owner, lockFile, faults>>

Fingerprint(b) == <<CurrentManifest(db), b>>
EpochAfter(now, fp, restore) ==
    [kind |-> "epoch", n |-> now.n + 1, previous |-> now.hash, fp |-> fp, restore |-> restore]

(* record_epoch reads the manifest, the epoch and the restore marker, and  *)
(* appends nothing when none of them is news.                              *)
DeployJudge(d) ==
    LET now == CurrentEpoch(db)
        restore == IF marker = None THEN None ELSE marker.archive
        restored == restore # None /\ now.restore # restore
        fp == Fingerprint(scene.bin[d])
    IN /\ deploy[d].pc = "epoch" /\ NodeUp
       /\ deploy' = IF marker = Unreadable THEN DeployAt(d, "failed")
                    ELSE IF ~restored /\ now.fp = fp THEN DeployAt(d, "done")
                    ELSE [deploy EXCEPT ![d] = [@ EXCEPT
                            !.pc = "record",
                            !.epoch = EpochAfter(now, fp, IF restored THEN restore ELSE None)]]
       /\ UNCHANGED <<scene, db, keys, marker, owner, lockFile, faults>>

NamedByDeployment(e) ==
    {i \in Places(db.chain, "epoch") : db.chain[i].n = e.n /\ db.chain[i].fp = e.fp}
NamedBy(e) == {i \in Places(db.chain, "epoch") : db.chain[i].n = e.n}

(* append_epoch under the id `epoch:<n>`; the wall time it carries makes   *)
(* two records of one second alike and all others different.               *)
DeployRecord(d) ==
    LET e == deploy[d].epoch
        twins == NamedBy(e)
    IN /\ deploy[d].pc = "record" /\ NodeUp
       /\ \/ /\ twins = {}
             /\ db' = [db EXCEPT !.chain = Append(@, e)]
             /\ deploy' = DeployAt(d, "done")
          \/ /\ twins # {} /\ \A i \in twins : db.chain[i] = e
             /\ deploy' = DeployAt(d, "done") /\ UNCHANGED db
          \/ /\ twins # {}
             /\ deploy' = DeployAt(d, "failed") /\ UNCHANGED db
       /\ UNCHANGED <<scene, keys, marker, owner, lockFile, faults>>

(* The verb shuts its node down whatever came of its work.                 *)
DeployEnd(d) ==
    /\ deploy[d].pc \in {"done", "refused", "failed"}
    /\ deploy' = [deploy EXCEPT ![d] = [Idle EXCEPT !.pc = "ended"]]
    /\ owner' = IF deploy[d].owns THEN NoOne ELSE owner
    /\ lockFile' = IF deploy[d].owns THEN "none" ELSE lockFile
    /\ UNCHANGED <<scene, db, keys, marker, faults>>

DeployAgain(d) ==
    /\ deploy[d].pc = "ended" /\ faults.reruns > 0
    /\ deploy' = DeployAt(d, "idle")
    /\ faults' = [faults EXCEPT !.reruns = @ - 1]
    /\ UNCHANGED <<scene, db, keys, marker, owner, lockFile>>

Running(d) == deploy[d].pc \notin {"idle", "ended"}

DeployCrash(d) ==
    /\ Running(d) /\ faults.crashes > 0
    /\ deploy' = [deploy EXCEPT ![d] = [Idle EXCEPT !.pc = "ended"]]
    /\ owner' = IF deploy[d].owns THEN NoOne ELSE owner
    /\ lockFile' = IF deploy[d].owns THEN "left" ELSE lockFile
    /\ faults' = [faults EXCEPT !.crashes = @ - 1]
    /\ UNCHANGED <<scene, db, keys, marker>>

(* The node a step was attached to is gone.                                *)
DeployLost(d) ==
    /\ Running(d) /\ ~deploy[d].owns /\ ~NodeUp
    /\ deploy[d].pc \notin {"done", "refused", "failed"}
    /\ deploy' = DeployAt(d, "failed")
    /\ UNCHANGED <<scene, db, keys, marker, owner, lockFile, faults>>

DeployNext == \E d \in Step :
    \/ DeployOpen(d) \/ DeployPlan(d) \/ DeployApply(d) \/ DeployReread(d) \/ DeployAppend(d)
    \/ DeployJudge(d) \/ DeployRecord(d) \/ DeployEnd(d) \/ DeployAgain(d)
    \/ DeployCrash(d) \/ DeployLost(d)

-----------------------------------------------------------------------------
(* Properties.                                                             *)

(* No migration is ever recorded before what it requires, in any order two *)
(* racing, failing and resumed deploy steps may apply their plans.         *)
Met(rows, b) ==
    \A r \in rows : r.set \in Carried(b) =>
        \A m \in Sets[b][r.set] :
            (m.v = r.v /\ m.sum = r.sum) =>
                \A q \in RequirementsOf(b, r.set, m) : Top(rows, q.set) >= q.min
RequirementsMet == \A b \in scene.bins : Met(db.rows, b)

(* Epochs are numbered without gap or repeat, each names the one before    *)
(* it, a restore is recorded once, and a deploy step on its own node that  *)
(* ended well after a restore left it recorded.                            *)
Linked(chain) ==
    LET at == Places(chain, "epoch")
        before(i) == {j \in at : j < i}
        restores == {i \in at : chain[i].restore # None}
    IN /\ \A i \in at :
              /\ chain[i].n = Cardinality(before(i)) + 1
              /\ chain[i].previous = Max({0} \cup before(i))
       /\ \A i, j \in restores :
              (i < j /\ chain[i].restore = chain[j].restore) =>
                  \E k \in restores : i < k /\ k < j
EpochsLinked ==
    /\ Linked(db.chain)
    /\ \A d \in Step :
          (deploy[d].pc = "done" /\ deploy[d].owns /\ scene.adopts[d] /\ marker # None) =>
              CurrentEpoch(db).restore = marker.archive
=============================================================================
