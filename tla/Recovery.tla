------------------------------ MODULE Recovery ------------------------------
(***************************************************************************)
(* Backup, restore and the start that follows one, beside the deploy steps *)
(* of Deploy: rahi-ops backup.rs, archive.rs, restore.rs, supervise.rs     *)
(* (the start), rahi-store backup.rs, and rahi-cli's open of a volume.     *)
(*                                                                         *)
(* hiqlite's snapshots and rauthy are external: a snapshot request may be  *)
(* ignored inside the suppression window and acknowledged all the same,    *)
(* and rauthy replaces its own store with the snapshot it is handed.       *)
(***************************************************************************)
EXTENDS Deploy

CONSTANTS
    Archive,   \* archives, by file name
    Window     \* SUPPRESSION_WINDOW

ASSUME TimeAssumption == Window \in Nat \ {0}
ASSUME NoneAssumption ==
    /\ None \notin Archive /\ None # Unreadable
    /\ \A x \in {None, Unreadable} :
          x \notin [archive : Archive, applied : BOOLEAN, owed : Nat]

-----------------------------------------------------------------------------
(* What a scene may start from.                                            *)

Checksummed(d) == {r \in d.rows : r.sum # NoSum}

(* A store records a version of a set once; the rows written before        *)
(* checksums are the app's.                                                *)
StoreOK(s, d) ==
    /\ DOMAIN d = DOMAIN EMPTY /\ IsFiniteSet(d.rows)
    /\ \A r \in d.rows : /\ r.set \in DOMAIN Rank /\ r.v \in Nat \ {0} /\ r.add \in BOOLEAN
                         /\ r.sum = NoSum => r.set = "app"
    /\ \A r, q \in d.rows : r.set = q.set /\ r.v = q.v => r = q
    /\ d.floor \in 0..(s.until + 1) /\ d.data \in 0..s.writes
    /\ d.src \in Archive \cup {None}

(* A store that deploy steps of the judged builds can have left.  What a   *)
(* migration of before checksums would now require was never asked of it,  *)
(* and it is one that requires nothing.                                    *)
Left(s, d) ==
    /\ StoreOK(s, d)
    /\ d.chain \in Seq({d.chain[i] : i \in DOMAIN d.chain}) /\ Linked(d.chain)
    /\ \A b \in s.bins : Met(d.rows, b)
    /\ \A r \in d.rows, b \in s.bins : r.sum = NoSum =>
          \A m \in Sets[b]["app"] : m.v = r.v => RequirementsOf(b, "app", m) = {}

(* A migration two releases share requires the same of both.               *)
Agree(b, c) ==
    \A s \in Carried(b) \cap Carried(c) : \A m \in Sets[b][s], n \in Sets[c][s] :
        (m.v = n.v /\ m.sum = n.sum) => RequirementsOf(b, s, m) = RequirementsOf(c, s, n)

SceneField == {"name", "deploys", "bin", "adopts", "bins", "db", "key", "faults", "archives",
               "serves", "binary", "saves", "restores", "adopting", "outside", "rollback",
               "until", "writes"}

ASSUME ScenesAssumption == \A s \in Scenes :
    /\ DOMAIN s = SceneField
    /\ s.deploys \subseteq Step /\ s.bin \in [Step -> Binary] /\ s.adopts \in [Step -> BOOLEAN]
    /\ s.bins \cup s.serves \cup {s.binary} \subseteq Binary
    /\ \A b \in s.bins, d \in s.deploys : Agree(b, s.bin[d])
    /\ s.until \in Nat /\ s.writes \in Nat
    /\ Left(s, s.db)
    /\ \A a \in s.archives :
          /\ a.name \in Archive /\ Left(s, a.snap) /\ a.rauthy.data \in Nat
          /\ a.key = [f \in KeyFile |-> a.key[f]]
          /\ \A b \in Binary : Restorable(a.rows, b) => Restorable(Checksummed(a.snap), b)
    /\ \A a, b \in s.archives : a.name = b.name => a = b

VARIABLES
    archives,  \* the archives that exist
    clock,     \* the wall clock, in seconds
    hiq,       \* hiqlite: snapshot files, accepted requests, its timer
    backup,    \* one `rahi backup`
    restore,   \* one `rahi restore`
    torn,      \* the archive of a restore that died once it had begun to write (history)
    rdir,      \* the archive whose rauthy snapshot lies on the volume
    rauthy,    \* rauthy: up, its store's origin and writes, and the
               \* marker in force at the last write (history)
    cell       \* `rahi supervise`: the serving process

deployed == <<scene, db, keys, marker, owner, lockFile, deploy, faults>>
world == <<archives, clock, hiq, rdir, rauthy>>
recoveryVars == <<deployed, world, backup, restore, torn, cell>>

-----------------------------------------------------------------------------
(* hiqlite's snapshots: a file is named for the second of its request.     *)

Fresh == [files |-> {}, asked |-> {}, last |-> None]

(* Its timer and the requests it took go with the node.                    *)
HiqAfter == IF lockFile = "held" /\ lockFile' # "held" THEN [Fresh EXCEPT !.files = hiq.files]
            ELSE hiq

(* Ignoring is silent; at the window's edge either may happen, for the two *)
(* clocks are not one.                                                     *)
Accepts == [hiq EXCEPT !.asked = @ \cup {clock}, !.last = clock]
AfterRequest ==
    {h \in {hiq, Accepts} :
        /\ h = hiq => hiq.last # None /\ clock - hiq.last <= Window
        /\ h = Accepts => \/ hiq.last = None
                          \/ clock - hiq.last >= Window
                          \/ clock < hiq.last}

(* A request from outside this process.                                    *)
OutsideRequest ==
    /\ NodeUp /\ scene.outside
    /\ hiq' \in AfterRequest
    /\ UNCHANGED <<deployed, archives, clock, backup, restore, torn, rdir, rauthy, cell>>

Vacuum(t) ==
    /\ NodeUp /\ t \in hiq.asked
    /\ hiq' = [hiq EXCEPT !.asked = @ \ {t},
                          !.files = IF \E f \in @ : f.at = t THEN @
                                    ELSE @ \cup {[at |-> t, snap |-> db]}]
    /\ UNCHANGED <<deployed, archives, clock, backup, restore, torn, rdir, rauthy, cell>>

Tick ==
    /\ clock < scene.until /\ clock' = clock + 1
    /\ UNCHANGED <<deployed, archives, hiq, backup, restore, torn, rdir, rauthy, cell>>

ClockBack ==
    /\ scene.rollback /\ clock > 0 /\ clock' = clock - 1
    /\ scene' = [scene EXCEPT !.rollback = FALSE]
    /\ UNCHANGED <<db, keys, marker, owner, lockFile, deploy, faults, archives, hiq, backup,
                   restore, torn, rdir, rauthy, cell>>

-----------------------------------------------------------------------------
(* `rahi backup`.                                                          *)

NoBackup == [pc |-> "idle", owns |-> FALSE, mh |-> None, n |-> 0, existing |-> {},
             trigger |-> 0, asked |-> 0, snap |-> None, rauthy |-> None]

BackupAt(pc) == [backup EXCEPT !.pc = pc]

(* The ledger's answers are read before the snapshot is asked for.         *)
BackupOpen ==
    LET store == WithGenesis(Opened, scene.binary)
    IN /\ scene.saves /\ backup.pc = "idle" /\ CanOpen /\ ChainVerifies(db)
       /\ owner' = IF owner = NoOne THEN "backup" ELSE owner
       /\ lockFile' = "held"
       /\ db' = store
       /\ backup' = [backup EXCEPT !.pc = "list", !.owns = (owner = NoOne),
                                   !.mh = CurrentManifest(store),
                                   !.n = CurrentEpoch(store).n]
       /\ UNCHANGED <<scene, keys, marker, deploy, faults, world, restore, torn, cell>>

(* Files present before the call are never this call's.                    *)
BackupList ==
    /\ backup.pc = "list" /\ NodeUp
    /\ backup' = [backup EXCEPT !.pc = "wait", !.asked = db.data,
                                !.existing = {f.at : f \in hiq.files}]
    /\ UNCHANGED <<deployed, world, restore, torn, cell>>

SuppressedFor == \E f \in hiq.files : /\ \A g \in hiq.files : g.at <= f.at
                                      /\ clock - f.at < Window

BackupWaited ==
    /\ backup.pc = "wait" /\ NodeUp /\ ~SuppressedFor
    /\ backup' = BackupAt("trigger")
    /\ UNCHANGED <<deployed, world, restore, torn, cell>>

BackupTrigger ==
    /\ backup.pc = "trigger" /\ NodeUp
    /\ hiq' \in AfterRequest
    /\ backup' = [backup EXCEPT !.pc = "poll", !.trigger = clock]
    /\ UNCHANGED <<deployed, archives, clock, rdir, rauthy, restore, torn, cell>>

(* Mutant of SnapshotSince: a file that was there before will do.          *)
SnapshotNamed == {f \in hiq.files : f.at >= backup.trigger}

(* The files at or after the trigger that were not there before.           *)
SnapshotSince == {f \in hiq.files : f.at >= backup.trigger /\ f.at \notin backup.existing}

(* The newest of them is taken; with none in time the request is made      *)
(* again.                                                                  *)
BackupPoll ==
    /\ backup.pc = "poll" /\ NodeUp
    /\ backup' = IF SnapshotSince = {} THEN BackupAt("wait")
                 ELSE [backup EXCEPT
                       !.pc = "rauthy", !.existing = {},
                       !.snap = (CHOOSE f \in SnapshotSince :
                                     \A g \in SnapshotSince : g.at <= f.at).snap]
    /\ UNCHANGED <<deployed, world, restore, torn, cell>>

BackupRauthy ==
    /\ backup.pc = "rauthy" /\ rauthy.up
    /\ backup' = [backup EXCEPT !.pc = "deliver",
                                !.rauthy = [src |-> rauthy.src, data |-> rauthy.data]]
    /\ UNCHANGED <<deployed, world, restore, torn, cell>>

Sealed(a) ==
    [name |-> a, snap |-> backup.snap, rauthy |-> backup.rauthy, key |-> keys, mh |-> backup.mh,
     epoch |-> backup.n, rows |-> db.rows, intact |-> TRUE]

(* The histories are read last, so they hold at least what the snapshot    *)
(* holds.  The archive appears whole or not at all.                        *)
BackupDeliver ==
    /\ backup.pc = "deliver" /\ NodeUp
    /\ \E a \in Archive \ {x.name : x \in archives} : archives' = archives \cup {Sealed(a)}
    /\ backup' = BackupAt("done")
    /\ UNCHANGED <<deployed, clock, hiq, rdir, rauthy, restore, torn, cell>>

(* Done, out of time, refused by a part, stopped, or left without a node.  *)
BackupEnd ==
    /\ backup.pc \notin {"idle", "ended"}
    /\ backup' = [NoBackup EXCEPT !.pc = "ended"]
    /\ owner' = IF backup.owns THEN NoOne ELSE owner
    /\ lockFile' = IF backup.owns THEN "none" ELSE lockFile
    /\ hiq' = HiqAfter
    /\ UNCHANGED <<scene, db, keys, marker, deploy, faults, archives, clock, rdir, rauthy, restore,
                   torn, cell>>

-----------------------------------------------------------------------------
(* `rahi restore`.                                                         *)

NoRestore == [pc |-> "idle", of |-> None, at |-> 0, wrote |-> {}]

RestoreAt(pc) == [restore EXCEPT !.pc = pc]
Of(a) == CHOOSE x \in archives : x.name = a
Restoring == Of(restore.of)

(* Every part is there and hashes to what the archive's manifest says.     *)
Opens(a) == a.intact

(* The archive opens whole and this binary can serve what it holds, or, a  *)
(* manifest the chain does not name aside, the operator said --adopt.      *)
Compatible(a) ==
    /\ Opens(a)
    /\ Restorable(a.rows, scene.binary)
    /\ a.mh = Ceiling[scene.binary] \/ scene.adopting

(* refuse_running sees rauthy answering, or a lock file left behind.       *)
StillRunning == lockFile = "left" \/ rauthy.up

(* Both locks, then the marker, then whatever runs; nothing is written     *)
(* before the archive has proved itself.  A deploy step or a backup that   *)
(* outlives the node it was attached to is over before a restore begins.   *)
RestoreStart(a) ==
    LET refused == StillRunning \/ ~Compatible(Of(a))
    IN /\ restore.pc = "idle" /\ scene.restores > 0
       /\ a \in {x.name : x \in archives}
       /\ owner = NoOne /\ marker # Unreadable
       /\ backup.pc \in {"idle", "ended"} /\ \A d \in Step : ~Running(d)
       /\ scene' = [scene EXCEPT !.restores = @ - 1]
       /\ IF marker # None /\ marker.archive = a
          THEN /\ restore' = [pc |-> "already", of |-> a, at |-> 0, wrote |-> {}]
               /\ UNCHANGED owner
          ELSE IF refused THEN UNCHANGED <<restore, owner>>
          ELSE /\ restore' = [pc |-> "keys", of |-> a, at |-> clock + 1, wrote |-> {}]
               /\ owner' = "restore"
       /\ UNCHANGED <<db, keys, marker, lockFile, deploy, faults, world, backup, torn, cell>>

(* The archived key files are written over the volume's one by one, each   *)
(* truncated and then filled.                                              *)
RestoreKey(f) ==
    /\ restore.pc = "keys" /\ f \in KeyFile \ restore.wrote
    /\ keys' = [keys EXCEPT ![f] = Restoring.key[f]]
    /\ restore' = [restore EXCEPT !.wrote = @ \cup {f},
                                  !.pc = IF KeyFile \subseteq restore.wrote \cup {f}
                                         THEN "reset" ELSE "keys"]
    /\ UNCHANGED <<scene, db, marker, owner, lockFile, deploy, faults, world, backup, torn, cell>>

(* reset_app_node: the node's files go, then the archived database comes.  *)
RestoreReset ==
    /\ restore.pc = "reset"
    /\ db' = EMPTY
    /\ restore' = RestoreAt("place")
    /\ UNCHANGED <<scene, keys, marker, owner, lockFile, deploy, faults, world, backup, torn, cell>>

RestorePlace ==
    /\ restore.pc = "place"
    /\ db' = [Restoring.snap EXCEPT !.src = restore.of, !.since = restore.at]
    /\ restore' = RestoreAt("clear")
    /\ UNCHANGED <<scene, keys, marker, owner, lockFile, deploy, faults, world, backup, torn, cell>>

RestoreClear ==
    /\ restore.pc = "clear"
    /\ rdir' = None
    /\ restore' = RestoreAt("rauthy")
    /\ UNCHANGED <<deployed, archives, clock, hiq, rauthy, backup, torn, cell>>

RestoreRauthy ==
    /\ restore.pc = "rauthy"
    /\ rdir' = restore.of
    /\ restore' = RestoreAt("mark")
    /\ UNCHANGED <<deployed, archives, clock, hiq, rauthy, backup, torn, cell>>

(* The marker is written last, and owes the floor the restore's instant.   *)
Marker(r) == [archive |-> r.of, applied |-> FALSE, owed |-> r.at]
RestoreMark ==
    /\ restore.pc = "mark"
    /\ marker' = Marker(restore)
    /\ restore' = RestoreAt("done") /\ torn' = None /\ owner' = NoOne
    /\ UNCHANGED <<scene, db, keys, lockFile, deploy, faults, world, backup, cell>>

RestoreEnd ==
    /\ restore.pc \in {"done", "already"}
    /\ restore' = NoRestore
    /\ UNCHANGED <<deployed, world, backup, torn, cell>>

(* A restore dies with its locks, or fails at a write: the key file, or    *)
(* the marker, it was at may hold half of what was written.                *)
RestoreCrash ==
    /\ restore.pc \notin {"idle", "done", "already"} /\ faults.crashes > 0
    /\ faults' = [faults EXCEPT !.crashes = @ - 1]
    /\ restore' = NoRestore /\ owner' = NoOne
    /\ \/ UNCHANGED keys
       \/ /\ restore.pc = "keys"
          /\ \E f \in KeyFile \ restore.wrote : keys' = [keys EXCEPT ![f] = Unreadable]
    /\ torn' = IF restore.pc = "keys" /\ restore.wrote = {} /\ keys' = keys
               THEN torn ELSE restore.of
    /\ marker' \in {marker} \cup (IF restore.pc = "mark" THEN {Unreadable} ELSE {})
    /\ UNCHANGED <<scene, db, lockFile, deploy, world, backup, cell>>

(* An operator clears what an unclean stop left, as restore's refusal asks.*)
ClearLock ==
    /\ lockFile = "left" /\ owner = NoOne
    /\ lockFile' = "none"
    /\ UNCHANGED <<scene, db, keys, marker, owner, deploy, faults, world, backup, restore, torn,
                   cell>>

-----------------------------------------------------------------------------
(* `rahi supervise`: rauthy first, then the cell in the same process.      *)

Down == [pc |-> "down", bin |-> None, source |-> None, met |-> FALSE]

CellAt(pc) == [cell EXCEPT !.pc = pc]
Owing == marker # None /\ ~marker.applied

(* The pending source is captured, and a missing one refuses the start;    *)
(* rauthy replaces its store with what it is handed.                       *)
CellPrepare(b) ==
    /\ cell.pc = "down" /\ owner = NoOne /\ b \in scene.serves
    /\ marker # Unreadable
    /\ Owing => rdir = marker.archive
    /\ owner' = "cell"
    /\ cell' = [Down EXCEPT !.pc = "ready", !.bin = b,
                            !.source = IF Owing THEN marker ELSE None]
    /\ rauthy' = IF Owing THEN [rauthy EXCEPT !.up = TRUE, !.src = rdir,
                                          !.data = Of(rdir).rauthy.data]
                 ELSE [rauthy EXCEPT !.up = TRUE]
    /\ UNCHANGED <<scene, db, keys, marker, lockFile, deploy, faults, archives, clock, hiq, rdir,
                   backup, restore, torn>>

(* Mutant of Certified: the start does not record that it was applied.     *)
CertifiedNever(m) == m

Certified(m) == [m EXCEPT !.applied = TRUE]

(* rauthy is healthy: the source it was given is recorded as applied.      *)
CellHealthy ==
    /\ cell.pc = "ready"
    /\ IF cell.source = None
       THEN cell' = CellAt("open") /\ UNCHANGED marker
       ELSE IF marker = cell.source
       THEN cell' = CellAt("open") /\ marker' = Certified(marker)
       ELSE cell' = CellAt("stop") /\ UNCHANGED marker
    /\ UNCHANGED <<scene, db, keys, owner, lockFile, deploy, faults, world, backup, restore, torn>>

(* The store is opened, and the floor the restore owes is raised first;    *)
(* secrets that do not parse refuse the start before that.                 *)
CellOpen ==
    /\ cell.pc = "open"
    /\ IF keys["secrets"] = Unreadable
       THEN cell' = CellAt("stop") /\ UNCHANGED <<db, lockFile>>
       ELSE /\ db' = FloorRaised(db) /\ lockFile' = "held"
            /\ cell' = CellAt("check")
    /\ UNCHANGED <<scene, keys, marker, owner, deploy, faults, world, backup, restore, torn>>

CellCheck ==
    /\ cell.pc = "check"
    /\ cell' = CellAt(IF Judgement(db.rows, cell.bin) = "ok" THEN "boot" ELSE "stop")
    /\ UNCHANGED <<deployed, world, backup, restore, torn>>

(* Ledger::open, then Kernel::boot under the chain's current manifest.     *)
CellBoot ==
    LET store == WithGenesis(db, cell.bin)
    IN /\ cell.pc = "boot"
       /\ db' = IF ChainVerifies(db) THEN store ELSE db
       /\ cell' = CellAt(IF ChainVerifies(db) /\ CurrentManifest(store) = Ceiling[cell.bin]
                         THEN "serving" ELSE "stop")
       /\ UNCHANGED <<scene, keys, marker, owner, lockFile, deploy, faults, world, backup, restore,
                      torn>>

CellWrite ==
    /\ cell.pc = "serving" /\ db.data < scene.writes
    /\ db' = [db EXCEPT !.data = @ + 1]
    /\ UNCHANGED <<scene, keys, marker, owner, lockFile, deploy, faults, world, backup, restore,
                   torn, cell>>

RauthyWrite ==
    /\ cell.pc = "serving" /\ rauthy.data < scene.writes
    /\ rauthy' = [rauthy EXCEPT !.data = @ + 1, !.under = marker]
    /\ UNCHANGED <<deployed, archives, clock, hiq, rdir, backup, restore, torn, cell>>

(* A stop, or a refused start: the node is shut down and rauthy stopped.   *)
CellStop ==
    /\ cell.pc \in {"stop", "serving"}
    /\ cell' = Down /\ owner' = NoOne /\ lockFile' = IF NodeUp THEN "none" ELSE lockFile
    /\ rauthy' = [rauthy EXCEPT !.up = FALSE] /\ hiq' = HiqAfter
    /\ UNCHANGED <<scene, db, keys, marker, deploy, faults, archives, clock, rdir, backup, restore,
                   torn>>

CellCrash ==
    /\ cell.pc # "down" /\ faults.crashes > 0
    /\ faults' = [faults EXCEPT !.crashes = @ - 1]
    /\ cell' = Down /\ owner' = NoOne /\ lockFile' = IF NodeUp THEN "left" ELSE lockFile
    /\ rauthy' = [rauthy EXCEPT !.up = FALSE] /\ hiq' = HiqAfter
    /\ UNCHANGED <<scene, db, keys, marker, deploy, archives, clock, rdir, backup, restore, torn>>

-----------------------------------------------------------------------------
(* A deploy step that attaches to a serving cell is noted by the cell.     *)
DeployBeside ==
    /\ DeployNext
    /\ cell' = [cell EXCEPT !.met = cell.pc # "down"
                                    /\ (@ \/ \E d \in Step : Running(d) \/ Running(d)')]
    /\ hiq' = HiqAfter
    /\ UNCHANGED <<archives, clock, rdir, rauthy, backup, restore, torn>>

RecoveryInit ==
    /\ scene \in Scenes
    /\ db = scene.db /\ keys = KeySet(scene.key) /\ marker = None
    /\ owner = NoOne /\ lockFile = "none"
    /\ deploy = [d \in Step |-> Idle] /\ faults = scene.faults
    /\ archives = scene.archives /\ clock = 0 /\ hiq = Fresh
    /\ backup = NoBackup /\ restore = NoRestore /\ torn = None /\ rdir = None
    /\ rauthy = [up |-> FALSE, src |-> None, data |-> 0, under |-> None]
    /\ cell = Down

RecoveryNext ==
    \/ DeployBeside
    \/ OutsideRequest \/ Tick \/ ClockBack \/ \E t \in 0..scene.until : Vacuum(t)
    \/ BackupOpen \/ BackupList \/ BackupWaited \/ BackupTrigger \/ BackupPoll
    \/ BackupRauthy \/ BackupDeliver \/ BackupEnd
    \/ \E a \in Archive : RestoreStart(a)
    \/ \E f \in KeyFile : RestoreKey(f)
    \/ RestoreReset \/ RestorePlace \/ RestoreClear \/ RestoreRauthy
    \/ RestoreMark \/ RestoreEnd \/ RestoreCrash \/ ClearLock
    \/ \E b \in Binary : CellPrepare(b)
    \/ CellHealthy \/ CellOpen \/ CellCheck \/ CellBoot \/ CellWrite \/ RauthyWrite
    \/ CellStop \/ CellCrash

RecoverySpec == RecoveryInit /\ [][RecoveryNext]_recoveryVars

-----------------------------------------------------------------------------
(* Properties.                                                             *)

(* Every store, live or archived, records a version of a set once; a       *)
(* process at work holds the locks, or the node it is attached to does.    *)
RecoveryTypeOK ==
    /\ StoreOK(scene, db) /\ \A a \in archives : StoreOK(scene, a.snap)
    /\ lockFile \in {"none", "held", "left"} /\ (lockFile = "held" => owner # NoOne)
    /\ cell.pc \in {"down", "ready", "open", "check", "boot", "serving", "stop"}
    /\ cell.pc # "down" <=> owner = "cell"
    /\ restore.pc \notin {"idle", "done", "already"} <=> owner = "restore"
    /\ \A d \in Step : deploy[d].owns <=> owner = d
    /\ backup.owns <=> owner = "backup"
    /\ \A a, b \in archives : a.name = b.name => a = b

(* A cell that boots or serves does so on a store whose every migration it *)
(* carries was applied unedited, with nothing above it that is not         *)
(* additive, and under the manifest the chain names, unless a deploy step  *)
(* came to work on it meanwhile.                                           *)
ServedFits ==
    (cell.pc \in {"boot", "serving"} /\ ~cell.met) =>
        /\ Judgement(db.rows, cell.bin) = "ok"
        /\ \A r \in db.rows : r.set \notin Carried(cell.bin) => r.add
        /\ cell.pc = "serving" => CurrentManifest(db) = Ceiling[cell.bin]

(* RequirementsMet and ServedFits together: what a deploy step leaves, a   *)
(* cell of the same build can serve.                                       *)
SchemaHolds == RequirementsMet /\ ServedFits

(* The store under every order of deploy steps, restores and cells: its    *)
(* type, its schema and the chain of its epochs.                           *)
DeploySound == RecoveryTypeOK /\ SchemaHolds /\ EpochsLinked

(* Whatever crashes came before, a cell that serves after a completed      *)
(* restore serves that archive: its store, its whole key set, its rauthy,  *)
(* with the revocation floor at the restore's instant or above.  A restore *)
(* that died once it had begun a key file is not made good by the marker   *)
(* of an earlier one: torn records it, and it is exempt.                   *)
ServesWhatWasRestored ==
    (cell.pc = "serving" /\ torn = None /\ marker # None) =>
        /\ db.src = marker.archive /\ rauthy.src = marker.archive
        /\ marker.applied
        /\ db.floor >= db.since
        /\ db.key = keys["ledger"] /\ keys = Of(marker.archive).key

(* Nothing written to rauthy while a cell served is lost by a restart, by  *)
(* a crash or by a restore that died: its store is only replaced when a    *)
(* restore completed after the write.                                      *)
RauthyIsKept ==
    [][rauthy'.data < rauthy.data => marker # rauthy.under]_recoveryVars

(* The snapshot a backup takes holds every write acknowledged before the   *)
(* backup was asked for, and an archive judged restorable on the histories *)
(* it records is restorable on the database it holds, rows written before  *)
(* checksums aside.                                                        *)
ArchiveSound ==
    /\ backup.snap # None => backup.snap.data >= backup.asked
    /\ \A a \in archives, b \in Binary :
          Restorable(a.rows, b) => Restorable(Checksummed(a.snap), b)

(* A restore that answers "already applied; nothing to do" leaves a volume *)
(* that holds that archive.                                                *)
AlreadyMeansApplied ==
    restore.pc = "already" => db.src = restore.of /\ keys = Of(restore.of).key
=============================================================================
