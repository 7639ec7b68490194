---------------------------- MODULE Transition -----------------------------
(***************************************************************************)
(* The cache transition (src/crates/rahi-ops/src/upgrade.rs), the locks,   *)
(* fences and the gate every entry point passes (cell_lock.rs), on one     *)
(* data volume, with the pre-043 processes an operator may still start     *)
(* there.                                                                  *)
(*                                                                         *)
(* The volume holds the legacy store (its planned entries, each followed   *)
(* by its identity), the marker file a pre-043 node tests, the path of     *)
(* Rauthy's rendered environment, and the persisted record.  One process   *)
(* at a time holds cell.lock ("owner": upgrade-cache, its --abort, serve   *)
(* or supervise); one attaching verb may run beside serve.  The kernel     *)
(* drops both locks with the process, so a held lock is a live process.    *)
(*                                                                         *)
(* An entry is at "legacy", "app" or "aside" under its own identity, or    *)
(* "none".  Anything a refused pre-043 start creates at a legacy path is   *)
(* another identity: it is in debris.                                      *)
(***************************************************************************)
EXTENDS Naturals, Sequences, FiniteSets, SequencesExt

CONSTANTS
    MaxStarts,         \* pre-043 processes started on the volume
    MaxCrashes,        \* kills of a process of this version
    MaxAborts,         \* runs of upgrade-cache --abort
    ResumeAfterAbort,  \* TRUE: upgrade-cache may be run after an abort that
                       \* did not complete
    CrashBeforeRecord, \* TRUE: a crash may fall between the guard's link and
                       \* the write of the record that follows it
    RenderedOnly       \* TRUE: a fresh volume may hold a rendered environment

ASSUME BoundsAssumption ==
    /\ MaxStarts \in Nat /\ MaxCrashes \in Nat /\ MaxAborts \in Nat
    /\ ResumeAfterAbort \in BOOLEAN
    /\ CrashBeforeRecord \in BOOLEAN
    /\ RenderedOnly \in BOOLEAN

VARIABLES
    rec,        \* upgrade-cache.json
    place,      \* where each original entry of the legacy store is
    debris,     \* entries of another identity at a legacy path
    meta,       \* the WAL metadata file of each original WAL directory
    marker,     \* <legacy>/state_machine/lock
    dbFiles,    \* SQLite's side files beside the legacy database
    hollow,     \* the legacy path is an empty directory
    env,        \* <data>/rauthy/rauthy.env
    moved,      \* the pending evidence move's rename has happened
    appMarker,  \* the app store's own marker: T3 has it open, or was killed
    floor,      \* the store's transition floor was raised
    owner,      \* the process that holds cell.lock, and where it is
    attacher,   \* a verb that runs beside serve without cell.lock
    temp,       \* the fence temporary each of the two is building
    sweeping,   \* owner holds the lock of the attacher's temporary
    mem,        \* the WAL metadata T1 holds in memory
    todo,       \* debris listed and not yet moved to evidence
    old,        \* the pre-043 process
    aborting,   \* history: an abort began and has not completed
    starts, crashes, aborts

vars == <<rec, place, debris, meta, marker, dbFiles, hollow, env, moved, appMarker,
          floor, owner, attacher, temp, sweeping, mem, todo, old, aborting, starts, crashes, aborts>>

volume == <<place, debris, meta, marker, dbFiles, hollow, env, appMarker, floor>>
others == <<attacher, temp, sweeping, old, aborting, starts, crashes, aborts>>

(* plan_t2's order: the durable log first, the cache log last.             *)
PlanOrder == <<"logs", "db", "state_machine_cache", "logs_cache">>
Entry == Range(PlanOrder)

(* Mutant of Destination: the old caches go to the evidence directory.     *)
DestinationEvidence(e) == IF e \in {"state_machine_cache", "logs_cache"} THEN "evidence" ELSE "app"

(* plan_t2's destination for an entry.                                     *)
Destination(e) == IF e \in {"state_machine_cache", "logs_cache"} THEN "aside" ELSE "app"

(* The two WAL directories.                                                *)
Log == {"logs", "logs_cache"}

(* The phases, in the order Phase declares them; a volume without a record *)
(* is at "none".                                                           *)
Phases == <<"none", "begin", "guarded", "verifying", "verified", "relocating", "relocated",
            "flooring", "floored", "rauthy-done", "done", "aborted">>
Phase == Range(Phases)
Rank(p) == CHOOSE i \in 1 .. Len(Phases) : Phases[i] = p
AtLeast(p) == Rank(rec.phase) >= Rank(p)

Serves(p) == p \in {"floored", "rauthy-done", "done"}

Verb == {"t1.capture", "t1.guard", "t1.link", "t1.record", "t1.locks", "t1.db", "t1.marker",
         "t1.fence", "t1.place", "t1.instant", "advance", "t2.plan", "t2.move", "t2.debris",
         "t3.marker", "t3.open", "t3.floor", "t3.shut"}
AbortSteps == {"abort.debris", "abort.return", "abort.meta", "abort.fence", "abort.env",
               "abort.guard", "abort.done"}
Fencing == {"sweep", "sup.look", "sup.lock", "sup.place", "leg.make", "leg.lock", "leg.place"}
Serving == Fencing \cup {"open", "up"}

TypeOK ==
    /\ rec \in [phase : Phase, meta : SUBSET Log, saved : BOOLEAN,
                pend : Entry \cup {"none", "env", "fence", "marker"}]
    /\ place \in [Entry -> {"none", "legacy", "app", "aside"}]
    /\ debris \in SUBSET Entry
    /\ meta \in [Log -> {"whole", "cut"}]
    /\ marker \in {"none", "node", "guard", "fence"}
    /\ dbFiles \in {"none", "wal", "both"}
    /\ hollow \in BOOLEAN
    /\ env \in {"absent", "file", "fence"}
    /\ moved \in BOOLEAN
    /\ appMarker \in BOOLEAN
    /\ floor \in BOOLEAN
    /\ owner \in {"down"} \cup Verb \cup AbortSteps \cup Serving
    /\ attacher \in {"down", "up"} \cup (Fencing \ {"sweep"})
    /\ temp \in [{"owner", "attacher"} -> {"none", "made", "held"}]
    /\ sweeping \in BOOLEAN
    /\ mem \in SUBSET Log
    /\ todo \in SUBSET Entry
    /\ old \in {"down", "opened", "passed", "claimed", "live", "released", "unmarked", "unmapped"}
    /\ aborting \in BOOLEAN
    /\ starts \in 0 .. MaxStarts /\ crashes \in 0 .. MaxCrashes /\ aborts \in 0 .. MaxAborts

NoRecord == [phase |-> "none", meta |-> {}, saved |-> FALSE, pend |-> "none"]

(* Either a volume a pre-043 cell stopped cleanly, or a fresh volume, which *)
(* an older build of this version may have left with an empty directory.    *)
Init ==
    /\ rec = NoRecord
    /\ \/ place = [e \in Entry |-> "legacy"] /\ env = "file" /\ hollow = FALSE
       \/ /\ place = [e \in Entry |-> "none"]
          /\ hollow \in BOOLEAN
          /\ env \in {"absent"} \cup (IF RenderedOnly THEN {"file"} ELSE {})
    /\ debris = {}
    /\ meta = [l \in Log |-> "whole"]
    /\ marker = "none"
    /\ dbFiles = "none"
    /\ moved = FALSE /\ appMarker = FALSE /\ floor = FALSE
    /\ owner = "down" /\ attacher = "down"
    /\ temp = [p \in {"owner", "attacher"} |-> "none"]
    /\ sweeping = FALSE
    /\ mem = {} /\ todo = {}
    /\ old = "down" /\ aborting = FALSE
    /\ starts = 0 /\ crashes = 0 /\ aborts = 0

----------------------------------------------------------------------------
(* What the gate finds at the legacy path.                                 *)

Original(p) == {e \in Entry : place[e] = p}

LegacyEmpty == Original("legacy") = {} /\ debris = {} /\ marker = "none"

Legacy ==
    IF LegacyEmpty THEN IF hollow THEN "hollow" ELSE "absent"
    ELSE IF place["db"] # "legacy" /\ marker \in {"guard", "fence"} THEN "fence"
    ELSE "other"

(* The record on disk with another phase.                                  *)
Recorded(p) == [rec EXCEPT !.phase = p]

(* Where run's loop goes from a recorded phase.                            *)
Resume(p) ==
    CASE p = "begin" -> "t1.capture"
      [] p = "verified" -> "t2.plan"
      [] p = "relocating" -> "t2.move"
      [] p = "flooring" -> "t3.marker"
      [] OTHER -> "advance"

----------------------------------------------------------------------------
(* run: T0, the gate and the record.  A new transition starts only where a *)
(* store is at the legacy path; verify_archive reads and changes nothing.  *)
StartUpgrade ==
    /\ owner = "down" /\ attacher = "down"
    /\ aborting => ResumeAfterAbort
    /\ \/ /\ rec.phase \in {"none", "aborted"}
          /\ Legacy \in {"other", "hollow"}
          /\ rec' = [NoRecord EXCEPT !.phase = "begin"]
          /\ owner' = "t1.capture"
       \/ /\ rec.phase \notin {"none", "aborted"} /\ ~Serves(rec.phase)
          /\ rec' = rec
          /\ owner' = Resume(rec.phase)
    /\ mem' = rec'.meta
    /\ UNCHANGED <<volume, moved, todo, others>>

(* advance: the in-memory record gets the phase and is written.            *)
Advance(from, to, at, next) ==
    /\ owner = at /\ rec.phase = from /\ rec.pend = "none"
    /\ rec' = Recorded(to)
    /\ owner' = next
    /\ UNCHANGED <<volume, moved, mem, todo, others>>

(* to_evidence's intent, written before the rename.                        *)
Intend(path) == rec.pend = "none" /\ rec' = [rec EXCEPT !.pend = path]

(* finish_evidence: the rename, by identity.  The path is empty afterwards *)
(* or holds what another process put there since.                          *)
MoveEvidence ==
    /\ owner \in Verb \cup AbortSteps
    /\ rec.pend # "none" /\ ~moved
    /\ moved' = TRUE
    /\ debris' = debris \ {rec.pend}
    /\ env' = IF rec.pend \in {"env", "fence"} THEN "absent" ELSE env
    /\ appMarker' = (appMarker /\ rec.pend # "marker")
    /\ UNCHANGED <<rec, place, meta, marker, dbFiles, hollow, floor, owner, mem, todo, others>>

(* The move's completion, written: at once, or by recover_evidence in the  *)
(* next run.                                                               *)
RecordEvidence ==
    /\ owner \in Verb \cup AbortSteps
    /\ rec.pend # "none" /\ moved
    /\ rec' = [rec EXCEPT !.pend = "none", !.saved = @ \/ rec.pend = "env"]
    /\ moved' = FALSE
    /\ UNCHANGED <<volume, owner, mem, todo, others>>

(* A step of the verb or the abort, at a point of its own, with no         *)
(* evidence move pending.                                                  *)
At(pc) == owner = pc /\ rec.pend = "none"
Goto(pc) == owner' = pc /\ UNCHANGED others
Refuse == owner' = "down" /\ UNCHANGED <<volume, rec, moved, mem, todo, others>>

----------------------------------------------------------------------------
(* T1.                                                                     *)

(* capture_wal_meta: each file there must be whole; an absent one, the     *)
(* other thing a cut-short rewrite leaves, is passed over.                 *)
Captured == \A l \in Log : place[l] = "legacy" => meta[l] = "whole"

T1Capture ==
    /\ At("t1.capture")
    /\ \/ /\ mem # {} \/ Captured
          /\ mem' = IF mem # {} THEN mem ELSE {l \in Log : place[l] = "legacy"}
          /\ Goto("t1.guard")
          /\ UNCHANGED <<volume, rec, moved, todo>>
       \/ /\ mem = {} /\ ~Captured
          /\ Refuse

(* T1 (b): the guard is there already, is to be written, or is a pre-043   *)
(* node's marker, which is left.  Creating the directory makes the path    *)
(* one that is no longer empty.                                            *)
T1Guard ==
    /\ At("t1.guard")
    /\ \/ marker = "guard" /\ Goto("t1.locks") /\ UNCHANGED <<volume, rec, moved, mem, todo>>
       \/ marker = "none" /\ Goto("t1.link") /\ UNCHANGED <<volume, rec, moved, mem, todo>>
       \/ marker \in {"node", "fence"} /\ Refuse

(* The whole temporary is linked to the marker's path, unless something    *)
(* appeared there.                                                         *)
T1Link ==
    /\ At("t1.link")
    /\ \/ /\ marker = "none"
          /\ marker' = "guard"
          /\ Goto("t1.record")
          /\ UNCHANGED <<place, debris, meta, dbFiles, hollow, env, appMarker, floor>>
          /\ UNCHANGED <<rec, moved, mem, todo>>
       \/ marker # "none" /\ Refuse

T1Record ==
    /\ At("t1.record")
    /\ rec' = [rec EXCEPT !.meta = mem]
    /\ Goto("t1.locks")
    /\ UNCHANGED <<volume, moved, mem, todo>>

(* T1 (c): a pre-043 node holds its WAL locks from before its check of the *)
(* marker until its WAL writer stops.                                      *)
LogHeld == old \in {"opened", "passed", "claimed", "live"}

T1Locks ==
    /\ At("t1.locks")
    /\ \/ ~LogHeld /\ Goto("t1.db") /\ UNCHANGED <<volume, rec, moved, mem, todo>>
       \/ LogHeld /\ Refuse

(* T1 (c): a -shm, or a -wal while a process holds SQLite's lock, is an    *)
(* open database; a -wal alone is a close cut short.                       *)
DatabaseOpen == dbFiles = "both" \/ (dbFiles = "wal" /\ old \in {"live", "released", "unmarked", "unmapped"})

T1Database ==
    /\ At("t1.db")
    /\ \/ ~DatabaseOpen /\ Goto("t1.marker") /\ UNCHANGED <<volume, rec, moved, mem, todo>>
       \/ DatabaseOpen /\ Refuse

(* Mutant of StillGuarded: T1 trusts the guard it placed.                  *)
StillGuardedAssumed == TRUE

(* T1 (d): the marker is the guard `link` gave.                            *)
StillGuarded == marker = "guard"

T1Marker ==
    /\ At("t1.marker")
    /\ \/ StillGuarded /\ Goto("t1.fence") /\ UNCHANGED <<volume, rec, moved, mem, todo>>
       \/ ~StillGuarded /\ Refuse

(* T1 (e): the rendered environment is written at its new path and moved   *)
(* to evidence, and the fence put in its place by a no-replace rename.     *)
T1Fence ==
    /\ At("t1.fence")
    /\ \/ env = "fence" /\ Goto("t1.instant") /\ UNCHANGED <<volume, rec, moved, mem, todo>>
       \/ env = "absent" /\ Goto("t1.place") /\ UNCHANGED <<volume, rec, moved, mem, todo>>
       \/ /\ env = "file"
          /\ Intend("env")
          /\ Goto("t1.place")
          /\ UNCHANGED <<volume, moved, mem, todo>>

PlaceFence ==
    /\ env' = "fence"
    /\ UNCHANGED <<place, debris, meta, marker, dbFiles, hollow, appMarker, floor>>

T1Place ==
    /\ At("t1.place")
    /\ \/ /\ env = "absent"
          /\ PlaceFence
          /\ Goto("t1.instant")
          /\ UNCHANGED <<rec, moved, mem, todo>>
       \/ env # "absent" /\ Refuse

(* T1 (f), the completion of T1, and T1a's two records.                    *)
T1Instant == Advance("begin", "guarded", "t1.instant", "advance")
Verify ==
    \/ Advance("guarded", "verifying", "advance", "advance")
    \/ Advance("verifying", "verified", "advance", "t2.plan")

----------------------------------------------------------------------------
(* T2 and T3.                                                              *)

(* plan_t2: the intent, with every entry and its identity.                 *)
T2Plan == Advance("verified", "relocating", "t2.plan", "t2.move")

Position(e) == CHOOSE i \in 1 .. Len(PlanOrder) : PlanOrder[i] = e

(* Entries go back in the reverse of the plan.  Mutant of NextMove: the    *)
(* verb moves them so too.                                                 *)
LastMove(from) == CHOOSE e \in from : \A f \in from : Position(e) >= Position(f)

(* The first planned entry not yet at its destination.                     *)
NextMove(from) == CHOOSE e \in from : \A f \in from : Position(e) <= Position(f)

T2Move ==
    /\ At("t2.move")
    /\ IF Original("legacy") # {}
       THEN /\ place' = [place EXCEPT ![NextMove(Original("legacy"))] =
                                         Destination(NextMove(Original("legacy")))]
            /\ Goto("t2.move")
            /\ UNCHANGED todo
       ELSE /\ todo' = debris
            /\ Goto("t2.debris")
            /\ UNCHANGED place
    /\ UNCHANGED <<debris, meta, marker, dbFiles, hollow, env, appMarker, floor, rec, moved, mem>>

(* The next listed debris to evidence.                                     *)
SetAside(at) ==
    /\ At(at)
    /\ \E e \in todo :
         /\ todo' = todo \ {e}
         /\ IF e \in debris THEN Intend(e) ELSE rec' = rec
    /\ Goto(at)
    /\ UNCHANGED <<volume, moved, mem>>

T2Debris == SetAside("t2.debris")

T2Done ==
    /\ todo = {}
    /\ Advance("relocating", "relocated", "t2.debris", "advance")

ToFlooring == Advance("relocated", "flooring", "advance", "t3.marker")

(* T3's own unclean stop goes to evidence.                                 *)
T3Marker ==
    /\ At("t3.marker")
    /\ \/ appMarker /\ Intend("marker") /\ Goto("t3.marker")
       \/ ~appMarker /\ Goto("t3.open") /\ rec' = rec
    /\ UNCHANGED <<volume, moved, mem, todo>>

(* Mutant of Restored: T3 opens what it finds.                             *)
RestoredNothing(logs) == meta

(* restore_wal_meta: a cut-short file T1 recorded is put back.             *)
Restored(logs) == [l \in Log |-> IF l \in logs \cap rec.meta THEN "whole" ELSE meta[l]]

(* The new hiqlite opens the app store, which it refuses to do over a      *)
(* cut-short metadata file.                                                *)
T3Open ==
    /\ At("t3.open")
    /\ meta' = Restored({"logs"})
    /\ IF place["logs"] = "app" => meta'["logs"] = "whole"
       THEN appMarker' = TRUE /\ Goto("t3.floor")
       ELSE appMarker' = appMarker /\ Goto("down")
    /\ UNCHANGED <<place, debris, marker, dbFiles, hollow, env, floor, rec, moved, mem, todo>>

(* record_transition_floor: one transaction.                               *)
T3Floor ==
    /\ At("t3.floor")
    /\ floor' = TRUE
    /\ Goto("t3.shut")
    /\ UNCHANGED <<place, debris, meta, marker, dbFiles, hollow, env, appMarker, rec, moved, mem, todo>>

(* The shutdown has answered Ok, so the app store's marker is gone, before *)
(* the completion is written.                                              *)
T3Shut ==
    /\ At("t3.shut")
    /\ appMarker' = FALSE
    /\ rec' = IF appMarker THEN rec ELSE Recorded("floored")
    /\ Goto(IF appMarker THEN "t3.shut" ELSE "down")
    /\ UNCHANGED <<place, debris, meta, marker, dbFiles, hollow, env, floor, moved, mem, todo>>

----------------------------------------------------------------------------
(* abort.                                                                  *)

Abortable == rec.phase \notin {"none", "aborted", "flooring", "floored", "rauthy-done", "done"}

StartAbort ==
    /\ owner = "down" /\ attacher = "down"
    /\ \/ aborting /\ aborts' = aborts
       \/ aborts < MaxAborts /\ aborts' = aborts + 1
    /\ aborting' = TRUE
    /\ Abortable
    /\ owner' = "abort.debris"
    /\ todo' = IF AtLeast("relocating") THEN debris ELSE {}
    /\ UNCHANGED <<volume, rec, moved, mem, attacher, temp, sweeping, old, starts, crashes>>

AbortDebris == SetAside("abort.debris")

(* Each entry back to its path by a no-replace rename, which debris that   *)
(* appeared since the listing refuses.                                     *)
AbortReturn ==
    /\ At("abort.debris") \/ At("abort.return")
    /\ todo = {}
    /\ LET away == Original("app") \cup Original("aside") IN
       \/ /\ away # {} /\ LastMove(away) \notin debris
          /\ place' = [place EXCEPT ![LastMove(away)] = "legacy"]
          /\ Goto("abort.return")
       \/ /\ away # {} /\ LastMove(away) \in debris
          /\ place' = place /\ Goto("down")
       \/ /\ away = {}
          /\ place' = place /\ Goto("abort.meta")
    /\ UNCHANGED <<debris, meta, marker, dbFiles, hollow, env, appMarker, floor, rec, moved, mem, todo>>

AbortMeta ==
    /\ At("abort.meta")
    /\ meta' = Restored(Log)
    /\ Goto("abort.fence")
    /\ UNCHANGED <<place, debris, marker, dbFiles, hollow, env, appMarker, floor, rec, moved, mem, todo>>

(* The supervisor fence to evidence, then the original file back.          *)
AbortFence ==
    /\ At("abort.fence")
    /\ \/ rec.saved /\ env = "fence" /\ Intend("fence")
       \/ ~(rec.saved /\ env = "fence") /\ rec' = rec
    /\ Goto("abort.env")
    /\ UNCHANGED <<volume, moved, mem, todo>>

AbortEnv ==
    /\ At("abort.env")
    /\ env' = IF rec.saved /\ env = "absent" THEN "file" ELSE env
    /\ Goto("abort.guard")
    /\ UNCHANGED <<place, debris, meta, marker, dbFiles, hollow, appMarker, floor, rec, moved, mem, todo>>

(* The guard, only while it is still this transition's.                    *)
AbortGuard ==
    /\ At("abort.guard")
    /\ marker' = IF marker = "guard" THEN "none" ELSE marker
    /\ Goto("abort.done")
    /\ UNCHANGED <<place, debris, meta, dbFiles, hollow, env, appMarker, floor, rec, moved, mem, todo>>

AbortDone ==
    /\ At("abort.done")
    /\ rec' = Recorded("aborted")
    /\ aborting' = FALSE
    /\ owner' = "down"
    /\ UNCHANGED <<volume, moved, mem, todo, attacher, temp, sweeping, old, starts, crashes, aborts>>

----------------------------------------------------------------------------
(* The gate of serve, supervise and the attaching verbs, and create_fences. *)

(* The process p (the owner or the attacher) goes from one point to the    *)
(* next and leaves the other alone.                                        *)
Pc(p) == IF p = "owner" THEN owner ELSE attacher
Step(p, from, to) ==
    /\ Pc(p) = from
    /\ owner' = IF p = "owner" THEN to ELSE owner
    /\ attacher' = IF p = "owner" THEN attacher ELSE to
    /\ UNCHANGED <<rec, place, debris, meta, dbFiles, appMarker, floor, moved, mem, todo,
                   old, aborting, starts, crashes, aborts>>

Build(p) == temp' = [temp EXCEPT ![p] = "made"]
Drop(p) == temp' = [temp EXCEPT ![p] = "none"]

(* gate_with_env past its locks: on a volume without a record an abandoned *)
(* empty directory is removed and the absent legacy path is to be fenced;  *)
(* otherwise the record must serve and the legacy path be the fence.       *)
Gate(p, fresh) ==
    \/ /\ rec.phase = "none" /\ Legacy \in {"absent", "hollow"}
       /\ hollow' = FALSE
       /\ Step(p, "down", fresh)
    \/ /\ rec.phase = "none" \/ Serves(rec.phase)
       /\ Legacy = "fence"
       /\ Step(p, "down", IF p = "owner" THEN "open" ELSE "up")
       /\ UNCHANGED hollow

StartServe == Gate("owner", "sweep") /\ UNCHANGED <<marker, env, temp, sweeping>>

StartAttach ==
    /\ owner \in Serving
    /\ rec.phase = "none"
    /\ Gate("attacher", "sup.look")
    /\ UNCHANGED <<marker, env, temp, sweeping>>

(* Mutant of Abandoned: a temporary is removed whoever holds it.           *)
AbandonedAnyway(p) == temp[p] \in {"made", "held"}

(* lock_temp of a sweep succeeds: nobody holds the temporary.              *)
Abandoned(p) == temp[p] = "made"

(* sweep_fence_temps, by the holder of cell.lock: the temporary is locked  *)
(* while it is removed.                                                    *)
Sweep ==
    \/ /\ Abandoned("attacher") /\ ~sweeping
       /\ Step("owner", "sweep", "sweep")
       /\ sweeping' = TRUE
       /\ UNCHANGED <<marker, env, hollow, temp>>
    \/ /\ sweeping
       /\ Step("owner", "sweep", "sup.look")
       /\ Drop("attacher") /\ sweeping' = FALSE
       /\ UNCHANGED <<marker, env, hollow>>
    \/ /\ ~sweeping
       /\ Step("owner", "sweep", "sup.look")
       /\ UNCHANGED <<marker, env, hollow, temp, sweeping>>

(* The supervisor fence is built when nothing is at its path.              *)
LookSupervisor(p) ==
    /\ \/ env = "absent" /\ Step(p, "sup.look", "sup.lock") /\ Build(p)
       \/ env # "absent" /\ Step(p, "sup.look", "leg.make") /\ UNCHANGED temp
    /\ UNCHANGED <<marker, env, hollow, sweeping>>

MakeLegacy(p) ==
    /\ Step(p, "leg.make", "leg.lock")
    /\ Build(p)
    /\ UNCHANGED <<marker, env, hollow, sweeping>>

(* FenceTemp::create: the fresh directory is locked, and must still be the *)
(* one at its path; else another is tried.                                 *)
LockTemp(p, at, next) ==
    /\ ~(sweeping /\ p = "attacher")
    /\ \/ temp[p] = "made" /\ Step(p, at, next) /\ temp' = [temp EXCEPT ![p] = "held"]
       \/ temp[p] = "none" /\ Step(p, at, at) /\ Build(p)
    /\ UNCHANGED <<marker, env, hollow, sweeping>>

(* A no-replace rename; another process's fence is as good.                *)
PlaceSupervisor(p) ==
    /\ temp[p] = "held"
    /\ Step(p, "sup.place", "leg.make")
    /\ env' = IF env = "absent" THEN "fence" ELSE env
    /\ Drop(p)
    /\ UNCHANGED <<marker, hollow, sweeping>>

(* The whole legacy fence by one no-replace rename; what is there instead  *)
(* must be a fence.                                                        *)
PlaceLegacy(p) ==
    /\ temp[p] = "held"
    /\ marker' = IF Legacy = "absent" THEN "fence" ELSE marker
    /\ Step(p, "leg.place",
            IF Legacy \in {"absent", "fence"} THEN IF p = "owner" THEN "open" ELSE "up" ELSE "down")
    /\ Drop(p)
    /\ UNCHANGED <<env, hollow, sweeping>>

CreateFences(p) ==
    \/ LookSupervisor(p)
    \/ MakeLegacy(p)
    \/ LockTemp(p, "sup.lock", "sup.place")
    \/ LockTemp(p, "leg.lock", "leg.place")
    \/ PlaceSupervisor(p)
    \/ PlaceLegacy(p)

(* serve opens the app store and answers.                                  *)
Open == Step("owner", "open", "up") /\ UNCHANGED <<marker, env, hollow, temp, sweeping>>

(* complete: T4 by supervise once Rauthy answers, T5 by serve once it is   *)
(* ready itself.                                                           *)
Complete(from, to) ==
    /\ owner = "up" /\ rec.phase \in from
    /\ rec' = Recorded(to)
    /\ UNCHANGED <<volume, owner, moved, mem, todo, others>>

T4 == Complete({"floored"}, "rauthy-done")
T5 == Complete({"floored", "rauthy-done"}, "done")

(* A verb or serve ends; the kernel drops its locks.                       *)
Exit(p) == Step(p, "up", "down") /\ UNCHANGED <<marker, env, hollow, temp, sweeping>>

(* A kill at any point.  What is in memory is gone; the volume is as the   *)
(* last step left it.  A temporary nobody holds any more is a sweep's.     *)
Crash(p) ==
    /\ crashes < MaxCrashes /\ crashes' = crashes + 1
    /\ Pc(p) # "down"
    /\ p = "owner" /\ owner = "t1.record" => CrashBeforeRecord
    /\ Drop(p)
    /\ IF p = "owner"
       THEN owner' = "down" /\ mem' = {} /\ todo' = {} /\ sweeping' = FALSE /\ UNCHANGED attacher
       ELSE attacher' = "down" /\ UNCHANGED <<owner, mem, todo, sweeping>>
    /\ UNCHANGED <<volume, rec, moved, old, aborting, starts, aborts>>

----------------------------------------------------------------------------
(* The pre-043 process, which is not in this repository: hiqlite 0.14 opens *)
(* its WAL, tests the marker, creates it (truncating what is there), opens  *)
(* the database; its clean stop releases the WAL, unlinks the marker by     *)
(* path and closes the database.                                            *)
OldStep(from, to) ==
    /\ old = from /\ old' = to
    /\ UNCHANGED <<rec, env, moved, appMarker, floor, owner, attacher, temp, sweeping, mem, todo,
                   aborting, crashes, aborts>>

OldOpen ==
    /\ starts < MaxStarts /\ starts' = starts + 1
    /\ OldStep("down", "opened")
    /\ debris' = debris \cup {e \in {"logs", "db"} : place[e] # "legacy"}
    /\ UNCHANGED <<place, meta, marker, dbFiles, hollow>>

OldCheck ==
    /\ marker = "none"
    /\ OldStep("opened", "passed")
    /\ UNCHANGED <<place, debris, meta, marker, dbFiles, hollow, starts>>

(* The refused start's exit may be cut short while it rewrites its WAL     *)
(* metadata.                                                               *)
OldRefused ==
    /\ marker # "none"
    /\ OldStep("opened", "down")
    /\ \E cut \in SUBSET {l \in Log : place[l] = "legacy"} :
         meta' = [l \in Log |-> IF l \in cut THEN "cut" ELSE meta[l]]
    /\ UNCHANGED <<place, debris, marker, dbFiles, hollow, starts>>

OldClaim ==
    /\ OldStep("passed", "claimed")
    /\ marker' = "node"
    /\ UNCHANGED <<place, debris, meta, dbFiles, hollow, starts>>

(* On an empty volume the node makes a store; the instances leave out one  *)
(* that does so inside T1, between the capture and the guard.  It starts   *)
(* only on whole metadata.                                                 *)
OldServe ==
    /\ Original("none") = Entry => rec.phase = "none"
    /\ \A l \in Log : place[l] = "legacy" => meta[l] = "whole"
    /\ OldStep("claimed", "live")
    /\ dbFiles' = "both"
    /\ IF Original("none") = Entry
       THEN place' = [e \in Entry |-> "legacy"] /\ debris' = {} /\ hollow' = FALSE
       ELSE UNCHANGED <<place, debris, hollow>>
    /\ UNCHANGED <<meta, marker, starts>>

OldStop ==
    \/ /\ OldStep("live", "released")
       /\ UNCHANGED <<place, debris, meta, marker, dbFiles, hollow, starts>>
    \/ /\ OldStep("released", "unmarked")
       /\ marker' = "none"
       /\ UNCHANGED <<place, debris, meta, dbFiles, hollow, starts>>
    \/ /\ OldStep("unmarked", "unmapped")
       /\ dbFiles' = "wal"
       /\ UNCHANGED <<place, debris, meta, marker, hollow, starts>>
    \/ /\ OldStep("unmapped", "down")
       /\ dbFiles' = "none"
       /\ UNCHANGED <<place, debris, meta, marker, hollow, starts>>

OldKill ==
    /\ old # "down"
    /\ OldStep(old, "down")
    /\ dbFiles' \in {dbFiles} \cup (IF old = "claimed" THEN {"wal"} ELSE {})
    /\ UNCHANGED <<place, debris, meta, marker, hollow, starts>>

(* The pre-043 first-boot renders the environment where there is none.     *)
OldFirstBoot ==
    /\ starts < MaxStarts /\ starts' = starts + 1
    /\ env = "absent" /\ env' = "file"
    /\ rec.phase = "none" => RenderedOnly
    /\ UNCHANGED <<rec, place, debris, meta, marker, dbFiles, hollow, moved, appMarker, floor,
                   owner, attacher, temp, sweeping, mem, todo, old, aborting, crashes, aborts>>

----------------------------------------------------------------------------
T1 == \/ T1Capture \/ T1Guard \/ T1Link \/ T1Record \/ T1Locks \/ T1Database \/ T1Marker
      \/ T1Fence \/ T1Place \/ T1Instant
T2 == T2Plan \/ T2Move \/ T2Debris \/ T2Done
T3 == ToFlooring \/ T3Marker \/ T3Open \/ T3Floor \/ T3Shut
Abort == \/ AbortDebris \/ AbortReturn \/ AbortMeta \/ AbortFence \/ AbortEnv \/ AbortGuard
         \/ AbortDone
VerbStep == T1 \/ Verify \/ T2 \/ T3 \/ Abort \/ MoveEvidence \/ RecordEvidence
ServeStep == StartServe \/ Sweep \/ CreateFences("owner") \/ Open \/ T4 \/ T5
Old == \/ OldOpen \/ OldCheck \/ OldRefused \/ OldClaim \/ OldServe \/ OldStop \/ OldKill
       \/ OldFirstBoot

Next ==
    \/ StartUpgrade
    \/ StartAbort
    \/ VerbStep
    \/ ServeStep
    \/ StartAttach
    \/ CreateFences("attacher")
    \/ \E p \in {"owner", "attacher"} : Exit(p) \/ Crash(p)
    \/ Old

(* The operator runs the verb again until it completes, and an interrupted *)
(* abort again until it completes; a started process takes its steps.      *)
Fairness ==
    /\ WF_vars(StartUpgrade)
    /\ WF_vars(StartAbort /\ aborting)
    /\ WF_vars(VerbStep)
    /\ WF_vars(Sweep \/ CreateFences("owner") \/ Exit("owner"))
    /\ WF_vars(CreateFences("attacher") \/ Exit("attacher"))

Spec == Init /\ [][Next]_vars /\ Fairness

----------------------------------------------------------------------------
(* Properties.                                                             *)

(* A rerun of the verb ends with the whole store at its new place.  The    *)
(* record is read as if every step wrote its intent there, and an abort    *)
(* writes none: "Each step records its intent before it acts and its       *)
(* completion after, and recovery reads the last record" (upgrade.rs:4).   *)
ServedWhole == Serves(rec.phase) => Original("legacy") = {}

(* Nor is the database left behind by a transition recorded as done: the   *)
(* gate refuses to serve it there, and an abort comes too late (gate,      *)
(* abort; upgrade.rs:4, as above).                                         *)
DatabaseCrossed == Serves(rec.phase) => place["db"] # "legacy"

(* The store is never split the wrong way round.  The entries that left    *)
(* the legacy path are a prefix of the plan at every step of the verb and  *)
(* of an abort, so a pre-043 start that races either finds the durable log *)
(* gone before anything else is.                                           *)
StoreInOrder ==
    \A i, j \in 1 .. Len(PlanOrder) :
      i < j /\ place[PlanOrder[j]] \in {"app", "aside"} =>
          place[PlanOrder[i]] \in {"app", "aside"}

(* A store that is served is whole at its new place, one whose abort       *)
(* completed is whole at the old.                                          *)
StoreKept ==
    /\ StoreInOrder
    /\ ServedWhole
    /\ rec.phase = "aborted" =>
         /\ Original("app") \cup Original("aside") = {}
         /\ Original("legacy") # {} /\ starts = 0 => env = "file" /\ marker = "none"

(* The volume and its record, at every crash point of verb, abort and the  *)
(* nodes beside them (upgrade.rs).                                         *)
TransitionSound == TypeOK /\ StoreKept

Relocating == owner \in {"t2.move", "t2.debris", "t3.marker", "t3.open", "t3.floor", "t3.shut"}

(* From `guarded` on no pre-043 node gets past the marker, and none that   *)
(* did before is left: whatever started or stopped while T1 ran, the store *)
(* is never moved, opened or served under one.                             *)
OldNodeShutOut ==
    Relocating \/ (AtLeast("guarded") /\ rec.phase # "aborted" /\ ~aborting) =>
        /\ marker = "guard"
        /\ old \in {"down", "opened"}
        /\ dbFiles # "both"

(* serve has the app store open only on a volume with both fences, and,    *)
(* after a transition, with the floor raised; two processes that fence a   *)
(* fresh volume at once never take each other's temporary away.            *)
ServedIsFenced ==
    /\ owner \in {"open", "up"} =>
         /\ Legacy = "fence" /\ env = "fence"
         /\ rec.phase # "none" => floor /\ Serves(rec.phase)
    /\ owner \in {"sup.place", "leg.place"} => temp["owner"] = "held"
    /\ attacher \in {"sup.place", "leg.place"} => temp["attacher"] = "held"

(* A guarded transition ends, served or aborted, however often the verb is *)
(* killed and pre-043 starts are refused.                                  *)
Completes == AtLeast("guarded") ~> (Serves(rec.phase) \/ rec.phase = "aborted")

(* No later start finds one fence without the other: "a legacy fence in    *)
(* place implies a supervisor fence in place" (cell_lock.rs, create_fences). *)
FencesPaired == marker = "fence" => env = "fence"
===========================================================================
