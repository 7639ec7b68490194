-------------------------- MODULE TransitionProofs --------------------------
(***************************************************************************)
(* Theorems about Transition, for any number of pre-043 starts, of kills   *)
(* and of aborts.  The types and the order in which the store leaves the   *)
(* legacy path hold whatever an operator runs; the rest supposes that an   *)
(* abort that began is run to its end before the verb is run again         *)
(* (~ResumeAfterAbort), and what serve finds at both fences that no fresh  *)
(* volume holds a rendered environment (~RenderedOnly).  Whether a crash   *)
(* may fall between the guard and its record (CrashBeforeRecord) makes no  *)
(* difference to any of them.                                              *)
(***************************************************************************)
EXTENDS Transition, TLAPS

(* Where the verb is in T1 and T3, and the phases by what they imply: the  *)
(* store serves, has left the legacy path, is behind the guard, can be     *)
(* given back.                                                             *)
T1Steps == {"t1.capture", "t1.guard", "t1.link", "t1.record", "t1.locks", "t1.db", "t1.marker",
            "t1.fence", "t1.place", "t1.instant"}
T3Steps == {"t3.marker", "t3.open", "t3.floor", "t3.shut"}
Served == {"floored", "rauthy-done", "done"}
Emptied == {"relocated", "flooring"} \cup Served
Guarded == {"guarded", "verifying", "verified", "relocating"} \cup Emptied
Undoable == {"begin", "guarded", "verifying", "verified", "relocating", "relocated"}

(* The original entries that have left the legacy path.                    *)
Away == Original("app") \cup Original("aside")

(* The type invariant in three parts: what is recorded, what is on the     *)
(* volume, and who is where.                                               *)
TypeRec ==
    /\ rec \in [phase : Phase, meta : SUBSET Log, saved : BOOLEAN,
                pend : Entry \cup {"none", "env", "fence", "marker"}]
    /\ moved \in BOOLEAN
    /\ mem \in SUBSET Log
TypeVolume ==
    /\ place \in [Entry -> {"none", "legacy", "app", "aside"}]
    /\ debris \in SUBSET Entry /\ todo \in SUBSET Entry
    /\ meta \in [Log -> {"whole", "cut"}]
    /\ marker \in {"none", "node", "guard", "fence"}
    /\ dbFiles \in {"none", "wal", "both"}
    /\ env \in {"absent", "file", "fence"}
    /\ hollow \in BOOLEAN /\ appMarker \in BOOLEAN /\ floor \in BOOLEAN
TypePc ==
    /\ owner \in {"down"} \cup Verb \cup AbortSteps \cup Serving
    /\ attacher \in {"down", "up"} \cup (Fencing \ {"sweep"})
    /\ temp \in [{"owner", "attacher"} -> {"none", "made", "held"}]
    /\ sweeping \in BOOLEAN
    /\ old \in {"down", "opened", "passed", "claimed", "live", "released", "unmarked",
               "unmapped"}
    /\ aborting \in BOOLEAN
    /\ starts \in 0 .. MaxStarts /\ crashes \in 0 .. MaxCrashes /\ aborts \in 0 .. MaxAborts

(* What leaves the legacy path leaves it in the order of the plan.         *)
InOrder ==
    /\ Original("none") \in {{}, Entry}
    /\ \A i, j \in 1 .. Len(PlanOrder) :
         i < j /\ place[PlanOrder[j]] \in {"app", "aside"} =>
             place[PlanOrder[i]] \in {"app", "aside"}

(* Where the holder of cell.lock is, by what it recorded.                  *)
Recorder ==
    /\ owner \in T1Steps => rec.phase = "begin"
    /\ owner = "advance" => rec.phase \in {"guarded", "verifying", "relocated"}
    /\ owner = "t2.plan" => rec.phase = "verified"
    /\ owner \in {"t2.move", "t2.debris"} => rec.phase = "relocating"
    /\ owner \in T3Steps => rec.phase = "flooring"
    /\ owner \in AbortSteps => aborting
    /\ owner \in Verb => ~aborting
    /\ aborting => rec.phase \in Undoable
    /\ owner \in Serving => rec.phase \in {"none"} \cup Served
    /\ owner \in Fencing => rec.phase = "none"
    /\ owner \in Verb \cup AbortSteps => attacher = "down"
    /\ attacher # "down" => rec.phase = "none"

(* A move to evidence is pending only for who recorded it.                 *)
Moving ==
    /\ moved => rec.pend # "none"
    /\ rec.pend # "none" => rec.phase \notin {"none", "aborted"}
                          /\ owner \notin {"t1.instant", "abort.guard", "abort.done"}
    /\ rec.pend = "env" => rec.phase = "begin"
    /\ rec.pend = "fence" => aborting /\ rec.saved

(* Where the store is, by what is recorded.                                *)
Stored ==
    /\ rec.phase = "none" => Original("none") = Entry \/ Original("legacy") = Entry
    /\ owner = "t2.debris" \/ (rec.phase \in Emptied /\ ~aborting) => Original("legacy") = {}
    /\ owner \in {"abort.meta", "abort.fence", "abort.env", "abort.guard", "abort.done"}
         \/ rec.phase = "aborted" => Away = {}

(* What a pre-043 process has done, by where it is.                        *)
OldSays ==
    /\ old \in {"claimed", "live", "released"} => marker = "node"
    /\ old \in {"live", "released", "unmarked"} => dbFiles = "both"
    /\ old = "unmapped" => dbFiles = "wal"
    /\ rec.phase = "none" /\ Original("none") = Entry =>
         /\ old \in {"opened", "passed", "claimed"} => debris # {}
         /\ old \notin {"live", "released", "unmarked", "unmapped"}

(* No pre-043 process is past the marker, and none can pass it.            *)
Shut == marker = "guard" /\ old \in {"down", "opened"} /\ dbFiles # "both"

(* The marker, by what is recorded.                                        *)
Marked ==
    /\ marker = "guard" => rec.phase # "none"
    /\ marker = "fence" =>
         rec.phase = "none" /\ Original("none") = Entry /\ old \in {"down", "opened"}
    /\ owner = "t1.db" /\ marker = "guard" =>
         old \in {"down", "opened", "unmarked", "unmapped"}
    /\ owner = "t1.marker" /\ marker = "guard" => Shut
    /\ owner \in {"t1.fence", "t1.place", "t1.instant"}
         \/ (rec.phase \in Guarded /\ ~aborting) => Shut

(* Rauthy's environment and its fence.                                     *)
Rendered ==
    /\ owner = "t1.instant" \/ (rec.phase \in Guarded /\ ~aborting) => env = "fence"
    /\ owner = "t3.shut" \/ rec.phase \in Served => floor

(* A store no pre-043 process was started on keeps its environment, or has *)
(* it in evidence.                                                         *)
Untouched ==
    starts = 0 =>
      /\ old = "down" /\ marker # "node"
      /\ owner = "abort.done" \/ rec.phase = "aborted" => marker = "none"
      /\ Original("none") = {} =>
           /\ env = "fence" => rec.saved
           /\ env = "absent" => rec.saved \/ (rec.pend = "env" /\ moved)
           /\ owner = "abort.env" => env # "fence" \/ (rec.pend = "fence" /\ ~moved)
           /\ owner \in {"abort.guard", "abort.done"} \/ rec.phase \in {"none", "aborted"} =>
                env = "file"

(* Who builds a fence has the temporary to itself.                         *)
Building ==
    /\ sweeping => owner = "sweep" /\ attacher \notin {"sup.place", "leg.place"}
    /\ owner \in {"sup.place", "leg.place"} => temp["owner"] = "held"
    /\ attacher \in {"sup.place", "leg.place"} => temp["attacher"] = "held"

(* The supervisor fence comes before the legacy fence.                     *)
Paired ==
    ~RenderedOnly =>
      /\ rec.phase = "none" /\ Original("none") = Entry => env # "file"
      /\ owner \in {"leg.make", "leg.lock", "leg.place"} => env # "absent"
      /\ attacher \in {"leg.make", "leg.lock", "leg.place"} => env # "absent"
      /\ FencesPaired
      /\ owner \in {"open", "up"} /\ rec.phase = "none" => marker = "fence"

(* The inductive invariant.                                                *)
Typed == TypeRec /\ TypeVolume /\ TypePc
IInv == /\ Typed /\ InOrder /\ Recorder /\ Moving /\ Stored /\ OldSays /\ Marked
        /\ Rendered /\ Untouched /\ Building /\ Paired

----------------------------------------------------------------------------
(* The entries and the phases.                                             *)

(* The four entries and their places in the plan.                          *)
LEMMA Entries ==
    /\ Entry = {"logs", "db", "state_machine_cache", "logs_cache"}
    /\ Position("logs") = 1 /\ Position("db") = 2
    /\ Position("state_machine_cache") = 3 /\ Position("logs_cache") = 4
<1>1. /\ DOMAIN PlanOrder = {1, 2, 3, 4} /\ 1 .. Len(PlanOrder) = {1, 2, 3, 4}
      /\ PlanOrder[1] = "logs" /\ PlanOrder[2] = "db"
      /\ PlanOrder[3] = "state_machine_cache" /\ PlanOrder[4] = "logs_cache"
  BY DEF PlanOrder
<1>2. Entry = {"logs", "db", "state_machine_cache", "logs_cache"}
  BY <1>1 DEF Entry, Range
<1> QED
  BY <1>1, <1>2 DEF Position

(* The phases by name.                                                     *)
LEMMA PhaseNames == Phase = {"none", "begin", "aborted"} \cup Guarded
<1>1. /\ DOMAIN Phases = 1 .. 12
      /\ Phases[1] = "none" /\ Phases[2] = "begin" /\ Phases[3] = "guarded"
      /\ Phases[4] = "verifying" /\ Phases[5] = "verified" /\ Phases[6] = "relocating"
      /\ Phases[7] = "relocated" /\ Phases[8] = "flooring" /\ Phases[9] = "floored"
      /\ Phases[10] = "rauthy-done" /\ Phases[11] = "done" /\ Phases[12] = "aborted"
  BY DEF Phases
<1> QED
  BY <1>1 DEF Phase, Range, Guarded, Emptied, Served

(* What AtLeast("guarded") means for a phase.                              *)
LEMMA GuardedOn ==
    \A p \in Phase : Rank(p) >= Rank("guarded") <=> p \in Guarded \cup {"aborted"}
<1>1. /\ Len(Phases) = 12
      /\ Phases[1] = "none" /\ Phases[2] = "begin" /\ Phases[3] = "guarded"
      /\ Phases[4] = "verifying" /\ Phases[5] = "verified" /\ Phases[6] = "relocating"
      /\ Phases[7] = "relocated" /\ Phases[8] = "flooring" /\ Phases[9] = "floored"
      /\ Phases[10] = "rauthy-done" /\ Phases[11] = "done" /\ Phases[12] = "aborted"
  BY DEF Phases
<1>2. \A i \in 1 .. 12 : Rank(Phases[i]) = i
  <2>1. \A i, j \in 1 .. 12 : Phases[i] = Phases[j] => i = j
    BY <1>1
  <2> QED
    BY <1>1, <2>1 DEF Rank
<1>3. /\ Rank("none") = 1 /\ Rank("begin") = 2 /\ Rank("guarded") = 3 /\ Rank("verifying") = 4
      /\ Rank("verified") = 5 /\ Rank("relocating") = 6 /\ Rank("relocated") = 7
      /\ Rank("flooring") = 8 /\ Rank("floored") = 9 /\ Rank("rauthy-done") = 10
      /\ Rank("done") = 11 /\ Rank("aborted") = 12
  BY <1>1, <1>2
<1> QED
  BY <1>3, PhaseNames DEF Guarded, Emptied, Served

(* The next entry to move is the first in the plan that is left.           *)
LEMMA NextIsFirst ==
    ASSUME NEW S \in SUBSET Entry, S # {}
    PROVE  NextMove(S) \in S /\ \A f \in S : Position(NextMove(S)) <= Position(f)
<1>1. \E e \in S : \A f \in S : Position(e) <= Position(f)
  <2>1. CASE "logs" \in S
    BY <2>1, Entries
  <2>2. CASE "db" \in S /\ "logs" \notin S
    BY <2>2, Entries
  <2>3. CASE "state_machine_cache" \in S /\ "logs" \notin S /\ "db" \notin S
    BY <2>3, Entries
  <2>4. CASE S = {"logs_cache"}
    BY <2>4, Entries
  <2> QED
    BY <2>1, <2>2, <2>3, <2>4, Entries
<1> QED
  BY <1>1 DEF NextMove

(* The next entry to return is the last in the plan that left.             *)
LEMMA LastIsLast ==
    ASSUME NEW S \in SUBSET Entry, S # {}
    PROVE  LastMove(S) \in S /\ \A f \in S : Position(LastMove(S)) >= Position(f)
<1>1. \E e \in S : \A f \in S : Position(e) >= Position(f)
  <2>1. CASE "logs_cache" \in S
    BY <2>1, Entries
  <2>2. CASE "state_machine_cache" \in S /\ "logs_cache" \notin S
    BY <2>2, Entries
  <2>3. CASE "db" \in S /\ "logs_cache" \notin S /\ "state_machine_cache" \notin S
    BY <2>3, Entries
  <2>4. CASE S = {"logs"}
    BY <2>4, Entries
  <2> QED
    BY <2>1, <2>2, <2>3, <2>4, Entries
<1> QED
  BY <1>1 DEF LastMove

(* A step that moves no entry keeps the order.                             *)
LEMMA PlaceKeptInOrder == ASSUME InOrder, place' = place PROVE InOrder'
BY DEF InOrder, Original

(* So does a move to the app store or aside, of the first entry left.      *)
LEMMA InOrderT2Move == ASSUME InOrder, TypeVolume, T2Move PROVE InOrder'
<1>1. CASE Original("legacy") = {}
  BY <1>1, PlaceKeptInOrder DEF T2Move
<1>2. CASE Original("legacy") # {}
  <2> DEFINE e == NextMove(Original("legacy"))
  <2>1. /\ e \in Entry /\ place[e] = "legacy"
        /\ \A f \in Entry : place[f] = "legacy" => Position(e) <= Position(f)
    BY <1>2, NextIsFirst DEF Original
  <2>2. /\ DOMAIN PlanOrder = {1, 2, 3, 4} /\ 1 .. Len(PlanOrder) = {1, 2, 3, 4}
        /\ PlanOrder[1] = "logs" /\ PlanOrder[2] = "db"
        /\ PlanOrder[3] = "state_machine_cache" /\ PlanOrder[4] = "logs_cache"
    BY DEF PlanOrder
  <2>3. place' = [place EXCEPT ![e] = Destination(e)] /\ Destination(e) \in {"app", "aside"}
    BY <1>2 DEF T2Move, Destination
  <2> HIDE DEF e
  <2>4. Original("none") = {}
    BY <2>1 DEF InOrder, Original
  <2>5. Original("none")' = {}
    BY <2>1, <2>3, <2>4 DEF Original, TypeVolume
  <2>6. \A f \in Entry : Position(f) < Position(e) => place[f] \in {"app", "aside"}
    BY <2>1, <2>4, Entries DEF Original, TypeVolume
  <2> QED
    BY <2>1, <2>2, <2>3, <2>5, <2>6, Entries DEF InOrder, TypeVolume
<1> QED
  BY <1>1, <1>2

(* So does the return of the last entry that left.                         *)
LEMMA InOrderAbortReturn == ASSUME InOrder, TypeVolume, AbortReturn PROVE InOrder'
<1>1. CASE place' = place
  BY <1>1, PlaceKeptInOrder
<1>2. CASE place' # place
  <2> DEFINE e == LastMove(Away)
  <2>1. Away # {} /\ place' = [place EXCEPT ![e] = "legacy"]
    BY <1>2 DEF AbortReturn, Away
  <2>2. e \in Away /\ \A f \in Away : Position(f) <= Position(e)
    BY <2>1, LastIsLast DEF Away, Original
  <2>3. /\ DOMAIN PlanOrder = {1, 2, 3, 4} /\ 1 .. Len(PlanOrder) = {1, 2, 3, 4}
        /\ PlanOrder[1] = "logs" /\ PlanOrder[2] = "db"
        /\ PlanOrder[3] = "state_machine_cache" /\ PlanOrder[4] = "logs_cache"
    BY DEF PlanOrder
  <2> HIDE DEF e
  <2>4. e \in Entry /\ place[e] \in {"app", "aside"}
        /\ \A f \in Entry : place[f] \in {"app", "aside"} => Position(f) <= Position(e)
    BY <2>2 DEF Away, Original
  <2>5. Original("none") = {} /\ Original("none")' = {}
    BY <2>1, <2>4 DEF InOrder, Original, TypeVolume
  <2> QED
    BY <2>1, <2>3, <2>4, <2>5, Entries DEF InOrder, TypeVolume
<1> QED
  BY <1>1, <1>2

(* So does a pre-043 node, which creates a whole store or nothing.         *)
LEMMA InOrderOldServe == ASSUME InOrder, OldServe PROVE InOrder'
<1>1. CASE place' = place
  BY <1>1, PlaceKeptInOrder
<1>2. CASE place' = [e \in Entry |-> "legacy"]
  <2>1. \A i \in 1 .. Len(PlanOrder) : place'[PlanOrder[i]] = "legacy"
    BY <1>2 DEF Entry, Range, PlanOrder
  <2> QED
    BY <1>2, <2>1 DEF InOrder, Original
<1> QED
  BY <1>1, <1>2 DEF OldServe

----------------------------------------------------------------------------
(* What every step keeps.                                                  *)

USE DEF T1Steps, T3Steps, Served, Emptied, Guarded, Undoable

(* The types and the order, whatever an operator runs after an abort.      *)
LEMMA NextTyped ==
    ASSUME Typed, InOrder, [Next]_vars
    PROVE  (Typed /\ InOrder)'
(* The verb starts, and takes up what is recorded.                         *)
<1>1. CASE StartUpgrade
  <2> USE <1>1 DEF Typed, StartUpgrade, Legacy, NoRecord, Serves, Resume, volume, others,
      LegacyEmpty
  <2>1. TypeRec'
    BY PhaseNames DEF TypeRec, TypeVolume
  <2>2. TypeVolume'
    BY DEF TypeVolume
  <2>3. TypePc'
    BY DEF TypePc, Verb, AbortSteps, Serving, Fencing
  <2>4. InOrder'
    BY PlaceKeptInOrder
  <2> QED
    BY <2>1, <2>2, <2>3, <2>4
(* An abort starts.                                                        *)
<1>2. CASE StartAbort
  <2> USE <1>2 DEF Typed, StartAbort, Abortable, AtLeast, volume
  <2>1. TypeRec'
    BY PhaseNames DEF TypeRec, TypeVolume
  <2>2. TypeVolume'
    BY DEF TypeVolume
  <2>3. TypePc'
    BY BoundsAssumption DEF TypePc, Verb, AbortSteps, Serving, Fencing
  <2>4. InOrder'
    BY PlaceKeptInOrder
  <2> QED
    BY <2>1, <2>2, <2>3, <2>4
(* T1.                                                                     *)
<1>3. CASE T1
  <2> USE <1>3 DEF Typed, T1, T1Capture, At, Captured, Log, Goto, volume, Refuse, others,
      T1Guard, T1Link, T1Record, T1Locks, LogHeld, T1Database, DatabaseOpen, T1Marker,
      StillGuarded, T1Fence, Intend, T1Place, PlaceFence, T1Instant, Advance, Recorded
  <2>1. TypeRec'
    BY PhaseNames DEF TypeRec, TypeVolume
  <2>2. TypeVolume'
    BY DEF TypeVolume
  <2>3. TypePc'
    BY DEF TypePc, Verb, AbortSteps, Serving, Fencing
  <2>4. InOrder'
    BY PlaceKeptInOrder
  <2> QED
    BY <2>1, <2>2, <2>3, <2>4
(* T1a.                                                                    *)
<1>4. CASE Verify
  <2> USE <1>4 DEF Typed, Verify, Advance, Recorded, volume, others
  <2>1. TypeRec'
    BY PhaseNames DEF TypeRec, TypeVolume
  <2>2. TypeVolume'
    BY DEF TypeVolume
  <2>3. TypePc'
    BY DEF TypePc, Verb, AbortSteps, Serving, Fencing
  <2>4. InOrder'
    BY PlaceKeptInOrder
  <2> QED
    BY <2>1, <2>2, <2>3, <2>4
(* An entry is moved.                                                      *)
<1>5. CASE T2Move
  <2> USE <1>5 DEF Typed, T2Move, At, Goto, others
  <2>1. TypeRec'
    BY PhaseNames DEF TypeRec, TypeVolume
  <2>2. TypeVolume'
    BY DEF TypeVolume, Destination
  <2>3. TypePc'
    BY DEF TypePc, Verb, AbortSteps, Serving, Fencing
  <2>4. InOrder'
    BY InOrderT2Move
  <2> QED
    BY <2>1, <2>2, <2>3, <2>4
(* The rest of T2.                                                         *)
<1>6. CASE T2Plan \/ T2Debris \/ T2Done
  <2> USE <1>6 DEF Typed, T2Plan, Advance, Recorded, volume, others, T2Debris, SetAside, At,
      Intend, Goto, T2Done
  <2>1. TypeRec'
    BY PhaseNames DEF TypeRec, TypeVolume
  <2>2. TypeVolume'
    BY DEF TypeVolume
  <2>3. TypePc'
    BY DEF TypePc, Verb, AbortSteps, Serving, Fencing
  <2>4. InOrder'
    BY PlaceKeptInOrder
  <2> QED
    BY <2>1, <2>2, <2>3, <2>4
(* T3.                                                                     *)
<1>7. CASE T3
  <2> USE <1>7 DEF Typed, T3, ToFlooring, Advance, Recorded, volume, others, T3Marker, At,
      Intend, Goto, T3Open, Restored, Log, T3Floor, T3Shut
  <2>1. TypeRec'
    BY PhaseNames DEF TypeRec, TypeVolume
  <2>2. TypeVolume'
    <3>1. /\ UNCHANGED <<place, debris, todo, marker, dbFiles, env, hollow>>
          /\ appMarker' \in BOOLEAN /\ floor' \in BOOLEAN
      BY DEF TypeVolume
    <3>2. meta' \in [Log -> {"whole", "cut"}]
      BY DEF TypeVolume
    <3> QED
      BY <3>1, <3>2 DEF TypeVolume
  <2>3. TypePc'
    BY DEF TypePc, Verb, AbortSteps, Serving, Fencing
  <2>4. InOrder'
    BY PlaceKeptInOrder
  <2> QED
    BY <2>1, <2>2, <2>3, <2>4
(* An entry is returned.                                                   *)
<1>8. CASE AbortReturn
  <2> USE <1>8 DEF Typed, AbortReturn, At, Goto, others
  <2>1. TypeRec'
    BY PhaseNames DEF TypeRec, TypeVolume
  <2>2. TypeVolume'
    BY DEF TypeVolume
  <2>3. TypePc'
    BY DEF TypePc, Verb, AbortSteps, Serving, Fencing
  <2>4. InOrder'
    BY InOrderAbortReturn
  <2> QED
    BY <2>1, <2>2, <2>3, <2>4
(* What an abort moves to evidence.                                        *)
<1>9. CASE AbortDebris \/ AbortFence
  <2> USE <1>9 DEF Typed, AbortDebris, SetAside, At, Intend, Goto, volume, others,
      AbortFence
  <2>1. TypeRec'
    BY PhaseNames DEF TypeRec, TypeVolume
  <2>2. TypeVolume'
    BY DEF TypeVolume
  <2>3. TypePc'
    BY DEF TypePc, Verb, AbortSteps, Serving, Fencing
  <2>4. InOrder'
    BY PlaceKeptInOrder
  <2> QED
    BY <2>1, <2>2, <2>3, <2>4
(* The rest of an abort.                                                   *)
<1>10. CASE AbortMeta \/ AbortEnv \/ AbortGuard \/ AbortDone
  <2> USE <1>10 DEF Typed, AbortMeta, At, Restored, Log, Goto, others, AbortEnv, AbortGuard,
      AbortDone, Recorded, volume
  <2>1. TypeRec'
    BY PhaseNames DEF TypeRec, TypeVolume
  <2>2. TypeVolume'
    BY DEF TypeVolume
  <2>3. TypePc'
    <3>1. /\ owner' \in {"abort.fence", "abort.guard", "abort.done", "down"}
          /\ attacher' = attacher /\ temp' = temp /\ sweeping' = sweeping /\ old' = old
          /\ aborting' \in {aborting, FALSE}
          /\ starts' = starts /\ crashes' = crashes /\ aborts' = aborts
      OBVIOUS
    <3>2. owner' \in {"down"} \cup Verb \cup AbortSteps \cup Serving
      BY <3>1 DEF AbortSteps
    <3>3. aborting' \in BOOLEAN
      BY <3>1 DEF TypePc
    <3> QED
      BY <3>1, <3>2, <3>3 DEF TypePc
  <2>4. InOrder'
    BY PlaceKeptInOrder
  <2> QED
    BY <2>1, <2>2, <2>3, <2>4
(* A move to evidence.                                                     *)
<1>11. CASE MoveEvidence
  <2> USE <1>11 DEF Typed, MoveEvidence, others
  <2>1. TypeRec'
    BY PhaseNames DEF TypeRec, TypeVolume
  <2>2. TypeVolume'
    BY DEF TypeVolume
  <2>3. TypePc'
    BY DEF TypePc, Verb, AbortSteps, Serving, Fencing
  <2>4. InOrder'
    BY PlaceKeptInOrder
  <2> QED
    BY <2>1, <2>2, <2>3, <2>4
(* Its completion.                                                         *)
<1>12. CASE RecordEvidence
  <2> USE <1>12 DEF Typed, RecordEvidence, volume, others
  <2>1. TypeRec'
    BY PhaseNames DEF TypeRec, TypeVolume
  <2>2. TypeVolume'
    BY DEF TypeVolume
  <2>3. TypePc'
    BY DEF TypePc, Verb, AbortSteps, Serving, Fencing
  <2>4. InOrder'
    BY PlaceKeptInOrder
  <2> QED
    BY <2>1, <2>2, <2>3, <2>4
(* The gate.                                                               *)
<1>13. CASE StartServe \/ StartAttach
  <2> USE <1>13 DEF Typed, StartServe, Gate, Legacy, Step, Serves, LegacyEmpty, Pc,
      StartAttach
  <2>1. TypeRec'
    BY PhaseNames DEF TypeRec, TypeVolume
  <2>2. TypeVolume'
    <3>1. /\ UNCHANGED <<place, debris, todo, meta, marker, dbFiles, env, appMarker, floor>>
          /\ hollow' \in {hollow, FALSE}
      OBVIOUS
    <3>2. hollow' \in BOOLEAN
      BY <3>1 DEF TypeVolume
    <3> QED
      BY <3>1, <3>2 DEF TypeVolume
  <2>3. TypePc'
    BY DEF TypePc, Verb, AbortSteps, Serving, Fencing
  <2>4. InOrder'
    BY PlaceKeptInOrder
  <2> QED
    BY <2>1, <2>2, <2>3, <2>4
(* The holder of cell.lock past the gate.                                  *)
<1>14. CASE Sweep \/ Open \/ T4 \/ T5
  <2> USE <1>14 DEF Typed, Sweep, Abandoned, Step, Drop, Pc, Open, T4, Complete, Recorded,
      volume, others, T5
  <2>1. TypeRec'
    BY PhaseNames DEF TypeRec, TypeVolume
  <2>2. TypeVolume'
    BY DEF TypeVolume
  <2>3. TypePc'
    <3>1. temp' \in [{"owner", "attacher"} -> {"none", "made", "held"}]
      BY DEF TypePc
    <3>2. owner' \in {"sweep", "sup.look", "up"} /\ attacher' = attacher
      OBVIOUS
    <3>3. sweeping' \in BOOLEAN /\ UNCHANGED <<old, aborting, starts, crashes, aborts>>
      BY DEF TypePc
    <3> QED
      BY <3>1, <3>2, <3>3 DEF TypePc, Serving, Fencing
  <2>4. InOrder'
    BY PlaceKeptInOrder
  <2> QED
    BY <2>1, <2>2, <2>3, <2>4
(* A fence is built.                                                       *)
<1>15. ASSUME NEW p \in {"owner", "attacher"}, 
             \/ LookSupervisor(p) \/ MakeLegacy(p) \/ PlaceSupervisor(p)
             \/ LockTemp(p, "sup.lock", "sup.place") \/ LockTemp(p, "leg.lock", "leg.place")
      PROVE  (Typed /\ InOrder)'
  <2> USE <1>15 DEF Typed, LookSupervisor, Step, Build, Pc, MakeLegacy, LockTemp,
      PlaceSupervisor, Drop
  <2>1. TypeRec'
    BY PhaseNames DEF TypeRec, TypeVolume
  <2>2. TypeVolume'
    BY DEF TypeVolume
  <2>3. TypePc'
    BY DEF TypePc, Verb, AbortSteps, Serving, Fencing
  <2>4. InOrder'
    BY PlaceKeptInOrder
  <2> QED
    BY <2>1, <2>2, <2>3, <2>4
(* The legacy fence is placed.                                             *)
<1>16. ASSUME NEW p \in {"owner", "attacher"}, PlaceLegacy(p)
      PROVE  (Typed /\ InOrder)'
  <2> USE <1>16 DEF Typed, PlaceLegacy, Legacy, Step, Drop, LegacyEmpty, Pc
  <2>1. TypeRec'
    BY PhaseNames DEF TypeRec, TypeVolume
  <2>2. TypeVolume'
    BY DEF TypeVolume
  <2>3. TypePc'
    BY DEF TypePc, Verb, AbortSteps, Serving, Fencing
  <2>4. InOrder'
    BY PlaceKeptInOrder
  <2> QED
    BY <2>1, <2>2, <2>3, <2>4
(* An end.                                                                 *)
<1>17. ASSUME NEW p \in {"owner", "attacher"}, Exit(p)
      PROVE  (Typed /\ InOrder)'
  <2> USE <1>17 DEF Typed, Exit, Step, Pc
  <2>1. TypeRec'
    BY PhaseNames DEF TypeRec, TypeVolume
  <2>2. TypeVolume'
    BY DEF TypeVolume
  <2>3. TypePc'
    BY DEF TypePc, Verb, AbortSteps, Serving, Fencing
  <2>4. InOrder'
    BY PlaceKeptInOrder
  <2> QED
    BY <2>1, <2>2, <2>3, <2>4
(* A kill.                                                                 *)
<1>18. ASSUME NEW p \in {"owner", "attacher"}, Crash(p)
      PROVE  (Typed /\ InOrder)'
  <2> USE <1>18 DEF Typed, Crash, Pc, Drop, volume
  <2>1. TypeRec'
    BY PhaseNames DEF TypeRec, TypeVolume
  <2>2. TypeVolume'
    BY DEF TypeVolume
  <2>3. TypePc'
    <3>1. crashes' \in 0 .. MaxCrashes
      BY BoundsAssumption DEF TypePc
    <3>2. temp' \in [{"owner", "attacher"} -> {"none", "made", "held"}]
      BY DEF TypePc
    <3>3. /\ owner' \in {owner, "down"} /\ attacher' \in {attacher, "down"}
          /\ sweeping' \in {sweeping, FALSE}
      OBVIOUS
    <3>4. UNCHANGED <<old, aborting, starts, aborts>>
      OBVIOUS
    <3> QED
      BY <3>1, <3>2, <3>3, <3>4 DEF TypePc
  <2>4. InOrder'
    BY PlaceKeptInOrder
  <2> QED
    BY <2>1, <2>2, <2>3, <2>4
(* A pre-043 process opens its database.                                   *)
<1>19. CASE OldServe
  <2> USE <1>19 DEF Typed, OldServe, Log, OldStep
  <2>1. TypeRec'
    BY PhaseNames DEF TypeRec, TypeVolume
  <2>2. TypeVolume'
    BY DEF TypeVolume
  <2>3. TypePc'
    BY DEF TypePc, Verb, AbortSteps, Serving, Fencing
  <2>4. InOrder'
    BY InOrderOldServe
  <2> QED
    BY <2>1, <2>2, <2>3, <2>4
(* The rest of what it does.                                               *)
<1>20. CASE \/ OldOpen \/ OldCheck \/ OldRefused \/ OldClaim \/ OldStop \/ OldKill
           \/ OldFirstBoot
  <2> USE <1>20 DEF Typed, OldOpen, OldStep, OldCheck, OldRefused, Log, OldClaim, OldStop,
      OldKill, OldFirstBoot
  <2>1. TypeRec'
    BY PhaseNames DEF TypeRec, TypeVolume
  <2>2. TypeVolume'
    <3>1. debris' \in SUBSET Entry
      BY Entries DEF TypeVolume
    <3>2. meta' \in [Log -> {"whole", "cut"}]
      BY DEF TypeVolume
    <3> QED
      BY <3>1, <3>2 DEF TypeVolume
  <2>3. TypePc'
    BY BoundsAssumption DEF TypePc, Verb, AbortSteps, Serving, Fencing
  <2>4. InOrder'
    BY PlaceKeptInOrder
  <2> QED
    BY <2>1, <2>2, <2>3, <2>4
<1>21. CASE UNCHANGED vars
  BY <1>21, PlaceKeptInOrder DEF vars, Typed, TypeRec, TypeVolume, TypePc
<1> QED
  BY <1>1, <1>2, <1>3, <1>4, <1>5, <1>6, <1>7, <1>8, <1>9, <1>10, <1>11, <1>12, <1>13,
      <1>14, <1>15, <1>16, <1>17, <1>18, <1>19, <1>20, <1>21 DEF Next, VerbStep, ServeStep,
      CreateFences, T2, Abort, Old

----------------------------------------------------------------------------
(* Every step keeps the whole invariant if an abort that began is brought  *)
(* to its end.                                                             *)
LEMMA NextIInv ==
    ASSUME IInv, ~ResumeAfterAbort, [Next]_vars
    PROVE  IInv'
<1>0. (Typed /\ InOrder)'
  BY NextTyped DEF IInv
(* The verb starts, and takes up what is recorded.                         *)
<1>1. CASE StartUpgrade
  <2> USE <1>1 DEF IInv, Typed, StartUpgrade, Legacy, NoRecord, Serves, Resume, volume,
      others, LegacyEmpty
  <2>1. (Typed /\ InOrder)'
    BY <1>0
  <2>2. Recorder'
    BY PhaseNames DEF Recorder, TypeRec, Verb, AbortSteps, Serving, Fencing
  <2>3. Moving'
    BY Entries DEF Moving, TypeRec, TypeVolume, TypePc
  <2>4. Stored'
    BY DEF Stored, Original, Away, TypeRec, TypePc
  <2>5. OldSays'
    BY DEF OldSays, Original, TypeRec
  <2>6. Marked'
    BY Entries, PhaseNames DEF Marked, Shut, Original, Recorder, TypeRec, Verb, AbortSteps,
        Serving, Fencing
  <2>7. Rendered'
    BY DEF Rendered, TypeRec
  <2>8. Untouched'
    BY DEF Untouched, Original, Moving, TypeRec, TypePc
  <2>9. Building'
    BY DEF Building, TypePc
  <2>10. Paired'
    BY DEF Paired, FencesPaired, Original, TypeRec
  <2> QED
    BY <2>1, <2>2, <2>3, <2>4, <2>5, <2>6, <2>7, <2>8, <2>9, <2>10
(* An abort starts.                                                        *)
<1>2. CASE StartAbort
  <2> USE <1>2 DEF IInv, Typed, StartAbort, Abortable, AtLeast, volume
  <2>1. (Typed /\ InOrder)'
    BY <1>0
  <2>2. Recorder'
    BY PhaseNames DEF Recorder, TypeRec, Verb, AbortSteps, Serving, Fencing
  <2>3. Moving'
    BY Entries DEF Moving, TypeRec, TypeVolume, TypePc
  <2>4. Stored'
    BY DEF Stored, Original, Away, TypeRec, TypePc
  <2>5. OldSays'
    BY DEF OldSays, Original, TypeRec
  <2>6. Marked'
    BY DEF Marked, Shut, OldSays, Original, TypeRec
  <2>7. Rendered'
    BY DEF Rendered, TypeRec
  <2>8. Untouched'
    BY DEF Untouched, Original, Moving, TypeRec, TypePc
  <2>9. Building'
    BY DEF Building, TypePc
  <2>10. Paired'
    BY DEF Paired, FencesPaired, Original, TypeRec
  <2> QED
    BY <2>1, <2>2, <2>3, <2>4, <2>5, <2>6, <2>7, <2>8, <2>9, <2>10
(* T1.                                                                     *)
<1>3. CASE T1
  <2> USE <1>3 DEF IInv, Typed, T1, T1Capture, At, Captured, Log, Goto, volume, Refuse,
      others, T1Guard, T1Link, T1Record, T1Locks, LogHeld, T1Database, DatabaseOpen,
      T1Marker, StillGuarded, T1Fence, Intend, T1Place, PlaceFence, T1Instant, Advance,
      Recorded
  <2>1. (Typed /\ InOrder)'
    BY <1>0
  <2>2. /\ rec.phase = "begin" /\ ~aborting
        /\ attacher = "down" /\ {moved, sweeping} \subseteq BOOLEAN
    BY DEF Recorder, TypePc, TypeRec, Verb, AbortSteps, Serving, Fencing
  <2>3. Recorder'
    BY <2>2 DEF Recorder, TypeRec, Verb, AbortSteps, Serving, Fencing
  <2>4. Moving'
    BY <2>2, Entries DEF Moving, TypeRec, TypeVolume, TypePc
  <2>5. Stored'
    BY <2>2 DEF Stored, Original, Away, TypeRec, TypePc
  <2>6. OldSays'
    BY <2>2 DEF OldSays, Original, TypeRec
  <2>7. Marked'
    BY <2>2 DEF Marked, Shut, OldSays, TypeRec, TypePc
  <2>8. Rendered'
    BY <2>2 DEF Rendered, TypeRec
  <2>9. Untouched'
    BY <2>2 DEF Untouched, Original, Moving, TypeRec, TypePc
  <2>10. Building'
    BY <2>2 DEF Building, TypePc
  <2>11. Paired'
    BY <2>2 DEF Paired, FencesPaired, Original, TypeRec
  <2> QED
    BY <2>1, <2>3, <2>4, <2>5, <2>6, <2>7, <2>8, <2>9, <2>10, <2>11
(* T1a.                                                                    *)
<1>4. CASE Verify
  <2> USE <1>4 DEF IInv, Typed, Verify, Advance, Recorded, volume, others
  <2>1. (Typed /\ InOrder)'
    BY <1>0
  <2>2. /\ rec.phase \in {"guarded", "verifying"} /\ ~aborting
        /\ attacher = "down" /\ {moved, sweeping} \subseteq BOOLEAN
    BY DEF Recorder, TypePc, TypeRec, Verb, AbortSteps, Serving, Fencing
  <2>3. Recorder'
    BY <2>2 DEF Recorder, TypeRec, Verb, AbortSteps, Serving, Fencing
  <2>4. Moving'
    BY <2>2, Entries DEF Moving, TypeRec, TypeVolume, TypePc
  <2>5. Stored'
    BY <2>2 DEF Stored, Original, Away, TypeRec, TypePc
  <2>6. OldSays'
    BY <2>2 DEF OldSays, Original, TypeRec
  <2>7. Marked'
    BY <2>2 DEF Marked, Shut, OldSays, Original, TypeRec
  <2>8. Rendered'
    BY <2>2 DEF Rendered, TypeRec
  <2>9. Untouched'
    BY <2>2 DEF Untouched, Original, Moving, TypeRec, TypePc
  <2>10. Building'
    BY <2>2 DEF Building, TypePc
  <2>11. Paired'
    BY <2>2 DEF Paired, FencesPaired, Original, TypeRec
  <2> QED
    BY <2>1, <2>3, <2>4, <2>5, <2>6, <2>7, <2>8, <2>9, <2>10, <2>11
(* An entry is moved.                                                      *)
<1>5. CASE T2Move
  <2> USE <1>5 DEF IInv, Typed, T2Move, At, Goto, others
  <2>1. (Typed /\ InOrder)'
    BY <1>0
  <2>2. /\ rec.phase = "relocating" /\ ~aborting
        /\ attacher = "down" /\ {moved, sweeping} \subseteq BOOLEAN
    BY DEF Recorder, TypePc, TypeRec, Verb, AbortSteps, Serving, Fencing
  <2>3. Recorder'
    BY <2>2 DEF Recorder, TypeRec, Verb, AbortSteps, Serving, Fencing
  <2>4. Moving'
    BY <2>2, Entries DEF Moving, TypeRec, TypeVolume, TypePc
  <2>5. Stored'
    BY <2>2 DEF Stored, Original, Away, TypeRec, TypePc
  <2>6. OldSays'
    BY <2>2 DEF OldSays, Original, TypeRec
  <2>7. Marked'
    BY <2>2 DEF Marked, Shut, OldSays, Original, TypeRec
  <2>8. Rendered'
    BY <2>2 DEF Rendered, TypeRec
  <2>9. Untouched'
    BY <2>2 DEF Untouched, InOrder, Original, Moving, TypeRec, TypeVolume
  <2>10. Building'
    BY <2>2 DEF Building, TypePc
  <2>11. Paired'
    BY <2>2 DEF Paired, FencesPaired, Original, TypeRec
  <2> QED
    BY <2>1, <2>3, <2>4, <2>5, <2>6, <2>7, <2>8, <2>9, <2>10, <2>11
(* The rest of T2.                                                         *)
<1>6. CASE T2Plan \/ T2Debris \/ T2Done
  <2> USE <1>6 DEF IInv, Typed, T2Plan, Advance, Recorded, volume, others, T2Debris,
      SetAside, At, Intend, Goto, T2Done
  <2>1. (Typed /\ InOrder)'
    BY <1>0
  <2>2. /\ rec.phase \in {"verified", "relocating"} /\ ~aborting
        /\ attacher = "down" /\ {moved, sweeping} \subseteq BOOLEAN
    BY DEF Recorder, TypePc, TypeRec, Verb, AbortSteps, Serving, Fencing
  <2>3. Recorder'
    BY <2>2 DEF Recorder, TypeRec, Verb, AbortSteps, Serving, Fencing
  <2>4. Moving'
    BY <2>2, Entries DEF Moving, TypeRec, TypeVolume, TypePc
  <2>5. Stored'
    BY <2>2 DEF Stored, Original, Away, TypeRec, TypePc
  <2>6. OldSays'
    BY <2>2 DEF OldSays, Original, TypeRec
  <2>7. Marked'
    BY <2>2 DEF Marked, Shut, OldSays, Original, TypeRec
  <2>8. Rendered'
    BY <2>2 DEF Rendered, TypeRec
  <2>9. Untouched'
    BY <2>2 DEF Untouched, Original, Moving, TypeRec, TypePc
  <2>10. Building'
    BY <2>2 DEF Building, TypePc
  <2>11. Paired'
    BY <2>2 DEF Paired, FencesPaired, Original, TypeRec
  <2> QED
    BY <2>1, <2>3, <2>4, <2>5, <2>6, <2>7, <2>8, <2>9, <2>10, <2>11
(* T3.                                                                     *)
<1>7. CASE T3
  <2> USE <1>7 DEF IInv, Typed, T3, ToFlooring, Advance, Recorded, volume, others, T3Marker,
      At, Intend, Goto, T3Open, Restored, Log, T3Floor, T3Shut
  <2>1. (Typed /\ InOrder)'
    BY <1>0
  <2>2. /\ rec.phase \in {"relocated", "flooring"} /\ ~aborting
        /\ attacher = "down" /\ {moved, sweeping} \subseteq BOOLEAN
    BY DEF Recorder, TypePc, TypeRec, Verb, AbortSteps, Serving, Fencing
  <2>3. Recorder'
    BY <2>2 DEF Recorder, TypeRec, Verb, AbortSteps, Serving, Fencing
  <2>4. Moving'
    BY <2>2, Entries DEF Moving, TypeRec, TypeVolume, TypePc
  <2>5. Stored'
    BY <2>2 DEF Stored, Original, Away, TypeRec, TypePc
  <2>6. OldSays'
    BY <2>2 DEF OldSays, Original, TypeRec
  <2>7. Marked'
    BY <2>2 DEF Marked, Shut, OldSays, Original, TypeRec
  <2>8. Rendered'
    BY <2>2 DEF Rendered, TypeRec
  <2>9. Untouched'
    BY <2>2 DEF Untouched, Original, Moving, TypeRec, TypePc
  <2>10. Building'
    BY <2>2 DEF Building, TypePc
  <2>11. Paired'
    BY <2>2 DEF Paired, FencesPaired, Original, TypeRec
  <2> QED
    BY <2>1, <2>3, <2>4, <2>5, <2>6, <2>7, <2>8, <2>9, <2>10, <2>11
(* An entry is returned.                                                   *)
<1>8. CASE AbortReturn
  <2> USE <1>8 DEF IInv, Typed, AbortReturn, At, Goto, others
  <2>1. (Typed /\ InOrder)'
    BY <1>0
  <2>2. attacher = "down" /\ {moved, sweeping} \subseteq BOOLEAN
    BY DEF Recorder, TypePc, TypeRec, Verb, AbortSteps, Serving, Fencing
  <2>3. rec.phase # "none" /\ rec.phase # "aborted" /\ aborting
    BY DEF Recorder, Verb, AbortSteps
  <2>4. Recorder'
    BY <2>2 DEF Recorder, TypeRec, Verb, AbortSteps, Serving, Fencing
  <2>5. Moving'
    BY <2>2, <2>3, Entries DEF Moving, TypeRec, TypeVolume, TypePc
  <2>6. Stored'
    <3>1. owner' = "abort.meta" => place' = place /\ Away = {}
      BY <2>2 DEF Away
    <3>2. owner' \in {"abort.return", "down", "abort.meta"} /\ rec' = rec /\ aborting' = aborting
      OBVIOUS
    <3> QED
      BY <2>2, <2>3, <3>1, <3>2 DEF Stored, Away, Original
  <2>7. OldSays'
    BY <2>2, <2>3 DEF OldSays, Original, TypeRec
  <2>8. Marked'
    BY <2>2, <2>3 DEF Marked, Shut, OldSays, Original, TypeRec
  <2>9. Rendered'
    BY <2>2, <2>3 DEF Rendered, TypeRec
  <2>10. Untouched'
    <3>1. Original("none") # {} => place' = place
      BY Entries DEF InOrder, Original
    <3>2. owner' \in {"abort.return", "down", "abort.meta"}
      OBVIOUS
    <3>3. Original("none")' = {} => Original("none") = {}
      BY <3>1 DEF Original
    <3> QED
      BY <2>2, <2>3, <3>2, <3>3 DEF Untouched, TypeRec, TypePc
  <2>11. Building'
    BY <2>2 DEF Building, TypePc
  <2>12. Paired'
    BY <2>2, <2>3 DEF Paired, FencesPaired, Original, TypeRec
  <2> QED
    BY <2>1, <2>4, <2>5, <2>6, <2>7, <2>8, <2>9, <2>10, <2>11, <2>12
(* What an abort moves to evidence.                                        *)
<1>9. CASE AbortDebris \/ AbortFence
  <2> USE <1>9 DEF IInv, Typed, AbortDebris, SetAside, At, Intend, Goto, volume, others,
      AbortFence
  <2>1. (Typed /\ InOrder)'
    BY <1>0
  <2>2. attacher = "down" /\ {moved, sweeping} \subseteq BOOLEAN
    BY DEF Recorder, TypePc, TypeRec, Verb, AbortSteps, Serving, Fencing
  <2>3. rec.phase # "none" /\ rec.phase # "aborted" /\ aborting
    BY DEF Recorder, Verb, AbortSteps
  <2>4. Recorder'
    BY <2>2 DEF Recorder, TypeRec, Verb, AbortSteps, Serving, Fencing
  <2>5. Moving'
    <3>1. /\ rec.pend = "none" /\ moved' = moved /\ rec'.phase = rec.phase
          /\ rec'.pend \in Entry \cup {"none"} \/ (rec'.pend = "fence" /\ rec'.saved)
          /\ aborting' = aborting /\ owner' \in {"abort.debris", "abort.env"}
      BY DEF TypeRec, TypeVolume
    <3> QED
      BY <2>2, <2>3, <3>1, Entries DEF Moving
  <2>6. Stored'
    BY <2>2, <2>3 DEF Stored, Original, Away, TypeRec, TypePc
  <2>7. OldSays'
    BY <2>2, <2>3 DEF OldSays, Original, TypeRec
  <2>8. Marked'
    BY <2>2, <2>3 DEF Marked, Shut, OldSays, Original, TypeRec
  <2>9. Rendered'
    BY <2>2, <2>3 DEF Rendered, TypeRec
  <2>10. Untouched'
    BY <2>2, <2>3 DEF Untouched, Original, Moving, TypeRec, TypePc
  <2>11. Building'
    BY <2>2 DEF Building, TypePc
  <2>12. Paired'
    BY <2>2, <2>3 DEF Paired, FencesPaired, Original, TypeRec
  <2> QED
    BY <2>1, <2>4, <2>5, <2>6, <2>7, <2>8, <2>9, <2>10, <2>11, <2>12
(* The rest of an abort.                                                   *)
<1>10. CASE AbortMeta \/ AbortEnv \/ AbortGuard \/ AbortDone
  <2> USE <1>10 DEF IInv, Typed, AbortMeta, At, Restored, Log, Goto, others, AbortEnv,
      AbortGuard, AbortDone, Recorded, volume
  <2>1. (Typed /\ InOrder)'
    BY <1>0
  <2>2. attacher = "down" /\ {moved, sweeping} \subseteq BOOLEAN
    BY DEF Recorder, TypePc, TypeRec, Verb, AbortSteps, Serving, Fencing
  <2>3. rec.phase # "none" /\ rec.phase # "aborted" /\ aborting
    BY DEF Recorder, Verb, AbortSteps
  <2>4. Recorder'
    BY <2>2 DEF Recorder, TypeRec, Verb, AbortSteps, Serving, Fencing
  <2>5. Moving'
    <3>1. rec.pend = "none" /\ rec'.pend = "none" /\ moved' = moved
      BY DEF TypeRec
    <3> QED
      BY <2>2, <3>1 DEF Moving
  <2>6. Stored'
    <3>1. /\ place' = place /\ rec'.phase \in {rec.phase, "aborted"}
          /\ owner' \in {"abort.fence", "abort.guard", "abort.done", "down"}
          /\ owner \in {"abort.meta", "abort.env", "abort.guard", "abort.done"}
      BY DEF TypeRec
    <3>2. aborting' = aborting \/ rec'.phase = "aborted"
      BY DEF TypeRec
    <3> QED
      BY <2>3, <3>1, <3>2 DEF Stored, Original, Away
  <2>7. OldSays'
    BY <2>2, <2>3 DEF OldSays, Original, TypeRec
  <2>8. Marked'
    BY <2>2, <2>3 DEF Marked, Shut, OldSays, Original, TypeRec
  <2>9. Rendered'
    BY <2>2, <2>3 DEF Rendered, TypeRec
  <2>10. Untouched'
    <3>1. /\ starts' = starts /\ old' = old /\ Original("none")' = Original("none")
          /\ rec.pend = "none" /\ rec'.saved = rec.saved /\ rec'.pend = "none" /\ moved' = moved
      BY DEF Original, TypeRec
    <3>2. CASE AbortMeta
      BY <2>2, <2>3, <3>1, <3>2 DEF Untouched
    <3>3. CASE AbortEnv
      BY <2>2, <2>3, <3>1, <3>3 DEF Untouched, TypeVolume
    <3>4. CASE AbortGuard
      BY <2>2, <2>3, <3>1, <3>4 DEF Untouched, Marked, TypeVolume
    <3>5. CASE AbortDone
      BY <2>2, <3>1, <3>5 DEF Untouched
    <3> QED
      BY <3>2, <3>3, <3>4, <3>5
  <2>11. Building'
    BY <2>2 DEF Building, TypePc
  <2>12. Paired'
    BY <2>2, <2>3 DEF Paired, FencesPaired, Original, TypeRec
  <2> QED
    BY <2>1, <2>4, <2>5, <2>6, <2>7, <2>8, <2>9, <2>10, <2>11, <2>12
(* A move to evidence.                                                     *)
<1>11. CASE MoveEvidence
  <2> USE <1>11 DEF IInv, Typed, MoveEvidence, others
  <2>1. (Typed /\ InOrder)'
    BY <1>0
  <2>2. attacher = "down" /\ {moved, sweeping} \subseteq BOOLEAN
    BY DEF Recorder, TypePc, TypeRec, Verb, AbortSteps, Serving, Fencing
  <2>3. rec.phase # "none" /\ rec.phase # "aborted" /\ ~Serves(rec.phase)
    BY DEF Recorder, Verb, AbortSteps, Serves
  <2>4. Recorder'
    BY <2>2 DEF Recorder, TypeRec, Verb, AbortSteps, Serving, Fencing
  <2>5. Moving'
    BY <2>2, <2>3, Entries DEF Moving, TypeRec, TypeVolume, TypePc
  <2>6. Stored'
    BY <2>2, <2>3 DEF Stored, Original, Away, TypeRec, TypePc
  <2>7. OldSays'
    BY <2>2, <2>3 DEF OldSays, Original, TypeRec
  <2>8. Marked'
    BY <2>2, <2>3 DEF Marked, Shut, OldSays, Original, TypeRec
  <2>9. Rendered'
    BY <2>2, <2>3 DEF Rendered, Moving, TypeRec
  <2>10. Untouched'
    BY <2>2, <2>3 DEF Untouched, Original, Moving, TypeRec, TypePc
  <2>11. Building'
    BY <2>2 DEF Building, TypePc
  <2>12. Paired'
    BY <2>2, <2>3 DEF Paired, FencesPaired, Marked, Recorder, Verb, AbortSteps
  <2> QED
    BY <2>1, <2>4, <2>5, <2>6, <2>7, <2>8, <2>9, <2>10, <2>11, <2>12
(* Its completion.                                                         *)
<1>12. CASE RecordEvidence
  <2> USE <1>12 DEF IInv, Typed, RecordEvidence, volume, others
  <2>1. (Typed /\ InOrder)'
    BY <1>0
  <2>2. attacher = "down" /\ {moved, sweeping} \subseteq BOOLEAN
    BY DEF Recorder, TypePc, TypeRec, Verb, AbortSteps, Serving, Fencing
  <2>3. rec.phase # "none" /\ rec.phase # "aborted" /\ ~Serves(rec.phase)
    BY DEF Recorder, Verb, AbortSteps, Serves
  <2>4. Recorder'
    BY <2>2 DEF Recorder, TypeRec, Verb, AbortSteps, Serving, Fencing
  <2>5. Moving'
    BY <2>2, <2>3, Entries DEF Moving, TypeRec, TypeVolume, TypePc
  <2>6. Stored'
    BY <2>2, <2>3 DEF Stored, Original, Away, TypeRec, TypePc
  <2>7. OldSays'
    BY <2>2, <2>3 DEF OldSays, Original, TypeRec
  <2>8. Marked'
    BY <2>2, <2>3 DEF Marked, Shut, OldSays, Original, TypeRec
  <2>9. Rendered'
    BY <2>2, <2>3 DEF Rendered, TypeRec
  <2>10. Untouched'
    BY <2>2, <2>3 DEF Untouched, Original, Moving, TypeRec, TypePc
  <2>11. Building'
    BY <2>2 DEF Building, TypePc
  <2>12. Paired'
    BY <2>2, <2>3 DEF Paired, FencesPaired, Original, TypeRec
  <2> QED
    BY <2>1, <2>4, <2>5, <2>6, <2>7, <2>8, <2>9, <2>10, <2>11, <2>12
(* The gate.                                                               *)
<1>13. CASE StartServe \/ StartAttach
  <2> USE <1>13 DEF IInv, Typed, StartServe, Gate, Legacy, Step, Serves, LegacyEmpty, Pc,
      StartAttach
  <2>1. (Typed /\ InOrder)'
    BY <1>0
  <2>2. Recorder'
    BY DEF Recorder, TypeRec, Verb, AbortSteps, Serving, Fencing
  <2>3. Moving'
    BY Entries DEF Moving, TypeRec, TypeVolume, TypePc
  <2>4. Stored'
    BY DEF Stored, Original, Away, TypeRec, TypePc
  <2>5. OldSays'
    BY DEF OldSays, Original, TypeRec
  <2>6. Marked'
    BY DEF Marked, Shut, OldSays, Original, TypeRec
  <2>7. Rendered'
    BY DEF Rendered, TypeRec
  <2>8. Untouched'
    BY DEF Untouched, Original, Moving, TypeRec, TypePc
  <2>9. Building'
    BY DEF Building, TypePc
  <2>10. Paired'
    BY DEF Paired, FencesPaired, Marked, Original, TypeVolume
  <2> QED
    BY <2>1, <2>2, <2>3, <2>4, <2>5, <2>6, <2>7, <2>8, <2>9, <2>10
(* The holder of cell.lock past the gate.                                  *)
<1>14. CASE Sweep \/ Open \/ T4 \/ T5
  <2> USE <1>14 DEF IInv, Typed, Sweep, Abandoned, Step, Drop, Pc, Open, T4, Complete,
      Recorded, volume, others, T5
  <2>1. (Typed /\ InOrder)'
    BY <1>0
  <2>2. Recorder'
    BY DEF Recorder, TypeRec, Verb, AbortSteps, Serving, Fencing
  <2>3. Moving'
    BY Entries DEF Moving, TypeRec, TypeVolume, TypePc
  <2>4. Stored'
    BY DEF Stored, Original, Away, TypeRec, TypePc
  <2>5. OldSays'
    BY DEF OldSays, Original, TypeRec
  <2>6. Marked'
    BY DEF Marked, Shut, OldSays, Original, TypeRec
  <2>7. Rendered'
    BY DEF Rendered, TypeRec
  <2>8. Untouched'
    BY DEF Untouched, Original, Moving, TypeRec, TypePc
  <2>9. Building'
    BY DEF Building, TypePc
  <2>10. Paired'
    BY DEF Paired, FencesPaired, Original, TypeRec
  <2> QED
    BY <2>1, <2>2, <2>3, <2>4, <2>5, <2>6, <2>7, <2>8, <2>9, <2>10
(* A fence is built.                                                       *)
<1>15. ASSUME NEW p \in {"owner", "attacher"}, 
             \/ LookSupervisor(p) \/ MakeLegacy(p) \/ PlaceSupervisor(p)
             \/ LockTemp(p, "sup.lock", "sup.place") \/ LockTemp(p, "leg.lock", "leg.place")
      PROVE  IInv'
  <2> USE <1>15 DEF IInv, Typed, LookSupervisor, Step, Build, Pc, MakeLegacy, LockTemp,
      PlaceSupervisor, Drop
  <2>1. (Typed /\ InOrder)'
    BY <1>0
  <2>2. rec.phase = "none"
    BY DEF Recorder, TypePc, TypeRec, Verb, AbortSteps, Serving, Fencing
  <2>3. Recorder'
    BY <2>2 DEF Recorder, TypeRec, Verb, AbortSteps, Serving, Fencing
  <2>4. Moving'
    BY <2>2, Entries DEF Moving, TypeRec, TypeVolume, TypePc
  <2>5. Stored'
    BY <2>2 DEF Stored, Original, Away, TypeRec, TypePc
  <2>6. OldSays'
    BY <2>2 DEF OldSays, Original, TypeRec
  <2>7. Marked'
    BY <2>2 DEF Marked, Shut, OldSays, Original, TypeRec
  <2>8. Rendered'
    BY <2>2 DEF Rendered, TypeRec
  <2>9. Untouched'
    BY <2>2 DEF Untouched, Original, Moving, TypeRec, TypePc
  <2>10. Building'
    BY <2>2 DEF Building, TypePc
  <2>11. Paired'
    BY <2>2 DEF Paired, FencesPaired, Original, TypeRec
  <2> QED
    BY <2>1, <2>3, <2>4, <2>5, <2>6, <2>7, <2>8, <2>9, <2>10, <2>11
(* The legacy fence is placed.                                             *)
<1>16. ASSUME NEW p \in {"owner", "attacher"}, PlaceLegacy(p)
      PROVE  IInv'
  <2> USE <1>16 DEF IInv, Typed, PlaceLegacy, Legacy, Step, Drop, LegacyEmpty, Pc
  <2>1. (Typed /\ InOrder)'
    BY <1>0
  <2>2. rec.phase = "none"
    BY DEF Recorder, TypePc, TypeRec, Verb, AbortSteps, Serving, Fencing
  <2>3. Recorder'
    BY <2>2 DEF Recorder, TypeRec, Verb, AbortSteps, Serving, Fencing
  <2>4. Moving'
    BY <2>2, Entries DEF Moving, TypeRec, TypeVolume, TypePc
  <2>5. Stored'
    BY <2>2 DEF Stored, Original, Away, TypeRec, TypePc
  <2>6. OldSays'
    BY <2>2 DEF OldSays, Original, TypeRec
  <2>7. Marked'
    BY <2>2, Entries DEF Marked, OldSays, Stored, Recorder, Original, TypePc
  <2>8. Rendered'
    BY <2>2 DEF Rendered, TypeRec
  <2>9. Untouched'
    BY <2>2 DEF Untouched, Recorder, Original, Verb, AbortSteps, Serving, Fencing
  <2>10. Building'
    BY <2>2 DEF Building, TypePc
  <2>11. Paired'
    BY <2>2, Entries DEF Paired, FencesPaired, Stored, Marked, Original, Recorder,
        TypeVolume, Fencing
  <2> QED
    BY <2>1, <2>3, <2>4, <2>5, <2>6, <2>7, <2>8, <2>9, <2>10, <2>11
(* An end.                                                                 *)
<1>17. ASSUME NEW p \in {"owner", "attacher"}, Exit(p)
      PROVE  IInv'
  <2> USE <1>17 DEF IInv, Typed, Exit, Step, Pc
  <2>1. (Typed /\ InOrder)'
    BY <1>0
  <2>2. Recorder'
    BY DEF Recorder, TypeRec, Verb, AbortSteps, Serving, Fencing
  <2>3. Moving'
    BY Entries DEF Moving, TypeRec, TypeVolume, TypePc
  <2>4. Stored'
    BY DEF Stored, Original, Away, TypeRec, TypePc
  <2>5. OldSays'
    BY DEF OldSays, Original, TypeRec
  <2>6. Marked'
    BY DEF Marked, Shut, OldSays, Original, TypeRec
  <2>7. Rendered'
    BY DEF Rendered, TypeRec
  <2>8. Untouched'
    BY DEF Untouched, Original, Moving, TypeRec, TypePc
  <2>9. Building'
    BY DEF Building, TypePc
  <2>10. Paired'
    BY DEF Paired, FencesPaired, Original, TypeRec
  <2> QED
    BY <2>1, <2>2, <2>3, <2>4, <2>5, <2>6, <2>7, <2>8, <2>9, <2>10
(* A kill.                                                                 *)
<1>18. ASSUME NEW p \in {"owner", "attacher"}, Crash(p)
      PROVE  IInv'
  <2> USE <1>18 DEF IInv, Typed, Crash, Pc, Drop, volume
  <2>1. (Typed /\ InOrder)'
    BY <1>0
  <2>2. Recorder'
    BY DEF Recorder, TypeRec, Verb, AbortSteps, Serving, Fencing
  <2>3. Moving'
    BY Entries DEF Moving, TypeRec, TypeVolume, TypePc
  <2>4. Stored'
    BY DEF Stored, Original, Away, TypeRec, TypePc
  <2>5. OldSays'
    BY DEF OldSays, Original, TypeRec
  <2>6. Marked'
    BY DEF Marked, Shut, OldSays, Original, TypeRec
  <2>7. Rendered'
    BY DEF Rendered, TypeRec
  <2>8. Untouched'
    BY DEF Untouched, Original, Moving, TypeRec, TypePc
  <2>9. Building'
    BY DEF Building, TypePc
  <2>10. Paired'
    BY DEF Paired, FencesPaired, Original, TypeRec
  <2> QED
    BY <2>1, <2>2, <2>3, <2>4, <2>5, <2>6, <2>7, <2>8, <2>9, <2>10
(* A pre-043 process opens its database.                                   *)
<1>19. CASE OldServe
  <2> USE <1>19 DEF IInv, Typed, OldServe, Log, OldStep
  <2>1. (Typed /\ InOrder)'
    BY <1>0
  <2>2. Recorder'
    BY DEF Recorder, TypeRec, Verb, AbortSteps, Serving, Fencing
  <2>3. Moving'
    BY Entries DEF Moving, TypeRec, TypeVolume, TypePc
  <2>4. Stored'
    <3>1. CASE place' = place
      BY <3>1 DEF Stored, Original, Away
    <3>2. CASE place' = [e \in Entry |-> "legacy"] /\ rec.phase = "none"
      BY <3>2 DEF Stored, Original, Away, Recorder
    <3> QED
      BY <3>1, <3>2
  <2>5. OldSays'
    <3>1. CASE place' = place
      BY <3>1, Entries DEF OldSays, Original, Stored
    <3>2. CASE place' = [e \in Entry |-> "legacy"] /\ rec.phase = "none"
      <4>1. Original("none")' = {}
        BY <3>2 DEF Original
      <4> QED
        BY <3>2, <4>1, Entries DEF OldSays
    <3> QED
      BY <3>1, <3>2
  <2>6. Marked'
    BY DEF Marked, Shut, OldSays, Original, TypeRec
  <2>7. Rendered'
    BY DEF Rendered, TypeRec
  <2>8. Untouched'
    BY DEF Untouched, Original, Moving, TypeRec, TypePc
  <2>9. Building'
    BY DEF Building, TypePc
  <2>10. Paired'
    BY DEF Paired, FencesPaired, Original, TypeRec
  <2> QED
    BY <2>1, <2>2, <2>3, <2>4, <2>5, <2>6, <2>7, <2>8, <2>9, <2>10
(* The rest of what it does.                                               *)
<1>20. CASE \/ OldOpen \/ OldCheck \/ OldRefused \/ OldClaim \/ OldStop \/ OldKill
           \/ OldFirstBoot
  <2> USE <1>20 DEF IInv, Typed, OldOpen, OldStep, OldCheck, OldRefused, Log, OldClaim,
      OldStop, OldKill, OldFirstBoot
  <2>1. (Typed /\ InOrder)'
    BY <1>0
  <2>2. Recorder'
    BY DEF Recorder, TypeRec, Verb, AbortSteps, Serving, Fencing
  <2>3. Moving'
    BY Entries DEF Moving, TypeRec, TypeVolume, TypePc
  <2>4. Stored'
    BY DEF Stored, Original, Away, TypeRec, TypePc
  <2>5. OldSays'
    BY Entries DEF OldSays, Stored, Recorder, Original, TypeRec
  <2>6. Marked'
    BY DEF Marked, Shut, OldSays, Original, TypeRec
  <2>7. Rendered'
    BY DEF Rendered, TypeRec
  <2>8. Untouched'
    BY DEF Untouched, Original, Moving, TypeRec, TypePc
  <2>9. Building'
    BY DEF Building, TypePc
  <2>10. Paired'
    BY DEF Paired, FencesPaired, Marked, Original, TypeRec
  <2> QED
    BY <2>1, <2>2, <2>3, <2>4, <2>5, <2>6, <2>7, <2>8, <2>9, <2>10
<1>21. CASE UNCHANGED vars
  <2> USE <1>21 DEF IInv, vars
  <2>1. /\ Recorder' /\ Moving' /\ Stored' /\ OldSays'
    BY DEF Recorder, Moving, Stored, OldSays, Original, Away
  <2>2. /\ Marked' /\ Rendered' /\ Untouched' /\ Building' /\ Paired'
    BY DEF Marked, Shut, Rendered, Untouched, Building, Paired, FencesPaired, Original
  <2> QED
    BY <1>0, <2>1, <2>2
<1> QED
  BY <1>1, <1>2, <1>3, <1>4, <1>5, <1>6, <1>7, <1>8, <1>9, <1>10, <1>11, <1>12, <1>13,
      <1>14, <1>15, <1>16, <1>17, <1>18, <1>19, <1>20, <1>21 DEF Next, VerbStep, ServeStep,
      CreateFences, T2, Abort, Old

(* A clean pre-043 volume and a fresh one satisfy the invariant.           *)
LEMMA InitIInv == Init => IInv
<1> SUFFICES ASSUME Init PROVE IInv
  OBVIOUS
<1>1. Typed
  <2>1. TypeRec
    BY PhaseNames DEF Init, NoRecord, TypeRec
  <2>2. TypeVolume
    BY DEF Init, TypeVolume
  <2>3. TypePc
    <3>1. /\ temp \in [{"owner", "attacher"} -> {"none", "made", "held"}]
          /\ starts \in 0 .. MaxStarts /\ crashes \in 0 .. MaxCrashes /\ aborts \in 0 .. MaxAborts
      BY BoundsAssumption DEF Init
    <3> QED
      BY <3>1 DEF Init, TypePc
  <2> QED
    BY <2>1, <2>2, <2>3 DEF Typed
<1>2. Original("none") = Entry \/ (Original("none") = {} /\ Original("legacy") = Entry)
  BY DEF Init, Original
<1>3. InOrder
  <2>1. \A i \in 1 .. Len(PlanOrder) : place[PlanOrder[i]] \in {"none", "legacy"}
    BY DEF Init, Entry, Range, PlanOrder
  <2> QED
    BY <1>2, <2>1 DEF InOrder
<1>4. Recorder /\ Moving /\ Building
  BY DEF Init, NoRecord, Recorder, Moving, Building, Verb, AbortSteps, Serving, Fencing
<1>5. Stored /\ OldSays
  BY <1>2 DEF Init, NoRecord, Stored, OldSays
<1>6. Marked /\ Rendered /\ Untouched /\ Paired
  BY <1>2, Entries
     DEF Init, NoRecord, Marked, Rendered, Untouched, Paired, FencesPaired, Original
<1> QED
  BY <1>1, <1>3, <1>4, <1>5, <1>6 DEF IInv

(* The types and the order hold always.                                    *)
LEMMA TypedHolds == Spec => [](Typed /\ InOrder)
<1>1. Init => Typed /\ InOrder
  BY InitIInv DEF IInv
<1>2. Typed /\ InOrder /\ [Next]_vars => (Typed /\ InOrder)'
  BY NextTyped
<1> QED
  BY <1>1, <1>2, PTL DEF Spec

(* The invariant holds always, an abort once begun being completed.        *)
LEMMA IInvHolds == ~ResumeAfterAbort => (Spec => []IInv)
<1> SUFFICES ASSUME ~ResumeAfterAbort PROVE Spec => []IInv
  OBVIOUS
<1>1. IInv /\ [Next]_vars => IInv'
  BY NextIInv
<1> QED
  BY <1>1, InitIInv, PTL DEF Spec

----------------------------------------------------------------------------
(* Every variable keeps its type, and no bound on starts, kills or aborts  *)
(* is passed.                                                              *)
THEOREM TransitionTypeCorrect == Spec => []TypeOK
<1>1. Typed => TypeOK
  BY DEF Typed, TypeRec, TypeVolume, TypePc, TypeOK
<1> QED
  BY <1>1, TypedHolds, PTL

(* What has left the legacy path is a prefix of the plan at every step of  *)
(* the verb and of an abort, and whatever follows an abort: the durable    *)
(* log leaves first and returns last (plan_t2, abort).                     *)
THEOREM StoreInOrderHolds == Spec => []StoreInOrder
<1>1. InOrder => StoreInOrder
  BY DEF InOrder, StoreInOrder
<1> QED
  BY <1>1, TypedHolds, PTL

(* The store is never split the wrong way round, is whole at its new place *)
(* when it is served, and back with its environment once an abort has      *)
(* completed, wherever verb and abort were killed and however often.       *)
THEOREM TransitionSoundHolds == ~ResumeAfterAbort => (Spec => []TransitionSound)
<1>1. ASSUME IInv PROVE StoreKept
  <2>1. Serves(rec.phase) => Original("legacy") = {}
    BY <1>1 DEF IInv, Stored, Recorder, Serves
  <2>2. rec.phase = "aborted" => Away = {}
    BY <1>1 DEF IInv, Stored
  <2>3. rec.phase = "aborted" /\ Original("legacy") # {} /\ starts = 0 =>
          env = "file" /\ marker = "none"
    BY <1>1, Entries DEF IInv, InOrder, Untouched, Original
  <2>4. StoreInOrder
    BY <1>1 DEF IInv, InOrder, StoreInOrder
  <2> QED
    BY <2>1, <2>2, <2>3, <2>4 DEF StoreKept, StoreInOrder, ServedWhole, Away
<1>2. IInv /\ TypeOK => TransitionSound
  BY <1>1 DEF TransitionSound
<1> QED
  BY <1>2, IInvHolds, TransitionTypeCorrect, PTL

(* From `guarded` on no pre-043 node is past the marker, for any number of *)
(* such nodes started or killed at any step of T1: the two looks at the    *)
(* locks and the database together with the last look at the guard.        *)
THEOREM OldNodeShutOutHolds == ~ResumeAfterAbort => (Spec => []OldNodeShutOut)
<1>1. ASSUME IInv PROVE OldNodeShutOut
  <2>1. AtLeast("guarded") /\ rec.phase # "aborted" => rec.phase \in Guarded
    BY <1>1, GuardedOn DEF IInv, Typed, TypeRec, AtLeast
  <2>2. Relocating => rec.phase \in Guarded /\ ~aborting
    BY <1>1 DEF IInv, Recorder, Relocating, Verb
  <2> QED
    BY <1>1, <2>1, <2>2 DEF IInv, Marked, Shut, OldNodeShutOut
<1> QED
  BY <1>1, IInvHolds, PTL

(* serve has the store open behind both fences only, on any volume but one *)
(* that holds a rendered environment and no store, and of two processes    *)
(* that fence at once neither takes the other's temporary away.            *)
THEOREM ServedIsFencedHolds ==
    ~ResumeAfterAbort /\ ~RenderedOnly => (Spec => []ServedIsFenced)
<1> SUFFICES ASSUME ~ResumeAfterAbort, ~RenderedOnly PROVE Spec => []ServedIsFenced
  OBVIOUS
<1>1. ASSUME IInv PROVE ServedIsFenced
  <2>1. ASSUME owner \in {"open", "up"}
        PROVE  /\ Legacy = "fence" /\ env = "fence"
               /\ rec.phase # "none" => floor /\ Serves(rec.phase)
    <3>1. rec.phase \in {"none"} \cup Served
      BY <1>1, <2>1 DEF IInv, Recorder, Serving
    <3>2. CASE rec.phase = "none"
      <4>1. marker = "fence" /\ env = "fence" /\ Original("none") = Entry
        BY <1>1, <2>1, <3>2 DEF IInv, Paired, FencesPaired, Marked
      <4> QED
        BY <4>1, <3>2, Entries DEF Legacy, LegacyEmpty, Original
    <3>3. CASE rec.phase \in Served
      <4>1. ~aborting
        BY <1>1, <3>3 DEF IInv, Recorder
      <4>2. marker = "guard" /\ env = "fence" /\ floor /\ Original("legacy") = {}
        BY <1>1, <3>3, <4>1 DEF IInv, Marked, Shut, Rendered, Stored
      <4> QED
        BY <4>2, <3>3, Entries DEF Legacy, LegacyEmpty, Original, Serves
    <3> QED
      BY <3>1, <3>2, <3>3
  <2> QED
    BY <1>1, <2>1 DEF IInv, Building, ServedIsFenced
<1> QED
  BY <1>1, IInvHolds, PTL

(* The supervisor fence is in place before the legacy fence, at every kill *)
(* of either of two processes that build them (create_fences).             *)
THEOREM FencesPairedHolds ==
    ~ResumeAfterAbort /\ ~RenderedOnly => (Spec => []FencesPaired)
<1> SUFFICES ASSUME ~ResumeAfterAbort, ~RenderedOnly PROVE Spec => []FencesPaired
  OBVIOUS
<1>1. IInv => FencesPaired
  BY DEF IInv, Paired
<1> QED
  BY <1>1, IInvHolds, PTL
=============================================================================
