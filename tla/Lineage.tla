------------------------------ MODULE Lineage ------------------------------
(***************************************************************************)
(* Lifetime identity of the decision chain (rahi-ledger: identity.rs,      *)
(* append.rs, seal.rs, chain.rs, transition.rs, epoch.rs, verify.rs) in a  *)
(* fleet where binaries that stamp identities may share the chain with     *)
(* older ones that do not.                                                 *)
(*                                                                         *)
(* The chain never forks (Ledger.tla), so it is the sequence of its        *)
(* records, and a record's hash is its place.  A batch whose parent was    *)
(* sealed meanwhile is taken to be refused: Ledger.tla shows the case it   *)
(* is not.  Place 1 is the genesis record.                                 *)
(***************************************************************************)
EXTENDS Integers, FiniteSets, Sequences

CONSTANTS
    Node,          \* open ledgers on binaries that stamp
    Repairer,      \* those opened by `ledger reindex` (open_for_repair)
    Call,          \* calls of Ledger::append
    Wants,         \* Wants[c]: the decision c offers
    Id, Content,   \* decision ids, and decisions without id and parent
    Manifest,      \* contents that are transitions
    Epoch,         \* contents that are epoch records
    Genesis,       \* the genesis record
    HotWindow, SegmentSize,   \* SealPolicy
    MaxTries,      \* APPEND_ATTEMPTS
    MaxLog,        \* bound: records
    Scenes         \* bounds on faults, writers and readers, one per behaviour

Scene == [name : STRING, calls : SUBSET Call, nodes : SUBSET Node,
          looks : SUBSET Id, looker : SUBSET Node, old : SUBSET [id : Id, content : Content],
          oldSeals : Nat, losses : Nat, crashes : Nat, damage : Nat]

ASSUME PolicyAssumption ==
    /\ HotWindow \in Nat /\ SegmentSize \in Nat
    /\ 1 <= SegmentSize /\ SegmentSize <= HotWindow
ASSUME KindAssumption ==
    /\ Manifest \subseteq Content /\ Epoch \subseteq Content
    /\ Manifest \cap Epoch = {}
    /\ Genesis \in [id : Id, content : Content \ (Manifest \cup Epoch)]
ASSUME WantsAssumption == Wants \in [Call -> [id : Id, content : Content]]
ASSUME BoundAssumption ==
    /\ MaxTries \in Nat /\ MaxLog \in Nat \ {0} /\ Repairer \subseteq Node
    /\ Scenes \subseteq Scene

VARIABLES
    scene,      \* the bounds this behaviour runs under
    log,        \* every record, resident or sealed
    headers,    \* kernel_segments: last place, and what is current there
    identity,   \* kernel_decision_identity: the place a row names, its segment
    collisions, \* kernel_decision_collisions
    stamped,    \* kernel_decision_coverage; NoCounter where there is no row
    body,       \* the archived body of each segment
    forged,     \* resident places whose stored bytes were altered
    node,       \* each handle: its verdict and how far open or reindex is
    call,       \* each append
    inflight,   \* append batches sent and neither applied nor lost
    sealer,     \* per node: the number of segments its seal has read
    reader,     \* one Ledger::recover
    old         \* what the binaries that do not stamp have done

vars == <<scene, log, headers, identity, collisions, stamped, body, forged,
          node, call, inflight, sealer, reader, old>>
chain == <<log, headers, identity, collisions, stamped>>

None == "none"
NoCounter == -1
Place == 1 .. MaxLog
Record(d, stamps) == [id |-> d.id, content |-> d.content, stamps |-> stamps]
NoRow == [at |-> 0, seg |-> 0]
Down == [pc |-> "down", complete |-> FALSE, todo |-> {}, missing |-> {},
         quiet |-> FALSE, found |-> FALSE, damaged |-> FALSE]
IdleReader == [pc |-> "idle", node |-> None, id |-> Genesis.id, at |-> 0, seg |-> 0,
               known |-> FALSE]
Answered == {"record", "absent", "unproven", "conflict", "notfound", "integrity"}
Decided == {"landed", "conflict", "error"}

TypeOK ==
    /\ log \in Seq([id : Id, content : Content, stamps : BOOLEAN])
    /\ headers \in Seq([last : Place, manifest : Content \cup {None},
                        epoch : 0 .. MaxLog])
    /\ identity \in [Id -> [at : 0 .. MaxLog, seg : 0 .. MaxLog]]
    /\ collisions \subseteq [id : Id, at : Place, seg : Place]
    /\ stamped \in Seq({NoCounter} \cup Nat) /\ Len(stamped) = Len(headers)
    /\ body \in Seq({"whole", "missing", "corrupt"}) /\ Len(body) = Len(headers)
    /\ forged \subseteq Place
    /\ node \in [Node -> [pc : {"down", "backfill", "recheck", "up", "walk",
                                "ok", "stale", "conflict", "uncovered"},
                          complete : BOOLEAN, todo : SUBSET Place, missing : SUBSET Place,
                          quiet : BOOLEAN, found : BOOLEAN, damaged : BOOLEAN]]
    /\ call \in [Call -> [pc : {"start", "sent", "failed", "unspent"} \cup Decided,
                          node : Node \cup {None}, parent : 0 .. MaxLog,
                          tries : 0 .. MaxTries]]
    /\ inflight \subseteq [call : Call, parent : Place]
    /\ sealer \in [Node -> -1 .. MaxLog]
    /\ reader \in [pc : {"idle", "resident", "missed", "sealed"} \cup Answered,
                   node : Node \cup {None}, id : Id, at : 0 .. MaxLog, seg : 0 .. MaxLog,
                   known : BOOLEAN]
    /\ old \in [wrote : SUBSET [id : Id, content : Content], seals : Nat, gone : BOOLEAN,
                losses : Nat, crashes : Nat, damage : Nat]

----------------------------------------------------------------------------
(* What a read of the chain shows.                                         *)

(* chain_snapshot: headers and resident records from one statement.        *)
SealedTo == IF headers = <<>> THEN 0 ELSE headers[Len(headers)].last
Resident == SealedTo + 1 .. Len(log)
Run(k) == (IF k = 1 THEN 1 ELSE headers[k - 1].last + 1) .. headers[k].last

(* verify_chain over that snapshot: not empty, linked, signed and whole.   *)
Verifies == Resident # {} /\ forged \cap Resident = {}

(* The newest place of a set of contents in a run.                         *)
Newest(places, kind) ==
    LET those == {p \in places : log[p].content \in kind}
    IN  IF those = {} THEN 0 ELSE CHOOSE p \in those : \A q \in those : q <= p

(* manifest_at_tail: what the run leaves current after what was before it. *)
ManifestAfter(places, before) ==
    LET p == Newest(places, Manifest)
    IN  IF p = 0 THEN before ELSE log[p].content

(* EpochTail::after; an epoch is named by its place, the genesis by 1.     *)
EpochAfter(places, before) ==
    LET p == Newest(places, Epoch) IN IF p = 0 THEN before ELSE p

(* The last header's manifest, the genesis parent when it names none.      *)
SealedManifest ==
    IF headers = <<>> \/ headers[Len(headers)].manifest = None THEN Genesis.content
    ELSE headers[Len(headers)].manifest

(* Mutant of SealedEpoch: only the last header is asked.                   *)
SealedEpochLast ==
    IF headers = <<>> \/ headers[Len(headers)].epoch = 0 THEN 1
    ELSE headers[Len(headers)].epoch

(* The newest header that names an epoch; with none, the genesis record.   *)
SealedEpoch ==
    LET named == {k \in 1 .. Len(headers) : headers[k].epoch # 0}
    IN  IF named = {} THEN 1
        ELSE headers[CHOOSE k \in named : \A j \in named : j <= k].epoch

CurrentManifest == ManifestAfter(Resident, SealedManifest)
CurrentEpoch == EpochAfter(Resident, SealedEpoch)

(* A resident record some row names, by id and hash.                       *)
Named(p) ==
    \/ identity[log[p].id].at = p
    \/ \E c \in collisions : c.id = log[p].id /\ c.at = p

(* COVERAGE_CENSUS_SQL: the segments and resident records not accounted    *)
(* for.                                                                    *)
Uncovered == {k \in 1 .. Len(headers) : stamped[k] # Cardinality(Run(k))}
Unstamped == {p \in Resident : ~Named(p)}
Covered == Uncovered = {} /\ Unstamped = {}

----------------------------------------------------------------------------
(* accounting_statements: what one transaction does for the records of     *)
(* segment k.  The ids of a run differ, since they were resident together. *)

Account(k, places) ==
    LET of(i) == CHOOSE p \in places : log[p].id = i
        ids == {log[p].id : p \in places}
        stamp(i) ==   \* IDENTITY_STAMP_SQL, then IDENTITY_UPSERT_SQL
            IF i \notin ids THEN identity[i]
            ELSE IF identity[i].at = 0 THEN [at |-> of(i), seg |-> k]
            ELSE IF identity[i] = [at |-> of(i), seg |-> 0] THEN [at |-> of(i), seg |-> k]
            ELSE identity[i]
        declined == {p \in places : /\ stamp(log[p].id) # [at |-> p, seg |-> k]
                                    /\ \A c \in collisions : c.id = log[p].id => c.at # p}
    IN  [identity |-> [i \in Id |-> stamp(i)],
         collisions |-> collisions \cup {[id |-> log[p].id, at |-> p, seg |-> k] : p \in declined},
         created |-> {i \in ids : identity[i].at = 0}]

(* COVERAGE_RECOMPUTE_SQL.                                                 *)
Counted(k, rows) ==
    Cardinality({i \in Id : rows.identity[i].at # 0 /\ rows.identity[i].seg = k})
    + Cardinality({c \in rows.collisions : c.seg = k})

(* note_unstamped_writer: a row the accounting had to create is an older   *)
(* writer's record.                                                        *)
StillSure(n, created) == node[n].complete /\ created = {}

(* Mutant of Accounts: the upsert without its WHERE points a row whose id  *)
(* was spent twice at a segment that does not hold the record it names.    *)
AccountsUnguarded(k, places) ==
    LET rows == Account(k, places)
        all == [rows EXCEPT !.identity = [i \in Id |->
                   IF \E p \in places : log[p].id = i
                   THEN [at |-> IF identity[i].at = 0 THEN rows.identity[i].at ELSE identity[i].at,
                         seg |-> k]
                   ELSE identity[i]]]
    IN  /\ identity' = all.identity
        /\ collisions' = all.collisions
        /\ stamped' = [j \in 1 .. IF k > Len(stamped) THEN k ELSE Len(stamped) |->
                          IF j = k THEN Counted(k, all) ELSE stamped[j]]

Accounts(k, places) ==
    LET rows == Account(k, places)
    IN  /\ identity' = rows.identity
        /\ collisions' = rows.collisions
        /\ stamped' = [j \in 1 .. IF k > Len(stamped) THEN k ELSE Len(stamped) |->
                          IF j = k THEN Counted(k, rows) ELSE stamped[j]]

----------------------------------------------------------------------------
(* Opening a ledger: open_inner.                                           *)

Serving(n) == node[n].pc = "up" /\ n \notin Repairer

(* The snapshot is verified and the backfill's census read: resident       *)
(* records no row names.  A chain that does not verify is not opened.      *)
Open(n) ==
    /\ node[n].pc = "down" /\ n \in scene.nodes
    /\ Verifies
    /\ node' = [node EXCEPT ![n] = [Down EXCEPT !.pc = "backfill", !.missing = Unstamped,
                                    !.quiet = old.gone]]
    /\ UNCHANGED <<scene, chain, body, forged, call, inflight, sealer, reader, old>>

(* Mutant of Backfilled: insert-or-replace.                                *)
BackfilledOver(missing) ==
    [i \in Id |-> IF \E p \in missing : log[p].id = i
                  THEN [at |-> CHOOSE p \in missing : log[p].id = i, seg |-> 0]
                  ELSE identity[i]]

(* backfill_identity: insert-or-ignore, so it never touches a row that     *)
(* another writer made first.                                              *)
Backfilled(missing) ==
    [i \in Id |-> IF identity[i].at = 0 /\ \E p \in missing : log[p].id = i
                  THEN [at |-> CHOOSE p \in missing : log[p].id = i, seg |-> 0]
                  ELSE identity[i]]

Backfill(n) ==
    /\ node[n].pc = "backfill"
    /\ identity' = Backfilled(node[n].missing)
    /\ node' = [node EXCEPT ![n] = [@ EXCEPT !.pc = "recheck", !.missing = {}]]
    /\ UNCHANGED <<scene, log, headers, collisions, stamped, body, forged, call, inflight,
                   sealer, reader, old>>

(* recheck_coverage, then the gate: an uncovered chain is opened for       *)
(* repair only.  `ledger reindex` goes on to walk what it found uncovered. *)
Recheck(n) ==
    /\ node[n].pc = "recheck"
    /\ node' = [node EXCEPT ![n] =
          IF n \in Repairer
          THEN [@ EXCEPT !.pc = "walk", !.todo = Uncovered, !.complete = Covered]
          ELSE IF Covered THEN [@ EXCEPT !.pc = "up", !.complete = TRUE]
          ELSE Down]
    /\ UNCHANGED <<scene, chain, body, forged, call, inflight, sealer, reader, old>>

(* The process of a node dies, and what it was doing with it.              *)
Crash(n) ==
    /\ node[n].pc \notin {"down", "ok", "stale", "conflict", "uncovered"}
    /\ old.crashes < scene.crashes
    /\ node' = [node EXCEPT ![n] = Down]
    /\ sealer' = [sealer EXCEPT ![n] = -1]
    /\ call' = [c \in Call |-> IF call[c].node = n /\ call[c].pc \notin Decided
                               THEN [call[c] EXCEPT !.pc = "error", !.parent = 0, !.tries = 0]
                               ELSE call[c]]
    /\ reader' = IF reader.node = n THEN IdleReader ELSE reader
    /\ old' = [old EXCEPT !.crashes = @ + 1]
    /\ UNCHANGED <<scene, chain, body, forged, inflight>>

----------------------------------------------------------------------------
(* Ledger::append.                                                         *)

Answer(c, answer) ==
    call' = [call EXCEPT ![c] = [pc |-> answer, node |-> call[c].node, parent |-> 0, tries |-> 0]]

Digest(i) == log[identity[i].at].content

(* What the rows of an id say to a decision: nothing, that it landed, or   *)
(* that the id is another's or was spent twice.                            *)
Spoken(d) ==
    IF \E c \in collisions : c.id = d.id THEN "conflict"
    ELSE IF identity[d.id].at = 0 THEN None
    ELSE IF Digest(d.id) = d.content THEN "landed"
    ELSE "conflict"

(* append_reported and append_loop's backstop: a node that has seen its    *)
(* coverage incomplete appends nothing it cannot prove free.               *)
Backstop(n, d) ==
    IF node[n].complete THEN None
    ELSE IF Spoken(d) = None THEN "conflict"
    ELSE Spoken(d)

(* Mutant of TriesLeft: one round too many.                                *)
OneTryMore(c) == call[c].tries <= MaxTries

TriesLeft(c) == call[c].tries < MaxTries

(* One round: the backstop, then the head, then the batch is sent.         *)
Offer(c, n) ==
    /\ c \in scene.calls /\ Serving(n)
    /\ call[c].pc = "start" /\ call[c].node \in {n, None}
    /\ \/ /\ Backstop(n, Wants[c]) # None
          /\ call' = [call EXCEPT ![c] = [pc |-> Backstop(n, Wants[c]), node |-> n,
                                          parent |-> 0, tries |-> 0]]
          /\ UNCHANGED inflight
       \/ /\ Backstop(n, Wants[c]) = None
          /\ TriesLeft(c)
          /\ call' = [call EXCEPT ![c] = [pc |-> "sent", node |-> n, parent |-> Len(log),
                                          tries |-> @.tries + 1]]
          /\ inflight' = inflight \cup {[call |-> c, parent |-> Len(log)]}
       \/ /\ Backstop(n, Wants[c]) = None
          /\ ~TriesLeft(c)
          /\ call' = [call EXCEPT ![c] = [pc |-> "error", node |-> n, parent |-> 0, tries |-> 0]]
          /\ UNCHANGED inflight
    /\ UNCHANGED <<scene, chain, body, forged, node, sealer, reader, old>>

Awaited(b) == call[b.call].pc = "sent" /\ call[b.call].parent = b.parent

(* Mutant of Admissible: the identity row is inserted or ignored.          *)
AdmissibleResident(b) ==
    /\ b.parent = Len(log)
    /\ \A p \in Resident : log[p].id # Wants[b.call].id

(* The unique parent index and the two primary keys.                       *)
Admissible(b) ==
    /\ b.parent = Len(log)
    /\ \A p \in Resident : log[p].id # Wants[b.call].id
    /\ identity[Wants[b.call].id].at = 0

(* The batch is applied whole or refused; the caller may never hear of it. *)
Apply(b) ==
    /\ b \in inflight /\ Len(log) < MaxLog
    /\ inflight' = inflight \ {b}
    /\ LET d == Wants[b.call]
       IN  IF Admissible(b)
           THEN /\ log' = Append(log, Record(d, TRUE))
                /\ identity' = [identity EXCEPT ![d.id] =
                                  IF @.at = 0 THEN [at |-> Len(log) + 1, seg |-> 0] ELSE @]
                /\ \/ /\ Awaited(b)
                      /\ Answer(b.call, "landed")
                      /\ UNCHANGED old
                   \/ /\ Awaited(b) => old.losses < scene.losses
                      /\ old' = [old EXCEPT !.losses = @ + IF Awaited(b) THEN 1 ELSE 0]
                      /\ call' = [call EXCEPT ![b.call].pc = IF Awaited(b) THEN "failed" ELSE @]
           ELSE /\ call' = [call EXCEPT ![b.call].pc = IF Awaited(b) THEN "failed" ELSE @]
                /\ UNCHANGED <<log, identity, old>>
    /\ UNCHANGED <<scene, headers, collisions, stamped, body, forged, node, sealer, reader>>

(* The caller hears an error while its batch is still on its way.          *)
GiveUp(c) ==
    /\ call[c].pc = "sent" /\ old.losses < scene.losses
    /\ call' = [call EXCEPT ![c].pc = "failed"]
    /\ old' = [old EXCEPT !.losses = @ + 1]
    /\ UNCHANGED <<scene, chain, body, forged, node, inflight, sealer, reader>>

(* classify: the rows of the id, then whether the head moved.              *)
Classify(c) ==
    /\ call[c].pc = "failed"
    /\ LET spoken == Spoken(Wants[c])
       IN  IF spoken = None THEN call' = [call EXCEPT ![c].pc = "unspent"]
           ELSE Answer(c, spoken)
    /\ UNCHANGED <<scene, chain, body, forged, node, inflight, sealer, reader, old>>

AskHead(c) ==
    /\ call[c].pc = "unspent"
    /\ IF call[c].parent = Len(log) THEN Answer(c, "error")
       ELSE call' = [call EXCEPT ![c].pc = "start"]
    /\ UNCHANGED <<scene, chain, body, forged, node, inflight, sealer, reader, old>>

----------------------------------------------------------------------------
(* seal_if_needed.  The run is the oldest SegmentSize resident records, so *)
(* what a seal has read is the number of segments before it; the unique    *)
(* index on the previous segment refuses the one that comes second.        *)

Due == Cardinality(Resident) > HotWindow
Next1 == SealedTo + 1 .. SealedTo + SegmentSize

SealRead(n) ==
    /\ Serving(n) /\ sealer[n] = -1 /\ Due
    /\ sealer' = [sealer EXCEPT ![n] = Len(headers)]
    /\ UNCHANGED <<scene, chain, body, forged, node, call, inflight, reader, old>>

(* Mutant of Inherited: the segment names its own transitions only.        *)
InheritedOwn == ManifestAfter(Next1, Genesis.content)

Inherited == ManifestAfter(Next1, SealedManifest)

(* Header, deletion and accounting in one transaction; a row the seal had  *)
(* to create is an older writer's, and the node's verdict goes incomplete. *)
SealCommit(n) ==
    /\ sealer[n] >= 0
    /\ sealer' = [sealer EXCEPT ![n] = -1]
    /\ IF sealer[n] # Len(headers) \/ forged \cap Next1 # {}
       THEN UNCHANGED <<headers, identity, collisions, stamped, body, node>>
       ELSE LET k == Len(headers) + 1
            IN  /\ headers' = Append(headers, [last |-> SealedTo + SegmentSize,
                                               manifest |-> Inherited,
                                               epoch |-> EpochAfter(Next1, SealedEpoch)])
                /\ body' = Append(body, "whole")
                /\ Accounts(k, Next1)
                /\ node' = [node EXCEPT ![n].complete =
                                StillSure(n, Account(k, Next1).created)]
    /\ UNCHANGED <<scene, log, forged, call, inflight, reader, old>>

----------------------------------------------------------------------------
(* `ledger reindex`: newest uncovered segment first; a body is fetched and *)
(* verified before a row is written from it.                               *)

(* fetch_segment and verify_segment over one body.                         *)
Fetched(k) ==
    IF body[k] = "missing" THEN "notfound" ELSE IF body[k] = "corrupt" THEN "integrity"
    ELSE "record"

NewestOf(s) == CHOOSE k \in s : \A j \in s : j <= k

ReindexSegment(n) ==
    /\ n \in Repairer /\ node[n].pc = "walk" /\ node[n].todo # {}
    /\ LET k == NewestOf(node[n].todo)
       IN  IF Fetched(k) = "record"
           THEN /\ Accounts(k, Run(k))
                /\ node' = [node EXCEPT ![n] = [@ EXCEPT
                               !.todo = node[n].todo \ {k},
                               !.found = node[n].found \/ collisions' # collisions,
                               !.complete = StillSure(n, Account(k, Run(k)).created)]]
           ELSE /\ node' = [node EXCEPT ![n] = [@ EXCEPT !.todo = node[n].todo \ {k}, !.damaged = TRUE]]
                /\ UNCHANGED <<identity, collisions, stamped>>
    /\ UNCHANGED <<scene, log, headers, body, forged, call, inflight, sealer, reader, old>>

(* What the walk itself reports.                                           *)
Outcome(n) ==
    IF node[n].damaged THEN "uncovered" ELSE IF node[n].found THEN "conflict" ELSE "ok"

(* The verdict is computed again and the verb exits.                       *)
ReindexReport(n) ==
    /\ n \in Repairer /\ node[n].pc = "walk" /\ node[n].todo = {}
    /\ node' = [node EXCEPT ![n] = [@ EXCEPT
          !.complete = Covered,
          !.pc = IF Outcome(n) # "ok" \/ Covered THEN Outcome(n) ELSE "stale"]]
    /\ UNCHANGED <<scene, chain, body, forged, call, inflight, sealer, reader, old>>

----------------------------------------------------------------------------
(* Ledger::recover: the row, then the record, and once more the row when a *)
(* seal came between.                                                      *)

Read(pc, at, seg) == reader' = [reader EXCEPT !.pc = pc, !.at = at, !.seg = seg]
Collided(i) == \E c \in collisions : c.id = i

LookUp(n, i) ==
    /\ reader.pc = "idle" /\ n \in scene.looker /\ node[n].pc \in {"up", "walk"} /\ i \in scene.looks
    /\ reader' = [node |-> n, id |-> i, at |-> identity[i].at, seg |-> identity[i].seg,
                  known |-> \E p \in 1 .. Len(log) : log[p].id = i,
                  pc |-> IF Collided(i) THEN "conflict"
                         ELSE IF identity[i].at = 0
                         THEN IF node[n].complete THEN "absent" ELSE "unproven"
                         ELSE IF identity[i].seg = 0 THEN "resident" ELSE "sealed"]
    /\ UNCHANGED <<scene, chain, body, forged, node, call, inflight, sealer, old>>

(* recover_resident: the whole resident chain is verified before a record  *)
(* is taken from it.                                                       *)
ReadResident ==
    /\ reader.pc = "resident"
    /\ Read(IF ~Verifies THEN "integrity" ELSE IF reader.at \in Resident THEN "record" ELSE "missed",
            reader.at, reader.seg)
    /\ UNCHANGED <<scene, chain, body, forged, node, call, inflight, sealer, old>>

(* Mutant of Revalidated: the first answer of the row is final.            *)
RevalidatedNever(i) == "integrity"

(* The one revalidation.                                                   *)
Revalidated(i) ==
    IF Collided(i) THEN "conflict"
    ELSE IF identity[i].at = reader.at /\ identity[i].seg # 0 THEN "sealed"
    ELSE "integrity"

AskAgain ==
    /\ reader.pc = "missed"
    /\ Read(Revalidated(reader.id), reader.at, identity[reader.id].seg)
    /\ UNCHANGED <<scene, chain, body, forged, node, call, inflight, sealer, old>>

(* recover_sealed: the one body the row names, verified.                   *)
ReadBody ==
    /\ reader.pc = "sealed"
    /\ Read(IF Fetched(reader.seg) # "record" \/ reader.at \in Run(reader.seg)
            THEN Fetched(reader.seg) ELSE "integrity",
            reader.at, reader.seg)
    /\ UNCHANGED <<scene, chain, body, forged, node, call, inflight, sealer, old>>

----------------------------------------------------------------------------
(* Binaries that do not stamp, and damage.                                 *)

OldAppend(d) ==
    /\ ~old.gone /\ d \in scene.old \ old.wrote /\ Len(log) < MaxLog
    /\ \A p \in Resident : log[p].id # d.id
    /\ log' = Append(log, Record(d, FALSE))
    /\ old' = [old EXCEPT !.wrote = @ \cup {d}]
    /\ UNCHANGED <<scene, headers, identity, collisions, stamped, body, forged, node, call,
                   inflight, sealer, reader>>

(* A seal without accounting; a still older binary names neither manifest  *)
(* nor epoch, one from between names the manifest only.                    *)
OldSeal ==
    /\ ~old.gone /\ old.seals < scene.oldSeals /\ Due /\ forged \cap Next1 = {}
    /\ \E manifest \in {None, Inherited} :
          headers' = Append(headers, [last |-> SealedTo + SegmentSize,
                                      manifest |-> manifest, epoch |-> 0])
    /\ body' = Append(body, "whole")
    /\ stamped' = Append(stamped, NoCounter)
    /\ old' = [old EXCEPT !.seals = @ + 1]
    /\ UNCHANGED <<scene, log, identity, collisions, forged, node, call, inflight, sealer, reader>>

(* The last old binary is replaced.                                        *)
OldLeaves ==
    /\ ~old.gone /\ scene.old # {}
    /\ old' = [old EXCEPT !.gone = TRUE]
    /\ UNCHANGED <<scene, chain, body, forged, node, call, inflight, sealer, reader>>

Damage ==
    /\ old.damage < scene.damage /\ reader.pc \notin Answered
    /\ \/ \E k \in 1 .. Len(body), state \in {"missing", "corrupt"} :
             /\ body[k] = "whole"
             /\ body' = [body EXCEPT ![k] = state]
             /\ UNCHANGED forged
       \/ \E p \in Resident : forged' = {p} /\ UNCHANGED body
    /\ old' = [old EXCEPT !.damage = @ + 1]
    /\ UNCHANGED <<scene, chain, node, call, inflight, sealer, reader>>

----------------------------------------------------------------------------
Init ==
    /\ scene \in Scenes
    /\ log = <<Record(Genesis, TRUE)>>
    /\ headers = <<>> /\ stamped = <<>> /\ body = <<>>
    /\ identity = [i \in Id |-> IF i = Genesis.id THEN [at |-> 1, seg |-> 0] ELSE NoRow]
    /\ collisions = {} /\ forged = {} /\ inflight = {}
    /\ node = [n \in Node |-> Down]
    /\ call = [c \in Call |-> [pc |-> "start", node |-> None, parent |-> 0, tries |-> 0]]
    /\ sealer = [n \in Node |-> -1]
    /\ reader = IdleReader
    /\ old = [wrote |-> {}, seals |-> 0, gone |-> FALSE, losses |-> 0, crashes |-> 0,
              damage |-> 0]

Next ==
    \/ \E n \in Node : Open(n) \/ Backfill(n) \/ Recheck(n) \/ Crash(n)
    \/ \E c \in Call, n \in Node : Offer(c, n)
    \/ \E b \in inflight : Apply(b)
    \/ \E c \in Call : GiveUp(c) \/ Classify(c) \/ AskHead(c)
    \/ \E n \in Node : SealRead(n) \/ SealCommit(n)
    \/ \E n \in Node : ReindexSegment(n) \/ ReindexReport(n)
    \/ \E n \in Node, i \in Id : LookUp(n, i)
    \/ ReadResident \/ AskAgain \/ ReadBody
    \/ \E d \in scene.old : OldAppend(d)
    \/ OldSeal \/ OldLeaves \/ Damage

Spec == Init /\ [][Next]_vars

----------------------------------------------------------------------------
(* Properties.                                                             *)

Holds(k, p) == IF k = 0 THEN p \in Resident ELSE k <= Len(headers) /\ p \in Run(k)
Stamping == old.wrote = {} /\ old.seals = 0

(* Every row names a record of its id, and a row that names a segment      *)
(* names the one that holds the record.                                    *)
RowsAreTrue ==
    /\ \A i \in Id : identity[i].at # 0 =>
          /\ identity[i].at <= Len(log) /\ log[identity[i].at].id = i
          /\ identity[i].seg # 0 => Holds(identity[i].seg, identity[i].at)
    /\ \A c \in collisions :
          log[c.at].id = c.id /\ Holds(c.seg, c.at) /\ identity[c.id].at # c.at

(* A chain whose coverage reads complete has exactly one row for each of   *)
(* its records, sealed ones with their segment, and a chain only stamping  *)
(* binaries wrote always reads complete.                                   *)
Accounted ==
    /\ RowsAreTrue
    /\ Covered => \A p \in 1 .. Len(log) :
          \/ identity[log[p].id].at = p
                /\ (p \in Resident <=> identity[log[p].id].seg = 0)
          \/ \E c \in collisions : c.id = log[p].id /\ c.at = p
    /\ Stamping => Covered

(* An id names one decision for the life of the chain, across seals, lost  *)
(* acknowledgements and restarts: of two records with one id, one was      *)
(* written by a binary that does not stamp.  And a caller that was told    *)
(* its decision landed finds it in the chain.                              *)
OneCopy ==
    /\ \A p, q \in 1 .. Len(log) : p < q /\ log[p].id = log[q].id =>
          ~log[p].stamps \/ ~log[q].stamps
    /\ \A c \in Call : call[c].pc = "landed" =>
          \E p \in 1 .. Len(log) : log[p] = Record(Wants[c], log[p].stamps)

(* One decision per id, and a true account of each (identity.rs).          *)
IdentitySound == TypeOK /\ Accounted /\ OneCopy

(* recover answers the record it was asked for, whatever seals between its *)
(* reads; it says absent only of an id the chain did not hold, and reports *)
(* damage only when there is some.                                         *)
RecoverFinds ==
    /\ reader.pc = "record" =>
          /\ log[reader.at].id = reader.id
          /\ reader.at \notin forged
          /\ reader.seg # 0 => body[reader.seg] = "whole" /\ reader.at \in Run(reader.seg)
    /\ Stamping /\ reader.pc = "absent" => ~reader.known
    /\ Stamping /\ old.damage = 0 =>
          reader.pc \notin {"unproven", "conflict", "notfound", "integrity"}

(* The current manifest and the current epoch are those of the newest      *)
(* transition and epoch records of the whole chain, sealed or not.         *)
TailIsNewest ==
    LET all == 1 .. Len(log)
    IN  /\ (\A k \in 1 .. Len(headers) : headers[k].manifest # None) =>
              CurrentManifest = ManifestAfter(all, Genesis.content)
        /\ (\A k \in 1 .. Len(headers) : headers[k].epoch = 0 => Newest(Run(k), Epoch) = 0) =>
              CurrentEpoch = EpochAfter(all, 1)

(* No row is ever deleted or pointed at another record or segment.         *)
RowsAreKept ==
    [][/\ \A i \in Id : identity[i].at # 0 =>
             /\ identity'[i].at = identity[i].at
             /\ identity[i].seg # 0 => identity'[i].seg = identity[i].seg
       /\ collisions \subseteq collisions']_vars

(* identity.rs:384: `rahi ledger reindex` is the one command that clears an *)
(* incomplete coverage, run while nothing appends and with whole bodies.   *)
ReindexClears ==
    \A n \in Repairer : node[n].quiet /\ old.damage = 0 => node[n].pc # "stale"
=============================================================================
