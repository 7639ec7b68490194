------------------------------- MODULE Ledger -------------------------------
(***************************************************************************)
(* The decision chain of rahi-ledger (src/crates/rahi-ledger/src): appends *)
(* from several replicas by compare-and-swap on the head (append.rs,       *)
(* chain.rs), the identity rows that make an id a name for life            *)
(* (identity.rs), and sealing of the oldest records into the archive       *)
(* (seal.rs, archive.rs).                                                  *)
(*                                                                         *)
(* A record is named by its id: its hash is fixed by the id, the content   *)
(* and the parent, and no id lands twice.  Every binary stamps identities, *)
(* so coverage is complete and the backstop never runs; all sealers use one*)
(* SealPolicy.                                                             *)
(***************************************************************************)
EXTENDS Naturals, FiniteSets, Sequences

CONSTANTS
    Call,          \* calls of Ledger::append
    Wants,         \* Wants[c]: the decision c offers
    Id,            \* decision ids
    Content,       \* contents a decision may have
    GenesisParent,    \* genesis_parent
    GenesisDecision,  \* the decision Ledger::open appended to an empty chain
    Sealer,        \* calls of Ledger::seal_if_needed
    HotWindow,     \* SealPolicy::hot_window
    SegmentSize,   \* SealPolicy::segment_size
    MaxTries,      \* APPEND_ATTEMPTS
    MaxInflight,   \* bound: batches sent and neither applied nor lost
    StaleAppends   \* TRUE: a seal may overtake an append that read the head
                   \* before the sealed records were appended

ASSUME GenesisAssumption ==
    GenesisParent \notin Id /\ GenesisDecision \in [id : Id, content : Content]
ASSUME WantsAssumption == Wants \in [Call -> [id : Id, content : Content]]
ASSUME PolicyAssumption ==        \* SealPolicy::new
    /\ HotWindow \in Nat /\ SegmentSize \in Nat
    /\ 1 <= SegmentSize /\ SegmentSize <= HotWindow
ASSUME BoundAssumption == MaxTries \in Nat /\ MaxInflight \in Nat
ASSUME StaleAppendsAssumption == StaleAppends \in BOOLEAN

VARIABLES
    resident,   \* rows of kernel_decisions
    identity,   \* identity[i]: content the id stands for, and whether sealed
    segments,   \* rows of kernel_segments in the order of their links
    archive,    \* segment bodies in the archive
    call,       \* call[c]: where the append is, the parent it read, its tries
    inflight,   \* append batches on their way to the state machine
    sealer      \* sealer[s]: where the seal is, and what it has read

vars == <<resident, identity, segments, archive, call, inflight, sealer>>

Parent == Id \cup {GenesisParent}
Record == [id : Id, content : Content, prev : Parent]
Slice == [1 .. SegmentSize -> Record]
NoIdentity == [known |-> FALSE, content |-> CHOOSE x \in Content : TRUE, sealed |-> FALSE]
Answers == {"landed", "reused", "error"}
IdleSealer == [pc |-> "idle", slice |-> <<>>, after |-> 0]

TypeOK ==
    /\ resident \in SUBSET Record
    /\ identity \in [Id -> [known : BOOLEAN, content : Content, sealed : BOOLEAN]]
    /\ segments \in Seq(Slice)
    /\ archive \in SUBSET Slice
    /\ call \in [Call -> [pc : {"start", "sent", "failed", "unspent"} \cup Answers,
                          parent : Parent, tries : 0 .. MaxTries]]
    /\ inflight \in SUBSET [call : Call, parent : Parent]
    /\ sealer \in [Sealer -> [pc : {"idle", "read", "numbered", "put"},
                              slice : Slice \cup {<<>>}, after : Nat]]

Init ==
    /\ resident = {[id |-> GenesisDecision.id, content |-> GenesisDecision.content,
                    prev |-> GenesisParent]}
    /\ identity = [i \in Id |-> IF i = GenesisDecision.id
                                THEN [known |-> TRUE, content |-> GenesisDecision.content,
                                      sealed |-> FALSE]
                                ELSE NoIdentity]
    /\ segments = <<>>
    /\ archive = {}
    /\ call = [c \in Call |-> [pc |-> "start", parent |-> GenesisParent, tries |-> 0]]
    /\ inflight = {}
    /\ sealer = [s \in Sealer |-> IdleSealer]

----------------------------------------------------------------------------
(* Reads.                                                                  *)

(* Ledger::resident_root: the last record of the last segment.             *)
ResidentRoot ==
    IF segments = <<>> THEN GenesisParent
    ELSE segments[Len(segments)][SegmentSize].id

(* HEAD_SQL: resident records no resident record names as its parent.      *)
Heads == {r \in resident : \A m \in resident : m.prev # r.id}

(* Ledger::head; more than one is refused as a fork.                       *)
IsHead(p) ==
    IF resident = {} THEN p = ResidentRoot
    ELSE \E r \in resident : Heads = {r} /\ p = r.id

Readable == \E p \in Parent : IsHead(p)

----------------------------------------------------------------------------
(* Ledger::append_loop and classify.                                       *)

Goto(c, pc) == call' = [call EXCEPT ![c].pc = pc]
Return(c, answer) ==
    call' = [call EXCEPT ![c] = [pc |-> answer, parent |-> GenesisParent, tries |-> 0]]

(* Mutant of TriesLeft: one round too many.                                *)
OneTryMore(c) == call[c].tries <= MaxTries

TriesLeft(c) == call[c].tries < MaxTries

(* head() is read, the record built on it and sent; from here on its batch *)
(* may be applied at any time.  A forked chain is refused, and so is a     *)
(* decision that lost the race too often.                                  *)
Offer(c) ==
    /\ call[c].pc = "start"
    /\ \/ /\ TriesLeft(c)
          /\ Cardinality(inflight) < MaxInflight
          /\ \E p \in Parent :
                /\ IsHead(p)
                /\ call' = [call EXCEPT ![c] = [pc |-> "sent", parent |-> p,
                                                tries |-> call[c].tries + 1]]
                /\ inflight' = inflight \cup {[call |-> c, parent |-> p]}
       \/ /\ ~TriesLeft(c) \/ ~Readable
          /\ Return(c, "error")
          /\ inflight' = inflight
    /\ UNCHANGED <<resident, identity, segments, archive, sealer>>

(* Mutant of Admissible: no UNIQUE index on prev_hash.                     *)
AdmissibleNoIndex(b) ==
    /\ \A r \in resident : r.id # Wants[b.call].id
    /\ ~identity[Wants[b.call].id].known

(* The constraints of the batch: the primary keys of kernel_decisions and  *)
(* kernel_decision_identity, and the UNIQUE index on prev_hash.            *)
Admissible(b) ==
    /\ \A r \in resident : r.id # Wants[b.call].id /\ r.prev # b.parent
    /\ ~identity[Wants[b.call].id].known

Awaited(b) == call[b.call].pc = "sent" /\ call[b.call].parent = b.parent

(* The batch is applied, whole or not at all; a caller that still waits    *)
(* learns which.                                                           *)
Apply(b) ==
    /\ b \in inflight
    /\ inflight' = inflight \ {b}
    /\ LET d == Wants[b.call]
       IN  \/ /\ Admissible(b)
              /\ resident' = resident \cup
                    {[id |-> d.id, content |-> d.content, prev |-> b.parent]}
              /\ identity' = [identity EXCEPT ![d.id] =
                    [known |-> TRUE, content |-> d.content, sealed |-> FALSE]]
              /\ IF Awaited(b) THEN Return(b.call, "landed") ELSE call' = call
           \/ /\ ~Admissible(b)
              /\ IF Awaited(b) THEN Goto(b.call, "failed") ELSE call' = call
              /\ UNCHANGED <<resident, identity>>
    /\ UNCHANGED <<segments, archive, sealer>>

(* The batch is never applied.                                             *)
Lose(b) ==
    /\ b \in inflight
    /\ inflight' = inflight \ {b}
    /\ IF Awaited(b) THEN Goto(b.call, "failed") ELSE call' = call
    /\ UNCHANGED <<resident, identity, segments, archive, sealer>>

(* The reply is lost while the batch is on its way or applied.             *)
LoseReply(c) ==
    /\ call[c].pc = "sent"
    /\ Goto(c, "failed")
    /\ UNCHANGED <<resident, identity, segments, archive, inflight, sealer>>

(* Mutant of Spent: any row of the id is taken for the decision itself.    *)
SpentOnAnything(c) == "landed"

(* classify, on an identity row: the same decision landed before, or the id*)
(* names another one.                                                      *)
Spent(c) ==
    IF identity[Wants[c].id].content = Wants[c].content THEN "landed" ELSE "reused"

(* classify, first read: the identity row.                                 *)
ClassifyIdentity(c) ==
    /\ call[c].pc = "failed"
    /\ IF identity[Wants[c].id].known THEN Return(c, Spent(c)) ELSE Goto(c, "unspent")
    /\ UNCHANGED <<resident, identity, segments, archive, inflight, sealer>>

(* classify, second read: an unmoved head means the batch failed for       *)
(* another reason; a moved one means the race was lost.                    *)
ClassifyHead(c) ==
    /\ call[c].pc = "unspent"
    /\ IF Readable /\ ~IsHead(call[c].parent)
       THEN call' = [call EXCEPT ![c] = [@ EXCEPT !.pc = "start", !.parent = GenesisParent]]
       ELSE Return(c, "error")
    /\ UNCHANGED <<resident, identity, segments, archive, inflight, sealer>>

----------------------------------------------------------------------------
(* Ledger::seal_if_needed: three reads, the body, one transaction.         *)

(* Records in chain order from the resident root.                          *)
Linked(slice, from) ==
    /\ slice[1].prev = from
    /\ \A i \in 2 .. SegmentSize : slice[i].prev = slice[i - 1].id

Oldest(slice) == slice \in [1 .. SegmentSize -> resident] /\ Linked(slice, ResidentRoot)

SealDue == Cardinality(resident) > HotWindow /\ Cardinality(resident) > SegmentSize

(* count() and records(): the oldest run of an unforked chain.             *)
ReadRecords(s) ==
    /\ sealer[s].pc = "idle"
    /\ SealDue
    /\ Readable
    /\ \E slice \in [1 .. SegmentSize -> resident] :
          /\ Oldest(slice)
          /\ sealer' = [sealer EXCEPT ![s] = [pc |-> "read", slice |-> slice, after |-> 0]]
    /\ UNCHANGED <<resident, identity, segments, archive, call, inflight>>

(* segments(): the predecessor is read on its own.                         *)
ReadSegments(s) ==
    /\ sealer[s].pc = "read"
    /\ sealer' = [sealer EXCEPT ![s] = [@ EXCEPT !.pc = "numbered", !.after = Len(segments)]]
    /\ UNCHANGED <<resident, identity, segments, archive, call, inflight>>

(* Mutant of KeyIsFree: a body is overwritten.                             *)
KeyIsAlwaysFree(slice) == TRUE

(* Archive::put never rewrites a key, and the key is the run's first and   *)
(* last id.                                                                *)
KeyIsFree(slice) ==
    \A body \in archive : body[1].id # slice[1].id \/ body[SegmentSize].id # slice[SegmentSize].id

(* Mutant of PutBody: a failed write goes unnoticed.                       *)
PutBodyUnchecked(s) ==
    /\ sealer[s].pc = "numbered"
    /\ sealer' = [sealer EXCEPT ![s].pc = "put"]
    /\ UNCHANGED <<resident, identity, segments, archive, call, inflight>>

(* The body is written, and only an acknowledged write leads on.           *)
PutBody(s) ==
    /\ sealer[s].pc = "numbered"
    /\ \/ /\ KeyIsFree(sealer[s].slice)
          /\ archive' = archive \cup {sealer[s].slice}
          /\ sealer' = [sealer EXCEPT ![s].pc = "put"]
       \/ /\ ~KeyIsFree(sealer[s].slice)
          /\ sealer' = [sealer EXCEPT ![s] = IdleSealer]
          /\ UNCHANGED archive
    /\ UNCHANGED <<resident, identity, segments, call, inflight>>

(* No append on its way was built on the parent of a record of the slice.  *)
Quiet(slice) ==
    LET parents == {slice[i].prev : i \in 1 .. SegmentSize}
    IN  \A b \in inflight : b.parent \notin parents

(* The header row, the deletion of the records and the stamps on their     *)
(* identities; kernel_segments is UNIQUE on the predecessor.               *)
CommitSeal(s) ==
    LET slice == sealer[s].slice
        ids == {slice[i].id : i \in 1 .. SegmentSize}
    IN  /\ sealer[s].pc = "put"
        /\ sealer[s].after = Len(segments)
        /\ ~StaleAppends => Quiet(slice)
        /\ segments' = Append(segments, slice)
        /\ resident' = {r \in resident : r.id \notin ids}
        /\ identity' = [i \in Id |-> IF i \in ids
                                     THEN [identity[i] EXCEPT !.sealed = TRUE]
                                     ELSE identity[i]]
        /\ sealer' = [sealer EXCEPT ![s] = IdleSealer]
        /\ UNCHANGED <<archive, call, inflight>>

(* The sealer dies, or its transaction aborts or is never applied.         *)
AbandonSeal(s) ==
    /\ sealer[s].pc # "idle"
    /\ sealer' = [sealer EXCEPT ![s] = IdleSealer]
    /\ UNCHANGED <<resident, identity, segments, archive, call, inflight>>

----------------------------------------------------------------------------
Next ==
    \/ \E c \in Call :
          \/ Offer(c) \/ LoseReply(c)
          \/ ClassifyIdentity(c) \/ ClassifyHead(c)
    \/ \E b \in inflight : Apply(b) \/ Lose(b)
    \/ \E s \in Sealer :
          \/ ReadRecords(s) \/ ReadSegments(s) \/ PutBody(s)
          \/ CommitSeal(s) \/ AbandonSeal(s)

Spec == Init /\ [][Next]_vars

----------------------------------------------------------------------------
Sealed == UNION {{segments[n][i] : i \in 1 .. SegmentSize} : n \in 1 .. Len(segments)}
Landed == resident \cup Sealed

(* The chain never forks, inside the hot table or between it and the       *)
(* archive: the database arbitrates over resident rows only, and yet no two*)
(* records that ever landed name one parent (append.rs: "never a fork").   *)
NeverForks ==
    \A q, r \in Landed : q.prev = r.prev \/ q.id = r.id => q = r

(* The segments are consecutive runs of the chain from its first record,   *)
(* and the resident records continue where the last one ends.              *)
SegmentsContinue ==
    /\ \A n \in 1 .. Len(segments) :
          Linked(segments[n], IF n = 1 THEN GenesisParent
                              ELSE segments[n - 1][SegmentSize].id)
    /\ resident # {} => \E r \in resident : r.prev = ResidentRoot
    /\ segments # <<>> => resident # {}

(* One chain, from the genesis through every segment to the head, whatever *)
(* appends and seals race (append.rs, seal.rs).                            *)
LedgerSound == TypeOK /\ NeverForks /\ SegmentsContinue

(* No record leaves the hot table before its body is in the archive, and   *)
(* its identity row says which side it is on (seal.rs, FR-004).            *)
NothingDeletedUnarchived ==
    /\ \A n \in 1 .. Len(segments) : segments[n] \in archive
    /\ \A i \in Id : identity[i].known =>
          \E r \in IF identity[i].sealed THEN Sealed ELSE resident :
             r.id = i /\ r.content = identity[i].content

(* A body no header references is inert: it never keeps the next seal from *)
(* being made (seal.rs, seal_if_needed).                                   *)
UnreferencedBodyIsInert ==
    \A body \in archive :
        (\A n \in 1 .. Len(segments) : segments[n] # body)
          /\ (\A s \in Sealer : sealer[s].pc = "idle")
          => ~Oldest(body)

(* The ledger implements the append-only chain: archive and hot table      *)
(* together grow by one record at one end, and every answer is true.       *)
Chain == INSTANCE AppendOnlyChain
    WITH chain <- Landed,
         told <- [c \in Call |-> IF call[c].pc \in Answers THEN call[c].pc ELSE "pending"]
ImplementsChain == Chain!CSpec
=============================================================================
