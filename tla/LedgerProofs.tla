---------------------------- MODULE LedgerProofs ----------------------------
(* Theorems about Ledger, for any calls, decisions, contents, sealers, hot *)
(* window, segment size and caps.  The argument is that a log exists: the  *)
(* records that ever landed in the order of their links, of which a prefix *)
(* is sealed and the rest resident.                                        *)
EXTENDS Ledger, FiniteSetTheorems, SequenceTheorems, TLAPS

(* log lists n records, each the parent of the next, and no id twice.      *)
Lists(log, n) ==
    /\ log \in [1 .. n -> Record]
    /\ log[1].prev = GenesisParent
    /\ \A i \in 2 .. n : log[i].prev = log[i - 1].id
    /\ \A i, j \in 1 .. n : log[i].id = log[j].id => i = j

(* The first base records of the log are sealed, the others are resident.  *)
Divided(log, n, base) ==
    /\ resident = {log[i] : i \in (base + 1) .. n}
    /\ Sealed = {log[i] : i \in 1 .. base}
    /\ ResidentRoot = IF base = 0 THEN GenesisParent ELSE log[base].id

(* An identity is known for the records of the log, with their content and *)
(* their side.                                                             *)
Stamped(log, n, base) ==
    /\ \A i \in Id : identity[i].known => \E k \in 1 .. n : log[k].id = i
    /\ \A k \in 1 .. n : /\ identity[log[k].id].known
                         /\ identity[log[k].id].content = log[k].content
                         /\ identity[log[k].id].sealed <=> k <= base

(* No batch on its way was built on a record with a sealed successor.      *)
Pending(log, n, base) ==
    \A b \in inflight : \E i \in 1 .. n : base <= i /\ b.parent = log[i].id

(* slice is the oldest run of the resident records, and not all of them.   *)
Runs(slice, log, n, base) ==
    /\ base + SegmentSize < n
    /\ \A i \in 1 .. SegmentSize : slice[i] = log[base + i]

(* A sealer has the oldest run, or another one has archived it before; one *)
(* that wrote the body has it as long as no segment came after it.         *)
Sealing(log, n, base) ==
    \A s \in Sealer :
        /\ sealer[s].pc \in {"read", "numbered"} =>
              Runs(sealer[s].slice, log, n, base) \/ sealer[s].slice \in archive
        /\ sealer[s].pc = "put" /\ sealer[s].after = Len(segments) =>
              Runs(sealer[s].slice, log, n, base)

LogIs(log, n, base) ==
    /\ Lists(log, n) /\ Divided(log, n, base) /\ Stamped(log, n, base)
    /\ Pending(log, n, base) /\ Sealing(log, n, base)

(* Sealers hold slices; the bodies of the segments, and of the seal that is*)
(* about to commit, are in the archive.                                    *)
SealersHold ==
    \A s \in Sealer : sealer[s].pc # "idle" =>
        /\ sealer[s].slice \in Slice /\ sealer[s].after <= Len(segments)
        /\ sealer[s].pc = "put" => sealer[s].slice \in archive
SegmentsArchived == \A k \in 1 .. Len(segments) : segments[k] \in archive
CallTypes ==
    [Call -> [pc : {"start", "sent", "failed", "unspent"} \cup Answers,
              parent : Parent, tries : 0 .. MaxTries]]
Held == TypeOK /\ SealersHold /\ SegmentsArchived

SegmentsLinked ==
    \A k \in 1 .. Len(segments) :
        Linked(segments[k], IF k = 1 THEN GenesisParent ELSE segments[k - 1][SegmentSize].id)
HasLog == \E n, base \in Nat : \E log \in [1 .. n -> Record] : base < n /\ LogIs(log, n, base)
IInv == Held /\ SegmentsLinked /\ HasLog

----------------------------------------------------------------------------
(* Lists and their runs.                                                   *)

(* A set of natural numbers that is not empty has a least element.         *)
LEMMA LeastNumber ==
    ASSUME NEW T \in SUBSET Nat, T # {}
    PROVE  \E x \in T : \A y \in T : x <= y
<1> DEFINE Less == OpToRel(<, Nat)
<1>1. IsWellFoundedOn(OpToRel(<, Nat), Nat)
  BY NatLessThanWellFounded
<1>2. \A x, y \in Nat : y < x => <<y, x>> \in Less
  BY DEF OpToRel
<1> HIDE DEF Less
<1>3. PICK x \in T : \A y \in T : ~(<<y, x>> \in Less)
  BY <1>1, WFMin DEF Less
<1>4. ASSUME NEW y \in T PROVE ~(y < x)
  BY <1>2, <1>3
<1>5. \A y \in T : x <= y
  BY <1>4
<1> QED
  BY <1>5

(* Slices with the same records are the same slice.                        *)
LEMMA SameRecords ==
    ASSUME NEW f \in Slice, NEW g \in Slice, \A i \in 1 .. SegmentSize : f[i] = g[i]
    PROVE  f = g
<1>1. f = [i \in 1 .. SegmentSize |-> f[i]] /\ g = [i \in 1 .. SegmentSize |-> g[i]]
  BY DEF Slice
<1>2. [i \in 1 .. SegmentSize |-> f[i]] = [i \in 1 .. SegmentSize |-> g[i]]
  OBVIOUS
<1> QED
  BY <1>1, <1>2

(* A record of a list that names the same parent, or bears the same id, as *)
(* another is that record.                                                 *)
LEMMA ListIsUnique ==
    ASSUME NEW n \in Nat, NEW log \in [1 .. n -> Record], Lists(log, n),
           NEW i \in 1 .. n, NEW k \in 1 .. n, log[i].prev = log[k].prev
    PROVE  i = k
<1>1. \A j \in 1 .. n : log[j].id \in Id
  BY DEF Record
<1>2. CASE i = 1 /\ k # 1
  <2>1. log[k].prev = log[k - 1].id /\ k - 1 \in 1 .. n
    BY <1>2 DEF Lists
  <2> QED
    BY <1>1, <1>2, <2>1, GenesisAssumption DEF Lists
<1>3. CASE i # 1 /\ k = 1
  <2>1. log[i].prev = log[i - 1].id /\ i - 1 \in 1 .. n
    BY <1>3 DEF Lists
  <2> QED
    BY <1>1, <1>3, <2>1, GenesisAssumption DEF Lists
<1>4. CASE i # 1 /\ k # 1
  <2>1. /\ log[i].prev = log[i - 1].id /\ i - 1 \in 1 .. n
        /\ log[k].prev = log[k - 1].id /\ k - 1 \in 1 .. n
    BY <1>4 DEF Lists
  <2>2. i - 1 = k - 1
    BY <2>1 DEF Lists
  <2> QED
    BY <2>2
<1> QED
  BY <1>2, <1>3, <1>4

(* A run of resident records linked from the resident root is the list from*)
(* the first resident record on.                                           *)
LEMMA OldestRuns ==
    ASSUME NEW n \in Nat, NEW base \in Nat, base < n, NEW log \in [1 .. n -> Record],
           Lists(log, n), Divided(log, n, base), NEW slice, Oldest(slice)
    PROVE  \A i \in 1 .. SegmentSize : base + i <= n /\ slice[i] = log[base + i]
<1> DEFINE right(i) == base + i <= n /\ slice[i] = log[base + i]
           wrong == {i \in 1 .. SegmentSize : ~right(i)}
<1>1. SegmentSize \in Nat /\ 1 <= SegmentSize
  BY PolicyAssumption
<1>2. \A i \in 1 .. SegmentSize : \E k \in (base + 1) .. n : slice[i] = log[k]
  BY DEF Oldest, Divided
<1>3. slice[1].prev = ResidentRoot /\ \A i \in 2 .. SegmentSize : slice[i].prev = slice[i - 1].id
  BY DEF Oldest, Linked
<1>4. SUFFICES ASSUME wrong # {} PROVE FALSE
  OBVIOUS
<1>5. PICK w \in wrong : \A y \in wrong : w <= y
  <2>1. wrong \in SUBSET Nat
    BY <1>1
  <2> HIDE DEF wrong
  <2> QED
    BY <1>4, <2>1, LeastNumber
<1>6. w \in 1 .. SegmentSize /\ ~right(w)
  BY <1>5
<1>7. PICK k \in (base + 1) .. n : slice[w] = log[k]
  BY <1>2, <1>6
<1>8. k \in 1 .. n /\ base + 1 \in 1 .. n
  BY <1>7
<1>9. CASE w = 1
  <2>1. log[k].prev = log[base + 1].prev
    <3>1. CASE base = 0
      BY <1>3, <1>7, <1>9, <3>1 DEF Divided, Lists
    <3>2. CASE base # 0
      <4>1. log[base + 1].prev = log[base].id
        BY <3>2, <1>8 DEF Lists
      <4> QED
        BY <1>3, <1>7, <1>9, <3>2, <4>1 DEF Divided
    <3> QED
      BY <3>1, <3>2
  <2>2. k = base + 1
    BY <1>8, <2>1, ListIsUnique
  <2> QED
    BY <1>6, <1>7, <1>9, <2>2
<1>10. CASE w # 1
  <2>1. w - 1 \in 1 .. SegmentSize /\ w \in 2 .. SegmentSize /\ w - 1 \notin wrong
    BY <1>1, <1>5, <1>6, <1>10
  <2>2. right(w - 1)
    BY <2>1
  <2>3. slice[w - 1] = log[base + w - 1] /\ base + w - 1 \in 1 .. n
    BY <1>6, <2>1, <2>2
  <2>4. log[k].prev = log[base + w - 1].id
    BY <1>3, <1>7, <2>1, <2>3
  <2>5. k # 1
    BY <1>7, <2>3, <2>4, <1>8, GenesisAssumption DEF Lists, Record
  <2>6. log[k].prev = log[k - 1].id /\ k - 1 \in 1 .. n
    BY <1>8, <2>5 DEF Lists
  <2>7. k - 1 = base + w - 1
    BY <2>3, <2>4, <2>6 DEF Lists
  <2> QED
    BY <1>6, <1>7, <1>8, <2>7
<1> QED
  BY <1>9, <1>10

(* The resident records are as many as the list has after the sealed ones. *)
LEMMA ResidentCount ==
    ASSUME NEW n \in Nat, NEW base \in Nat, base < n, NEW log \in [1 .. n -> Record],
           Lists(log, n), Divided(log, n, base)
    PROVE  Cardinality(resident) = n - base
<1> DEFINE at == [i \in 1 .. (n - base) |-> log[base + i]]
<1>1. at \in [1 .. (n - base) -> resident]
  BY DEF Divided
<1>2. \A r \in resident : \E i \in 1 .. (n - base) : at[i] = r
  <2>1. ASSUME NEW r \in resident PROVE \E i \in 1 .. (n - base) : at[i] = r
    <3>1. PICK k \in (base + 1) .. n : r = log[k]
      BY DEF Divided
    <3>2. k - base \in 1 .. (n - base) /\ at[k - base] = r
      BY <3>1
    <3> QED
      BY <3>2
  <2> QED
    BY <2>1
<1>3. \A i, k \in 1 .. (n - base) : at[i] = at[k] => i = k
  <2>1. ASSUME NEW i \in 1 .. (n - base), NEW k \in 1 .. (n - base), at[i] = at[k]
        PROVE  i = k
    <3>1. base + i \in 1 .. n /\ base + k \in 1 .. n /\ log[base + i] = log[base + k]
      BY <2>1
    <3>2. base + i = base + k
      BY <3>1 DEF Lists
    <3> QED
      BY <3>2
  <2> QED
    BY <2>1
<1> HIDE DEF at
<1>4. at \in Bijection(1 .. (n - base), resident)
  BY <1>1, <1>2, <1>3 DEF Bijection, Injection, Surjection, IsInjective
<1>5. ExistsBijection(1 .. (n - base), resident) /\ n - base \in Nat
  BY <1>4 DEF ExistsBijection
<1> QED
  BY <1>5, FS_CountingElements

(* The head is the last record of the list.                                *)
LEMMA HeadIsLast ==
    ASSUME NEW n \in Nat, NEW base \in Nat, base < n, NEW log \in [1 .. n -> Record],
           Lists(log, n), Divided(log, n, base)
    PROVE  \A p \in Parent : IsHead(p) <=> p = log[n].id
<1>1. log[n] \in resident /\ n \in 1 .. n
  BY DEF Divided
<1>2. Heads = {log[n]}
  <2>1. ASSUME NEW r \in resident PROVE (\A m \in resident : m.prev # r.id) <=> r = log[n]
    <3>1. PICK k \in (base + 1) .. n : r = log[k]
      BY DEF Divided
    <3>2. CASE k = n
      <4>1. ASSUME NEW m \in resident PROVE m.prev # log[n].id
        <5>1. PICK j \in (base + 1) .. n : m = log[j]
          BY DEF Divided
        <5>2. CASE j = 1
          BY <5>1, <5>2, <1>1, GenesisAssumption DEF Lists, Record
        <5>3. CASE j # 1
          <6>1. m.prev = log[j - 1].id /\ j - 1 \in 1 .. n /\ j - 1 # n
            BY <5>1, <5>3 DEF Lists
          <6> QED
            BY <1>1, <6>1 DEF Lists
        <5> QED
          BY <5>2, <5>3
      <4> QED
        BY <3>1, <3>2, <4>1
    <3>3. CASE k # n
      <4>1. k \in 1 .. n /\ k + 1 \in (base + 1) .. n /\ k + 1 \in 2 .. n
        BY <3>3
      <4>2. log[k + 1] \in resident /\ log[k + 1].prev = r.id
        BY <3>1, <4>1 DEF Divided, Lists
      <4>3. r # log[n]
        BY <1>1, <3>1, <3>3, <4>1 DEF Lists
      <4> QED
        BY <4>2, <4>3
    <3> QED
      BY <3>2, <3>3
  <2> QED
    BY <1>1, <2>1 DEF Heads
<1>3. resident # {}
  BY <1>1
<1> QED
  BY <1>1, <1>2, <1>3 DEF IsHead

----------------------------------------------------------------------------
(* What holds with or without late batches: the types, and every body a    *)
(* header names in the archive.                                            *)

LEMMA InitHeld ==
    Init => Held
<1> SUFFICES ASSUME Init PROVE Held
  OBVIOUS
<1>1. GenesisDecision.id \in Id /\ GenesisDecision.content \in Content
  BY GenesisAssumption
<1>2. (CHOOSE x \in Content : TRUE) \in Content
  BY <1>1
<1>3. TypeOK
  <2>1. resident \in SUBSET Record
    BY <1>1 DEF Init, Record, Parent
  <2>2. identity \in [Id -> [known : BOOLEAN, content : Content, sealed : BOOLEAN]]
    BY <1>1, <1>2 DEF Init, NoIdentity
  <2>3. call \in [Call -> [pc : {"start", "sent", "failed", "unspent"} \cup Answers,
                           parent : Parent, tries : 0 .. MaxTries]]
    BY BoundAssumption DEF Init, Parent
  <2>4. sealer \in [Sealer -> [pc : {"idle", "read", "numbered", "put"},
                               slice : Slice \cup {<<>>}, after : Nat]]
    BY DEF Init, IdleSealer
  <2> QED
    BY <2>1, <2>2, <2>3, <2>4 DEF TypeOK, Init
<1>4. SealersHold
  BY DEF Init, IdleSealer, SealersHold
<1>5. SegmentsArchived
  BY DEF Init, SegmentsArchived
<1> QED
  BY <1>3, <1>4, <1>5 DEF Held

(* A call that goes on, or returns, is one of the typed ones.              *)
LEMMA CallsTyped ==
    ASSUME TypeOK, NEW c \in Call
    PROVE  /\ \A a \in Answers : Return(c, a) => (call \in CallTypes)'
           /\ \A pc \in {"failed", "unspent"} : Goto(c, pc) => (call \in CallTypes)'
<1>1. call \in CallTypes
  BY DEF TypeOK, CallTypes
<1>2. ASSUME NEW a \in Answers, Return(c, a) PROVE call' \in CallTypes
  <2>1. [pc |-> a, parent |-> GenesisParent, tries |-> 0] \in
          [pc : {"start", "sent", "failed", "unspent"} \cup Answers,
           parent : Parent, tries : 0 .. MaxTries]
    BY BoundAssumption DEF Parent
  <2> QED
    BY <1>1, <1>2, <2>1 DEF CallTypes, Return
<1>3. ASSUME NEW pc \in {"failed", "unspent"}, Goto(c, pc) PROVE call' \in CallTypes
  <2>1. [call[c] EXCEPT !.pc = pc] \in
          [pc : {"start", "sent", "failed", "unspent"} \cup Answers,
           parent : Parent, tries : 0 .. MaxTries]
    BY <1>1 DEF CallTypes
  <2>2. call' = [call EXCEPT ![c] = [call[c] EXCEPT !.pc = pc]]
    BY <1>3 DEF Goto
  <2> QED
    BY <1>1, <2>1, <2>2 DEF CallTypes
<1> QED
  BY <1>2, <1>3 DEF CallTypes

(* A sealer that is set to a typed state leaves the sealers typed.         *)
LEMMA SealersTyped ==
    ASSUME TypeOK, NEW s \in Sealer,
           NEW pc \in {"idle", "read", "numbered", "put"},
           NEW slice \in Slice \cup {<<>>}, NEW after \in Nat,
           sealer' = [sealer EXCEPT ![s] = [pc |-> pc, slice |-> slice, after |-> after]]
    PROVE  (sealer \in [Sealer -> [pc : {"idle", "read", "numbered", "put"},
                                   slice : Slice \cup {<<>>}, after : Nat]])'
BY DEF TypeOK

(* A function with one value replaced keeps its type.                      *)
LEMMA UpdateTyped ==
    ASSUME NEW D, NEW R, NEW f \in [D -> R], NEW x \in D, NEW v \in R
    PROVE  [f EXCEPT ![x] = v] \in [D -> R]
OBVIOUS

(* Appends keep it.                                                        *)
LEMMA AppendsHold ==
    ASSUME Held, NEW c \in Call,
           Offer(c) \/ LoseReply(c) \/ ClassifyIdentity(c) \/ ClassifyHead(c)
    PROVE  Held'
<1>1. TypeOK
  BY DEF Held
<1>2. UNCHANGED <<resident, identity, segments, archive, sealer>>
  BY DEF Offer, LoseReply, ClassifyIdentity, ClassifyHead
<1>3. (call \in CallTypes)' /\ (inflight \in SUBSET [call : Call, parent : Parent])'
  <2>1. CASE Offer(c)
    <3>1. CASE inflight' = inflight /\ Return(c, "error")
      BY <1>1, <3>1, CallsTyped DEF TypeOK, Answers
    <3>2. ASSUME TriesLeft(c), NEW p \in Parent,
                 call' = [call EXCEPT ![c] = [pc |-> "sent", parent |-> p,
                                              tries |-> call[c].tries + 1]],
                 inflight' = inflight \cup {[call |-> c, parent |-> p]}
          PROVE  (call \in CallTypes)' /\ (inflight \in SUBSET [call : Call, parent : Parent])'
      <4>1. call[c].tries + 1 \in 0 .. MaxTries
        BY <1>1, <3>2, BoundAssumption DEF TypeOK, TriesLeft
      <4> QED
        BY <1>1, <3>2, <4>1 DEF TypeOK, CallTypes
    <3> QED
      BY <2>1, <3>1, <3>2 DEF Offer
  <2>2. CASE LoseReply(c)
    BY <1>1, <2>2, CallsTyped DEF LoseReply, TypeOK
  <2>3. CASE ClassifyIdentity(c)
    BY <1>1, <2>3, CallsTyped DEF ClassifyIdentity, Spent, TypeOK, Answers
  <2>4. CASE ClassifyHead(c)
    <3>1. CASE Return(c, "error") /\ inflight' = inflight
      BY <1>1, <3>1, CallsTyped DEF TypeOK, Answers
    <3>2. CASE call' = [call EXCEPT ![c] = [@ EXCEPT !.pc = "start", !.parent = GenesisParent]]
                 /\ inflight' = inflight
      <4>1. call \in CallTypes /\ GenesisParent \in Parent
        BY <1>1 DEF TypeOK, CallTypes, Parent
      <4>2. [call EXCEPT ![c] = [@ EXCEPT !.pc = "start", !.parent = GenesisParent]] \in CallTypes
        BY <4>1 DEF CallTypes
      <4> QED
        BY <1>1, <3>2, <4>2 DEF TypeOK, CallTypes
    <3> QED
      BY <2>4, <3>1, <3>2 DEF ClassifyHead
  <2> QED
    BY <2>1, <2>2, <2>3, <2>4
<1>4. TypeOK'
  BY <1>1, <1>2, <1>3 DEF TypeOK, CallTypes
<1>5. SealersHold' /\ SegmentsArchived'
  BY <1>2 DEF Held, SealersHold, SegmentsArchived
<1> QED
  BY <1>4, <1>5 DEF Held

(* So do the batches, applied or lost.                                     *)
LEMMA BatchesHold ==
    ASSUME Held, NEW b \in inflight, Apply(b) \/ Lose(b)
    PROVE  Held'
<1>1. TypeOK /\ b.call \in Call /\ b.parent \in Parent
  BY DEF Held, TypeOK
<1>2. UNCHANGED <<segments, archive, sealer>> /\ inflight' = inflight \ {b}
  BY DEF Apply, Lose
<1>3. (call \in CallTypes)'
  <2>1. call' = call \/ Return(b.call, "landed") \/ Goto(b.call, "failed")
    BY DEF Apply, Lose
  <2>2. CASE call' = call
    BY <1>1, <2>2 DEF TypeOK, CallTypes
  <2> QED
    BY <1>1, <2>1, <2>2, CallsTyped DEF Answers
<1>4. (resident \in SUBSET Record)'
        /\ (identity \in [Id -> [known : BOOLEAN, content : Content, sealed : BOOLEAN]])'
  <2>1. CASE UNCHANGED <<resident, identity>>
    BY <1>1, <2>1 DEF TypeOK
  <2>2. CASE /\ resident' = resident \cup
                   {[id |-> Wants[b.call].id, content |-> Wants[b.call].content,
                     prev |-> b.parent]}
             /\ identity' = [identity EXCEPT ![Wants[b.call].id] =
                   [known |-> TRUE, content |-> Wants[b.call].content, sealed |-> FALSE]]
    BY <1>1, <2>2, WantsAssumption DEF TypeOK, Record
  <2> QED
    BY <2>1, <2>2 DEF Apply, Lose
<1>5. TypeOK'
  BY <1>1, <1>2, <1>3, <1>4 DEF TypeOK, CallTypes
<1>6. SealersHold' /\ SegmentsArchived'
  BY <1>2 DEF Held, SealersHold, SegmentsArchived
<1> QED
  BY <1>5, <1>6 DEF Held

(* So do the reads of a seal, its body and its abandonment.                *)
LEMMA SealsHold ==
    ASSUME Held, NEW s \in Sealer,
           ReadRecords(s) \/ ReadSegments(s) \/ PutBody(s) \/ AbandonSeal(s)
    PROVE  Held'
<1>1. TypeOK /\ SealersHold /\ SegmentsArchived
  BY DEF Held
<1>2. UNCHANGED <<resident, identity, segments, call, inflight>>
  BY DEF ReadRecords, ReadSegments, PutBody, AbandonSeal
<1>3. Len(segments) \in Nat /\ IdleSealer = [pc |-> "idle", slice |-> <<>>, after |-> 0]
  BY <1>1 DEF TypeOK, IdleSealer
<1>4. ASSUME archive' = archive, sealer' = [sealer EXCEPT ![s] = IdleSealer]
      PROVE  Held'
  <2>1. TypeOK'
    <3>1. (sealer \in [Sealer -> [pc : {"idle", "read", "numbered", "put"},
                                  slice : Slice \cup {<<>>}, after : Nat]])'
      BY <1>1, <1>3, <1>4, SealersTyped
    <3> QED
      BY <1>1, <1>2, <1>4, <3>1 DEF TypeOK
  <2>2. SealersHold'
    BY <1>1, <1>2, <1>3, <1>4 DEF SealersHold, TypeOK
  <2> QED
    BY <1>1, <1>2, <1>4, <2>1, <2>2 DEF Held, SegmentsArchived
<1>5. CASE ReadRecords(s)
  <2>1. PICK slice \in [1 .. SegmentSize -> resident] :
            sealer' = [sealer EXCEPT ![s] = [pc |-> "read", slice |-> slice, after |-> 0]]
    BY <1>5 DEF ReadRecords
  <2>2. slice \in Slice /\ archive' = archive
    BY <1>1, <1>5 DEF Slice, TypeOK, ReadRecords
  <2>3. TypeOK'
    <3>1. (sealer \in [Sealer -> [pc : {"idle", "read", "numbered", "put"},
                                  slice : Slice \cup {<<>>}, after : Nat]])'
      BY <1>1, <2>1, <2>2, SealersTyped
    <3> QED
      BY <1>1, <1>2, <2>2, <3>1 DEF TypeOK
  <2>4. SealersHold'
    BY <1>1, <1>2, <1>3, <2>1, <2>2 DEF SealersHold, TypeOK
  <2> QED
    BY <1>1, <1>2, <2>2, <2>3, <2>4 DEF Held, SegmentsArchived
<1>6. ASSUME (sealer \in [Sealer -> [pc : {"idle", "read", "numbered", "put"},
                                      slice : Slice \cup {<<>>}, after : Nat]])',
             \A t \in Sealer \ {s} : sealer'[t] = sealer[t],
             sealer[s].pc # "idle", sealer'[s].slice = sealer[s].slice,
             sealer'[s].after <= Len(segments),
             sealer'[s].pc = "put" => sealer[s].slice \in archive',
             archive \subseteq archive', archive' \subseteq archive \cup {sealer[s].slice}
      PROVE  Held'
  <2>1. sealer[s].slice \in Slice
    BY <1>1, <1>6 DEF SealersHold
  <2>2. TypeOK'
    <3>1. (archive \in SUBSET Slice)'
      BY <1>1, <1>6, <2>1 DEF TypeOK
    <3> QED
      BY <1>1, <1>2, <1>6, <3>1 DEF TypeOK
  <2>3. SealersHold'
    <3>1. ASSUME NEW t \in Sealer, sealer'[t].pc # "idle"
          PROVE  /\ sealer'[t].slice \in Slice /\ sealer'[t].after <= Len(segments')
                 /\ sealer'[t].pc = "put" => sealer'[t].slice \in archive'
      <4>1. CASE t = s
        BY <1>2, <1>6, <2>1, <4>1
      <4>2. CASE t # s
        BY <1>1, <1>2, <1>6, <3>1, <4>2 DEF SealersHold
      <4> QED
        BY <4>1, <4>2
    <3> QED
      BY <3>1 DEF SealersHold
  <2> QED
    BY <1>1, <1>2, <1>6, <2>2, <2>3 DEF Held, SegmentsArchived
<1>7. CASE ReadSegments(s)
  <2>1. /\ sealer[s].pc # "idle" /\ archive' = archive
        /\ \A t \in Sealer \ {s} : sealer'[t] = sealer[t]
        /\ sealer'[s].slice = sealer[s].slice /\ sealer'[s].after = Len(segments)
        /\ sealer'[s].pc = "numbered"
    BY <1>1, <1>7 DEF ReadSegments, TypeOK
  <2>2. (sealer \in [Sealer -> [pc : {"idle", "read", "numbered", "put"},
                                slice : Slice \cup {<<>>}, after : Nat]])'
    BY <1>1, <1>3, <1>7 DEF ReadSegments, TypeOK
  <2> QED
    BY <1>3, <1>6, <2>1, <2>2
<1>8. CASE PutBody(s)
  <2>1. sealer[s].after \in Nat /\ sealer[s].after <= Len(segments) /\ sealer[s].pc # "idle"
    BY <1>1, <1>8 DEF TypeOK, SealersHold, PutBody
  <2>2. CASE archive' = archive \cup {sealer[s].slice}
               /\ sealer' = [sealer EXCEPT ![s].pc = "put"]
    <3>1. /\ \A t \in Sealer \ {s} : sealer'[t] = sealer[t]
          /\ sealer'[s].slice = sealer[s].slice /\ sealer'[s].after = sealer[s].after
          /\ sealer'[s].pc = "put"
      BY <1>1, <2>2 DEF TypeOK
    <3>2. (sealer \in [Sealer -> [pc : {"idle", "read", "numbered", "put"},
                                  slice : Slice \cup {<<>>}, after : Nat]])'
      BY <1>1, <2>2 DEF TypeOK
    <3> QED
      BY <1>6, <2>1, <2>2, <3>1, <3>2
  <2> QED
    BY <1>4, <1>8, <2>2 DEF PutBody
<1>9. CASE AbandonSeal(s)
  BY <1>4, <1>9 DEF AbandonSeal
<1> QED
  BY <1>5, <1>7, <1>8, <1>9

(* So does the transaction of a seal.                                      *)
LEMMA CommitHolds ==
    ASSUME Held, NEW s \in Sealer, CommitSeal(s)
    PROVE  /\ Held'
           /\ Len(segments') = Len(segments) + 1
           /\ \A k \in 1 .. Len(segments) : segments'[k] = segments[k]
           /\ segments'[Len(segments) + 1] = sealer[s].slice
<1>1. TypeOK /\ SealersHold /\ SegmentsArchived
  BY DEF Held
<1>2. sealer[s].slice \in Slice /\ sealer[s].slice \in archive
  BY <1>1 DEF CommitSeal, SealersHold
<1>3. segments \in Seq(Slice) /\ segments' = Append(segments, sealer[s].slice)
  BY <1>1 DEF CommitSeal, TypeOK
<1>4. /\ segments' \in Seq(Slice) /\ Len(segments') = Len(segments) + 1
      /\ \A k \in 1 .. Len(segments) : segments'[k] = segments[k]
      /\ segments'[Len(segments) + 1] = sealer[s].slice
  BY <1>2, <1>3
<1>5. TypeOK'
  <2>1. (sealer \in [Sealer -> [pc : {"idle", "read", "numbered", "put"},
                                slice : Slice \cup {<<>>}, after : Nat]])'
    <3>1. sealer' = [sealer EXCEPT ![s] = [pc |-> "idle", slice |-> <<>>, after |-> 0]]
      BY DEF CommitSeal, IdleSealer
    <3>2. [pc |-> "idle", slice |-> <<>>, after |-> 0]
            \in [pc : {"idle", "read", "numbered", "put"}, slice : Slice \cup {<<>>}, after : Nat]
      OBVIOUS
    <3>3. sealer \in [Sealer -> [pc : {"idle", "read", "numbered", "put"},
                                  slice : Slice \cup {<<>>}, after : Nat]]
      BY <1>1 DEF TypeOK
    <3> QED
      <4> DEFINE R == [pc : {"idle", "read", "numbered", "put"}, slice : Slice \cup {<<>>},
                       after : Nat]
                 w == [pc |-> "idle", slice |-> <<>>, after |-> 0]
      <4>1. sealer' = [sealer EXCEPT ![s] = w] /\ w \in R /\ sealer \in [Sealer -> R]
        BY <3>1, <3>2, <3>3
      <4>2. sealer' \in [Sealer -> R]
        <5> HIDE DEF R, w
        <5> QED
          BY <4>1, UpdateTyped
      <4> QED
        BY <4>2
  <2>2. (resident \in SUBSET Record)'
    BY <1>1 DEF CommitSeal, TypeOK
  <2>3. (identity \in [Id -> [known : BOOLEAN, content : Content, sealed : BOOLEAN]])'
    <3> DEFINE R == [known : BOOLEAN, content : Content, sealed : BOOLEAN]
               ids == {sealer[s].slice[k].id : k \in 1 .. SegmentSize}
    <3>1. identity' = [i \in Id |-> IF i \in ids THEN [identity[i] EXCEPT !.sealed = TRUE]
                                   ELSE identity[i]]
      BY DEF CommitSeal
    <3>2. \A i \in Id : identity[i] \in R
      BY <1>1 DEF TypeOK
    <3> HIDE DEF ids
    <3>3. \A r \in R : [r EXCEPT !.sealed = TRUE] \in R
      OBVIOUS
    <3> HIDE DEF R
    <3>4. identity' \in [Id -> R]
      BY <3>1, <3>2, <3>3
    <3> QED
      BY <3>4 DEF R
  <2> QED
    BY <1>1, <1>4, <2>1, <2>2, <2>3 DEF CommitSeal, TypeOK
<1>6. SealersHold'
  BY <1>1, <1>3, <1>4 DEF CommitSeal, SealersHold, IdleSealer, TypeOK
<1>7. SegmentsArchived'
  BY <1>1, <1>2, <1>3, <1>4 DEF CommitSeal, SegmentsArchived
<1> QED
  BY <1>4, <1>5, <1>6, <1>7 DEF Held

LEMMA NextHeld ==
    Held /\ [Next]_vars => Held'
<1> SUFFICES ASSUME Held, [Next]_vars PROVE Held'
  OBVIOUS
<1>1. CASE UNCHANGED vars
  BY <1>1 DEF vars, Held, TypeOK, SealersHold, SegmentsArchived
<1>2. CASE Next
  BY <1>2, AppendsHold, BatchesHold, SealsHold, CommitHolds DEF Next
<1> QED
  BY <1>1, <1>2

LEMMA HeldAlways ==
    Spec => []Held
BY InitHeld, NextHeld, PTL DEF Spec

(* Every state the ledger reaches is of its types, late batches or not.    *)
THEOREM LedgerTypeCorrect ==
    Spec => []TypeOK
<1>1. Held => TypeOK
  BY DEF Held
<1> QED
  BY <1>1, HeldAlways, PTL

(* No header is ever written of a body the archive does not have, whoever  *)
(* seals, dies or loses (seal.rs, FR-004).                                 *)
THEOREM SegmentsArchivedHolds ==
    Spec => []SegmentsArchived
<1>1. Held => SegmentsArchived
  BY DEF Held
<1> QED
  BY <1>1, HeldAlways, PTL

----------------------------------------------------------------------------
(* The log.  A step keeps it, extends it by one record, or moves the border*)
(* between its sealed and its resident part.                               *)

LEMMA InitIInv ==
    Init => IInv
<1> SUFFICES ASSUME Init PROVE IInv
  OBVIOUS
<1>1. Held
  BY InitHeld
<1>2. SegmentsLinked
  BY DEF Init, SegmentsLinked
<1> DEFINE genesis == [id |-> GenesisDecision.id, content |-> GenesisDecision.content,
                       prev |-> GenesisParent]
           log == [i \in 1 .. 1 |-> genesis]
<1>3. genesis \in Record
  BY GenesisAssumption DEF Record, Parent
<1>4. log \in [1 .. 1 -> Record] /\ log[1] = genesis
  BY <1>3
<1>5. Lists(log, 1)
  BY <1>4 DEF Lists
<1>6. Divided(log, 1, 0)
  BY <1>4 DEF Divided, Init, Sealed, ResidentRoot
<1>7. Stamped(log, 1, 0)
  <2>1. \A i \in Id : identity[i] = IF i = GenesisDecision.id
                                    THEN [known |-> TRUE, content |-> GenesisDecision.content,
                                          sealed |-> FALSE]
                                    ELSE NoIdentity
    BY DEF Init
  <2>2. ~NoIdentity.known /\ GenesisDecision.id \in Id
    BY GenesisAssumption DEF NoIdentity
  <2> QED
    BY <1>4, <2>1, <2>2 DEF Stamped
<1>8. Pending(log, 1, 0) /\ Sealing(log, 1, 0)
  BY DEF Pending, Sealing, Init, IdleSealer
<1> HIDE DEF log
<1>9. HasLog
  <2>1. LogIs(log, 1, 0) /\ log \in [1 .. 1 -> Record]
    BY <1>4, <1>5, <1>6, <1>7, <1>8 DEF LogIs
  <2>2. 1 \in Nat /\ 0 \in Nat /\ 0 < 1
    OBVIOUS
  <2> QED
    BY <2>1, <2>2 DEF HasLog
<1> QED
  BY <1>1, <1>2, <1>9 DEF IInv

(* A step that leaves the tables and the sealers alone, and sends batches  *)
(* on the head only, keeps the log.                                        *)
LEMMA LogKept ==
    ASSUME NEW n \in Nat, NEW base \in Nat, base < n, NEW log \in [1 .. n -> Record],
           LogIs(log, n, base), UNCHANGED <<resident, identity, segments, archive, sealer>>,
           \A b \in inflight' : b \in inflight \/ b.parent = log[n].id
    PROVE  LogIs(log, n, base)'
<1>1. Lists(log, n)' /\ Divided(log, n, base)' /\ Stamped(log, n, base)'
  <2>1. Lists(log, n)'
    BY DEF LogIs, Lists
  <2>2. Divided(log, n, base)'
    <3>1. resident' = resident /\ Sealed' = Sealed /\ ResidentRoot' = ResidentRoot
      BY DEF Sealed, ResidentRoot
    <3> QED
      BY <3>1 DEF LogIs, Divided
  <2>3. Stamped(log, n, base)'
    BY DEF LogIs, Stamped
  <2> QED
    BY <2>1, <2>2, <2>3
<1>2. Pending(log, n, base)'
  BY DEF LogIs, Pending
<1>3. Sealing(log, n, base)'
  BY DEF LogIs, Sealing, Runs
<1> QED
  BY <1>1, <1>2, <1>3 DEF LogIs

(* The steps of a call do that.                                            *)
LEMMA AppendsKeepLog ==
    ASSUME NEW n \in Nat, NEW base \in Nat, base < n, NEW log \in [1 .. n -> Record],
           LogIs(log, n, base), NEW c \in Call,
           Offer(c) \/ LoseReply(c) \/ ClassifyIdentity(c) \/ ClassifyHead(c)
    PROVE  LogIs(log, n, base)'
<1>1. UNCHANGED <<resident, identity, segments, archive, sealer>>
  BY DEF Offer, LoseReply, ClassifyIdentity, ClassifyHead
<1>2. \A p \in Parent : IsHead(p) => p = log[n].id
  BY HeadIsLast DEF LogIs
<1>3. \A b \in inflight' : b \in inflight \/ b.parent = log[n].id
  BY <1>2 DEF Offer, LoseReply, ClassifyIdentity, ClassifyHead
<1> QED
  BY <1>1, <1>3, LogKept

(* So do a batch that is lost and one that is refused.                     *)
LEMMA RefusalKeepsLog ==
    ASSUME NEW n \in Nat, NEW base \in Nat, base < n, NEW log \in [1 .. n -> Record],
           LogIs(log, n, base), NEW b \in inflight,
           Lose(b) \/ (Apply(b) /\ ~Admissible(b))
    PROVE  LogIs(log, n, base)'
<1>1. UNCHANGED <<resident, identity, segments, archive, sealer>>
  BY DEF Lose, Apply
<1>2. \A a \in inflight' : a \in inflight
  BY DEF Lose, Apply
<1> QED
  BY <1>1, <1>2, LogKept

(* A batch that is applied was built on the last record, and its id is new.*)
LEMMA AppliedAtTheEnd ==
    ASSUME NEW n \in Nat, NEW base \in Nat, base < n, NEW log \in [1 .. n -> Record],
           LogIs(log, n, base), NEW b \in inflight, Wants[b.call].id \in Id, Admissible(b)
    PROVE  b.parent = log[n].id /\ \A k \in 1 .. n : log[k].id # Wants[b.call].id
<1>1. /\ Lists(log, n) /\ Divided(log, n, base) /\ Stamped(log, n, base)
      /\ Pending(log, n, base)
  BY DEF LogIs
<1>2. b.parent = log[n].id
  <2>1. PICK i \in 1 .. n : base <= i /\ b.parent = log[i].id
    BY <1>1 DEF Pending
  <2>2. ASSUME i # n PROVE FALSE
    <3>1. i + 1 \in (base + 1) .. n /\ i + 1 \in 2 .. n
      BY <2>1, <2>2
    <3>2. log[i + 1] \in resident /\ log[i + 1].prev = b.parent
      BY <1>1, <2>1, <3>1 DEF Divided, Lists
    <3> QED
      BY <3>2 DEF Admissible
  <2> QED
    BY <2>1, <2>2
<1>3. \A k \in 1 .. n : log[k].id # Wants[b.call].id
  BY <1>1 DEF Stamped, Admissible
<1> QED
  BY <1>2, <1>3

(* A batch that is applied adds a record after the last one.               *)
LEMMA ApplyExtends ==
    ASSUME Held, NEW n \in Nat, NEW base \in Nat, base < n, NEW log \in [1 .. n -> Record],
           LogIs(log, n, base), NEW b \in inflight, Apply(b), Admissible(b),
           NEW new, new = [id |-> Wants[b.call].id, content |-> Wants[b.call].content,
                           prev |-> b.parent],
           NEW longer, longer = [i \in 1 .. (n + 1) |-> IF i = n + 1 THEN new ELSE log[i]]
    PROVE  /\ longer \in [1 .. (n + 1) -> Record]
           /\ new.prev = log[n].id
           /\ \A k \in 1 .. n : log[k].id # new.id
           /\ LogIs(longer, n + 1, base)'
<1>1. TypeOK /\ b.call \in Call /\ b.parent \in Parent
  BY DEF Held, TypeOK
<1>2. /\ resident' = resident \cup {new}
      /\ identity' = [identity EXCEPT ![new.id] =
            [known |-> TRUE, content |-> new.content, sealed |-> FALSE]]
      /\ inflight' = inflight \ {b} /\ UNCHANGED <<segments, archive, sealer>>
  BY DEF Apply
<1>3. /\ Lists(log, n) /\ Divided(log, n, base) /\ Stamped(log, n, base)
      /\ Pending(log, n, base) /\ Sealing(log, n, base)
  BY DEF LogIs
<1>4. new \in Record /\ n \in 1 .. n /\ n + 1 \in Nat
  BY <1>1, WantsAssumption DEF Record
<1>5. longer \in [1 .. (n + 1) -> Record]
  BY <1>4
<1>6. longer[n + 1] = new /\ \A i \in 1 .. n : longer[i] = log[i]
  BY <1>4
<1>7. new.prev = log[n].id
  BY <1>1, AppliedAtTheEnd, WantsAssumption
<1>8. \A k \in 1 .. n : log[k].id # new.id
  BY <1>1, AppliedAtTheEnd, WantsAssumption
<1> HIDE DEF Admissible
<1>9. Lists(longer, n + 1)'
  <2>1. longer[1].prev = GenesisParent
    BY <1>3, <1>4, <1>6 DEF Lists
  <2>2. \A i \in 2 .. (n + 1) : longer[i].prev = longer[i - 1].id
    <3>1. ASSUME NEW i \in 2 .. (n + 1) PROVE longer[i].prev = longer[i - 1].id
      <4>1. CASE i = n + 1
        BY <1>4, <1>6, <1>7, <4>1
      <4>2. CASE i # n + 1
        <5>1. i \in 2 .. n /\ i \in 1 .. n /\ i - 1 \in 1 .. n
          BY <4>2
        <5> QED
          BY <1>3, <1>6, <5>1 DEF Lists
      <4> QED
        BY <4>1, <4>2
    <3> QED
      BY <3>1
  <2>3. \A i, j \in 1 .. (n + 1) : longer[i].id = longer[j].id => i = j
    BY <1>3, <1>6, <1>8 DEF Lists
  <2> QED
    BY <1>5, <2>1, <2>2, <2>3 DEF Lists
<1>10. Divided(longer, n + 1, base)'
  <2>1. resident' = {longer[i] : i \in (base + 1) .. (n + 1)}
    <3>1. \A i \in (base + 1) .. n : longer[i] = log[i]
      BY <1>6
    <3>2. \A r : r \in {longer[i] : i \in (base + 1) .. (n + 1)}
                   <=> r = new \/ r \in {log[i] : i \in (base + 1) .. n}
      BY <1>6, <3>1
    <3> QED
      BY <1>2, <1>3, <3>2 DEF Divided
  <2>2. Sealed' = {longer[i] : i \in 1 .. base}
    <3>1. Sealed' = Sealed
      BY <1>2 DEF Sealed
    <3>2. \A i \in 1 .. base : longer[i] = log[i]
      BY <1>6
    <3> QED
      BY <1>3, <3>1, <3>2 DEF Divided
  <2>3. ResidentRoot' = IF base = 0 THEN GenesisParent ELSE longer[base].id
    <3>1. ResidentRoot' = ResidentRoot
      BY <1>2 DEF ResidentRoot
    <3>2. base # 0 => longer[base] = log[base]
      BY <1>6
    <3> QED
      BY <1>3, <3>1, <3>2 DEF Divided
  <2> QED
    BY <2>1, <2>2, <2>3 DEF Divided
<1>11. Stamped(longer, n + 1, base)'
  <2>1. identity \in [Id -> [known : BOOLEAN, content : Content, sealed : BOOLEAN]]
          /\ new.id \in Id
    BY <1>1, <1>4 DEF TypeOK, Record
  <2>2. ASSUME NEW i \in Id, identity'[i].known
        PROVE  \E k \in 1 .. (n + 1) : longer[k].id = i
    <3>1. CASE i = new.id
      BY <1>6, <1>4, <3>1
    <3>2. CASE i # new.id
      <4>1. PICK k \in 1 .. n : log[k].id = i
        BY <1>2, <1>3, <2>1, <2>2, <3>2 DEF Stamped
      <4> QED
        BY <1>6, <4>1
    <3> QED
      BY <3>1, <3>2
  <2>3. ASSUME NEW k \in 1 .. (n + 1)
        PROVE  /\ identity'[longer[k].id].known
               /\ identity'[longer[k].id].content = longer[k].content
               /\ identity'[longer[k].id].sealed <=> k <= base
    <3>1. CASE k = n + 1
      BY <1>2, <1>6, <2>1, <3>1
    <3>2. CASE k # n + 1
      <4>1. k \in 1 .. n /\ longer[k] = log[k]
        BY <1>6, <3>2
      <4>2. log[k] \in Record /\ log[k].id \in Id
        BY <4>1 DEF Record
      <4>3. identity'[log[k].id] = identity[log[k].id]
        BY <1>2, <1>8, <2>1, <4>1, <4>2
      <4> QED
        BY <1>3, <4>1, <4>3 DEF Stamped
    <3> QED
      BY <3>1, <3>2
  <2> QED
    BY <2>2, <2>3 DEF Stamped
<1>12. Pending(longer, n + 1, base)'
  <2>1. ASSUME NEW a \in inflight'
        PROVE  \E i \in 1 .. (n + 1) : base <= i /\ a.parent = longer[i].id
    <3>1. PICK i \in 1 .. n : base <= i /\ a.parent = log[i].id
      BY <1>2, <1>3, <2>1 DEF Pending
    <3> QED
      BY <1>6, <3>1
  <2> QED
    BY <2>1 DEF Pending
<1>13. Sealing(longer, n + 1, base)'
  <2>1. \A slice : Runs(slice, log, n, base) => Runs(slice, longer, n + 1, base)
    BY <1>6, PolicyAssumption DEF Runs
  <2> QED
    BY <1>2, <1>3, <2>1 DEF Sealing, Runs
<1> QED
  BY <1>5, <1>7, <1>8, <1>9, <1>10, <1>11, <1>12, <1>13 DEF LogIs

(* The reads of a seal, its body and its abandonment keep the log.         *)
LEMMA SealsKeepLog ==
    ASSUME Held, NEW n \in Nat, NEW base \in Nat, base < n, NEW log \in [1 .. n -> Record],
           LogIs(log, n, base), NEW s \in Sealer,
           ReadRecords(s) \/ ReadSegments(s) \/ PutBody(s) \/ AbandonSeal(s)
    PROVE  LogIs(log, n, base)'
<1>1. TypeOK /\ SealersHold
  BY DEF Held
<1>2. /\ UNCHANGED <<resident, identity, segments, call, inflight>>
      /\ archive \subseteq archive'
      /\ \A t \in Sealer \ {s} : sealer'[t] = sealer[t]
  BY <1>1 DEF ReadRecords, ReadSegments, PutBody, AbandonSeal, TypeOK
<1>3. Lists(log, n)' /\ Divided(log, n, base)' /\ Stamped(log, n, base)'
        /\ Pending(log, n, base)'
  <2>1. Lists(log, n)'
    BY DEF LogIs, Lists
  <2>2. Divided(log, n, base)'
    <3>1. resident' = resident /\ Sealed' = Sealed /\ ResidentRoot' = ResidentRoot
      BY <1>2 DEF Sealed, ResidentRoot
    <3> QED
      BY <3>1 DEF LogIs, Divided
  <2>3. Stamped(log, n, base)' /\ Pending(log, n, base)'
    BY <1>2 DEF LogIs, Stamped, Pending
  <2> QED
    BY <2>1, <2>2, <2>3
<1>4. /\ sealer'[s].pc \in {"read", "numbered"} =>
            Runs(sealer'[s].slice, log, n, base) \/ sealer'[s].slice \in archive'
      /\ sealer'[s].pc = "put" => Runs(sealer'[s].slice, log, n, base)
  <2>1. CASE ReadRecords(s)
    <3>1. PICK slice \in [1 .. SegmentSize -> resident] :
              /\ Oldest(slice)
              /\ sealer' = [sealer EXCEPT ![s] = [pc |-> "read", slice |-> slice, after |-> 0]]
      BY <2>1 DEF ReadRecords
    <3>2. base + SegmentSize < n
      <4>1. Cardinality(resident) = n - base
        BY ResidentCount DEF LogIs
      <4> QED
        BY <2>1, <4>1, PolicyAssumption DEF ReadRecords, SealDue
    <3>3. Runs(slice, log, n, base)
      <4>1. Lists(log, n) /\ Divided(log, n, base)
        BY DEF LogIs
      <4>2. \A i \in 1 .. SegmentSize : base + i <= n /\ slice[i] = log[base + i]
        <5>1. Oldest(slice)
          BY <3>1
        <5>2. \A any : Oldest(any) =>
                  \A i \in 1 .. SegmentSize : base + i <= n /\ any[i] = log[base + i]
          BY <4>1, OldestRuns
        <5> QED
          BY <5>1, <5>2
      <4> QED
        BY <3>2, <4>2 DEF Runs
    <3>4. sealer'[s].pc = "read" /\ sealer'[s].slice = slice
      BY <1>1, <3>1 DEF TypeOK
    <3> QED
      BY <3>3, <3>4
  <2>2. CASE ReadSegments(s)
    <3>1. sealer[s].pc = "read" /\ sealer'[s].pc = "numbered"
            /\ sealer'[s].slice = sealer[s].slice
      BY <1>1, <2>2 DEF ReadSegments, TypeOK
    <3>2. Runs(sealer[s].slice, log, n, base) \/ sealer[s].slice \in archive
      BY <3>1 DEF LogIs, Sealing
    <3> QED
      BY <1>2, <3>1, <3>2
  <2>3. CASE PutBody(s)
    <3>1. CASE KeyIsFree(sealer[s].slice) /\ sealer' = [sealer EXCEPT ![s].pc = "put"]
      <4>1. sealer[s].pc = "numbered" /\ sealer'[s].pc = "put"
              /\ sealer'[s].slice = sealer[s].slice
        BY <1>1, <2>3, <3>1 DEF PutBody, TypeOK
      <4>2. sealer[s].slice \notin archive
        BY <3>1 DEF KeyIsFree
      <4>3. Runs(sealer[s].slice, log, n, base)
        BY <4>1, <4>2 DEF LogIs, Sealing
      <4> QED
        BY <4>1, <4>3
    <3>2. CASE sealer' = [sealer EXCEPT ![s] = IdleSealer]
      BY <1>1, <3>2 DEF IdleSealer, TypeOK
    <3> QED
      BY <2>3, <3>1, <3>2 DEF PutBody
  <2>4. CASE AbandonSeal(s)
    BY <1>1, <2>4 DEF AbandonSeal, IdleSealer, TypeOK
  <2> QED
    BY <2>1, <2>2, <2>3, <2>4
<1>5. Sealing(log, n, base)'
  <2>1. ASSUME NEW t \in Sealer
        PROVE  /\ sealer'[t].pc \in {"read", "numbered"} =>
                     Runs(sealer'[t].slice, log, n, base) \/ sealer'[t].slice \in archive'
               /\ sealer'[t].pc = "put" /\ sealer'[t].after = Len(segments') =>
                     Runs(sealer'[t].slice, log, n, base)
    <3>1. CASE t = s
      BY <1>4, <3>1
    <3>2. CASE t # s
      BY <1>2, <3>2 DEF LogIs, Sealing
    <3> QED
      BY <3>1, <3>2
  <2> QED
    BY <2>1 DEF Sealing, Runs
<1> QED
  BY <1>3, <1>5 DEF LogIs

(* The transaction of a seal moves the border by one segment, and the log  *)
(* stays what it was.                                                      *)
LEMMA CommitMovesBorder ==
    ASSUME ~StaleAppends, Held, NEW n \in Nat, NEW base \in Nat, base < n,
           NEW log \in [1 .. n -> Record], LogIs(log, n, base),
           NEW s \in Sealer, CommitSeal(s),
           NEW next, next = base + SegmentSize
    PROVE  /\ next \in Nat /\ next < n /\ LogIs(log, n, next)'
           /\ Linked(sealer[s].slice, ResidentRoot)
<1> DEFINE slice == sealer[s].slice
           ids == {slice[i].id : i \in 1 .. SegmentSize}
<1>1. TypeOK /\ SealersHold /\ SegmentSize \in Nat /\ 1 <= SegmentSize
  BY PolicyAssumption DEF Held
<1>2. /\ sealer[s].pc = "put" /\ sealer[s].after = Len(segments) /\ Quiet(slice)
      /\ segments' = Append(segments, slice)
      /\ resident' = {r \in resident : r.id \notin ids}
      /\ identity' = [i \in Id |-> IF i \in ids THEN [identity[i] EXCEPT !.sealed = TRUE]
                                   ELSE identity[i]]
      /\ sealer' = [sealer EXCEPT ![s] = IdleSealer]
      /\ UNCHANGED <<archive, call, inflight>>
  BY DEF CommitSeal
<1>3. /\ Lists(log, n) /\ Divided(log, n, base) /\ Stamped(log, n, base)
      /\ Pending(log, n, base) /\ Sealing(log, n, base)
  BY DEF LogIs
<1>4. /\ slice \in Slice /\ slice \in archive /\ next < n
      /\ \A i \in 1 .. SegmentSize : slice[i] = log[base + i]
  BY <1>1, <1>2, <1>3 DEF SealersHold, Sealing, Runs
<1>5. /\ Len(segments) \in Nat /\ Len(segments') = Len(segments) + 1
      /\ \A k \in 1 .. Len(segments) : segments'[k] = segments[k]
      /\ segments'[Len(segments) + 1] = slice
  BY CommitHolds, <1>1 DEF TypeOK
<1>6. next \in Nat
  BY <1>1
<1>7. \A k \in 1 .. n : log[k].id \in ids <=> k \in (base + 1) .. next
  <2>1. ASSUME NEW k \in 1 .. n, log[k].id \in ids PROVE k \in (base + 1) .. next
    <3>1. PICK i \in 1 .. SegmentSize : log[k].id = log[base + i].id
      BY <1>4, <2>1
    <3>2. base + i \in 1 .. n
      BY <1>1, <1>4
    <3> QED
      BY <1>1, <1>3, <3>1, <3>2 DEF Lists
  <2>2. ASSUME NEW k \in (base + 1) .. next PROVE log[k].id \in ids
    <3>1. k - base \in 1 .. SegmentSize /\ base + (k - base) = k
      BY <1>1
    <3> QED
      BY <1>4, <3>1
  <2> QED
    BY <2>1, <2>2
<1> HIDE DEF ids
<1>8. Lists(log, n)'
  BY <1>3 DEF Lists
<1>9. Divided(log, n, next)'
  <2>1. resident' = {log[i] : i \in (next + 1) .. n}
    <3>1. ASSUME NEW r PROVE r \in resident' <=> r \in {log[i] : i \in (next + 1) .. n}
      <4>1. ASSUME r \in resident' PROVE r \in {log[i] : i \in (next + 1) .. n}
        <5>1. PICK k \in (base + 1) .. n : r = log[k]
          BY <1>2, <1>3, <4>1 DEF Divided
        <5>2. k \notin (base + 1) .. next /\ k \in 1 .. n
          BY <1>2, <1>7, <4>1, <5>1
        <5> QED
          BY <1>6, <5>1, <5>2
      <4>2. ASSUME NEW k \in (next + 1) .. n, r = log[k] PROVE r \in resident'
        <5>1. k \in 1 .. n /\ k \in (base + 1) .. n /\ k \notin (base + 1) .. next
          BY <1>1, <4>2
        <5> QED
          BY <1>2, <1>3, <1>7, <4>2, <5>1 DEF Divided
      <4> QED
        BY <4>1, <4>2
    <3> QED
      BY <3>1
  <2>2. Sealed' = {log[i] : i \in 1 .. next}
    <3>1. ASSUME NEW r
          PROVE  r \in Sealed' <=> r \in Sealed \/ \E i \in 1 .. SegmentSize : r = slice[i]
      <4>1. \A k \in 1 .. Len(segments') :
                \/ k \in 1 .. Len(segments) /\ segments'[k] = segments[k]
                \/ segments'[k] = slice
        BY <1>5
      <4>2. Len(segments) + 1 \in 1 .. Len(segments')
              /\ \A k \in 1 .. Len(segments) : k \in 1 .. Len(segments')
        BY <1>5
      <4>3. r \in Sealed' <=> \E k \in 1 .. Len(segments') : \E i \in 1 .. SegmentSize :
                                  r = segments'[k][i]
        BY DEF Sealed
      <4>4. r \in Sealed <=> \E k \in 1 .. Len(segments) : \E i \in 1 .. SegmentSize :
                                  r = segments[k][i]
        BY DEF Sealed
      <4> QED
        BY <1>5, <4>1, <4>2, <4>3, <4>4
    <3>2. ASSUME NEW r
          PROVE  (\E i \in 1 .. SegmentSize : r = slice[i])
                   <=> \E k \in (base + 1) .. next : r = log[k]
      <4>1. \A i \in 1 .. SegmentSize : base + i \in (base + 1) .. next
        BY <1>1
      <4>2. \A k \in (base + 1) .. next : k - base \in 1 .. SegmentSize /\ base + (k - base) = k
        BY <1>1
      <4>3. ASSUME NEW k \in (base + 1) .. next PROVE slice[k - base] = log[k]
        BY <1>4, <4>2
      <4> QED
        BY <1>4, <4>1, <4>2, <4>3
    <3>3. \A r : r \in Sealed <=> \E k \in 1 .. base : r = log[k]
      BY <1>3 DEF Divided
    <3>4. \A k : k \in 1 .. next <=> k \in 1 .. base \/ k \in (base + 1) .. next
      BY <1>1
    <3> QED
      BY <3>1, <3>2, <3>3, <3>4
  <2>3. ResidentRoot' = IF next = 0 THEN GenesisParent ELSE log[next].id
    <3>1. segments' # <<>> /\ segments'[Len(segments')] = slice
      BY <1>5
    <3>2. slice[SegmentSize] = log[next] /\ next # 0
      BY <1>1, <1>4
    <3> QED
      BY <3>1, <3>2 DEF ResidentRoot
  <2> QED
    BY <2>1, <2>2, <2>3 DEF Divided
<1>10. Stamped(log, n, next)'
  <2>1. \A i \in Id : /\ identity'[i].known = identity[i].known
                      /\ identity'[i].content = identity[i].content
                      /\ identity'[i].sealed = (i \in ids \/ identity[i].sealed)
    <3>1. identity \in [Id -> [known : BOOLEAN, content : Content, sealed : BOOLEAN]]
      BY <1>1 DEF TypeOK
    <3>2. ASSUME NEW i \in Id
          PROVE  /\ identity'[i].known = identity[i].known
                 /\ identity'[i].content = identity[i].content
                 /\ identity'[i].sealed = (i \in ids \/ identity[i].sealed)
      <4>1. CASE i \in ids
        BY <1>2, <3>1, <4>1
      <4>2. CASE i \notin ids
        BY <1>2, <3>1, <4>2
      <4> QED
        BY <4>1, <4>2
    <3> QED
      BY <3>2
  <2>2. \A i \in Id : identity'[i].known => \E k \in 1 .. n : log[k].id = i
    BY <1>3, <2>1 DEF Stamped
  <2>3. ASSUME NEW k \in 1 .. n
        PROVE  /\ identity'[log[k].id].known
               /\ identity'[log[k].id].content = log[k].content
               /\ identity'[log[k].id].sealed <=> k <= next
    <3>1. log[k] \in Record /\ log[k].id \in Id
      BY DEF Record
    <3>2. /\ identity[log[k].id].known /\ identity[log[k].id].content = log[k].content
          /\ identity[log[k].id].sealed <=> k <= base
      BY <1>3 DEF Stamped
    <3>3. k <= next <=> k \in (base + 1) .. next \/ k <= base
      BY <1>1
    <3> QED
      BY <1>7, <2>1, <3>1, <3>2, <3>3
  <2> QED
    BY <2>2, <2>3 DEF Stamped
<1>11. Pending(log, n, next)'
  <2>1. ASSUME NEW b \in inflight PROVE \E i \in 1 .. n : next <= i /\ b.parent = log[i].id
    <3>1. PICK i \in 1 .. n : base <= i /\ b.parent = log[i].id
      BY <1>3 DEF Pending
    <3>2. ASSUME i < next PROVE FALSE
      <4>1. i + 1 \in 2 .. n /\ i + 1 - base \in 1 .. SegmentSize
              /\ base + (i + 1 - base) = i + 1
        BY <1>1, <1>4, <3>1, <3>2
      <4>2. slice[i + 1 - base] = log[i + 1]
        BY <1>4, <4>1
      <4>3. log[i + 1].prev = log[i + 1 - 1].id
        BY <1>3, <4>1 DEF Lists
      <4>4. slice[i + 1 - base].prev = b.parent
        BY <3>1, <4>2, <4>3
      <4> QED
        BY <1>2, <4>1, <4>4 DEF Quiet
    <3> QED
      BY <1>6, <3>1, <3>2
  <2> QED
    BY <1>2, <2>1 DEF Pending
<1>12. Sealing(log, n, next)'
  <2>1. sealer'[s].pc = "idle" /\ \A t \in Sealer \ {s} : sealer'[t] = sealer[t]
    BY <1>1, <1>2 DEF TypeOK, IdleSealer
  <2>2. ASSUME NEW t \in Sealer, t # s, sealer[t].pc \in {"read", "numbered"}
        PROVE  sealer[t].slice \in archive
    <3>1. CASE Runs(sealer[t].slice, log, n, base)
      <4>1. \A i \in 1 .. SegmentSize : sealer[t].slice[i] = slice[i]
        BY <1>4, <3>1 DEF Runs
      <4>2. sealer[t].slice \in Slice
        BY <1>1, <2>2 DEF SealersHold
      <4>3. sealer[t].slice = slice
        BY <1>4, <4>1, <4>2, SameRecords
      <4> QED
        BY <1>4, <4>3
    <3> QED
      BY <1>3, <2>2, <3>1 DEF Sealing
  <2>3. ASSUME NEW t \in Sealer, t # s, sealer[t].pc = "put"
        PROVE  sealer[t].after # Len(segments')
    BY <1>1, <1>5, <2>3 DEF SealersHold, TypeOK
  <2> QED
    BY <1>2, <2>1, <2>2, <2>3 DEF Sealing
<1>13. Linked(slice, ResidentRoot)
  <2>1. 1 \in 1 .. SegmentSize /\ slice[1] = log[base + 1] /\ base + 1 \in 1 .. n
    BY <1>1, <1>4
  <2>2. slice[1].prev = ResidentRoot
    <3>1. CASE base = 0
      BY <1>3, <2>1, <3>1 DEF Lists, Divided
    <3>2. CASE base # 0
      <4>1. base + 1 \in 2 .. n /\ base + 1 - 1 = base
        BY <2>1, <3>2
      <4>2. log[base + 1].prev = log[base].id
        BY <1>3, <4>1 DEF Lists
      <4> QED
        BY <1>3, <2>1, <3>2, <4>2 DEF Divided
    <3> QED
      BY <3>1, <3>2
  <2>3. ASSUME NEW i \in 2 .. SegmentSize PROVE slice[i].prev = slice[i - 1].id
    <3>1. i \in 1 .. SegmentSize /\ i - 1 \in 1 .. SegmentSize /\ base + i \in 2 .. n
            /\ base + i - 1 = base + (i - 1)
      BY <1>1, <1>4
    <3>2. log[base + i].prev = log[base + i - 1].id
      BY <1>3, <3>1 DEF Lists
    <3> QED
      BY <1>4, <3>1, <3>2
  <2> QED
    BY <2>2, <2>3 DEF Linked
<1> QED
  BY <1>4, <1>6, <1>8, <1>9, <1>10, <1>11, <1>12, <1>13 DEF LogIs

(* A step keeps the log, perhaps with another border, or a batch that is   *)
(* applied extends it.                                                     *)
Keeps(log, n) == \E next \in Nat : next < n /\ LogIs(log, n, next)'

(* Every step does one or the other.                                       *)
LEMMA StepsOfTheLog ==
    ASSUME ~StaleAppends, Held, NEW n \in Nat, NEW base \in Nat, base < n,
           NEW log \in [1 .. n -> Record], LogIs(log, n, base), [Next]_vars
    PROVE  \/ Keeps(log, n)
           \/ \E b \in inflight, new \in Record, longer \in [1 .. (n + 1) -> Record] :
                 /\ Apply(b) /\ Admissible(b)
                 /\ new = [id |-> Wants[b.call].id, content |-> Wants[b.call].content,
                           prev |-> b.parent]
                 /\ longer = [i \in 1 .. (n + 1) |-> IF i = n + 1 THEN new ELSE log[i]]
                 /\ new.prev = log[n].id
                 /\ \A k \in 1 .. n : log[k].id # new.id
                 /\ LogIs(longer, n + 1, base)'
<1>1. CASE UNCHANGED vars
  <2>1. UNCHANGED <<resident, identity, segments, archive, sealer>>
          /\ \A b \in inflight' : b \in inflight
    BY <1>1 DEF vars
  <2> QED
    BY <2>1, LogKept DEF Keeps
<1>2. ASSUME NEW c \in Call,
             Offer(c) \/ LoseReply(c) \/ ClassifyIdentity(c) \/ ClassifyHead(c)
      PROVE  Keeps(log, n)
  BY <1>2, AppendsKeepLog DEF Keeps
<1>3. ASSUME NEW b \in inflight, Lose(b) \/ (Apply(b) /\ ~Admissible(b))
      PROVE  Keeps(log, n)
  BY <1>3, RefusalKeepsLog DEF Keeps
<1>4. ASSUME NEW b \in inflight, Apply(b), Admissible(b)
      PROVE  \E new \in Record, longer \in [1 .. (n + 1) -> Record] :
                 /\ new = [id |-> Wants[b.call].id, content |-> Wants[b.call].content,
                           prev |-> b.parent]
                 /\ longer = [i \in 1 .. (n + 1) |-> IF i = n + 1 THEN new ELSE log[i]]
                 /\ new.prev = log[n].id
                 /\ \A k \in 1 .. n : log[k].id # new.id
                 /\ LogIs(longer, n + 1, base)'
  <2> DEFINE new == [id |-> Wants[b.call].id, content |-> Wants[b.call].content,
                     prev |-> b.parent]
             longer == [i \in 1 .. (n + 1) |-> IF i = n + 1 THEN new ELSE log[i]]
  <2>1. new \in Record
    BY WantsAssumption DEF Held, TypeOK, Record
  <2>2. /\ longer \in [1 .. (n + 1) -> Record]
        /\ new.prev = log[n].id
        /\ \A k \in 1 .. n : log[k].id # new.id
        /\ LogIs(longer, n + 1, base)'
    <3> HIDE DEF LogIs
    <3> QED
      BY <1>4, ApplyExtends
  <2> QED
    BY <2>1, <2>2
<1>5. ASSUME NEW s \in Sealer,
             ReadRecords(s) \/ ReadSegments(s) \/ PutBody(s) \/ AbandonSeal(s)
      PROVE  Keeps(log, n)
  BY <1>5, SealsKeepLog DEF Keeps
<1>6. ASSUME NEW s \in Sealer, CommitSeal(s)
      PROVE  Keeps(log, n)
  BY <1>6, CommitMovesBorder DEF Keeps
<1> QED
  BY <1>1, <1>2, <1>3, <1>4, <1>5, <1>6 DEF Next

(* A new segment is linked to the last one.                                *)
LEMMA NextLinked ==
    ASSUME ~StaleAppends, IInv, [Next]_vars
    PROVE  SegmentsLinked'
<1>1. Held /\ SegmentsLinked
  BY DEF IInv
<1>2. CASE segments' = segments
  BY <1>1, <1>2 DEF SegmentsLinked, Linked
<1>3. ASSUME NEW s \in Sealer, CommitSeal(s)
      PROVE  SegmentsLinked'
  <2>1. /\ Len(segments) \in Nat /\ Len(segments') = Len(segments) + 1
        /\ \A k \in 1 .. Len(segments) : segments'[k] = segments[k]
        /\ segments'[Len(segments) + 1] = sealer[s].slice
    BY <1>1, <1>3, CommitHolds DEF Held, TypeOK
  <2>2. Linked(sealer[s].slice, ResidentRoot)
    BY <1>1, <1>3, CommitMovesBorder DEF IInv, HasLog
  <2>3. ASSUME NEW k \in 1 .. Len(segments')
        PROVE  Linked(segments'[k], IF k = 1 THEN GenesisParent
                                    ELSE segments'[k - 1][SegmentSize].id)
    <3>1. CASE k = Len(segments) + 1
      <4>1. ResidentRoot = IF k = 1 THEN GenesisParent ELSE segments'[k - 1][SegmentSize].id
        <5>1. CASE k = 1
          BY <2>1, <3>1, <5>1 DEF ResidentRoot, Held, TypeOK
        <5>2. CASE k # 1
          BY <2>1, <3>1, <5>2 DEF ResidentRoot
        <5> QED
          BY <5>1, <5>2
      <4> QED
        BY <2>1, <2>2, <3>1, <4>1
    <3>2. CASE k # Len(segments) + 1
      <4>1. k \in 1 .. Len(segments) /\ (k # 1 => k - 1 \in 1 .. Len(segments))
        BY <2>1, <3>2
      <4> QED
        BY <1>1, <2>1, <4>1 DEF SegmentsLinked
    <3> QED
      BY <3>1, <3>2
  <2> QED
    BY <2>3 DEF SegmentsLinked, Linked
<1>4. ASSUME Next, \A s \in Sealer : ~CommitSeal(s)
      PROVE  segments' = segments
  BY <1>4 DEF Next, Offer, LoseReply, ClassifyIdentity, ClassifyHead, Apply, Lose,
              ReadRecords, ReadSegments, PutBody, AbandonSeal
<1>5. UNCHANGED vars => segments' = segments
  BY DEF vars
<1> QED
  BY <1>2, <1>3, <1>4, <1>5

(* The invariant is inductive when no seal overtakes a pending append.     *)
LEMMA NextIInv ==
    ASSUME ~StaleAppends, IInv, [Next]_vars
    PROVE  IInv'
<1>1. Held'
  BY NextHeld DEF IInv
<1>2. SegmentsLinked'
  BY NextLinked
<1>3. PICK n \in Nat, base \in Nat :
          \E log \in [1 .. n -> Record] : base < n /\ LogIs(log, n, base)
  BY DEF IInv, HasLog
<1>4. PICK log \in [1 .. n -> Record] : base < n /\ LogIs(log, n, base)
  BY <1>3
<1>5. ASSUME NEW next \in Nat, next < n, LogIs(log, n, next)'
      PROVE  HasLog'
  BY <1>4, <1>5 DEF HasLog
<1>6. ASSUME NEW longer \in [1 .. (n + 1) -> Record], LogIs(longer, n + 1, base)'
      PROVE  HasLog'
  <2>1. n + 1 \in Nat /\ base < n + 1
    BY <1>4
  <2> QED
    BY <1>4, <1>6, <2>1 DEF HasLog
<1>7. HasLog'
  BY <1>4, <1>5, <1>6, StepsOfTheLog DEF IInv, Keeps
<1> QED
  BY <1>1, <1>2, <1>7 DEF IInv

(* So it always holds then.                                                *)
LEMMA IInvAlways ==
    ~StaleAppends => (Spec => []IInv)
<1> SUFFICES ASSUME ~StaleAppends PROVE Spec => []IInv
  OBVIOUS
<1>1. IInv /\ [Next]_vars => IInv'
  BY NextIInv
<1> QED
  BY <1>1, InitIInv, PTL DEF Spec

----------------------------------------------------------------------------
(* What the log says of the ledger.                                        *)

(* The records that landed are those of the log.                           *)
LEMMA LandedIsLog ==
    ASSUME NEW n \in Nat, NEW base \in Nat, base < n, NEW log \in [1 .. n -> Record],
           LogIs(log, n, base)
    PROVE  Landed = {log[i] : i \in 1 .. n}
<1>1. resident = {log[i] : i \in (base + 1) .. n} /\ Sealed = {log[i] : i \in 1 .. base}
  BY DEF LogIs, Divided
<1>2. \A i : i \in 1 .. n <=> i \in 1 .. base \/ i \in (base + 1) .. n
  OBVIOUS
<1> QED
  BY <1>1, <1>2 DEF Landed

LEMMA SoundIfIInv ==
    ASSUME IInv
    PROVE  LedgerSound /\ NothingDeletedUnarchived
<1>1. PICK n \in Nat, base \in Nat :
          \E log \in [1 .. n -> Record] : base < n /\ LogIs(log, n, base)
  BY DEF IInv, HasLog
<1>2. PICK log \in [1 .. n -> Record] : base < n /\ LogIs(log, n, base)
  BY <1>1
<1>3. Landed = {log[i] : i \in 1 .. n}
  BY <1>2, LandedIsLog
<1>4. Lists(log, n) /\ Divided(log, n, base) /\ Stamped(log, n, base)
  BY <1>2 DEF LogIs
<1>5. NeverForks
  <2>1. ASSUME NEW i \in 1 .. n, NEW k \in 1 .. n,
               log[i].prev = log[k].prev \/ log[i].id = log[k].id
        PROVE  i = k
    BY <1>4, <2>1, ListIsUnique DEF Lists
  <2> QED
    BY <1>3, <2>1 DEF NeverForks
<1>6. SegmentsContinue
  <2>1. base + 1 \in (base + 1) .. n /\ base + 1 \in 1 .. n
    BY <1>2
  <2>2. log[base + 1] \in resident
    BY <1>4, <2>1 DEF Divided
  <2>3. log[base + 1].prev = ResidentRoot
    <3>1. CASE base = 0
      BY <1>4, <3>1 DEF Lists, Divided
    <3>2. CASE base # 0
      <4>1. base + 1 \in 2 .. n /\ base + 1 - 1 = base
        BY <2>1, <3>2
      <4>2. log[base + 1].prev = log[base].id
        BY <1>4, <4>1 DEF Lists
      <4> QED
        BY <1>4, <3>2, <4>2 DEF Divided
    <3> QED
      BY <3>1, <3>2
  <2> QED
    BY <2>2, <2>3 DEF SegmentsContinue, IInv, SegmentsLinked
<1>7. NothingDeletedUnarchived
  <2>1. ASSUME NEW i \in Id, identity[i].known
        PROVE  \E r \in IF identity[i].sealed THEN Sealed ELSE resident :
                  r.id = i /\ r.content = identity[i].content
    <3>1. PICK k \in 1 .. n : log[k].id = i
      BY <1>4, <2>1 DEF Stamped
    <3>2. identity[i].content = log[k].content /\ (identity[i].sealed <=> k <= base)
      BY <1>4, <3>1 DEF Stamped
    <3>3. CASE k <= base
      <4>1. k \in 1 .. base
        BY <3>3
      <4> QED
        BY <1>4, <3>1, <3>2, <3>3, <4>1 DEF Divided
    <3>4. CASE ~(k <= base)
      <4>1. k \in (base + 1) .. n
        BY <3>4
      <4> QED
        BY <1>4, <3>1, <3>2, <3>4, <4>1 DEF Divided
    <3> QED
      BY <3>3, <3>4
  <2> QED
    BY <2>1 DEF NothingDeletedUnarchived, IInv, Held, SegmentsArchived
<1> QED
  BY <1>5, <1>6, <1>7 DEF LedgerSound, IInv, Held

(* However appends and seals race, the records that landed are one chain   *)
(* that the segments and the resident rows divide (append.rs, seal.rs).    *)
THEOREM LedgerSoundHolds ==
    ~StaleAppends => (Spec => []LedgerSound)
<1> SUFFICES ASSUME ~StaleAppends PROVE Spec => []LedgerSound
  OBVIOUS
<1>1. Spec => []IInv
  BY IInvAlways
<1>2. IInv => LedgerSound
  BY SoundIfIInv
<1> QED
  BY <1>1, <1>2, PTL

(* A record that left the hot table is in an archived body, and every      *)
(* identity row says which side its record is on (seal.rs, FR-004).        *)
THEOREM NothingDeletedUnarchivedHolds ==
    ~StaleAppends => (Spec => []NothingDeletedUnarchived)
<1> SUFFICES ASSUME ~StaleAppends PROVE Spec => []NothingDeletedUnarchived
  OBVIOUS
<1>1. Spec => []IInv
  BY IInvAlways
<1>2. IInv => NothingDeletedUnarchived
  BY SoundIfIInv
<1> QED
  BY <1>1, <1>2, PTL

----------------------------------------------------------------------------
(* The ledger implements the append-only chain.                            *)

Told == [c \in Call |-> IF call[c].pc \in Answers THEN call[c].pc ELSE "pending"]
Asking(c) == call[c].pc \in {"start", "sent", "failed", "unspent"}

(* A call that goes on is told nothing, one that returns its answer.       *)
LEMMA Telling ==
    ASSUME TypeOK, NEW c \in Call, Asking(c)
    PROVE  /\ Told[c] = "pending"
           /\ \A pc \in {"failed", "unspent"} : Goto(c, pc) => Told' = Told
           /\ \A a \in Answers : Return(c, a) => Told' = [Told EXCEPT ![c] = a]
<1>1. call \in CallTypes
  BY DEF TypeOK, CallTypes
<1>2. Told[c] = "pending"
  BY DEF Told, Asking, Answers
<1>3. ASSUME NEW pc \in {"failed", "unspent"}, Goto(c, pc) PROVE Told' = Told
  <2>1. /\ \A d \in Call \ {c} : call'[d] = call[d]
        /\ call'[c].pc = pc
    BY <1>1, <1>3 DEF Goto, CallTypes
  <2>2. ASSUME NEW d \in Call
        PROVE  (IF call'[d].pc \in Answers THEN call'[d].pc ELSE "pending")
                 = IF call[d].pc \in Answers THEN call[d].pc ELSE "pending"
    BY <2>1 DEF Asking, Answers
  <2> QED
    BY <2>2 DEF Told
<1>4. ASSUME NEW a \in Answers, Return(c, a) PROVE Told' = [Told EXCEPT ![c] = a]
  <2>1. /\ \A d \in Call \ {c} : call'[d] = call[d]
        /\ call'[c].pc = a
    BY <1>1, <1>4 DEF Return, CallTypes
  <2>2. ASSUME NEW d \in Call
        PROVE  (IF call'[d].pc \in Answers THEN call'[d].pc ELSE "pending")
                 = [Told EXCEPT ![c] = a][d]
    <3>1. [Told EXCEPT ![c] = a][d] = IF d = c THEN a ELSE Told[d]
      BY DEF Told
    <3> QED
      BY <2>1, <3>1 DEF Told
  <2>3. [Told EXCEPT ![c] = a] = [d \in Call |-> [Told EXCEPT ![c] = a][d]]
    BY DEF Told
  <2> QED
    BY <2>2, <2>3 DEF Told
<1> QED
  BY <1>2, <1>3, <1>4

(* What an identity row says of a decision is true of the chain.           *)
LEMMA IdentityIsTrue ==
    ASSUME IInv, NEW i \in Id, identity[i].known
    PROVE  \E m \in Landed : m.id = i /\ m.content = identity[i].content
<1>1. NothingDeletedUnarchived
  BY SoundIfIInv
<1> QED
  BY <1>1 DEF NothingDeletedUnarchived, Landed

(* A call that is answered, with the chain as it was.                      *)
ToldTruly(c) ==
    \E a \in Answers :
        /\ Told[c] = "pending" /\ Told' = [Told EXCEPT ![c] = a]
        /\ a = "landed" => \E m \in Landed : m.id = Wants[c].id /\ m.content = Wants[c].content
        /\ a = "reused" => \E m \in Landed : m.id = Wants[c].id /\ m.content # Wants[c].content

(* Without an applied batch a step tells nothing, or one call the truth.   *)
LEMMA QuietTelling ==
    ASSUME IInv, [Next]_vars, \A b \in inflight : ~(Apply(b) /\ Admissible(b))
    PROVE  Told' = Told \/ \E c \in Call : ToldTruly(c)
<1>1. TypeOK
  BY DEF IInv, Held
<1>2. call' = call => Told' = Told
  BY DEF Told
<1>3. CASE UNCHANGED vars
  BY <1>2, <1>3 DEF vars
<1>4. ASSUME NEW c \in Call, Return(c, "error"), Asking(c)
      PROVE  ToldTruly(c)
  <2>1. "error" \in Answers
    BY DEF Answers
  <2> QED
    BY <1>1, <1>4, <2>1, Telling DEF ToldTruly
<1>5. ASSUME NEW c \in Call, Offer(c)
      PROVE  Told' = Told \/ ToldTruly(c)
  <2>1. Asking(c)
    BY <1>5 DEF Offer, Asking
  <2>2. ASSUME NEW p \in Parent,
               call' = [call EXCEPT ![c] = [pc |-> "sent", parent |-> p,
                                            tries |-> call[c].tries + 1]]
        PROVE  Told' = Told
    <3>1. call \in CallTypes
      BY <1>1 DEF TypeOK, CallTypes
    <3>2. call'[c].pc = "sent" /\ \A d \in Call \ {c} : call'[d] = call[d]
      BY <2>2, <3>1 DEF CallTypes
    <3>3. ASSUME NEW d \in Call
          PROVE  (IF call'[d].pc \in Answers THEN call'[d].pc ELSE "pending")
                   = IF call[d].pc \in Answers THEN call[d].pc ELSE "pending"
      BY <2>1, <3>2 DEF Asking, Answers
    <3> QED
      BY <3>3 DEF Told
  <2> QED
    BY <1>4, <1>5, <2>1, <2>2 DEF Offer
<1>6. ASSUME NEW c \in Call, LoseReply(c)
      PROVE  Told' = Told
  BY <1>1, <1>6, Telling DEF LoseReply, Asking
<1>7. ASSUME NEW c \in Call, ClassifyIdentity(c)
      PROVE  Told' = Told \/ ToldTruly(c)
  <2>1. Asking(c) /\ Wants[c].id \in Id
    BY <1>7, WantsAssumption DEF ClassifyIdentity, Asking
  <2>2. CASE Goto(c, "unspent")
    BY <1>1, <2>1, <2>2, Telling
  <2>3. CASE identity[Wants[c].id].known /\ Return(c, Spent(c))
    <3>1. \E m \in Landed : m.id = Wants[c].id
                              /\ m.content = identity[Wants[c].id].content
      BY <2>1, <2>3, IdentityIsTrue
    <3>2. Spent(c) \in Answers
      BY DEF Spent, Answers
    <3>3. /\ Spent(c) = "landed" => identity[Wants[c].id].content = Wants[c].content
          /\ Spent(c) = "reused" => identity[Wants[c].id].content # Wants[c].content
      BY DEF Spent
    <3>4. Told[c] = "pending" /\ Told' = [Told EXCEPT ![c] = Spent(c)]
      BY <1>1, <2>1, <2>3, <3>2, Telling
    <3> QED
      BY <3>1, <3>2, <3>3, <3>4 DEF ToldTruly
  <2> QED
    BY <1>7, <2>2, <2>3 DEF ClassifyIdentity
<1>8. ASSUME NEW c \in Call, ClassifyHead(c)
      PROVE  Told' = Told \/ ToldTruly(c)
  <2>1. Asking(c)
    BY <1>8 DEF ClassifyHead, Asking
  <2>2. CASE call' = [call EXCEPT ![c] = [@ EXCEPT !.pc = "start", !.parent = GenesisParent]]
    <3>1. call \in CallTypes
      BY <1>1 DEF TypeOK, CallTypes
    <3>2. call'[c].pc = "start" /\ \A d \in Call \ {c} : call'[d] = call[d]
      BY <2>2, <3>1 DEF CallTypes
    <3>3. ASSUME NEW d \in Call
          PROVE  (IF call'[d].pc \in Answers THEN call'[d].pc ELSE "pending")
                   = IF call[d].pc \in Answers THEN call[d].pc ELSE "pending"
      BY <2>1, <3>2 DEF Asking, Answers
    <3> QED
      BY <3>3 DEF Told
  <2> QED
    BY <1>4, <1>8, <2>1, <2>2 DEF ClassifyHead
<1>9. ASSUME NEW b \in inflight, Apply(b) \/ Lose(b)
      PROVE  Told' = Told
  <2>1. b.call \in Call
    BY <1>1 DEF TypeOK
  <2>2. \/ call' = call
        \/ Awaited(b) /\ Goto(b.call, "failed")
    BY <1>9 DEF Apply, Lose
  <2>3. CASE Awaited(b) /\ Goto(b.call, "failed")
    BY <1>1, <2>1, <2>3, Telling DEF Awaited, Asking
  <2> QED
    BY <1>2, <2>2, <2>3
<1>10. ASSUME NEW s \in Sealer,
              \/ ReadRecords(s) \/ ReadSegments(s) \/ PutBody(s)
              \/ CommitSeal(s) \/ AbandonSeal(s)
       PROVE  Told' = Told
  BY <1>2, <1>10 DEF ReadRecords, ReadSegments, PutBody, CommitSeal, AbandonSeal
<1> QED
  BY <1>3, <1>5, <1>6, <1>7, <1>8, <1>9, <1>10 DEF Next

(* A step in which no batch is applied keeps the chain, and may answer.    *)
LEMMA QuietRefines ==
    ASSUME ~StaleAppends, IInv, [Next]_vars,
           \A b \in inflight : ~(Apply(b) /\ Admissible(b))
    PROVE  Landed' = Landed /\ (Told' = Told \/ \E c \in Call : Chain!Answer(c))
<1>1. PICK n \in Nat, base \in Nat :
          \E log \in [1 .. n -> Record] : base < n /\ LogIs(log, n, base)
  BY DEF IInv, HasLog
<1>2. PICK log \in [1 .. n -> Record] : base < n /\ LogIs(log, n, base)
  BY <1>1
<1>3. PICK next \in Nat : next < n /\ LogIs(log, n, next)'
  BY <1>2, StepsOfTheLog DEF IInv, Keeps
<1>4. Landed' = {log[i] : i \in 1 .. n}
  <2>1. resident' = {log[i] : i \in (next + 1) .. n} /\ Sealed' = {log[i] : i \in 1 .. next}
    BY <1>3 DEF LogIs, Divided
  <2>2. \A i : i \in 1 .. n <=> i \in 1 .. next \/ i \in (next + 1) .. n
    BY <1>3
  <2> QED
    BY <2>1, <2>2 DEF Landed
<1>5. Landed = {log[i] : i \in 1 .. n}
  BY <1>2, LandedIsLog
<1>6. ASSUME NEW c \in Call, ToldTruly(c)
      PROVE  Chain!Answer(c)
  <2>1. PICK a \in Answers :
            /\ Told[c] = "pending" /\ Told' = [Told EXCEPT ![c] = a]
            /\ a = "landed" =>
                  \E m \in Landed : m.id = Wants[c].id /\ m.content = Wants[c].content
            /\ a = "reused" =>
                  \E m \in Landed : m.id = Wants[c].id /\ m.content # Wants[c].content
    BY <1>6 DEF ToldTruly
  <2>2. Told'[c] = a
    BY <2>1 DEF Told
  <2>3. /\ Told[c] = "pending"
        /\ Told'[c] \in {"landed", "reused", "error"}
        /\ Told' = [Told EXCEPT ![c] = Told'[c]]
        /\ Told'[c] = "landed" =>
              \E m \in Landed' : m.id = Wants[c].id /\ m.content = Wants[c].content
        /\ Told'[c] = "reused" =>
              \E m \in Landed' : m.id = Wants[c].id /\ m.content # Wants[c].content
    BY <1>4, <1>5, <2>1, <2>2 DEF Answers
  <2> QED
    BY <2>3 DEF Chain!Answer, Told
<1>7. Told' = Told \/ \E c \in Call : Chain!Answer(c)
  BY <1>6, QuietTelling
<1> QED
  BY <1>4, <1>5, <1>7

(* A step in which a batch is applied extends the chain, and may answer.   *)
LEMMA ApplyRefines ==
    ASSUME IInv, NEW b \in inflight, Apply(b), Admissible(b)
    PROVE  \E new \in Landed' \ Landed :
               Chain!Extend(b.call, new) /\ (Chain!Answer(b.call) \/ Told' = Told)
<1> DEFINE new == [id |-> Wants[b.call].id, content |-> Wants[b.call].content,
                   prev |-> b.parent]
<1>1. PICK n \in Nat, base \in Nat :
          \E log \in [1 .. n -> Record] : base < n /\ LogIs(log, n, base)
  BY DEF IInv, HasLog
<1>2. PICK log \in [1 .. n -> Record] : base < n /\ LogIs(log, n, base)
  BY <1>1
<1>3. TypeOK /\ b.call \in Call /\ Held
  BY DEF IInv, Held, TypeOK
<1>4. Landed = {log[i] : i \in 1 .. n}
  BY <1>2, LandedIsLog
<1>5. new.prev = log[n].id /\ \A k \in 1 .. n : log[k].id # new.id
  BY <1>2, <1>3, AppliedAtTheEnd, WantsAssumption
<1>6. Landed' = Landed \cup {new}
  <2>1. resident' = resident \cup {new} /\ Sealed' = Sealed
    BY DEF Apply, Sealed
  <2> QED
    BY <2>1 DEF Landed
<1>7. \A m \in Landed : m.id # new.id
  BY <1>4, <1>5
<1>8. new \in Landed' \ Landed
  BY <1>6, <1>7
<1>9. \A m \in Landed : m.prev # new.prev
  <2>1. Lists(log, n) /\ n \in 1 .. n
    BY <1>2 DEF LogIs
  <2>2. ASSUME NEW i \in 1 .. n PROVE log[i].prev # log[n].id
    <3>1. CASE i = 1
      BY <2>1, <3>1, GenesisAssumption DEF Lists, Record
    <3>2. CASE i # 1
      <4>1. log[i].prev = log[i - 1].id /\ i - 1 \in 1 .. n /\ i - 1 # n
        BY <2>1, <3>2 DEF Lists
      <4> QED
        BY <2>1, <4>1 DEF Lists
    <3> QED
      BY <3>1, <3>2
  <2> QED
    BY <1>4, <1>5, <2>2
<1>10. \E m \in Landed : m.id = new.prev
  <2>1. n \in 1 .. n
    BY <1>2
  <2> QED
    BY <1>4, <1>5, <2>1
<1>11. Chain!Extend(b.call, new)
  BY <1>6, <1>7, <1>9, <1>10 DEF Chain!Extend, Chain!End
<1>12. Chain!Answer(b.call) \/ Told' = Told
  <2>1. CASE Awaited(b) /\ Return(b.call, "landed")
    <3>1. Told[b.call] = "pending" /\ Told' = [Told EXCEPT ![b.call] = "landed"]
      BY <1>3, <2>1, Telling DEF Awaited, Asking, Answers
    <3>2. Told'[b.call] = "landed"
      BY <1>3, <3>1 DEF Told
    <3>3. \E m \in Landed' : m.id = Wants[b.call].id /\ m.content = Wants[b.call].content
      <4>1. new \in Landed' /\ new.id = Wants[b.call].id /\ new.content = Wants[b.call].content
        BY <1>6
      <4> HIDE DEF new
      <4> QED
        BY <4>1
    <3> QED
      BY <3>1, <3>2, <3>3 DEF Chain!Answer, Told
  <2>2. CASE call' = call
    BY <2>2 DEF Told
  <2> QED
    BY <2>1, <2>2 DEF Apply
<1> QED
  BY <1>8, <1>11, <1>12

(* Archive and hot table together are one append-only chain: every step of *)
(* an append, a seal or a lost message adds one record at its end or leaves*)
(* it alone, and what a call is told is true of it.                        *)
THEOREM ImplementsChainHolds ==
    ~StaleAppends => (Spec => ImplementsChain)
<1> SUFFICES ASSUME ~StaleAppends PROVE Spec => ImplementsChain
  OBVIOUS
<1>1. Init => Chain!CInit
  <2> SUFFICES ASSUME Init PROVE Chain!CInit
    OBVIOUS
  <2>1. Landed = resident
    BY DEF Init, Landed, Sealed
  <2>2. Told = [c \in Call |-> "pending"]
    BY DEF Init, Told, Answers
  <2> QED
    BY <2>1, <2>2 DEF Chain!CInit, Told, Init
<1>2. IInv /\ [Next]_vars => [Chain!CNext]_(Chain!cvars)
  <2> SUFFICES ASSUME IInv, [Next]_vars PROVE [Chain!CNext]_(Chain!cvars)
    OBVIOUS
  <2>1. CASE \E b \in inflight : Apply(b) /\ Admissible(b)
    <3>1. PICK b \in inflight : Apply(b) /\ Admissible(b)
      BY <2>1
    <3>2. b.call \in Call
      BY DEF IInv, Held, TypeOK
    <3> QED
      BY <3>1, <3>2, ApplyRefines DEF Chain!CNext, Told
  <2>2. CASE \A b \in inflight : ~(Apply(b) /\ Admissible(b))
    BY <2>2, QuietRefines DEF Chain!CNext, Chain!cvars, Told
  <2> QED
    BY <2>1, <2>2
<1>3. Spec => []IInv
  BY IInvAlways
<1> QED
  BY <1>1, <1>2, <1>3, PTL DEF Spec, ImplementsChain, Chain!CSpec
=============================================================================
