--------------------------- MODULE LineageProofs ---------------------------
(***************************************************************************)
(* Theorems about Lineage, for every set of ids and decisions, every seal  *)
(* policy and every mix of binaries: the rows are a true account of the    *)
(* chain and are never taken back, recover answers the record it was asked *)
(* for, and the headers name what is current.                              *)
(***************************************************************************)
EXTENDS Lineage, TLAPS, FiniteSetTheorems, NaturalsInduction, WellFoundedInduction

Segments == 1 .. Len(headers)
Written == 1 .. Len(log)

(* The runs follow each other from the genesis record on, and the last one *)
(* ends before the log does: what a seal has read leaves a record resident.*)
Linked ==
    /\ \A j, k \in Segments : j < k => headers[j].last < headers[k].last
    /\ \A k \in Segments : k <= headers[k].last
    /\ SealedTo < Len(log) /\ Len(log) <= MaxLog
    /\ \A n \in Node :
          /\ sealer[n] <= Len(headers)
          /\ sealer[n] = Len(headers) => SealedTo + SegmentSize < Len(log)

(* What was resident together has different ids.                           *)
Distinct(places) == \A p, q \in places : log[p].id = log[q].id => p = q
DistinctIds == Distinct(Resident) /\ \A k \in Segments : Distinct(Run(k))

(* A collision is about an id that has a row, and so is a record that was  *)
(* stamped.                                                                *)
RowsAreWhole ==
    /\ \A i \in Id : identity[i].at = 0 => identity[i].seg = 0
    /\ \A c \in collisions : identity[c.id].at # 0
    /\ \A p \in Written : log[p].stamps => identity[log[p].id].at # 0

(* A counter counts the rows that name its segment.                        *)
Rows == [identity |-> identity, collisions |-> collisions]
CountersAreExact ==
    \A k \in Segments : stamped[k] # NoCounter => stamped[k] = Counted(k, Rows)

(* What only stamping binaries wrote is accounted for, record by record.   *)
AllStamped ==
    Stamping =>
        /\ collisions = {}
        /\ \A p \in Written : identity[log[p].id].at = p
        /\ \A p \in Resident : identity[log[p].id].seg = 0
        /\ \A k \in Segments :
              /\ \A p \in Run(k) : identity[log[p].id].seg = k
              /\ stamped[k] = Cardinality(Run(k))

(* What a handle has read of the chain, and its verdict.                   *)
HandlesKnow ==
    \A n \in Node :
        /\ node[n].missing \subseteq Written
        /\ node[n].todo \subseteq Segments
        /\ Stamping => /\ node[n].missing = {} /\ node[n].todo = {}
                       /\ node[n].pc \in {"up", "walk"} => node[n].complete

(* What a reader has been told of the place it is going to.                *)
ReaderIsRight ==
    /\ reader.pc \in {"resident", "missed", "sealed", "record"} =>
          /\ reader.at \in Written
          /\ log[reader.at].id = reader.id
          /\ identity[reader.id].at = reader.at
    /\ reader.pc \in {"resident", "missed"} => reader.seg = 0
    /\ reader.pc = "missed" => reader.at \notin Resident
    /\ reader.pc = "sealed" \/ (reader.pc = "record" /\ reader.seg # 0) =>
          reader.seg \in Segments /\ reader.at \in Run(reader.seg)
    /\ forged \subseteq Resident
    /\ old.damage = 0 => forged = {} /\ \A k \in Segments : body[k] = "whole"

(* A header names what is current at its end, when those before it did.    *)
HeadersName ==
    \A k \in Segments :
        /\ (\A j \in 1 .. k : headers[j].manifest # None) =>
              headers[k].manifest = ManifestAfter(1 .. headers[k].last, Genesis.content)
        /\ headers[k].epoch # 0
           /\ (\A j \in 1 .. k - 1 : headers[j].epoch = 0 => Newest(Run(j), Epoch) = 0) =>
              headers[k].epoch = EpochAfter(1 .. headers[k].last, 1)

RowInv == /\ TypeOK /\ Linked /\ DistinctIds /\ RowsAreTrue /\ RowsAreWhole /\ CountersAreExact
          /\ AllStamped /\ OneCopy
IInv == RowInv /\ HandlesKnow /\ ReaderIsRight /\ RecoverFinds /\ HeadersName /\ scene \in Scenes

----------------------------------------------------------------------------
(* Numbers and runs.                                                       *)

(* A set of natural numbers that is not empty has a least element.         *)
LEMMA LeastNumber ==
    ASSUME NEW T \in SUBSET Nat, T # {}
    PROVE  \E t \in T : \A s \in T : t <= s
<1> DEFINE Less == OpToRel(<, Nat)
<1>1. IsWellFoundedOn(OpToRel(<, Nat), Nat)
  BY NatLessThanWellFounded
<1>2. \A t, s \in Nat : s < t => <<s, t>> \in Less
  BY DEF OpToRel
<1> HIDE DEF Less
<1>3. PICK t \in T : \A s \in T : ~(<<s, t>> \in Less)
  BY <1>1, WFMin DEF Less
<1>4. ASSUME NEW s \in T PROVE ~(s < t)
  BY <1>2, <1>3
<1>5. \A s \in T : t <= s
  BY <1>4
<1> QED
  BY <1>5

(* A set of numbers below a bound has a greatest element.                  *)
LEMMA GreatestNumber ==
    ASSUME NEW b \in Nat, NEW T \in SUBSET (0 .. b), T # {}
    PROVE  \E t \in T : \A s \in T : s <= t
<1> DEFINE U == {u \in Nat : \A s \in T : s <= u}
<1>1. b \in U
  OBVIOUS
<1>2. PICK u \in U : \A v \in U : u <= v
  BY <1>1, LeastNumber
<1>3. CASE u \in T
  BY <1>2, <1>3
<1>4. CASE u \notin T
  <2>1. \A s \in T : s <= u - 1
    BY <1>2, <1>4
  <2>2. PICK s \in T : TRUE
    OBVIOUS
  <2>3. u - 1 \in Nat
    BY <1>2, <2>1, <2>2
  <2>4. u - 1 \in U
    BY <2>1, <2>3
  <2>5. u <= u - 1 /\ u \in Nat
    BY <1>2, <2>4
  <2> QED
    BY <2>5
<1> QED
  BY <1>3, <1>4

(* An element of a list is of the list's kind.                             *)
LEMMA ElementKind ==
    ASSUME NEW S, NEW q \in Seq(S), NEW k \in 1 .. Len(q)
    PROVE  q[k] \in S
  OBVIOUS

Header == [last : Place, manifest : Content \cup {None}, epoch : 0 .. MaxLog]
Entry == [id : Id, content : Content, stamps : BOOLEAN]

(* The shape of the chain's lists, and how far it is sealed.               *)
LEMMA ChainShape ==
    ASSUME TypeOK
    PROVE  /\ Len(headers) \in Nat /\ Len(log) \in Nat /\ SealedTo \in Nat
           /\ \A k \in Segments : headers[k].last \in Nat \ {0}
           /\ Len(headers) = 0 => SealedTo = 0
           /\ Len(headers) # 0 => SealedTo = headers[Len(headers)].last
           /\ \A k \in Segments : headers[k] \in Header
           /\ \A p \in Written : log[p] \in Entry /\ log[p].id \in Id /\ log[p].content \in Content
<1>1. headers \in Seq(Header) /\ log \in Seq(Entry)
  BY DEF TypeOK, Header, Entry
<1>2. Len(headers) \in Nat /\ Len(log) \in Nat
  BY <1>1
<1>3. \A k \in Segments : headers[k] \in Header
  BY <1>1, ElementKind DEF Segments
<1>4. \A p \in Written : log[p] \in Entry
  BY <1>1, ElementKind DEF Written
<1>5. \A e \in Entry : e.id \in Id /\ e.content \in Content
  BY DEF Entry
<1>6. \A h \in Header : h.last \in Nat \ {0}
  BY BoundAssumption DEF Header, Place
<1>7. \A k \in Segments : headers[k].last \in Nat \ {0}
  BY <1>3, <1>6
<1>8. (Len(headers) = 0) <=> (headers = <<>>)
  BY <1>1
<1>9. Len(headers) # 0 => Len(headers) \in Segments
  BY <1>2 DEF Segments
<1> QED
  BY <1>2, <1>3, <1>4, <1>5, <1>7, <1>8, <1>9 DEF SealedTo

(* The runs of the segments divide what is sealed.                         *)
Divided ==
    /\ Len(headers) <= SealedTo
    /\ \A k \in Segments : headers[k].last <= SealedTo
    /\ \A k \in Segments : Run(k) \subseteq 1 .. SealedTo
    /\ \A j, k \in Segments : \A p \in Run(j) : p \in Run(k) => j = k
    /\ \A p \in 1 .. SealedTo : \E k \in Segments : p \in Run(k)
    /\ Written = 1 .. SealedTo \cup Resident

(* They do, in every linked chain.                                         *)
LEMMA RunsDivide == TypeOK /\ Linked => Divided
<1> SUFFICES ASSUME TypeOK, Linked PROVE Divided
  OBVIOUS
<1>1. /\ Len(headers) \in Nat /\ Len(log) \in Nat /\ SealedTo \in Nat
      /\ \A k \in Segments : headers[k].last \in Nat \ {0}
      /\ Len(headers) = 0 => SealedTo = 0
      /\ Len(headers) # 0 => SealedTo = headers[Len(headers)].last
  BY ChainShape
<1>2. /\ \A j, k \in Segments : j < k => headers[j].last < headers[k].last
      /\ \A k \in Segments : k <= headers[k].last
      /\ SealedTo < Len(log)
  BY DEF Linked
<1>3. Len(headers) <= SealedTo
  BY <1>1, <1>2 DEF Segments
<1>4. \A k \in Segments : headers[k].last <= SealedTo
  BY <1>1, <1>2 DEF Segments
<1>5. \A k \in Segments : Run(k) \subseteq 1 .. SealedTo
  BY <1>1, <1>2, <1>4 DEF Segments, Run
<1>6. ASSUME NEW j \in Segments, NEW k \in Segments, NEW p \in Run(j), p \in Run(k), j < k
      PROVE  FALSE
  <2>1. k - 1 \in Segments /\ j <= k - 1 /\ k # 1
    BY <1>1, <1>6 DEF Segments
  <2>2. headers[j].last <= headers[k - 1].last
    BY <1>1, <1>2, <2>1 DEF Segments
  <2>3. p \in Nat /\ p <= headers[j].last /\ headers[k - 1].last + 1 <= p
    BY <1>1, <1>6, <2>1 DEF Run, Segments
  <2> QED
    BY <1>1, <2>1, <2>2, <2>3
<1>7. \A j, k \in Segments : \A p \in Run(j) : p \in Run(k) => j = k
  BY <1>1, <1>6 DEF Segments
<1>8. ASSUME NEW p \in 1 .. SealedTo PROVE \E k \in Segments : p \in Run(k)
  <2> DEFINE T == {k \in Segments : p <= headers[k].last}
  <2>1. Len(headers) \in T
    BY <1>1, <1>8 DEF Segments
  <2>2. T \in SUBSET Nat
    BY <1>1 DEF Segments
  <2>3. PICK k \in T : \A j \in T : k <= j
    BY <2>1, <2>2, LeastNumber
  <2>4. k # 1 => k - 1 \in Segments /\ k - 1 \notin T
    BY <1>1, <2>3 DEF Segments
  <2>5. k \in Segments /\ p \in Run(k)
    BY <1>1, <1>8, <2>3, <2>4 DEF Run, Segments
  <2> QED
    BY <2>5
<1>9. Written = 1 .. SealedTo \cup Resident
  BY <1>1, <1>2 DEF Written, Resident
<1> QED
  BY <1>3, <1>4, <1>5, <1>7, <1>8, <1>9 DEF Divided

----------------------------------------------------------------------------
(* The newest of a kind.                                                   *)

(* It is the greatest place of the run that holds one of the kind.         *)
LEMMA NewestOfRun ==
    ASSUME NEW a \in Nat \ {0}, NEW b \in Nat, NEW kind
    PROVE  \/ /\ Newest(a .. b, kind) = 0
              /\ \A p \in a .. b : log[p].content \notin kind
           \/ /\ Newest(a .. b, kind) \in a .. b
              /\ log[Newest(a .. b, kind)].content \in kind
              /\ \A p \in a .. b : log[p].content \in kind => p <= Newest(a .. b, kind)
<1> DEFINE those == {p \in a .. b : log[p].content \in kind}
<1>1. Newest(a .. b, kind) =
          IF those = {} THEN 0 ELSE CHOOSE p \in those : \A q \in those : q <= p
  BY DEF Newest
<1>2. CASE those = {}
  BY <1>1, <1>2
<1>3. CASE those # {}
  <2>1. those \in SUBSET (0 .. b)
    OBVIOUS
  <2>2. PICK t \in those : \A s \in those : s <= t
    BY <1>3, <2>1, GreatestNumber
  <2> HIDE DEF those
  <2>3. Newest(a .. b, kind) \in those /\ \A s \in those : s <= Newest(a .. b, kind)
    BY <1>1, <1>3, <2>2
  <2> QED
    BY <2>3 DEF those
<1> QED
  BY <1>2, <1>3

(* The newest of a run is that of its second part, or of its first.        *)
LEMMA NewestSplits ==
    ASSUME NEW a \in Nat, NEW b \in Nat, a <= b, NEW kind
    PROVE  Newest(1 .. b, kind) =
              IF Newest(a + 1 .. b, kind) = 0 THEN Newest(1 .. a, kind)
              ELSE Newest(a + 1 .. b, kind)
<1> DEFINE N == Newest(1 .. b, kind)
           First == Newest(1 .. a, kind)
           Second == Newest(a + 1 .. b, kind)
           Is(p) == log[p].content \in kind
<1>1. \/ N = 0 /\ \A p \in 1 .. b : ~Is(p)
      \/ N \in 1 .. b /\ Is(N) /\ \A p \in 1 .. b : Is(p) => p <= N
  BY NewestOfRun
<1>2. \/ First = 0 /\ \A p \in 1 .. a : ~Is(p)
      \/ First \in 1 .. a /\ Is(First) /\ \A p \in 1 .. a : Is(p) => p <= First
  BY NewestOfRun
<1>3. \/ Second = 0 /\ \A p \in a + 1 .. b : ~Is(p)
      \/ Second \in a + 1 .. b /\ Is(Second) /\ \A p \in a + 1 .. b : Is(p) => p <= Second
  BY NewestOfRun
<1> HIDE DEF N, First, Second, Is
<1>4. N = IF Second = 0 THEN First ELSE Second
  <2>1. CASE Second = 0 /\ \A p \in a + 1 .. b : ~Is(p)
    BY <1>1, <1>2, <2>1
  <2>2. CASE Second \in a + 1 .. b /\ Is(Second) /\ \A p \in a + 1 .. b : Is(p) => p <= Second
    BY <1>1, <2>2
  <2> QED
    BY <1>3, <2>1, <2>2
<1> QED
  BY <1>4 DEF N, First, Second

(* So what is current after two runs is what the second leaves current.    *)
LEMMA AfterSplits ==
    ASSUME NEW a \in Nat, NEW b \in Nat, a <= b, NEW before
    PROVE  /\ ManifestAfter(1 .. b, before)
                  = ManifestAfter(a + 1 .. b, ManifestAfter(1 .. a, before))
           /\ EpochAfter(1 .. b, before) = EpochAfter(a + 1 .. b, EpochAfter(1 .. a, before))
<1>1. Newest(1 .. b, Manifest) =
          IF Newest(a + 1 .. b, Manifest) = 0 THEN Newest(1 .. a, Manifest)
          ELSE Newest(a + 1 .. b, Manifest)
  BY NewestSplits
<1>2. Newest(1 .. b, Epoch) =
          IF Newest(a + 1 .. b, Epoch) = 0 THEN Newest(1 .. a, Epoch)
          ELSE Newest(a + 1 .. b, Epoch)
  BY NewestSplits
<1> QED
  BY <1>1, <1>2 DEF ManifestAfter, EpochAfter

(* A run whose records are not touched keeps its newest.                   *)
LEMMA NewestKept ==
    ASSUME NEW places, NEW kind, \A p \in places : log'[p] = log[p]
    PROVE  Newest(places, kind)' = Newest(places, kind)
<1> DEFINE those == {p \in places : log[p].content \in kind}
           then == {p \in places : log'[p].content \in kind}
           Top(s) == IF s = {} THEN 0 ELSE CHOOSE p \in s : \A q \in s : q <= p
<1>1. then = those
  OBVIOUS
<1>2. Newest(places, kind) = Top(those) /\ Newest(places, kind)' = Top(then)
  BY DEF Newest
<1> HIDE DEF those, then, Top
<1> QED
  BY <1>1, <1>2

(* And what it leaves current.                                             *)
LEMMA AfterKept ==
    ASSUME NEW a \in Nat \ {0}, NEW b \in Nat, NEW before, \A p \in a .. b : log'[p] = log[p]
    PROVE  /\ ManifestAfter(a .. b, before)' = ManifestAfter(a .. b, before)
           /\ EpochAfter(a .. b, before)' = EpochAfter(a .. b, before)
<1>1. /\ Newest(a .. b, Manifest)' = Newest(a .. b, Manifest)
      /\ Newest(a .. b, Epoch)' = Newest(a .. b, Epoch)
  BY NewestKept
<1>2. Newest(a .. b, Manifest) # 0 => Newest(a .. b, Manifest) \in a .. b
  BY NewestOfRun
<1>3. log'[Newest(a .. b, Manifest)] = log[Newest(a .. b, Manifest)]
      \/ Newest(a .. b, Manifest) = 0
  BY <1>2
<1> QED
  BY <1>1, <1>3 DEF ManifestAfter, EpochAfter

----------------------------------------------------------------------------
(* What is current.                                                        *)

(* A run without an epoch record has none of its own.                      *)
LEMMA NoEpochIn ==
    ASSUME TypeOK, NEW k \in Segments, Newest(Run(k), Epoch) = 0
    PROVE  \A p \in Run(k) : log[p].content \notin Epoch
<1> DEFINE first == IF k = 1 THEN 1 ELSE headers[k - 1].last + 1
<1>1. first \in Nat \ {0} /\ headers[k].last \in Nat
  BY ChainShape DEF Segments
<1>2. Run(k) = first .. headers[k].last
  BY DEF Run
<1> HIDE DEF first
<1> QED
  BY <1>1, <1>2, NewestOfRun

(* The last header names the manifest that is current at its end.          *)
LEMMA SealedManifestIs ==
    ASSUME TypeOK, HeadersName, \A k \in Segments : headers[k].manifest # None
    PROVE  SealedManifest = ManifestAfter(1 .. SealedTo, Genesis.content)
<1>1. /\ Len(headers) \in Nat /\ SealedTo \in Nat
      /\ Len(headers) = 0 => SealedTo = 0
      /\ Len(headers) # 0 => SealedTo = headers[Len(headers)].last
      /\ (Len(headers) = 0) <=> (headers = <<>>)
  <2>1. headers \in Seq(Header)
    BY DEF TypeOK, Header
  <2> QED
    BY <2>1, ChainShape
<1>2. CASE headers = <<>>
  <2>1. Newest(1 .. SealedTo, Manifest) = 0
    BY <1>1, <1>2, NewestOfRun
  <2> QED
    BY <1>2, <2>1 DEF SealedManifest, ManifestAfter
<1>3. CASE headers # <<>>
  <2>1. Len(headers) \in Segments /\ 1 .. Len(headers) = Segments
    BY <1>1, <1>3 DEF Segments
  <2>2. headers[Len(headers)].manifest
            = ManifestAfter(1 .. headers[Len(headers)].last, Genesis.content)
    BY <2>1 DEF HeadersName
  <2> QED
    BY <1>1, <1>3, <2>1, <2>2 DEF SealedManifest
<1> QED
  BY <1>2, <1>3

(* The newest header that names an epoch names the one current at the end  *)
(* of what is sealed, if those that name none have none in their runs.     *)
LEMMA SealedEpochIs ==
    ASSUME TypeOK, Linked, HeadersName,
           \A k \in Segments : headers[k].epoch = 0 => Newest(Run(k), Epoch) = 0
    PROVE  SealedEpoch = EpochAfter(1 .. SealedTo, 1)
<1> DEFINE named == {k \in Segments : headers[k].epoch # 0}
<1>1. SealedEpoch = IF named = {} THEN 1
                    ELSE headers[CHOOSE k \in named : \A j \in named : j <= k].epoch
  BY DEF SealedEpoch, Segments
<1>2. /\ Len(headers) \in Nat /\ SealedTo \in Nat
      /\ \A k \in Segments : headers[k].last \in Nat \ {0}
  BY ChainShape
<1>3. Divided
  BY RunsDivide
<1>4. ASSUME NEW p \in 1 .. SealedTo, log[p].content \in Epoch
      PROVE  \E k \in named : p \in Run(k)
  <2>1. PICK k \in Segments : p \in Run(k)
    BY <1>3 DEF Divided
  <2>2. headers[k].epoch # 0
    BY <1>4, <2>1, NoEpochIn
  <2> QED
    BY <2>1, <2>2
<1>5. CASE named = {}
  <2>1. \A p \in 1 .. SealedTo : log[p].content \notin Epoch
    BY <1>4, <1>5
  <2>2. Newest(1 .. SealedTo, Epoch) = 0
    BY <1>2, <2>1, NewestOfRun
  <2> QED
    BY <1>1, <1>5, <2>2 DEF EpochAfter
<1>6. CASE named # {}
  <2>1. named \in SUBSET (0 .. Len(headers))
    BY <1>2 DEF Segments
  <2>2. PICK t \in named : \A s \in named : s <= t
    BY <1>2, <1>6, <2>1, GreatestNumber
  <2> DEFINE k == CHOOSE i \in named : \A j \in named : j <= i
  <2>3. k \in named /\ \A j \in named : j <= k
    BY <2>2
  <2>4. SealedEpoch = headers[k].epoch
    BY <1>1, <1>6
  <2> HIDE DEF k
  <2>5. k \in Segments /\ headers[k].epoch # 0
    BY <2>3
  <2>6. headers[k].epoch = EpochAfter(1 .. headers[k].last, 1)
    <3>1. \A j \in 1 .. k - 1 : j \in Segments
      BY <1>2, <2>5 DEF Segments
    <3> QED
      BY <2>5, <3>1 DEF HeadersName
  <2>7. headers[k].last \in Nat /\ headers[k].last <= SealedTo
    BY <1>2, <1>3, <2>5 DEF Divided
  <2>8. ASSUME NEW p \in headers[k].last + 1 .. SealedTo PROVE log[p].content \notin Epoch
    <3>1. SUFFICES ASSUME log[p].content \in Epoch PROVE FALSE
      OBVIOUS
    <3>2. p \in 1 .. SealedTo /\ headers[k].last < p
      BY <1>2, <2>7
    <3>3. PICK j \in named : p \in Run(j)
      BY <1>4, <3>1, <3>2
    <3>4. j \in Segments /\ j <= k
      BY <2>3, <3>3
    <3>5. headers[j].last <= headers[k].last
      BY <1>2, <2>5, <3>4 DEF Linked, Segments
    <3>6. p <= headers[j].last
      BY <1>2, <3>3, <3>4 DEF Run
    <3> QED
      BY <1>2, <2>5, <2>7, <3>2, <3>4, <3>5, <3>6
  <2>9. Newest(headers[k].last + 1 .. SealedTo, Epoch) = 0
    BY <1>2, <2>7, <2>8, NewestOfRun
  <2>10. EpochAfter(1 .. SealedTo, 1)
             = EpochAfter(headers[k].last + 1 .. SealedTo, EpochAfter(1 .. headers[k].last, 1))
    BY <1>2, <2>7, AfterSplits
  <2> QED
    BY <2>4, <2>6, <2>9, <2>10 DEF EpochAfter
<1> QED
  BY <1>5, <1>6

(* TailIsNewest follows.                                                   *)
LEMMA HeadersNameTheTail == TypeOK /\ Linked /\ HeadersName => TailIsNewest
<1> SUFFICES ASSUME TypeOK, Linked, HeadersName PROVE TailIsNewest
  OBVIOUS
<1>1. SealedTo \in Nat /\ Len(log) \in Nat /\ SealedTo <= Len(log)
  BY ChainShape DEF Linked
<1>2. Resident = SealedTo + 1 .. Len(log)
  BY DEF Resident
<1>3. /\ ManifestAfter(1 .. Len(log), Genesis.content)
             = ManifestAfter(Resident, ManifestAfter(1 .. SealedTo, Genesis.content))
      /\ EpochAfter(1 .. Len(log), 1) = EpochAfter(Resident, EpochAfter(1 .. SealedTo, 1))
  BY <1>1, <1>2, AfterSplits
<1>4. (\A k \in Segments : headers[k].manifest # None) =>
          CurrentManifest = ManifestAfter(1 .. Len(log), Genesis.content)
  BY <1>3, SealedManifestIs DEF CurrentManifest
<1>5. (\A k \in Segments : headers[k].epoch = 0 => Newest(Run(k), Epoch) = 0) =>
          CurrentEpoch = EpochAfter(1 .. Len(log), 1)
  BY <1>3, SealedEpochIs DEF CurrentEpoch
<1> QED
  BY <1>4, <1>5 DEF TailIsNewest, Segments

----------------------------------------------------------------------------
(* Counting.                                                               *)

(* A one-to-one function from all of one set onto another.                 *)
LEMMA SameSize ==
    ASSUME NEW S, IsFiniteSet(S), NEW T, NEW f \in [S -> T],
           \A x, y \in S : f[x] = f[y] => x = y,
           \A t \in T : \E x \in S : f[x] = t
    PROVE  IsFiniteSet(T) /\ Cardinality(T) = Cardinality(S)
<1>1. f \in Bijection(S, T)
  BY DEF Bijection, Injection, Surjection, IsInjective
<1>2. ExistsBijection(S, T)
  BY <1>1 DEF ExistsBijection
<1> QED
  BY <1>2, FS_Bijection

(* The places of a run some row names, with its segment.                   *)
ByRow(rows, k, run) ==
    {p \in run : rows.identity[log[p].id].at = p /\ rows.identity[log[p].id].seg = k}
ByCollision(rows, k, run) ==
    {p \in run : [id |-> log[p].id, at |-> p, seg |-> k] \in rows.collisions}

(* The rows that name a segment are true of its run.                       *)
TrueOf(rows, k, run) ==
    /\ \A i \in Id : rows.identity[i].at # 0 /\ rows.identity[i].seg = k =>
          rows.identity[i].at \in run /\ log[rows.identity[i].at].id = i
    /\ \A c \in rows.collisions : c.seg = k =>
          c.at \in run /\ log[c.at].id = c.id /\ rows.identity[c.id].at # c.at

(* A counter that counts true rows counts the places they name.            *)
LEMMA CountOfPlaces ==
    ASSUME NEW k, NEW rows, NEW run, IsFiniteSet(run), 0 \notin run,
           \A p \in run : log[p].id \in Id,
           rows.collisions \subseteq [id : Id, at : Place, seg : Place],
           TrueOf(rows, k, run)
    PROVE  /\ Counted(k, rows) = Cardinality(ByRow(rows, k, run) \cup ByCollision(rows, k, run))
           /\ Counted(k, rows) \in Nat
<1> DEFINE A == ByRow(rows, k, run)
           B == ByCollision(rows, k, run)
           Ids == {i \in Id : rows.identity[i].at # 0 /\ rows.identity[i].seg = k}
           Twice == {c \in rows.collisions : c.seg = k}
           Row(p) == [id |-> log[p].id, at |-> p, seg |-> k]
           f == [p \in A |-> log[p].id]
           h == [p \in B |-> Row(p)]
<1>1. /\ A \in SUBSET run
      /\ \A p \in A : rows.identity[log[p].id].at = p /\ rows.identity[log[p].id].seg = k
  BY DEF ByRow
<1>2. B \in SUBSET run /\ \A p \in B : Row(p) \in rows.collisions
  BY DEF ByCollision
<1>3. IsFiniteSet(A) /\ IsFiniteSet(B)
  BY <1>1, <1>2, FS_Subset
<1>4. f \in [A -> Ids]
  BY <1>1
<1>5. \A p, q \in A : f[p] = f[q] => p = q
  BY <1>1
<1>6. ASSUME NEW i \in Ids PROVE \E p \in A : f[p] = i
  <2>1. rows.identity[i].at \in run /\ log[rows.identity[i].at].id = i
    BY DEF TrueOf
  <2>2. rows.identity[i].at \in A
    BY <2>1 DEF ByRow
  <2> QED
    BY <2>1, <2>2
<1>7. Cardinality(Ids) = Cardinality(A)
  <2> HIDE DEF f, A, Ids
  <2> QED
    BY <1>3, <1>4, <1>5, <1>6, SameSize
<1>8. h \in [B -> Twice]
  BY <1>2
<1>9. \A p, q \in B : h[p] = h[q] => p = q
  <2>1. \A p, q \in B : Row(p).at = p /\ h[p] = Row(p)
    OBVIOUS
  <2> QED
    BY <2>1
<1>10. ASSUME NEW c \in Twice PROVE \E p \in B : h[p] = c
  <2>1. c.at \in run /\ log[c.at].id = c.id /\ c.seg = k
    BY DEF TrueOf
  <2>2. c \in rows.collisions /\ c \in [id : Id, at : Place, seg : Place]
    OBVIOUS
  <2>3. c = [id |-> c.id, at |-> c.at, seg |-> c.seg]
    BY <2>2
  <2>4. Row(c.at) = c
    BY <2>1, <2>3
  <2>5. c.at \in B
    BY <2>1, <2>2, <2>4 DEF ByCollision
  <2> QED
    BY <2>4, <2>5
<1>11. Cardinality(Twice) = Cardinality(B)
  <2> HIDE DEF h, B, Twice
  <2> QED
    BY <1>3, <1>8, <1>9, <1>10, SameSize
<1>12. A \cap B = {}
  <2>1. ASSUME NEW p \in A, p \in B PROVE FALSE
    <3>1. Row(p) \in rows.collisions /\ Row(p).seg = k /\ Row(p).id = log[p].id /\ Row(p).at = p
      BY <1>2, <2>1
    <3> HIDE DEF A, B, Row
    <3>2. rows.identity[log[p].id].at # p
      BY <3>1 DEF TrueOf
    <3> QED
      BY <1>1, <2>1, <3>2
  <2> QED
    BY <2>1
<1>13. Counted(k, rows) = Cardinality(Ids) + Cardinality(Twice)
  BY DEF Counted
<1> HIDE DEF A, B, Ids, Twice
<1>14. Cardinality(A \cap B) = 0
  BY <1>12, FS_EmptySet
<1>15. Cardinality(A) \in Nat /\ Cardinality(B) \in Nat
  BY <1>3, FS_CardinalityType
<1>16. Cardinality(A \cup B) = Cardinality(A) + Cardinality(B)
  <2>1. Cardinality(A \cup B) = Cardinality(A) + Cardinality(B) - Cardinality(A \cap B)
    BY <1>3, FS_Union
  <2> QED
    BY <1>14, <1>15, <2>1
<1> QED
  BY <1>7, <1>11, <1>13, <1>15, <1>16 DEF A, B

(* It reads as many as the run is long exactly when they name every place. *)
LEMMA CountIsComplete ==
    ASSUME NEW k, NEW rows, NEW run, IsFiniteSet(run), 0 \notin run,
           \A p \in run : log[p].id \in Id,
           rows.collisions \subseteq [id : Id, at : Place, seg : Place],
           TrueOf(rows, k, run)
    PROVE  Counted(k, rows) = Cardinality(run) <=>
              \A p \in run : p \in ByRow(rows, k, run) \/ p \in ByCollision(rows, k, run)
<1> DEFINE U == ByRow(rows, k, run) \cup ByCollision(rows, k, run)
<1>1. U \in SUBSET run
  BY DEF ByRow, ByCollision
<1>2. Counted(k, rows) = Cardinality(U)
  BY CountOfPlaces
<1>3. Cardinality(run) = Cardinality(U) => run = U
  BY <1>1, FS_Subset
<1>4. run = U <=> \A p \in run : p \in ByRow(rows, k, run) \/ p \in ByCollision(rows, k, run)
  BY <1>1
<1> QED
  BY <1>2, <1>3, <1>4

----------------------------------------------------------------------------
(* The account.                                                            *)

(* What is known of the places of a run.                                   *)
LEMMA RunPlaces ==
    ASSUME TypeOK, Linked, NEW k \in Segments
    PROVE  /\ IsFiniteSet(Run(k)) /\ Cardinality(Run(k)) \in Nat /\ 0 \notin Run(k)
           /\ Run(k) \subseteq Written /\ Run(k) \cap Resident = {}
           /\ \A p \in Run(k) : log[p].id \in Id
<1>1. SealedTo \in Nat /\ Len(log) \in Nat /\ \A p \in Written : log[p].id \in Id
  BY ChainShape
<1>2. Divided
  BY RunsDivide
<1>3. Run(k) \subseteq 1 .. SealedTo /\ Written = 1 .. SealedTo \cup Resident
  BY <1>2 DEF Divided
<1>4. IsFiniteSet(1 .. SealedTo)
  BY <1>1, FS_Interval
<1>5. IsFiniteSet(Run(k)) /\ Cardinality(Run(k)) \in Nat
  BY <1>3, <1>4, FS_Subset, FS_CardinalityType
<1>6. \A p \in 1 .. SealedTo : p # 0 /\ p \notin Resident
  BY <1>1 DEF Resident
<1> QED
  BY <1>1, <1>3, <1>5, <1>6

(* Rows that are true of the chain are true of each run.                   *)
LEMMA TrueOfRuns ==
    ASSUME TypeOK, RowsAreTrue, NEW k \in Segments
    PROVE  /\ TrueOf(Rows, k, Run(k))
           /\ Rows.collisions \subseteq [id : Id, at : Place, seg : Place]
<1>1. k # 0
  BY DEF Segments
<1>2. Rows.identity = identity /\ Rows.collisions = collisions
  BY DEF Rows
<1>3. ASSUME NEW i \in Id, identity[i].at # 0, identity[i].seg = k
      PROVE  identity[i].at \in Run(k) /\ log[identity[i].at].id = i
  BY <1>1, <1>3 DEF RowsAreTrue, Holds
<1>4. ASSUME NEW c \in collisions, c.seg = k
      PROVE  c.at \in Run(k) /\ log[c.at].id = c.id /\ identity[c.id].at # c.at
  BY <1>1, <1>4 DEF RowsAreTrue, Holds
<1>5. collisions \subseteq [id : Id, at : Place, seg : Place]
  BY DEF TypeOK
<1> QED
  BY <1>2, <1>3, <1>4, <1>5 DEF TrueOf

(* Complete counters leave no record of a segment without its row.         *)
LEMMA CompleteCounter ==
    ASSUME TypeOK, Linked, RowsAreTrue, CountersAreExact,
           NEW k \in Segments, stamped[k] = Cardinality(Run(k)), NEW p \in Run(k)
    PROVE  \/ identity[log[p].id].at = p /\ identity[log[p].id].seg = k
           \/ \E c \in collisions : c.id = log[p].id /\ c.at = p
<1>1. /\ IsFiniteSet(Run(k)) /\ Cardinality(Run(k)) \in Nat /\ 0 \notin Run(k)
      /\ \A q \in Run(k) : log[q].id \in Id
  BY RunPlaces
<1>2. /\ TrueOf(Rows, k, Run(k))
      /\ Rows.collisions \subseteq [id : Id, at : Place, seg : Place]
  BY TrueOfRuns
<1>3. stamped[k] # NoCounter
  BY <1>1 DEF NoCounter
<1>4. Counted(k, Rows) = Cardinality(Run(k))
  BY <1>3 DEF CountersAreExact
<1>5. p \in ByRow(Rows, k, Run(k)) \/ p \in ByCollision(Rows, k, Run(k))
  BY <1>1, <1>2, <1>4, CountIsComplete
<1>6. Rows.identity = identity /\ Rows.collisions = collisions
  BY DEF Rows
<1>7. CASE p \in ByRow(Rows, k, Run(k))
  BY <1>6, <1>7 DEF ByRow
<1>8. CASE p \in ByCollision(Rows, k, Run(k))
  BY <1>6, <1>8 DEF ByCollision
<1> QED
  BY <1>5, <1>7, <1>8

(* A chain whose coverage reads complete is accounted for, record by       *)
(* record.                                                                 *)
LEMMA CoveredAccounts ==
    ASSUME TypeOK, Linked, RowsAreTrue, CountersAreExact, Covered, NEW p \in Written
    PROVE  \/ identity[log[p].id].at = p
                 /\ (p \in Resident <=> identity[log[p].id].seg = 0)
           \/ \E c \in collisions : c.id = log[p].id /\ c.at = p
<1>1. Divided
  BY RunsDivide
<1>2. log[p].id \in Id
  BY ChainShape
<1>3. CASE p \in Resident
  <2>1. Named(p)
    BY <1>3 DEF Covered, Unstamped
  <2>2. CASE identity[log[p].id].at = p
    <3>1. p # 0
      BY ChainShape DEF Written
    <3>2. identity[log[p].id].seg # 0 => identity[log[p].id].seg \in Segments
      <4>1. identity[log[p].id].seg \in 0 .. MaxLog
        BY <1>2 DEF TypeOK
      <4>2. identity[log[p].id].seg # 0 => identity[log[p].id].seg <= Len(headers)
        BY <1>2, <2>2, <3>1 DEF RowsAreTrue, Holds
      <4> QED
        BY <4>1, <4>2, BoundAssumption, ChainShape DEF Segments
    <3>3. identity[log[p].id].seg # 0 => p \in Run(identity[log[p].id].seg)
      BY <1>2, <2>2, <3>1 DEF RowsAreTrue, Holds
    <3>4. identity[log[p].id].seg = 0
      BY <1>3, <3>2, <3>3, RunPlaces
    <3> QED
      BY <1>3, <2>2, <3>4
  <2> QED
    BY <2>1, <2>2 DEF Named
<1>4. CASE p \notin Resident
  <2>1. PICK k \in Segments : p \in Run(k)
    BY <1>1, <1>4 DEF Divided
  <2>2. stamped[k] = Cardinality(Run(k))
    BY DEF Covered, Uncovered, Segments
  <2>3. k # 0
    BY DEF Segments
  <2> QED
    BY <1>4, <2>1, <2>2, <2>3, CompleteCounter
<1> QED
  BY <1>3, <1>4

(* IdentitySound follows.                                                  *)
LEMMA RowsAccount == RowInv => IdentitySound
<1> SUFFICES ASSUME RowInv PROVE IdentitySound
  OBVIOUS
<1>1. TypeOK /\ Linked /\ RowsAreTrue /\ CountersAreExact /\ AllStamped /\ OneCopy
  BY DEF RowInv
<1>2. Covered => \A p \in 1 .. Len(log) :
          \/ identity[log[p].id].at = p
                /\ (p \in Resident <=> identity[log[p].id].seg = 0)
          \/ \E c \in collisions : c.id = log[p].id /\ c.at = p
  BY <1>1, CoveredAccounts DEF Written
<1>3. ASSUME Stamping PROVE Covered
  <2>1. Uncovered = {}
    BY <1>1, <1>3 DEF AllStamped, Uncovered, Segments
  <2>2. \A p \in Resident : p \in Written
    BY <1>1, RunsDivide DEF Divided
  <2>3. Unstamped = {}
    BY <1>1, <1>3, <2>2 DEF AllStamped, Unstamped, Named
  <2> QED
    BY <2>1, <2>3 DEF Covered
<1>4. Accounted
  BY <1>1, <1>2, <1>3 DEF Accounted
<1> QED
  BY <1>1, <1>4 DEF IdentitySound

----------------------------------------------------------------------------
(* The parts of the type invariant.                                        *)

ChainTyped ==
    /\ log \in Seq(Entry) /\ headers \in Seq(Header)
    /\ identity \in [Id -> [at : 0 .. MaxLog, seg : 0 .. MaxLog]]
    /\ collisions \subseteq [id : Id, at : Place, seg : Place]
    /\ stamped \in Seq({NoCounter} \cup Nat) /\ Len(stamped) = Len(headers)
    /\ body \in Seq({"whole", "missing", "corrupt"}) /\ Len(body) = Len(headers)
    /\ forged \subseteq Place
NodeKind == [pc : {"down", "backfill", "recheck", "up", "walk", "ok", "stale", "conflict",
                   "uncovered"},
             complete : BOOLEAN, todo : SUBSET Place, missing : SUBSET Place,
             quiet : BOOLEAN, found : BOOLEAN, damaged : BOOLEAN]
CallKind == [pc : {"start", "sent", "failed", "unspent"} \cup Decided,
             node : Node \cup {None}, parent : 0 .. MaxLog, tries : 0 .. MaxTries]
ReaderKind == [pc : {"idle", "resident", "missed", "sealed"} \cup Answered,
               node : Node \cup {None}, id : Id, at : 0 .. MaxLog, seg : 0 .. MaxLog,
               known : BOOLEAN]
OldKind == [wrote : SUBSET [id : Id, content : Content], seals : Nat, gone : BOOLEAN,
            losses : Nat, crashes : Nat, damage : Nat]
NodeTyped == node \in [Node -> NodeKind]
CallTyped == call \in [Call -> CallKind] /\ inflight \subseteq [call : Call, parent : Place]
SealerTyped == sealer \in [Node -> -1 .. MaxLog]
ReaderTyped == reader \in ReaderKind
OldTyped == old \in OldKind

(* They are all of it.                                                     *)
LEMMA TypeParts ==
    TypeOK <=> /\ ChainTyped /\ NodeTyped /\ CallTyped /\ SealerTyped /\ ReaderTyped /\ OldTyped
  BY DEF TypeOK, ChainTyped, NodeTyped, CallTyped, SealerTyped, ReaderTyped, OldTyped,
         Entry, Header, NodeKind, CallKind, ReaderKind, OldKind

(* The chain's lists keep their kinds.                                     *)
LEMMA ChainTypedKept ==
    ASSUME ChainTyped, UNCHANGED <<chain, body, forged>>
    PROVE  ChainTyped'
  BY DEF ChainTyped, chain

(* The constants.                                                          *)
LEMMA Constants ==
    /\ MaxLog \in Nat \ {0} /\ MaxTries \in Nat /\ 1 \in Place
    /\ HotWindow \in Nat /\ SegmentSize \in Nat \ {0} /\ SegmentSize <= HotWindow
    /\ Genesis.id \in Id /\ Genesis.content \in Content
    /\ Genesis.content \notin Manifest /\ Genesis.content \notin Epoch
    /\ \A c \in Call : Wants[c].id \in Id /\ Wants[c].content \in Content
    /\ \A s \in Scenes : s \in Scene
<1>1. \A c \in Call : Wants[c] \in [id : Id, content : Content]
  BY WantsAssumption
<1>2. \A c \in Call : Wants[c].id \in Id /\ Wants[c].content \in Content
  BY <1>1
<1>3. /\ Genesis.id \in Id /\ Genesis.content \in Content
      /\ Genesis.content \notin Manifest /\ Genesis.content \notin Epoch
  BY KindAssumption
<1>4. /\ MaxLog \in Nat \ {0} /\ MaxTries \in Nat /\ 1 \in Place
      /\ HotWindow \in Nat /\ SegmentSize \in Nat \ {0} /\ SegmentSize <= HotWindow
  BY BoundAssumption, PolicyAssumption DEF Place
<1>5. Scenes \subseteq Scene
  BY BoundAssumption
<1> QED
  BY <1>2, <1>3, <1>4, <1>5

(* At first there is the genesis record and its row.                       *)
LEMMA InitTypes == Init => TypeOK
<1> SUFFICES ASSUME Init PROVE TypeOK
  OBVIOUS
<1>1. /\ log = <<Record(Genesis, TRUE)>> /\ headers = <<>> /\ stamped = <<>> /\ body = <<>>
      /\ collisions = {} /\ forged = {}
  BY DEF Init
<1>2. Record(Genesis, TRUE) \in Entry
  BY Constants DEF Record, Entry
<1>3. identity \in [Id -> [at : 0 .. MaxLog, seg : 0 .. MaxLog]]
  <2>1. identity = [i \in Id |-> IF i = Genesis.id THEN [at |-> 1, seg |-> 0] ELSE NoRow]
    BY DEF Init
  <2>2. 0 \in 0 .. MaxLog /\ 1 \in 0 .. MaxLog
    BY Constants
  <2> QED
    BY <2>1, <2>2 DEF NoRow
<1>4. ChainTyped
  <2>1. log \in Seq(Entry)
    <3>1. \A e \in Entry : <<e>> \in Seq(Entry)
      OBVIOUS
    <3> QED
      BY <1>1, <1>2, <3>1
  <2>2. headers \in Seq(Header) /\ stamped \in Seq({NoCounter} \cup Nat)
        /\ body \in Seq({"whole", "missing", "corrupt"})
    BY <1>1
  <2>3. Len(stamped) = Len(headers) /\ Len(body) = Len(headers)
    BY <1>1
  <2> QED
    BY <1>1, <1>3, <2>1, <2>2, <2>3 DEF ChainTyped
<1>5. NodeTyped
  <2>1. Down \in NodeKind
    BY DEF Down, NodeKind
  <2> QED
    BY <2>1 DEF Init, NodeTyped
<1>6. CallTyped
  <2>1. 0 \in 0 .. MaxLog /\ 0 \in 0 .. MaxTries
    BY Constants
  <2>2. [pc |-> "start", node |-> None, parent |-> 0, tries |-> 0] \in CallKind
    BY <2>1 DEF CallKind
  <2> QED
    BY <2>2 DEF Init, CallTyped
<1>7. SealerTyped
  BY Constants DEF Init, SealerTyped
<1>8. ReaderTyped
  BY Constants DEF Init, ReaderTyped, ReaderKind, IdleReader
<1>9. OldTyped
  BY DEF Init, OldTyped, OldKind
<1> QED
  BY <1>4, <1>5, <1>6, <1>7, <1>8, <1>9, TypeParts

(* And every part of the invariant holds of it.                            *)
LEMMA InitIInv == Init => IInv
<1> SUFFICES ASSUME Init PROVE IInv
  OBVIOUS
<1>1. TypeOK
  BY InitTypes
<1>2. /\ log = <<Record(Genesis, TRUE)>> /\ headers = <<>> /\ stamped = <<>> /\ body = <<>>
      /\ collisions = {} /\ forged = {}
      /\ identity = [i \in Id |-> IF i = Genesis.id THEN [at |-> 1, seg |-> 0] ELSE NoRow]
      /\ node = [n \in Node |-> Down] /\ sealer = [n \in Node |-> -1]
      /\ call = [c \in Call |-> [pc |-> "start", node |-> None, parent |-> 0, tries |-> 0]]
      /\ reader.pc = "idle" /\ scene \in Scenes
  BY DEF Init, IdleReader
<1>3. /\ Len(log) = 1 /\ log[1].id = Genesis.id /\ Len(headers) = 0 /\ SealedTo = 0
      /\ Written = {1} /\ Segments = {} /\ Resident = {1}
  BY <1>2 DEF Record, SealedTo, Written, Segments, Resident
<1>4. /\ \A i \in Id : identity[i].at = (IF i = Genesis.id THEN 1 ELSE 0) /\ identity[i].seg = 0
  BY <1>2 DEF NoRow
<1>5. Linked
  BY <1>2, <1>3, Constants DEF Linked
<1>6. DistinctIds
  BY <1>3 DEF DistinctIds, Distinct
<1>7. RowsAreTrue /\ RowsAreWhole
  <2>1. collisions = {}
    BY <1>2
  <2>2. ASSUME NEW i \in Id
        PROVE  /\ identity[i].at # 0 => identity[i].at = 1 /\ i = Genesis.id
               /\ identity[i].seg = 0
    BY <1>4
  <2>3. RowsAreTrue
    BY <1>3, <2>1, <2>2 DEF RowsAreTrue
  <2>4. identity[Genesis.id].at = 1
    BY <1>4, Constants
  <2>5. RowsAreWhole
    BY <1>3, <2>1, <2>2, <2>4 DEF RowsAreWhole
  <2> QED
    BY <2>3, <2>5
<1>8. CountersAreExact
  BY <1>3 DEF CountersAreExact
<1>9. AllStamped
  BY <1>2, <1>3, <1>4, Constants DEF AllStamped
<1>10. OneCopy
  <2>1. \A c \in Call : call[c].pc = "start"
    BY <1>2
  <2> QED
    BY <1>3, <2>1 DEF OneCopy
<1>11. HandlesKnow
  BY <1>2 DEF HandlesKnow, Down
<1>12. ReaderIsRight /\ RecoverFinds
  BY <1>2, <1>3 DEF ReaderIsRight, RecoverFinds
<1>13. HeadersName
  BY <1>3 DEF HeadersName
<1> QED
  BY <1>1, <1>2, <1>5, <1>6, <1>7, <1>8, <1>9, <1>10, <1>11, <1>12, <1>13 DEF IInv, RowInv

----------------------------------------------------------------------------
(* Types: what is not the chain.                                           *)

(* Calls and batches, whatever step is taken.                              *)
LEMMA CallTypedKept == TypeOK /\ Linked /\ Next => CallTyped'
<1> SUFFICES ASSUME TypeOK, Linked, Next PROVE CallTyped'
  OBVIOUS
<1>1. /\ call \in [Call -> CallKind] /\ inflight \subseteq [call : Call, parent : Place]
      /\ \A c \in Call : call[c] \in CallKind
  BY TypeParts DEF CallTyped
<1>2. Len(log) \in Place /\ Len(log) \in 0 .. MaxLog
  BY ChainShape, Constants DEF Linked, Place
<1>3. 0 \in 0 .. MaxLog /\ 0 \in 0 .. MaxTries /\ MaxTries \in Nat
  BY Constants
<1>4. \A c \in Call : call[c].node \in Node \cup {None} /\ call[c].tries \in 0 .. MaxTries
                      /\ call[c].parent \in 0 .. MaxLog
  BY <1>1 DEF CallKind
<1> DEFINE Pc == {"start", "sent", "failed", "unspent", "landed", "conflict", "error"}
<1>5. \A pc \in Pc, n \in Node \cup {None}, parent \in 0 .. MaxLog, tries \in 0 .. MaxTries :
          [pc |-> pc, node |-> n, parent |-> parent, tries |-> tries] \in CallKind
  BY DEF CallKind, Decided
<1>6. \A e \in CallKind : \A pc \in Pc : [e EXCEPT !.pc = pc] \in CallKind
  BY DEF CallKind, Decided
<1>7. \A e \in CallKind : [e EXCEPT !.pc = "error", !.parent = 0, !.tries = 0] \in CallKind
  BY <1>3 DEF CallKind, Decided
<1> HIDE DEF Pc
<1>8. \A c \in Call, e \in CallKind : call' = [call EXCEPT ![c] = e] => call' \in [Call -> CallKind]
  BY <1>1
<1>9. /\ "start" \in Pc /\ "sent" \in Pc /\ "failed" \in Pc /\ "unspent" \in Pc
      /\ "landed" \in Pc /\ "conflict" \in Pc /\ "error" \in Pc
  BY DEF Pc
<1>10. \A c \in Call, pc \in Pc : Answer(c, pc) => call' \in [Call -> CallKind]
  <2>1. SUFFICES ASSUME NEW c \in Call, NEW pc \in Pc, Answer(c, pc)
                 PROVE  call' \in [Call -> CallKind]
    OBVIOUS
  <2>2. [pc |-> pc, node |-> call[c].node, parent |-> 0, tries |-> 0] \in CallKind
    BY <1>3, <1>4, <1>5
  <2> QED
    BY <1>8, <2>1, <2>2 DEF Answer
<1>11. \A c \in Call, pc \in Pc : call' = [call EXCEPT ![c].pc = pc] => call' \in [Call -> CallKind]
  BY <1>1, <1>6
<1>12. \A d : Spoken(d) = None \/ Spoken(d) \in Pc
  BY <1>9 DEF Spoken
<1>13. ASSUME NEW c \in Call, NEW n \in Node, Offer(c, n) PROVE CallTyped'
  <2>1. CASE /\ Backstop(n, Wants[c]) # None
             /\ call' = [call EXCEPT ![c] = [pc |-> Backstop(n, Wants[c]), node |-> n,
                                             parent |-> 0, tries |-> 0]]
             /\ UNCHANGED inflight
    <3>1. Backstop(n, Wants[c]) \in Pc
      BY <1>9, <1>12, <2>1 DEF Backstop
    <3>2. [pc |-> Backstop(n, Wants[c]), node |-> n, parent |-> 0, tries |-> 0] \in CallKind
      BY <1>3, <1>5, <3>1
    <3> QED
      BY <1>1, <1>8, <2>1, <3>2 DEF CallTyped
  <2>2. CASE /\ TriesLeft(c)
             /\ call' = [call EXCEPT ![c] = [pc |-> "sent", node |-> n, parent |-> Len(log),
                                             tries |-> @.tries + 1]]
             /\ inflight' = inflight \cup {[call |-> c, parent |-> Len(log)]}
    <3>1. call[c].tries + 1 \in 0 .. MaxTries
      BY <1>3, <1>4, <2>2 DEF TriesLeft
    <3>2. [pc |-> "sent", node |-> n, parent |-> Len(log), tries |-> call[c].tries + 1] \in CallKind
      BY <1>2, <1>5, <1>9, <3>1
    <3>3. call' \in [Call -> CallKind]
      BY <1>8, <2>2, <3>2
    <3>4. inflight' \subseteq [call : Call, parent : Place]
      BY <1>1, <1>2, <2>2
    <3> QED
      BY <3>3, <3>4 DEF CallTyped
  <2>3. CASE /\ call' = [call EXCEPT ![c] = [pc |-> "error", node |-> n, parent |-> 0, tries |-> 0]]
             /\ UNCHANGED inflight
    <3>1. [pc |-> "error", node |-> n, parent |-> 0, tries |-> 0] \in CallKind
      BY <1>3, <1>5, <1>9
    <3> QED
      BY <1>1, <1>8, <2>3, <3>1 DEF CallTyped
  <2> QED
    BY <1>13, <2>1, <2>2, <2>3 DEF Offer
<1>14. ASSUME NEW b \in inflight, Apply(b) PROVE CallTyped'
  <2>1. b.call \in Call /\ inflight' \subseteq [call : Call, parent : Place]
    BY <1>1, <1>14 DEF Apply
  <2>2. \/ Answer(b.call, "landed")
        \/ call' = [call EXCEPT ![b.call].pc = IF Awaited(b) THEN "failed" ELSE @]
    BY <1>14 DEF Apply
  <2>3. CASE Answer(b.call, "landed")
    BY <1>9, <1>10, <2>1, <2>3 DEF CallTyped
  <2>4. CASE call' = [call EXCEPT ![b.call].pc = IF Awaited(b) THEN "failed" ELSE @]
    <3>1. call' = [call EXCEPT ![b.call].pc = IF Awaited(b) THEN "failed" ELSE call[b.call].pc]
      BY <2>4
    <3>2. call[b.call].pc \in Pc
      BY <1>1, <2>1 DEF CallKind, Pc, Decided
    <3>3. (IF Awaited(b) THEN "failed" ELSE call[b.call].pc) \in Pc
      BY <1>9, <3>2
    <3> QED
      BY <1>11, <2>1, <3>1, <3>3 DEF CallTyped
  <2> QED
    BY <2>2, <2>3, <2>4
<1>15. ASSUME NEW c \in Call, GiveUp(c) \/ Classify(c) \/ AskHead(c) PROVE CallTyped'
  <2>1. UNCHANGED inflight
    BY <1>15 DEF GiveUp, Classify, AskHead
  <2>2. \/ \E pc \in Pc : call' = [call EXCEPT ![c].pc = pc]
        \/ \E pc \in Pc : Answer(c, pc)
    <3>1. CASE GiveUp(c)
      BY <1>9, <3>1 DEF GiveUp
    <3>2. CASE Classify(c)
      BY <1>9, <1>12, <3>2 DEF Classify
    <3>3. CASE AskHead(c)
      BY <1>9, <3>3 DEF AskHead
    <3> QED
      BY <1>15, <3>1, <3>2, <3>3
  <2>3. call' \in [Call -> CallKind]
    BY <1>10, <1>11, <2>2
  <2> QED
    BY <1>1, <2>1, <2>3 DEF CallTyped
<1>16. ASSUME NEW n \in Node, Crash(n) PROVE CallTyped'
  <2>1. call' = [c \in Call |-> IF call[c].node = n /\ call[c].pc \notin Decided
                               THEN [call[c] EXCEPT !.pc = "error", !.parent = 0, !.tries = 0]
                               ELSE call[c]]
        /\ inflight' = inflight
    BY <1>16 DEF Crash
  <2> QED
    BY <1>1, <1>7, <2>1 DEF CallTyped
<1>17. CASE UNCHANGED <<call, inflight>>
  BY <1>1, <1>17 DEF CallTyped
<1> QED
  BY <1>13, <1>14, <1>15, <1>16, <1>17
     DEF Next, Open, Backfill, Recheck, SealRead, SealCommit, ReindexSegment, ReindexReport,
         LookUp, ReadResident, AskAgain, ReadBody, OldAppend, OldSeal, OldLeaves, Damage

(* What older binaries and faults did.                                     *)
LEMMA OldTypedKept == TypeOK /\ scene \in Scenes /\ Next => OldTyped'
<1> SUFFICES ASSUME TypeOK, scene \in Scenes, Next PROVE OldTyped'
  OBVIOUS
<1>1. old \in OldKind
  BY TypeParts DEF OldTyped
<1>2. scene.old \subseteq [id : Id, content : Content]
  BY Constants DEF Scene
<1>3. \A o \in OldKind :
          /\ [o EXCEPT !.crashes = @ + 1] \in OldKind /\ [o EXCEPT !.losses = @ + 1] \in OldKind
          /\ [o EXCEPT !.losses = @ + 0] \in OldKind /\ [o EXCEPT !.seals = @ + 1] \in OldKind
          /\ [o EXCEPT !.damage = @ + 1] \in OldKind /\ [o EXCEPT !.gone = TRUE] \in OldKind
          /\ \A d \in scene.old : [o EXCEPT !.wrote = @ \cup {d}] \in OldKind
  <2>1. SUFFICES ASSUME NEW o \in OldKind
                 PROVE  /\ [o EXCEPT !.crashes = @ + 1] \in OldKind
                        /\ [o EXCEPT !.losses = @ + 1] \in OldKind
                        /\ [o EXCEPT !.losses = @ + 0] \in OldKind
                        /\ [o EXCEPT !.seals = @ + 1] \in OldKind
                        /\ [o EXCEPT !.damage = @ + 1] \in OldKind
                        /\ [o EXCEPT !.gone = TRUE] \in OldKind
                        /\ \A d \in scene.old : [o EXCEPT !.wrote = @ \cup {d}] \in OldKind
    OBVIOUS
  <2>2. ASSUME NEW d \in scene.old PROVE o.wrote \cup {d} \in SUBSET [id : Id, content : Content]
    BY <1>2 DEF OldKind
  <2> DEFINE Wrote == SUBSET [id : Id, content : Content]
  <2>3. OldKind = [wrote : Wrote, seals : Nat, gone : BOOLEAN, losses : Nat, crashes : Nat,
                   damage : Nat]
    BY DEF OldKind
  <2>4. ASSUME NEW d \in scene.old PROVE o.wrote \cup {d} \in Wrote
    BY <2>2
  <2> HIDE DEF Wrote
  <2>5. ASSUME NEW d \in scene.old PROVE [o EXCEPT !.wrote = @ \cup {d}] \in OldKind
    BY <2>3, <2>4
  <2>6. /\ o.crashes + 1 \in Nat /\ o.losses + 1 \in Nat /\ o.losses + 0 \in Nat
        /\ o.seals + 1 \in Nat /\ o.damage + 1 \in Nat
    BY <2>3
  <2>7. \A m \in Nat : /\ [o EXCEPT !.crashes = m] \in OldKind
                       /\ [o EXCEPT !.losses = m] \in OldKind
                       /\ [o EXCEPT !.seals = m] \in OldKind
                       /\ [o EXCEPT !.damage = m] \in OldKind
    BY <2>3
  <2>8. [o EXCEPT !.gone = TRUE] \in OldKind
    BY <2>3
  <2> QED
    BY <2>5, <2>6, <2>7, <2>8
<1>4. ASSUME NEW b \in inflight, Apply(b) PROVE OldTyped'
  <2>1. \/ old' = old
        \/ old' = [old EXCEPT !.losses = @ + IF Awaited(b) THEN 1 ELSE 0]
    BY <1>4 DEF Apply
  <2> QED
    BY <1>1, <1>3, <2>1 DEF OldTyped
<1>5. CASE old' = old
  BY <1>1, <1>5 DEF OldTyped
<1>6. \/ old' = old
      \/ \E b \in inflight : Apply(b)
      \/ old' = [old EXCEPT !.crashes = @ + 1]
      \/ old' = [old EXCEPT !.losses = @ + 1]
      \/ old' = [old EXCEPT !.seals = @ + 1]
      \/ old' = [old EXCEPT !.damage = @ + 1]
      \/ old' = [old EXCEPT !.gone = TRUE]
      \/ \E d \in scene.old : old' = [old EXCEPT !.wrote = @ \cup {d}]
  BY DEF Next, Open, Backfill, Recheck, Crash, Offer, GiveUp, Classify, AskHead, SealRead,
         SealCommit, ReindexSegment, ReindexReport, LookUp, ReadResident, AskAgain, ReadBody,
         OldAppend, OldSeal, OldLeaves, Damage
<1> QED
  BY <1>1, <1>3, <1>4, <1>5, <1>6 DEF OldTyped

(* What the seals have read.                                               *)
LEMMA SealerTypedKept == TypeOK /\ Linked /\ Next => SealerTyped'
<1> SUFFICES ASSUME TypeOK, Linked, Next PROVE SealerTyped'
  OBVIOUS
<1>1. sealer \in [Node -> -1 .. MaxLog]
  BY TypeParts DEF SealerTyped
<1>2. Len(headers) \in -1 .. MaxLog /\ -1 \in -1 .. MaxLog
  BY ChainShape, Constants, RunsDivide DEF Divided, Linked
<1>3. \/ sealer' = sealer
      \/ \E n \in Node : sealer' = [sealer EXCEPT ![n] = -1]
      \/ \E n \in Node : sealer' = [sealer EXCEPT ![n] = Len(headers)]
  BY DEF Next, Open, Backfill, Recheck, Crash, Offer, Apply, GiveUp, Classify, AskHead, SealRead,
         SealCommit, ReindexSegment, ReindexReport, LookUp, ReadResident, AskAgain, ReadBody,
         OldAppend, OldSeal, OldLeaves, Damage
<1> QED
  BY <1>1, <1>2, <1>3 DEF SealerTyped

(* The reader.                                                             *)
LEMMA ReaderTypedKept == TypeOK /\ Next => ReaderTyped'
<1> SUFFICES ASSUME TypeOK, Next PROVE ReaderTyped'
  OBVIOUS
<1>1. reader \in ReaderKind /\ identity \in [Id -> [at : 0 .. MaxLog, seg : 0 .. MaxLog]]
  BY TypeParts DEF ReaderTyped, ChainTyped
<1>2. \A i \in Id : identity[i].at \in 0 .. MaxLog /\ identity[i].seg \in 0 .. MaxLog
  BY <1>1
<1>3. reader.at \in 0 .. MaxLog /\ reader.seg \in 0 .. MaxLog /\ reader.id \in Id
  BY <1>1 DEF ReaderKind
<1> DEFINE Pc == {"idle", "resident", "missed", "sealed"} \cup Answered
<1>4. \A pc \in Pc, at, seg \in 0 .. MaxLog : Read(pc, at, seg) => ReaderTyped'
  BY <1>1 DEF Read, ReaderTyped, ReaderKind
<1>5. ASSUME NEW n \in Node, NEW i \in Id, LookUp(n, i) PROVE ReaderTyped'
  <2> DEFINE known == \E p \in 1 .. Len(log) : log[p].id = i
             pc == IF Collided(i) THEN "conflict"
                   ELSE IF identity[i].at = 0
                   THEN IF node[n].complete THEN "absent" ELSE "unproven"
                   ELSE IF identity[i].seg = 0 THEN "resident" ELSE "sealed"
  <2>1. reader' = [node |-> n, id |-> i, at |-> identity[i].at, seg |-> identity[i].seg,
                   known |-> known, pc |-> pc]
    BY <1>5 DEF LookUp
  <2>2. pc \in Pc /\ known \in BOOLEAN
    BY DEF Answered
  <2> HIDE DEF known, pc
  <2> QED
    BY <1>2, <2>1, <2>2 DEF ReaderTyped, ReaderKind
<1>6. ASSUME ReadResident PROVE ReaderTyped'
  <2> DEFINE pc == IF ~Verifies THEN "integrity"
                   ELSE IF reader.at \in Resident THEN "record" ELSE "missed"
  <2>1. Read(pc, reader.at, reader.seg)
    BY <1>6 DEF ReadResident
  <2>2. pc \in Pc
    BY DEF Answered
  <2> HIDE DEF pc, Pc
  <2> QED
    BY <1>3, <1>4, <2>1, <2>2
<1>7. ASSUME AskAgain PROVE ReaderTyped'
  <2>1. Read(Revalidated(reader.id), reader.at, identity[reader.id].seg)
    BY <1>7 DEF AskAgain
  <2>2. Revalidated(reader.id) \in Pc
    BY DEF Revalidated, Answered
  <2> HIDE DEF Pc
  <2> QED
    BY <1>2, <1>3, <1>4, <2>1, <2>2
<1>8. ASSUME ReadBody PROVE ReaderTyped'
  <2> DEFINE pc == IF Fetched(reader.seg) # "record" \/ reader.at \in Run(reader.seg)
                   THEN Fetched(reader.seg) ELSE "integrity"
  <2>1. Read(pc, reader.at, reader.seg)
    BY <1>8 DEF ReadBody
  <2>2. pc \in Pc
    BY DEF Answered, Fetched
  <2> HIDE DEF pc, Pc
  <2> QED
    BY <1>3, <1>4, <2>1, <2>2
<1>9. ASSUME reader' = reader \/ reader' = IdleReader PROVE ReaderTyped'
  <2>1. IdleReader \in ReaderKind
    BY Constants DEF IdleReader, ReaderKind
  <2> QED
    BY <1>1, <1>9, <2>1 DEF ReaderTyped
<1>10. \/ reader' = reader
       \/ reader' = IdleReader
       \/ \E n \in Node, i \in Id : LookUp(n, i)
       \/ ReadResident \/ AskAgain \/ ReadBody
  BY DEF Next, Open, Backfill, Recheck, Crash, Offer, Apply, GiveUp, Classify, AskHead, SealRead,
         SealCommit, ReindexSegment, ReindexReport, OldAppend, OldSeal, OldLeaves, Damage
<1> QED
  BY <1>5, <1>6, <1>7, <1>8, <1>9, <1>10

(* The handles.                                                            *)
LEMMA NodeTypedKept == TypeOK /\ Linked /\ Next => NodeTyped'
<1> SUFFICES ASSUME TypeOK, Linked, Next PROVE NodeTyped'
  OBVIOUS
<1>1. node \in [Node -> NodeKind] /\ old \in OldKind
  BY TypeParts DEF NodeTyped, OldTyped
<1>2. \A n \in Node : node[n] \in NodeKind
  BY <1>1
<1>3. Segments \subseteq Place /\ Written \subseteq Place
  BY ChainShape, Constants, RunsDivide DEF Divided, Linked, Segments, Written, Place
<1>4. \A n \in Node, e \in NodeKind : node' = [node EXCEPT ![n] = e] => NodeTyped'
  BY <1>1 DEF NodeTyped
<1>5. Down \in NodeKind
  BY DEF Down, NodeKind
<1>6. old.gone \in BOOLEAN
  BY <1>1 DEF OldKind
<1>7. Covered \in BOOLEAN
  BY DEF Covered
<1>8. ASSUME NEW n \in Node, Open(n) PROVE NodeTyped'
  <2>1. Unstamped \in SUBSET Place
    BY <1>3, RunsDivide DEF Divided, Unstamped
  <2>2. [Down EXCEPT !.pc = "backfill", !.missing = Unstamped, !.quiet = old.gone] \in NodeKind
    BY <1>6, <2>1 DEF Down, NodeKind
  <2> QED
    BY <1>4, <1>8, <2>2 DEF Open
<1>9. ASSUME NEW n \in Node, Backfill(n) PROVE NodeTyped'
  <2>1. \A e \in NodeKind : [e EXCEPT !.pc = "recheck", !.missing = {}] \in NodeKind
    BY DEF NodeKind
  <2>2. node' = [node EXCEPT ![n] = [node[n] EXCEPT !.pc = "recheck", !.missing = {}]]
    BY <1>1, <1>9 DEF Backfill
  <2> QED
    BY <1>2, <1>4, <2>1, <2>2
<1>10. ASSUME NEW n \in Node, Recheck(n) PROVE NodeTyped'
  <2>1. Uncovered \in SUBSET Place
    BY <1>3 DEF Uncovered, Segments
  <2> DEFINE todo == Uncovered
             covered == Covered
  <2> HIDE DEF todo, covered
  <2>2. todo \in SUBSET Place /\ covered \in BOOLEAN
    BY <1>7, <2>1 DEF todo, covered
  <2>3. \A e \in NodeKind :
            /\ [e EXCEPT !.pc = "walk", !.todo = todo, !.complete = covered] \in NodeKind
            /\ [e EXCEPT !.pc = "up", !.complete = TRUE] \in NodeKind
    BY <2>2 DEF NodeKind
  <2>4. node' = [node EXCEPT ![n] =
          IF n \in Repairer
          THEN [node[n] EXCEPT !.pc = "walk", !.todo = todo, !.complete = covered]
          ELSE IF Covered THEN [node[n] EXCEPT !.pc = "up", !.complete = TRUE]
          ELSE Down]
    BY <1>10 DEF Recheck, todo, covered
  <2> QED
    BY <1>2, <1>4, <1>5, <2>3, <2>4
<1>11. ASSUME NEW n \in Node, Crash(n) PROVE NodeTyped'
  BY <1>4, <1>5, <1>11 DEF Crash
<1>12. \A created : \A n \in Node : StillSure(n, created) \in BOOLEAN
  BY DEF StillSure
<1>13. \A e \in NodeKind : \A m \in BOOLEAN : [e EXCEPT !.complete = m] \in NodeKind
  BY DEF NodeKind
<1>14. ASSUME NEW n \in Node, SealCommit(n) PROVE NodeTyped'
  <2>1. \/ node' = node
        \/ \E created : node' = [node EXCEPT ![n].complete = StillSure(n, created)]
    BY <1>14 DEF SealCommit
  <2>2. \/ node' = node
        \/ \E m \in BOOLEAN : node' = [node EXCEPT ![n] = [node[n] EXCEPT !.complete = m]]
    BY <1>1, <1>12, <2>1
  <2> QED
    BY <1>1, <1>2, <1>4, <1>13, <2>2 DEF NodeTyped
<1>15. ASSUME NEW n \in Node, ReindexSegment(n) PROVE NodeTyped'
  <2> DEFINE k == NewestOf(node[n].todo)
             left == node[n].todo \ {k}
  <2>1. left \in SUBSET Place
    BY <1>2 DEF NodeKind
  <2>2. \/ \E f, m \in BOOLEAN :
               node' = [node EXCEPT ![n] = [node[n] EXCEPT !.todo = left, !.found = f,
                                                           !.complete = m]]
        \/ node' = [node EXCEPT ![n] = [node[n] EXCEPT !.todo = left, !.damaged = TRUE]]
    <3>1. CASE Fetched(k) = "record"
      <4>1. node' = [node EXCEPT ![n] = [@ EXCEPT
                        !.todo = left,
                        !.found = node[n].found \/ collisions' # collisions,
                        !.complete = StillSure(n, Account(k, Run(k)).created)]]
        BY <1>15, <3>1 DEF ReindexSegment
      <4> DEFINE f == node[n].found \/ collisions' # collisions
                 m == StillSure(n, Account(k, Run(k)).created)
      <4>2. f \in BOOLEAN /\ m \in BOOLEAN
        BY <1>12
      <4> HIDE DEF m, left, k
      <4>3. node' = [node EXCEPT ![n] = [node[n] EXCEPT !.todo = left, !.found = f, !.complete = m]]
        BY <1>1, <4>1 DEF m
      <4> HIDE DEF f
      <4> QED
        BY <4>2, <4>3
    <3>2. CASE Fetched(k) # "record"
      <4>1. node' = [node EXCEPT ![n] = [@ EXCEPT !.todo = left, !.damaged = TRUE]]
        BY <1>15, <3>2 DEF ReindexSegment
      <4> HIDE DEF left, k
      <4> QED
        BY <1>1, <4>1
    <3> QED
      BY <3>1, <3>2
  <2> HIDE DEF left, k
  <2>3. \A e \in NodeKind : \A f, m \in BOOLEAN :
            /\ [e EXCEPT !.todo = left, !.found = f, !.complete = m] \in NodeKind
            /\ [e EXCEPT !.todo = left, !.damaged = TRUE] \in NodeKind
    BY <2>1 DEF NodeKind
  <2> QED
    BY <1>2, <1>4, <2>2, <2>3
<1>16. ASSUME NEW n \in Node, ReindexReport(n) PROVE NodeTyped'
  <2> DEFINE covered == Covered
             pc == IF Outcome(n) # "ok" \/ Covered THEN Outcome(n) ELSE "stale"
  <2>1. covered \in BOOLEAN /\ pc \in {"ok", "stale", "conflict", "uncovered"}
    BY <1>7 DEF Outcome
  <2>2. node' = [node EXCEPT ![n] = [@ EXCEPT !.complete = covered, !.pc = pc]]
    BY <1>16 DEF ReindexReport
  <2> HIDE DEF covered, pc
  <2>3. node' = [node EXCEPT ![n] = [node[n] EXCEPT !.complete = covered, !.pc = pc]]
    BY <1>1, <2>2
  <2>4. \A e \in NodeKind : [e EXCEPT !.complete = covered, !.pc = pc] \in NodeKind
    BY <2>1 DEF NodeKind
  <2> QED
    BY <1>2, <1>4, <2>3, <2>4
<1>17. CASE node' = node
  BY <1>1, <1>17 DEF NodeTyped
<1> QED
  BY <1>8, <1>9, <1>10, <1>11, <1>14, <1>15, <1>16, <1>17
     DEF Next, Offer, Apply, GiveUp, Classify, AskHead, SealRead,
         LookUp, ReadResident, AskAgain, ReadBody, OldAppend, OldSeal, OldLeaves, Damage

----------------------------------------------------------------------------
(* The chain's lists.                                                      *)

(* A list with one element more.                                           *)
LEMMA AppendIs ==
    ASSUME NEW S, NEW q \in Seq(S), NEW e \in S
    PROVE  /\ Append(q, e) \in Seq(S) /\ Len(Append(q, e)) = Len(q) + 1
           /\ Append(q, e)[Len(q) + 1] = e /\ Append(q, e) # <<>>
           /\ \A k \in 1 .. Len(q) : Append(q, e)[k] = q[k]
  OBVIOUS

(* What a new record does to the chain.                                    *)
Longer(e) ==
    /\ log' \in Seq(Entry) /\ Len(log') = Len(log) + 1 /\ log'[Len(log) + 1] = e
    /\ \A p \in Written : log'[p] = log[p]
    /\ Written' = Written \cup {Len(log) + 1} /\ Resident' = Resident \cup {Len(log) + 1}
    /\ Len(log) + 1 \notin Written /\ Len(log) + 1 \in Place
    /\ SealedTo' = SealedTo /\ Segments' = Segments
    /\ \A k \in Segments : Run(k)' = Run(k)
    /\ Linked' /\ DistinctIds'

(* A record whose id no resident one has makes the chain longer.           *)
LEMMA RecordAppended ==
    ASSUME TypeOK, Linked, DistinctIds, NEW e \in Entry, Len(log) < MaxLog,
           \A p \in Resident : log[p].id # e.id,
           log' = Append(log, e), headers' = headers, sealer' = sealer
    PROVE  Longer(e)
<1>1. log \in Seq(Entry)
  BY TypeParts DEF ChainTyped
<1>2. /\ log' \in Seq(Entry) /\ Len(log') = Len(log) + 1 /\ log'[Len(log) + 1] = e
      /\ \A p \in Written : log'[p] = log[p]
  BY <1>1, AppendIs DEF Written
<1>3. Len(log) \in Nat /\ SealedTo \in Nat /\ SealedTo < Len(log) /\ MaxLog \in Nat
  BY ChainShape, Constants DEF Linked
<1>4. SealedTo' = SealedTo /\ Segments' = Segments /\ \A k \in Segments : Run(k)' = Run(k)
  BY DEF SealedTo, Segments, Run
<1>5. /\ Written' = Written \cup {Len(log) + 1} /\ Resident' = Resident \cup {Len(log) + 1}
      /\ Len(log) + 1 \notin Written /\ Len(log) + 1 \in Place
  <2>1. Written' = Written \cup {Len(log) + 1} /\ Len(log) + 1 \notin Written
    BY <1>2, <1>3 DEF Written
  <2>2. Resident' = Resident \cup {Len(log) + 1}
    BY <1>2, <1>3, <1>4 DEF Resident
  <2>3. Len(log) + 1 \in Place
    BY <1>3 DEF Place
  <2> QED
    BY <2>1, <2>2, <2>3
<1>6. Linked'
  <2>1. /\ \A j, k \in Segments : j < k => headers'[j].last < headers'[k].last
        /\ \A k \in Segments : k <= headers'[k].last
    BY DEF Linked
  <2>2. SealedTo' < Len(log)' /\ Len(log)' <= MaxLog
    BY <1>2, <1>3, <1>4
  <2>3. \A n \in Node : /\ sealer'[n] <= Len(headers')
                        /\ sealer'[n] = Len(headers') => SealedTo + SegmentSize < Len(log')
    BY <1>2, <1>3, Constants DEF Linked
  <2> QED
    BY <1>4, <2>1, <2>2, <2>3 DEF Linked
<1>7. Divided
  BY RunsDivide
<1>8. Resident \subseteq Written /\ \A k \in Segments : Run(k) \subseteq Written
  BY <1>7 DEF Divided
<1>9. ASSUME NEW p \in Resident', NEW q \in Resident', log'[p].id = log'[q].id PROVE p = q
  <2>1. \A r \in Resident : log'[r] = log[r] /\ log[r].id # e.id
    BY <1>2, <1>8
  <2>2. \A r, s \in Resident : log[r].id = log[s].id => r = s
    BY DEF DistinctIds, Distinct
  <2> QED
    BY <1>2, <1>5, <1>9, <2>1, <2>2
<1>10. ASSUME NEW k \in Segments, NEW p \in Run(k), NEW q \in Run(k), log'[p].id = log'[q].id
       PROVE  p = q
  BY <1>2, <1>8, <1>10 DEF DistinctIds, Distinct
<1>11. DistinctIds'
  BY <1>4, <1>9, <1>10 DEF DistinctIds, Distinct
<1> QED
  BY <1>2, <1>4, <1>5, <1>6, <1>11 DEF Longer

(* What a new segment does.                                                *)
Sealed(new, h) ==
    /\ headers' \in Seq(Header) /\ Len(headers') = new
    /\ headers'[new] = h
    /\ \A k \in Segments : headers'[k] = headers[k] /\ Run(k)' = Run(k)
    /\ Segments' = Segments \cup {new} /\ new \notin Segments
    /\ new \in Place
    /\ SealedTo' = SealedTo + SegmentSize /\ Run(new)' = Next1
    /\ Written' = Written /\ Next1 \subseteq Resident /\ Resident' = Resident \ Next1
    /\ Linked' /\ DistinctIds'

(* A header that ends SegmentSize further, in a log that goes on after it. *)
LEMMA HeaderAppended ==
    ASSUME TypeOK, Linked, DistinctIds, NEW h \in Header, h.last = SealedTo + SegmentSize,
           NEW new \in Nat, new = Len(headers) + 1,
           SealedTo + SegmentSize < Len(log),
           headers' = Append(headers, h), log' = log,
           \A n \in Node : sealer'[n] = sealer[n] \/ sealer'[n] = -1
    PROVE  Sealed(new, h)
<1>1. headers \in Seq(Header)
  BY TypeParts DEF ChainTyped
<1>2. /\ headers' \in Seq(Header) /\ Len(headers') = new
      /\ headers'[new] = h /\ headers' # <<>>
      /\ \A k \in Segments : headers'[k] = headers[k]
  BY <1>1, AppendIs DEF Segments
<1>3. /\ Len(log) \in Nat /\ SealedTo \in Nat /\ Len(headers) \in Nat
      /\ SegmentSize \in Nat \ {0} /\ MaxLog \in Nat
      /\ \A k \in Segments : headers[k].last \in Nat \ {0}
      /\ Len(headers) = 0 => SealedTo = 0
      /\ Len(headers) # 0 => SealedTo = headers[Len(headers)].last
  BY ChainShape, Constants
<1>4. Divided
  BY RunsDivide
<1>5. /\ Len(headers) <= SealedTo /\ SealedTo < Len(log) /\ Len(log) <= MaxLog
      /\ \A k \in Segments : headers[k].last <= SealedTo
  BY <1>4 DEF Divided, Linked
<1>6. Segments' = Segments \cup {new} /\ new \notin Segments /\ new \in Place
  BY <1>2, <1>3, <1>5 DEF Segments, Place
<1>7. \A k \in Segments : Run(k)' = Run(k)
  <2>1. \A k \in Segments : k # 1 => k - 1 \in Segments
    BY <1>3 DEF Segments
  <2> QED
    BY <1>2, <2>1 DEF Run
<1>8. SealedTo' = SealedTo + SegmentSize
  BY <1>2 DEF SealedTo
<1>9. Run(new)' = Next1
  <2>1. CASE new = 1
    BY <1>2, <1>3, <2>1 DEF Run, Next1
  <2>2. CASE new # 1
    <3>1. new - 1 = Len(headers) /\ Len(headers) \in Segments
      BY <1>3, <2>2 DEF Segments
    <3>2. headers'[new - 1].last = SealedTo
      BY <1>2, <1>3, <3>1 DEF Segments
    <3> QED
      BY <1>2, <2>2, <3>2 DEF Run, Next1
  <2> QED
    BY <2>1, <2>2
<1>10. Written' = Written /\ Next1 \subseteq Resident /\ Resident' = Resident \ Next1
  BY <1>3, <1>8 DEF Written, Next1, Resident
<1>11. Linked'
  <2>1. ASSUME NEW j \in Segments', NEW k \in Segments', j < k
        PROVE  headers'[j].last < headers'[k].last
    <3>1. j \in Segments
      BY <1>2, <1>3, <2>1 DEF Segments
    <3>2. CASE k \in Segments
      BY <1>2, <2>1, <3>1, <3>2 DEF Linked
    <3>3. CASE k = new
      <4>1. headers'[j].last <= SealedTo /\ headers'[j].last \in Nat
        BY <1>2, <1>3, <1>5, <3>1
      <4>2. headers'[k].last = SealedTo + SegmentSize
        BY <1>2, <3>3
      <4>3. \A m \in Nat : m <= SealedTo => m < SealedTo + SegmentSize
        BY <1>3
      <4> QED
        BY <4>1, <4>2, <4>3
    <3> QED
      BY <1>6, <3>2, <3>3
  <2>2. ASSUME NEW k \in Segments' PROVE k <= headers'[k].last
    <3>1. CASE k \in Segments
      BY <1>2, <3>1 DEF Linked
    <3>2. CASE k = new
      BY <1>2, <1>3, <1>5, <3>2
    <3> QED
      BY <1>6, <3>1, <3>2
  <2>3. SealedTo' < Len(log)' /\ Len(log)' <= MaxLog
    BY <1>5, <1>8
  <2>4. ASSUME NEW n \in Node PROVE sealer'[n] <= Len(headers) /\ sealer'[n] < Len(headers')
    <3>1. sealer[n] <= Len(headers) /\ sealer[n] \in -1 .. MaxLog
      BY TypeParts DEF Linked, SealerTyped
    <3> QED
      BY <1>2, <1>3, <3>1
  <2>5. ASSUME NEW n \in Node PROVE sealer'[n] <= Len(headers') /\ sealer'[n] # Len(headers')
    <3>1. sealer'[n] \in Int
      BY <1>3, TypeParts DEF SealerTyped
    <3> QED
      BY <1>2, <1>3, <2>4, <3>1
  <2> QED
    BY <2>1, <2>2, <2>3, <2>5 DEF Linked
<1>12. DistinctIds'
  <2>1. /\ \A p, q \in Resident : log[p].id = log[q].id => p = q
        /\ \A k \in Segments : \A p, q \in Run(k) : log[p].id = log[q].id => p = q
    BY DEF DistinctIds, Distinct
  <2>2. \A p, q \in Next1 : log[p].id = log[q].id => p = q
    BY <1>10, <2>1
  <2>3. ASSUME NEW k \in Segments', NEW p \in Run(k)', NEW q \in Run(k)', log'[p].id = log'[q].id
        PROVE  p = q
    <3>1. CASE k \in Segments
      BY <1>7, <2>1, <2>3, <3>1
    <3>2. CASE k = new
      BY <1>9, <2>2, <2>3, <3>2
    <3> QED
      BY <1>6, <3>1, <3>2
  <2>4. \A p, q \in Resident' : log'[p].id = log'[q].id => p = q
    BY <1>10, <2>1
  <2> QED
    BY <2>3, <2>4 DEF DistinctIds, Distinct
<1> QED
  BY <1>2, <1>6, <1>7, <1>8, <1>9, <1>10, <1>11, <1>12 DEF Sealed

----------------------------------------------------------------------------
(* The accounting.                                                         *)

RowFor(rows, p, k) == rows.identity[log[p].id].at = p /\ rows.identity[log[p].id].seg = k
Turns(p) == \/ identity[log[p].id].at = 0
            \/ identity[log[p].id].at = p /\ identity[log[p].id].seg = 0

(* The rows an accounting leaves: those of its places that had none, or    *)
(* that were resident, name the segment, no other row is touched, and      *)
(* every other place gets a collision.                                     *)
AccountLeaves(rows, k, places) ==
    /\ rows.identity \in [Id -> [at : 0 .. MaxLog, seg : 0 .. MaxLog]]
    /\ \A i \in Id : (\A p \in places : log[p].id # i) => rows.identity[i] = identity[i]
    /\ \A p \in places : IF Turns(p) THEN RowFor(rows, p, k)
                         ELSE rows.identity[log[p].id] = identity[log[p].id]
    /\ collisions \subseteq rows.collisions
    /\ \A c \in rows.collisions :
          \/ c \in collisions
          \/ \E p \in places : /\ c.id = log[p].id /\ c.at = p /\ c.seg = k
                               /\ c \in [id : Id, at : Place, seg : Place]
                               /\ ~RowFor(rows, p, k)
    /\ \A p \in places : \/ RowFor(rows, p, k)
                         \/ \E c \in rows.collisions : c.id = log[p].id /\ c.at = p

(* Account leaves them.                                                    *)
LEMMA AccountIs ==
    ASSUME TypeOK, Linked, NEW k \in Place, NEW places \in SUBSET Written, Distinct(places)
    PROVE  /\ AccountLeaves(Account(k, places), k, places)
           /\ (\A p \in places : identity[log[p].id].at # 0) => Account(k, places).created = {}
<1> DEFINE of(i) == CHOOSE p \in places : log[p].id = i
           ids == {log[p].id : p \in places}
           stamp(i) ==
              IF i \notin ids THEN identity[i]
              ELSE IF identity[i].at = 0 THEN [at |-> of(i), seg |-> k]
              ELSE IF identity[i] = [at |-> of(i), seg |-> 0] THEN [at |-> of(i), seg |-> k]
              ELSE identity[i]
           declined == {p \in places : /\ stamp(log[p].id) # [at |-> p, seg |-> k]
                                       /\ \A c \in collisions : c.id = log[p].id => c.at # p}
           rows == Account(k, places)
<1>1. /\ rows.identity = [i \in Id |-> stamp(i)]
      /\ rows.collisions
             = collisions \cup {[id |-> log[p].id, at |-> p, seg |-> k] : p \in declined}
      /\ rows.created = {i \in ids : identity[i].at = 0}
  BY DEF Account
<1>2. /\ \A p \in places : log[p].id \in Id /\ p \in Place
      /\ identity \in [Id -> [at : 0 .. MaxLog, seg : 0 .. MaxLog]]
      /\ Place \subseteq 0 .. MaxLog /\ k \in Place
  <2>1. Written \subseteq Place
    BY ChainShape, Constants DEF Linked, Written, Place
  <2> QED
    <3>1. \A p \in places : log[p].id \in Id /\ p \in Place
      BY <2>1, ChainShape
    <3>2. identity \in [Id -> [at : 0 .. MaxLog, seg : 0 .. MaxLog]]
      BY TypeParts DEF ChainTyped
    <3>3. Place \subseteq 0 .. MaxLog
      BY Constants DEF Place
    <3> QED
      BY <3>1, <3>2, <3>3
<1>3. \A p \in places : of(log[p].id) = p /\ log[p].id \in ids
  BY DEF Distinct
<1>4. \A i \in Id : i \notin ids => stamp(i) = identity[i]
  OBVIOUS
<1>5. ASSUME NEW p \in places
      PROVE  /\ Turns(p) => stamp(log[p].id) = [at |-> p, seg |-> k]
             /\ ~Turns(p) => stamp(log[p].id) = identity[log[p].id]
  <2>1. identity[log[p].id] = [at |-> p, seg |-> 0] <=>
            identity[log[p].id].at = p /\ identity[log[p].id].seg = 0
    BY <1>2
  <2>2. of(log[p].id) = p /\ log[p].id \in ids
    BY <1>3
  <2> HIDE DEF ids, of
  <2> QED
    BY <2>1, <2>2 DEF Turns
<1>6. ASSUME NEW i \in Id PROVE stamp(i) \in [at : 0 .. MaxLog, seg : 0 .. MaxLog]
  <2>1. CASE i \notin ids
    BY <1>2, <1>4, <2>1
  <2>2. CASE i \in ids
    <3>1. PICK p \in places : log[p].id = i
      BY <2>2
    <3>2. p \in 0 .. MaxLog /\ k \in 0 .. MaxLog
      BY <1>2
    <3> HIDE DEF stamp, ids, of
    <3>3. identity[i] \in [at : 0 .. MaxLog, seg : 0 .. MaxLog]
      BY <1>2
    <3>4. stamp(i) = [at |-> p, seg |-> k] \/ stamp(i) = identity[i]
      BY <1>5, <3>1
    <3> QED
      BY <3>2, <3>3, <3>4
  <2> QED
    BY <2>1, <2>2
<1>7. \A i \in Id : rows.identity[i] = stamp(i)
  BY <1>1
<1>8. \A p \in places : RowFor(rows, p, k) <=> stamp(log[p].id) = [at |-> p, seg |-> k]
  <2>1. SUFFICES ASSUME NEW p \in places
                 PROVE  RowFor(rows, p, k) <=> stamp(log[p].id) = [at |-> p, seg |-> k]
    OBVIOUS
  <2>2. stamp(log[p].id) \in [at : 0 .. MaxLog, seg : 0 .. MaxLog] /\ log[p].id \in Id
    BY <1>2, <1>6
  <2>3. rows.identity[log[p].id] = stamp(log[p].id)
    BY <1>7, <2>2
  <2> HIDE DEF stamp, rows
  <2> QED
    BY <2>2, <2>3 DEF RowFor
<1> HIDE DEF stamp, rows, of
<1>9. rows.identity \in [Id -> [at : 0 .. MaxLog, seg : 0 .. MaxLog]]
  BY <1>1, <1>6
<1>10. \A i \in Id : (\A p \in places : log[p].id # i) => rows.identity[i] = identity[i]
  BY <1>4, <1>7
<1>11. ASSUME NEW p \in places
       PROVE  IF Turns(p) THEN RowFor(rows, p, k)
              ELSE rows.identity[log[p].id] = identity[log[p].id]
  <2>1. CASE Turns(p)
    BY <1>5, <1>8, <2>1
  <2>2. CASE ~Turns(p)
    <3>1. stamp(log[p].id) = identity[log[p].id]
      BY <1>5, <2>2
    <3> QED
      BY <1>2, <1>7, <2>2, <3>1
  <2> QED
    BY <2>1, <2>2
<1>12. ASSUME NEW c \in rows.collisions, c \notin collisions
       PROVE  \E p \in places : /\ c.id = log[p].id /\ c.at = p /\ c.seg = k
                                /\ c \in [id : Id, at : Place, seg : Place]
                                /\ ~RowFor(rows, p, k)
  <2>1. PICK p \in declined : c = [id |-> log[p].id, at |-> p, seg |-> k]
    BY <1>1, <1>12
  <2>2. p \in places /\ stamp(log[p].id) # [at |-> p, seg |-> k]
    OBVIOUS
  <2>3. ~RowFor(rows, p, k)
    BY <1>8, <2>2
  <2>4. c \in [id : Id, at : Place, seg : Place]
    BY <1>2, <2>1, <2>2
  <2> QED
    BY <2>1, <2>2, <2>3, <2>4
<1>13. ASSUME NEW p \in places, ~RowFor(rows, p, k)
       PROVE  \E c \in rows.collisions : c.id = log[p].id /\ c.at = p
  <2>1. CASE p \in declined
    <3>1. [id |-> log[p].id, at |-> p, seg |-> k] \in rows.collisions
      BY <1>1, <2>1
    <3> QED
      BY <3>1
  <2>2. CASE p \notin declined
    <3>1. \E c \in collisions : c.id = log[p].id /\ c.at = p
      BY <1>8, <1>13, <2>2
    <3> QED
      BY <1>1, <3>1
  <2> QED
    BY <2>1, <2>2
<1>14. collisions \subseteq rows.collisions
  BY <1>1
<1>15. AccountLeaves(rows, k, places)
  BY <1>9, <1>10, <1>11, <1>12, <1>13, <1>14 DEF AccountLeaves
<1>16. (\A p \in places : identity[log[p].id].at # 0) => rows.created = {}
  BY <1>1
<1> QED
  BY <1>15, <1>16 DEF rows

(* A transaction that accounts for the records of a segment: of one that   *)
(* is there, or of the one it adds.                                        *)
Accounting(k, places) ==
    /\ k \in Place /\ Segments' = Segments \cup {k} /\ k \in Segments'
    /\ places \in SUBSET Written /\ Distinct(places) /\ Run(k)' = places
    /\ \A j \in Segments : Run(j)' = Run(j) /\ (j # k => Run(j) \cap places = {})
    /\ log' = log /\ Written' = Written
    /\ identity' = Account(k, places).identity /\ collisions' = Account(k, places).collisions

(* It leaves rows that are true.                                           *)
LEMMA AccountingIsTrue ==
    ASSUME TypeOK, Linked, RowsAreTrue, RowsAreWhole,
           NEW k, NEW places, Accounting(k, places)
    PROVE  /\ identity' \in [Id -> [at : 0 .. MaxLog, seg : 0 .. MaxLog]]
           /\ collisions' \subseteq [id : Id, at : Place, seg : Place]
           /\ RowsAreTrue' /\ RowsAreWhole'
           /\ \A i \in Id : identity[i].at # 0 =>
                 /\ identity'[i].at = identity[i].at
                 /\ identity[i].seg # 0 => identity'[i].seg = identity[i].seg
           /\ collisions \subseteq collisions'
<1> DEFINE rows == Account(k, places)
<1>1. /\ k \in Place /\ Segments' = Segments \cup {k} /\ k \in Segments'
      /\ places \in SUBSET Written /\ Distinct(places) /\ Run(k)' = places
      /\ \A j \in Segments : Run(j)' = Run(j) /\ (j # k => Run(j) \cap places = {})
      /\ log' = log /\ Written' = Written
      /\ identity' = rows.identity /\ collisions' = rows.collisions
  BY DEF Accounting
<1>2. AccountLeaves(rows, k, places)
  BY <1>1, AccountIs
<1> HIDE DEF rows
<1>3. /\ identity' \in [Id -> [at : 0 .. MaxLog, seg : 0 .. MaxLog]]
      /\ \A i \in Id : (\A p \in places : log[p].id # i) => identity'[i] = identity[i]
      /\ collisions \subseteq collisions'
  BY <1>1, <1>2 DEF AccountLeaves
<1>4. ASSUME NEW p \in places, Turns(p)
      PROVE  identity'[log[p].id].at = p /\ identity'[log[p].id].seg = k
  BY <1>1, <1>2, <1>4 DEF AccountLeaves, RowFor
<1>5. ASSUME NEW p \in places, ~Turns(p) PROVE identity'[log[p].id] = identity[log[p].id]
  BY <1>1, <1>2, <1>5 DEF AccountLeaves
<1>6. ASSUME NEW c \in collisions'
      PROVE  \/ c \in collisions
             \/ \E p \in places : /\ c.id = log[p].id /\ c.at = p /\ c.seg = k
                                  /\ c \in [id : Id, at : Place, seg : Place]
                                  /\ ~(identity'[log[p].id].at = p /\ identity'[log[p].id].seg = k)
  BY <1>1, <1>2 DEF AccountLeaves, RowFor
<1>7. /\ \A p \in places : log[p].id \in Id /\ p # 0 /\ p <= Len(log)
      /\ Len(headers) \in Nat /\ k # 0
  BY <1>1, ChainShape DEF Written, Place
<1>8. collisions \subseteq [id : Id, at : Place, seg : Place]
      /\ identity \in [Id -> [at : 0 .. MaxLog, seg : 0 .. MaxLog]]
  BY TypeParts DEF ChainTyped
<1>9. ASSUME NEW i \in Id
      PROVE  \/ identity'[i] = identity[i]
             \/ \E p \in places : i = log[p].id /\ Turns(p)
  <2>1. CASE \E p \in places : log[p].id = i
    BY <1>5, <2>1
  <2>2. CASE ~\E p \in places : log[p].id = i
    BY <1>3, <2>2
  <2> QED
    BY <2>1, <2>2
<1>10. \A i \in Id : identity[i].at # 0 /\ identity[i].seg # 0 =>
           identity[i].seg \in Segments /\ identity[i].at \in Run(identity[i].seg)
  <2>1. \A i \in Id : identity[i].seg \in 0 .. MaxLog
    BY <1>8
  <2> QED
    BY <1>7, <2>1, Constants DEF RowsAreTrue, Holds, Segments
<1>11. \A c \in collisions : c.seg \in Segments /\ c.at \in Run(c.seg)
  <2>1. \A c \in collisions : c.seg \in Place
    BY <1>8
  <2> QED
    BY <1>7, <2>1, Constants DEF RowsAreTrue, Holds, Segments, Place
<1>12. \A j, p : j \in Segments' /\ p \in Run(j)' => Holds(j, p)'
  BY DEF Holds, Segments
<1>13. ASSUME NEW i \in Id, identity[i].at # 0
       PROVE  /\ identity'[i].at = identity[i].at
              /\ identity[i].seg # 0 => identity'[i].seg = identity[i].seg
  <2>1. CASE identity'[i] = identity[i]
    BY <2>1
  <2>2. ASSUME NEW p \in places, i = log[p].id, Turns(p)
        PROVE  identity'[i].at = identity[i].at /\ identity[i].seg = 0
    <3>1. identity[i].at = p /\ identity[i].seg = 0
      BY <1>13, <2>2 DEF Turns
    <3> QED
      BY <1>4, <2>2, <3>1
  <2> QED
    BY <1>9, <2>1, <2>2
<1>14. ASSUME NEW i \in Id, identity'[i].at # 0
       PROVE  /\ identity'[i].at <= Len(log') /\ log'[identity'[i].at].id = i
              /\ identity'[i].seg # 0 => Holds(identity[i].seg, identity[i].at)'
  <2>1. CASE identity'[i] = identity[i]
    <3>1. identity[i].at <= Len(log) /\ log[identity[i].at].id = i
      BY <1>14, <2>1 DEF RowsAreTrue
    <3>3. \A j \in Segments : Run(j)' = Run(j)
      BY <1>1
    <3>4. \A p : \A j \in Segments : p \in Run(j) => Holds(j, p)'
      BY <1>1, <1>12, <3>3
    <3>5. identity[i].seg # 0 =>
              identity[i].seg \in Segments /\ identity[i].at \in Run(identity[i].seg)
      BY <1>10, <1>14, <2>1
    <3>6. PICK s, a : s = identity'[i].seg /\ a = identity'[i].at
      OBVIOUS
    <3>7. s # 0 => Holds(s, a)'
      BY <2>1, <3>4, <3>5, <3>6
    <3> QED
      BY <1>1, <2>1, <3>1, <3>6, <3>7
  <2>2. ASSUME NEW p \in places, i = log[p].id, Turns(p)
        PROVE  /\ identity'[i].at <= Len(log) /\ log[identity'[i].at].id = i
               /\ Holds(identity[i].seg, identity[i].at)'
    <3>1. identity'[i].at = p /\ identity'[i].seg = k
      BY <1>4, <2>2
    <3>2. Holds(k, p)'
      BY <1>1, <1>12
    <3> QED
      BY <1>7, <2>2, <3>1, <3>2
  <2> QED
    BY <1>1, <1>9, <2>1, <2>2
<1>15. ASSUME NEW c \in collisions'
       PROVE  /\ log'[c.at].id = c.id /\ Holds(c.seg, c.at)' /\ identity'[c.id].at # c.at
              /\ identity'[c.id].at # 0 /\ c \in [id : Id, at : Place, seg : Place]
  <2>1. CASE c \in collisions
    <3>1. /\ log[c.at].id = c.id /\ identity[c.id].at # c.at /\ identity[c.id].at # 0
          /\ c.id \in Id /\ c \in [id : Id, at : Place, seg : Place]
      BY <1>8, <2>1 DEF RowsAreTrue, RowsAreWhole
    <3>2. c.seg \in Segments /\ c.at \in Run(c.seg)
      BY <1>11, <2>1
    <3>3. c.seg \in Segments' /\ c.at \in Run(c.seg)'
      BY <1>1, <3>2
    <3> QED
      BY <1>1, <1>12, <1>13, <3>1, <3>3
  <2>2. CASE c \notin collisions
    <3>1. PICK p \in places :
              /\ c.id = log[p].id /\ c.at = p /\ c.seg = k
              /\ c \in [id : Id, at : Place, seg : Place]
              /\ ~(identity'[log[p].id].at = p /\ identity'[log[p].id].seg = k)
      BY <1>6, <2>2
    <3>2. ~Turns(p)
      BY <1>4, <3>1
    <3>3. identity'[c.id] = identity[c.id] /\ identity[c.id].at # 0
      BY <1>5, <3>1, <3>2 DEF Turns
    <3>4. ASSUME identity[c.id].at = p PROVE FALSE
      <4>1. identity[c.id].seg # 0
        BY <3>1, <3>2, <3>4 DEF Turns
      <4>2. identity[c.id].seg \in Segments /\ p \in Run(identity[c.id].seg)
        BY <1>7, <1>10, <3>1, <3>3, <3>4, <4>1
      <4>3. identity[c.id].seg = k
        BY <1>1, <4>2
      <4> QED
        BY <3>1, <3>3, <3>4, <4>3
    <3>5. Holds(k, p)'
      BY <1>1, <1>12
    <3> QED
      BY <1>1, <3>1, <3>3, <3>4, <3>5
  <2> QED
    BY <2>1, <2>2
<1>16. RowsAreTrue'
  BY <1>14, <1>15 DEF RowsAreTrue
<1>17. RowsAreWhole'
  <2>1. ASSUME NEW i \in Id, identity'[i].at = 0 PROVE identity'[i].seg = 0
    <3>1. identity[i].at = 0
      BY <1>13, <2>1
    <3>2. \A p \in places : i = log[p].id => ~Turns(p)
      BY <1>4, <1>7, <2>1
    <3>3. identity'[i] = identity[i]
      BY <1>9, <3>2
    <3> QED
      BY <3>1, <3>3 DEF RowsAreWhole
  <2>2. ASSUME NEW p \in Written, log'[p].stamps PROVE identity'[log'[p].id].at # 0
    <3>1. log[p].id \in Id /\ identity[log[p].id].at # 0
      BY <1>1, <2>2, ChainShape DEF RowsAreWhole
    <3> QED
      BY <1>1, <1>13, <3>1
  <2> QED
    BY <1>1, <1>15, <2>1, <2>2 DEF RowsAreWhole
<1>18. collisions' \subseteq [id : Id, at : Place, seg : Place]
  BY <1>15
<1> QED
  BY <1>3, <1>13, <1>16, <1>17, <1>18

(* Counters are compared over the rows alone.                              *)
LEMMA CountedKept ==
    ASSUME NEW k, NEW rows, NEW then,
           \A i \in Id : rows.identity[i].at # 0 /\ rows.identity[i].seg = k
                     <=> then.identity[i].at # 0 /\ then.identity[i].seg = k,
           \A c : c \in rows.collisions /\ c.seg = k <=> c \in then.collisions /\ c.seg = k
    PROVE  Counted(k, rows) = Counted(k, then)
<1>1. {i \in Id : rows.identity[i].at # 0 /\ rows.identity[i].seg = k}
          = {i \in Id : then.identity[i].at # 0 /\ then.identity[i].seg = k}
  OBVIOUS
<1>2. {c \in rows.collisions : c.seg = k} = {c \in then.collisions : c.seg = k}
  OBVIOUS
<1> QED
  BY <1>1, <1>2 DEF Counted

(* An accounting leaves its segment's counter exact, and the others.       *)
LEMMA AccountingCounts ==
    ASSUME TypeOK, Linked, RowsAreTrue, RowsAreWhole, CountersAreExact,
           NEW k, NEW places, Accounting(k, places), IsFiniteSet(places),
           k <= Len(stamped) + 1, Accounts(k, places)
    PROVE  /\ stamped' \in Seq({NoCounter} \cup Nat)
           /\ Len(stamped') = IF k > Len(stamped) THEN k ELSE Len(stamped)
           /\ \A j \in Segments : j # k => stamped'[j] = stamped[j]
           /\ CountersAreExact'
           /\ stamped'[k] = Cardinality(places) <=>
                 \A p \in places :
                    \/ identity'[log[p].id].at = p /\ identity'[log[p].id].seg = k
                    \/ [id |-> log[p].id, at |-> p, seg |-> k] \in collisions'
<1> DEFINE rows == Account(k, places)
           last == IF k > Len(stamped) THEN k ELSE Len(stamped)
<1>1. /\ k \in Place /\ Segments' = Segments \cup {k} /\ k \in Segments'
      /\ places \in SUBSET Written /\ Distinct(places) /\ Run(k)' = places
      /\ identity' = rows.identity /\ collisions' = rows.collisions /\ log' = log
  BY DEF Accounting
<1>2. /\ identity' \in [Id -> [at : 0 .. MaxLog, seg : 0 .. MaxLog]]
      /\ collisions' \subseteq [id : Id, at : Place, seg : Place]
      /\ RowsAreTrue' /\ RowsAreWhole' /\ collisions \subseteq collisions'
      /\ \A i \in Id : identity[i].at # 0 =>
            /\ identity'[i].at = identity[i].at
            /\ identity[i].seg # 0 => identity'[i].seg = identity[i].seg
  BY AccountingIsTrue
<1>3. AccountLeaves(rows, k, places)
  BY <1>1, AccountIs
<1>4. stamped' = [j \in 1 .. last |-> IF j = k THEN Counted(k, rows) ELSE stamped[j]]
  BY DEF Accounts
<1> HIDE DEF rows
<1>5. /\ stamped \in Seq({NoCounter} \cup Nat) /\ Len(stamped) = Len(headers)
      /\ Len(stamped) \in Nat /\ k \in Nat \ {0}
  BY <1>1, TypeParts, Constants DEF ChainTyped, Place
<1>6. last \in Nat /\ k \in 1 .. last /\ \A j \in 1 .. last : j # k => j \in 1 .. Len(stamped)
  BY <1>5
<1>7. /\ \A p \in places : log[p].id \in Id /\ p # 0
  BY <1>1, ChainShape DEF Written
<1>8. TrueOf(rows, k, places)
  <2>1. ASSUME NEW i \in Id, identity'[i].at # 0, identity'[i].seg = k
        PROVE  identity'[i].at \in places /\ log[identity'[i].at].id = i
    <3>1. Holds(identity[i].seg, identity[i].at)' /\ log'[identity'[i].at].id = i
      BY <1>2, <1>5, <2>1 DEF RowsAreTrue
    <3>2. identity'[i].at \in Run(k)'
      BY <1>5, <2>1, <3>1 DEF Holds
    <3> QED
      BY <1>1, <3>1, <3>2
  <2>2. ASSUME NEW c \in collisions', c.seg = k
        PROVE  c.at \in places /\ log[c.at].id = c.id /\ identity'[c.id].at # c.at
    <3>1. Holds(c.seg, c.at)' /\ log'[c.at].id = c.id /\ identity'[c.id].at # c.at
      BY <1>2, <2>2 DEF RowsAreTrue
    <3>2. c.at \in Run(k)'
      BY <1>5, <2>2, <3>1 DEF Holds
    <3> QED
      BY <1>1, <3>1, <3>2
  <2> QED
    BY <1>1, <2>1, <2>2 DEF TrueOf
<1>9. Counted(k, rows) \in Nat
  BY <1>1, <1>2, <1>7, <1>8, CountOfPlaces
<1>10. stamped' \in Seq({NoCounter} \cup Nat) /\ Len(stamped') = last
  <2>1. \A j \in 1 .. last : stamped'[j] \in {NoCounter} \cup Nat
    BY <1>4, <1>5, <1>6, <1>9, ElementKind
  <2> HIDE DEF last
  <2>2. stamped' \in [1 .. last -> {NoCounter} \cup Nat]
    BY <1>4, <2>1
  <2> QED
    BY <1>6, <2>2
<1>11. stamped'[k] = Counted(k, rows) /\ \A j \in 1 .. Len(stamped) : j # k => stamped'[j] = stamped[j]
  BY <1>4, <1>5, <1>6
<1>12. ASSUME NEW j \in Segments, j # k PROVE Counted(j, Rows) = Counted(j, rows)
  <2>1. j # 0
    BY DEF Segments
  <2>2. Rows.identity = identity /\ Rows.collisions = collisions
    BY DEF Rows
  <2>3. \A c : c \in collisions /\ c.seg = j <=> c \in rows.collisions /\ c.seg = j
    <3>1. \A c \in rows.collisions : c.seg = j => c \in collisions
      BY <1>3, <1>12 DEF AccountLeaves
    <3> QED
      BY <1>1, <1>2, <3>1
  <2>4. ASSUME NEW i \in Id
        PROVE  identity[i].at # 0 /\ identity[i].seg = j
                 <=> rows.identity[i].at # 0 /\ rows.identity[i].seg = j
    <3>1. CASE identity[i].at # 0 /\ identity[i].seg = j
      BY <1>1, <1>2, <2>1, <3>1
    <3>2. CASE rows.identity[i].at # 0 /\ rows.identity[i].seg = j
      <4>1. CASE \A p \in places : log[p].id # i
        BY <1>3, <3>2, <4>1 DEF AccountLeaves
      <4>2. ASSUME NEW p \in places, log[p].id = i
            PROVE  identity[i].at # 0 /\ identity[i].seg = j
        <5>1. ~Turns(p)
          BY <1>3, <1>12, <3>2, <4>2 DEF AccountLeaves, RowFor
        <5>2. rows.identity[i] = identity[i]
          BY <1>3, <4>2, <5>1 DEF AccountLeaves
        <5> QED
          BY <3>2, <5>2
      <4> QED
        BY <3>2, <4>1, <4>2
    <3> QED
      BY <3>1, <3>2
  <2> QED
    BY <2>2, <2>3, <2>4, CountedKept
<1>13. \A j : Counted(j, Rows)' = Counted(j, rows)
  <2>1. Rows' = [identity |-> identity', collisions |-> collisions']
    BY DEF Rows
  <2>2. Rows'.identity = rows.identity /\ Rows'.collisions = rows.collisions
    BY <1>1, <2>1
  <2> QED
    BY <2>2 DEF Counted
<1>14. CountersAreExact'
  <2>1. ASSUME NEW j \in Segments', stamped'[j] # NoCounter PROVE stamped'[j] = Counted(j, rows)
    <3>1. CASE j = k
      BY <1>11, <3>1
    <3>2. CASE j # k
      <4>1. j \in Segments /\ j \in 1 .. Len(stamped)
        BY <1>1, <1>5, <3>2 DEF Segments
      <4>2. stamped[j] = Counted(j, Rows)
        BY <1>11, <2>1, <3>2, <4>1 DEF CountersAreExact
      <4> QED
        BY <1>11, <1>12, <3>2, <4>1, <4>2
    <3> QED
      BY <3>1, <3>2
  <2> QED
    BY <1>13, <2>1 DEF CountersAreExact
<1>15. stamped'[k] = Cardinality(places) <=>
           \A p \in places :
              \/ identity'[log[p].id].at = p /\ identity'[log[p].id].seg = k
              \/ [id |-> log[p].id, at |-> p, seg |-> k] \in collisions'
  <2>1. Counted(k, rows) = Cardinality(places) <=>
            \A p \in places : p \in ByRow(rows, k, places) \/ p \in ByCollision(rows, k, places)
    BY <1>1, <1>2, <1>7, <1>8, CountIsComplete
  <2> QED
    BY <1>1, <1>11, <2>1 DEF ByRow, ByCollision
<1> QED
  BY <1>5, <1>10, <1>11, <1>14, <1>15 DEF Segments

(* A chain only stamping binaries wrote is stamped after their seal.       *)
LEMMA SealStamps ==
    ASSUME TypeOK, Linked, RowsAreTrue, RowsAreWhole, CountersAreExact, AllStamped, Stamping,
           NEW k, NEW h, Sealed(k, h), Accounting(k, Next1), IsFiniteSet(Next1),
           k <= Len(stamped) + 1, Accounts(k, Next1)
    PROVE  AllStamped'
<1> DEFINE rows == Account(k, Next1)
<1>1. /\ collisions = {}
      /\ \A p \in Written : identity[log[p].id].at = p
      /\ \A p \in Resident : identity[log[p].id].seg = 0
      /\ \A j \in Segments : /\ \A p \in Run(j) : identity[log[p].id].seg = j
                             /\ stamped[j] = Cardinality(Run(j))
  BY DEF AllStamped
<1>2. /\ k \in Place /\ Segments' = Segments \cup {k} /\ k \notin Segments
      /\ Next1 \in SUBSET Written /\ Distinct(Next1) /\ Run(k)' = Next1
      /\ \A j \in Segments : Run(j)' = Run(j) /\ Run(j) \cap Next1 = {}
      /\ log' = log /\ Written' = Written /\ Next1 \subseteq Resident
      /\ Resident' = Resident \ Next1
      /\ identity' = rows.identity /\ collisions' = rows.collisions
  BY DEF Accounting, Sealed
<1>3. AccountLeaves(rows, k, Next1)
  BY <1>2, AccountIs
<1>4. /\ \A j \in Segments : j # k => stamped'[j] = stamped[j]
      /\ stamped'[k] = Cardinality(Next1) <=>
            \A p \in Next1 :
               \/ identity'[log[p].id].at = p /\ identity'[log[p].id].seg = k
               \/ [id |-> log[p].id, at |-> p, seg |-> k] \in collisions'
  BY AccountingCounts
<1> HIDE DEF rows
<1>5. ASSUME NEW p \in Next1 PROVE identity'[log[p].id].at = p /\ identity'[log[p].id].seg = k
  <2>1. Turns(p)
    BY <1>1, <1>2 DEF Turns
  <2> QED
    BY <1>2, <1>3, <2>1 DEF AccountLeaves, RowFor
<1>6. ASSUME NEW q \in Written, q \notin Next1 PROVE identity'[log[q].id] = identity[log[q].id]
  <2>1. \A p \in Next1 : log[p].id # log[q].id
    BY <1>1, <1>2, <1>6
  <2>2. log[q].id \in Id
    BY ChainShape
  <2> QED
    BY <1>2, <1>3, <2>1, <2>2 DEF AccountLeaves
<1>7. collisions' = {}
  BY <1>1, <1>2, <1>3, <1>5 DEF AccountLeaves, RowFor
<1>8. \A p \in Written : identity'[log[p].id].at = p
  BY <1>1, <1>5, <1>6
<1>9. Resident \subseteq Written /\ \A j \in Segments : Run(j) \subseteq Written
  BY RunsDivide DEF Divided
<1>10. \A p \in Resident \ Next1 : identity'[log[p].id].seg = 0
  BY <1>1, <1>6, <1>9
<1>11. ASSUME NEW j \in Segments
       PROVE  /\ \A p \in Run(j) : identity'[log[p].id].seg = j
              /\ stamped'[j] = Cardinality(Run(j))
  BY <1>1, <1>2, <1>4, <1>6, <1>9
<1>12. stamped'[k] = Cardinality(Next1)
  BY <1>4, <1>5
<1>13. ASSUME NEW j \in Segments'
       PROVE  /\ \A p \in Run(j)' : identity'[log'[p].id].seg = j
              /\ stamped'[j] = Cardinality(Run(j))'
  <2>1. CASE j \in Segments
    <3>1. Run(j)' = Run(j)
      BY <1>2, <2>1
    <3>2. Cardinality(Run(j))' = Cardinality(Run(j))
      BY <3>1
    <3> QED
      BY <1>2, <1>11, <2>1, <3>1, <3>2
  <2>2. CASE j = k
    <3>1. Cardinality(Run(j))' = Cardinality(Next1)
      BY <1>2, <2>2
    <3> QED
      BY <1>2, <1>5, <1>12, <2>2, <3>1
  <2> QED
    BY <1>2, <2>1, <2>2
<1> QED
  BY <1>2, <1>7, <1>8, <1>10, <1>13 DEF AllStamped

----------------------------------------------------------------------------
(* One step of the chain.                                                  *)

OneStamp ==
    \A p, q \in Written : p < q /\ log[p].id = log[q].id => ~log[p].stamps \/ ~log[q].stamps

(* What every step keeps of the chain and its rows.                        *)
Good ==
    /\ ChainTyped /\ Linked /\ DistinctIds /\ RowsAreTrue /\ RowsAreWhole /\ CountersAreExact
    /\ AllStamped /\ OneStamp /\ HeadersName

(* What no step takes back.                                                *)
RowsKept ==
    /\ \A i \in Id : identity[i].at # 0 =>
          /\ identity'[i].at = identity[i].at
          /\ identity[i].seg # 0 => identity'[i].seg = identity[i].seg
    /\ collisions \subseteq collisions'
Extends ==
    /\ RowsKept
    /\ Written \subseteq Written' /\ Segments \subseteq Segments'
    /\ \A p \in Written : log'[p] = log[p]
    /\ \A k \in Segments : Run(k)' = Run(k)
    /\ \A p \in Written : p \in Resident' => p \in Resident
    /\ Stamping' => Stamping

(* A step that leaves the chain alone.                                     *)
LEMMA ChainAlone ==
    ASSUME TypeOK, Good, UNCHANGED chain, ChainTyped', Stamping' => Stamping,
           \A n \in Node : \/ sealer'[n] = sealer[n] \/ sealer'[n] = -1
                           \/ /\ sealer'[n] = Len(headers)
                              /\ SealedTo + SegmentSize < Len(log)
    PROVE  Good' /\ Extends
<1>1. /\ log' = log /\ headers' = headers /\ identity' = identity
      /\ collisions' = collisions /\ stamped' = stamped
  BY DEF chain
<1>2. /\ Written' = Written /\ Segments' = Segments /\ SealedTo' = SealedTo
      /\ Resident' = Resident /\ (Stamping' => Stamping)
      /\ \A k \in Segments : Run(k)' = Run(k)
  BY <1>1 DEF Written, Segments, SealedTo, Resident, Run
<1>3. Linked'
  <2>1. Len(headers) \in Nat
    BY ChainShape
  <2>2. \A n \in Node : /\ sealer'[n] <= Len(headers)
                        /\ sealer'[n] = Len(headers) => SealedTo + SegmentSize < Len(log)
    <3>1. \A n \in Node : /\ sealer[n] <= Len(headers)
                          /\ sealer[n] = Len(headers) => SealedTo + SegmentSize < Len(log)
      BY DEF Good, Linked
    <3> QED
      BY <2>1, <3>1
  <2>3. /\ \A j, k \in Segments : j < k => headers[j].last < headers[k].last
        /\ \A k \in Segments : k <= headers[k].last
        /\ SealedTo < Len(log) /\ Len(log) <= MaxLog
    BY DEF Good, Linked
  <2> QED
    BY <1>1, <1>2, <2>2, <2>3 DEF Linked
<1>4. DistinctIds'
  <2>1. \A p, q \in Resident : log[p].id = log[q].id => p = q
    BY DEF Good, DistinctIds, Distinct
  <2>2. \A k \in Segments : \A p, q \in Run(k) : log[p].id = log[q].id => p = q
    BY DEF Good, DistinctIds, Distinct
  <2>3. \A k \in Segments : \A p, q \in Run(k)' : log[p].id = log[q].id => p = q
    BY <1>2, <2>2
  <2> QED
    BY <1>1, <1>2, <2>1, <2>3 DEF DistinctIds, Distinct
<1>5. RowsAreTrue' /\ RowsAreWhole'
  <2>1. \A k, p : Holds(k, p)' <=> Holds(k, p)
    BY <1>1 DEF Holds, Resident, SealedTo, Run
  <2>2. RowsAreTrue'
    BY <1>1, <2>1 DEF Good, RowsAreTrue
  <2>3. RowsAreWhole'
    BY <1>1, <1>2 DEF Good, RowsAreWhole
  <2> QED
    BY <2>2, <2>3
<1>6. CountersAreExact'
  BY <1>1, <1>2 DEF Good, CountersAreExact, Rows, Counted
<1>7. AllStamped'
  <2>1. SUFFICES ASSUME Stamping PROVE AllStamped'
    BY <1>2 DEF AllStamped
  <2>2. /\ collisions = {}
        /\ \A p \in Written : identity[log[p].id].at = p
        /\ \A p \in Resident : identity[log[p].id].seg = 0
        /\ \A k \in Segments : /\ \A p \in Run(k) : identity[log[p].id].seg = k
                               /\ stamped[k] = Cardinality(Run(k))
    BY <2>1 DEF Good, AllStamped
  <2>3. ASSUME NEW k \in Segments
        PROVE  /\ \A p \in Run(k)' : identity[log[p].id].seg = k
               /\ stamped[k] = Cardinality(Run(k))'
    <3>1. Run(k)' = Run(k)
      BY <1>2
    <3>2. Cardinality(Run(k))' = Cardinality(Run(k))
      BY <3>1
    <3> QED
      BY <2>2, <3>1, <3>2
  <2> QED
    BY <1>1, <1>2, <2>2, <2>3 DEF AllStamped
<1>8. OneStamp'
  BY <1>1, <1>2 DEF Good, OneStamp
<1>9. HeadersName'
  <2>1. \A places, kind : Newest(places, kind)' = Newest(places, kind)
    BY <1>1 DEF Newest
  <2>2. \A places, before :
            /\ ManifestAfter(places, before)' = ManifestAfter(places, before)
            /\ EpochAfter(places, before)' = EpochAfter(places, before)
    BY <1>1, <2>1 DEF ManifestAfter, EpochAfter
  <2>3. ASSUME NEW j \in Segments PROVE Newest(Run(j), Epoch)' = Newest(Run(j), Epoch)
    BY <1>2, <2>1
  <2>4. \A k \in Segments : \A j \in 1 .. k - 1 : j \in Segments
    BY ChainShape DEF Segments
  <2> QED
    BY <1>1, <1>2, <2>2, <2>3, <2>4 DEF Good, HeadersName
<1>10. Extends
  <2>1. RowsKept
    BY <1>1 DEF RowsKept
  <2>2. \A k \in Segments : Run(k)' = Run(k)
    BY <1>2
  <2> QED
    BY <1>1, <1>2, <2>1, <2>2 DEF Extends
<1> QED
  BY <1>3, <1>4, <1>5, <1>6, <1>7, <1>8, <1>9, <1>10 DEF Good

(* Headers still name what was current at their ends in a longer log.      *)
LEMMA HeadersNameInLonger ==
    ASSUME TypeOK, Linked, HeadersName, NEW e, Longer(e), headers' = headers
    PROVE  HeadersName'
<1>1. /\ Segments' = Segments /\ \A k \in Segments : Run(k)' = Run(k)
      /\ \A p \in Written : log'[p] = log[p]
  BY DEF Longer
<1>2. /\ \A k \in Segments : headers[k].last \in Nat \ {0} /\ 1 .. headers[k].last \subseteq Written
      /\ \A k \in Segments : Run(k) \subseteq Written
  <2>1. Divided /\ SealedTo < Len(log)
    BY RunsDivide DEF Linked
  <2> QED
    BY <2>1, ChainShape DEF Divided, Written
<1>3. ASSUME NEW k \in Segments
      PROVE  /\ ManifestAfter(1 .. headers[k].last, Genesis.content)'
                    = ManifestAfter(1 .. headers[k].last, Genesis.content)
             /\ EpochAfter(1 .. headers[k].last, 1)' = EpochAfter(1 .. headers[k].last, 1)
  <2>1. PICK b \in Nat : b = headers[k].last /\ b = headers'[k].last
    BY <1>2
  <2>2. \A p \in 1 .. b : log'[p] = log[p]
    BY <1>1, <1>2, <2>1
  <2>3. \A before : /\ ManifestAfter(1 .. b, before)' = ManifestAfter(1 .. b, before)
                    /\ EpochAfter(1 .. b, before)' = EpochAfter(1 .. b, before)
    BY <2>2, AfterKept
  <2> QED
    BY <2>1, <2>3
<1>4. ASSUME NEW k \in Segments PROVE Newest(Run(k), Epoch)' = Newest(Run(k), Epoch)
  <2>1. PICK places : places = Run(k) /\ places = Run(k)'
    BY <1>1
  <2>2. \A p \in places : log'[p] = log[p]
    BY <1>1, <1>2, <2>1
  <2>3. Newest(places, Epoch)' = Newest(places, Epoch)
    BY <2>2, NewestKept
  <2> QED
    BY <2>1, <2>3
<1>5. \A k \in Segments : \A j \in 1 .. k - 1 : j \in Segments
  BY ChainShape DEF Segments
<1> QED
  BY <1>1, <1>3, <1>4, <1>5 DEF HeadersName

(* A header that names what its run leaves current, or nothing.            *)
LEMMA HeadersNameAfterSeal ==
    ASSUME TypeOK, Linked, HeadersName, NEW new \in Nat, NEW h, Sealed(new, h), log' = log,
           new = Len(headers) + 1,
           h.last = SealedTo + SegmentSize,
           h.manifest \in {None, Inherited}, h.epoch \in {0, EpochAfter(Next1, SealedEpoch)}
    PROVE  HeadersName'
<1>1. /\ headers'[new] = h /\ Run(new)' = Next1
      /\ \A k \in Segments : headers'[k] = headers[k] /\ Run(k)' = Run(k)
      /\ Segments' = Segments \cup {new} /\ new \notin Segments
  BY DEF Sealed
<1>2. /\ Len(headers) \in Nat /\ SealedTo \in Nat /\ SegmentSize \in Nat \ {0}
      /\ \A k \in Segments : headers[k].last \in Nat \ {0}
  BY ChainShape, Constants
<1>3. \A j \in 1 .. new - 1 : j \in Segments
  BY <1>2 DEF Segments
<1>4. \A places, kind : Newest(places, kind)' = Newest(places, kind)
  BY DEF Newest
<1>5. \A places, before : /\ ManifestAfter(places, before)' = ManifestAfter(places, before)
                          /\ EpochAfter(places, before)' = EpochAfter(places, before)
  BY <1>4 DEF ManifestAfter, EpochAfter
<1>6. \A j \in Segments : Newest(Run(j), Epoch)' = Newest(Run(j), Epoch)
  BY <1>1, <1>4
<1>7. /\ ManifestAfter(1 .. h.last, Genesis.content)
             = ManifestAfter(Next1, ManifestAfter(1 .. SealedTo, Genesis.content))
      /\ EpochAfter(1 .. h.last, 1) = EpochAfter(Next1, EpochAfter(1 .. SealedTo, 1))
  <2>1. h.last \in Nat /\ SealedTo <= h.last /\ Next1 = SealedTo + 1 .. h.last
    BY <1>2 DEF Next1
  <2> QED
    BY <1>2, <2>1, AfterSplits
<1>8. ASSUME \A j \in 1 .. new : headers'[j].manifest # None
      PROVE  h.manifest = ManifestAfter(1 .. h.last, Genesis.content)
  <2>1. \A k \in Segments : headers[k].manifest # None
    BY <1>1, <1>2, <1>8 DEF Segments
  <2>2. h.manifest # None
    BY <1>1, <1>2, <1>8
  <2>3. SealedManifest = ManifestAfter(1 .. SealedTo, Genesis.content)
    BY <2>1, SealedManifestIs
  <2> QED
    BY <1>7, <2>2, <2>3 DEF Inherited
<1>9. ASSUME h.epoch # 0,
             \A j \in 1 .. new - 1 : headers'[j].epoch = 0 => Newest(Run(j), Epoch)' = 0
      PROVE  h.epoch = EpochAfter(1 .. h.last, 1)
  <2>1. \A k \in Segments : headers[k].epoch = 0 => Newest(Run(k), Epoch) = 0
    BY <1>1, <1>2, <1>6, <1>9 DEF Segments
  <2>2. SealedEpoch = EpochAfter(1 .. SealedTo, 1)
    BY <2>1, SealedEpochIs
  <2> QED
    BY <1>7, <1>9, <2>2
<1>10. ASSUME NEW k \in Segments
       PROVE  /\ (\A j \in 1 .. k : headers'[j].manifest # None) =>
                    headers'[k].manifest = ManifestAfter(1 .. headers[k].last, Genesis.content)'
              /\ headers'[k].epoch # 0
                 /\ (\A j \in 1 .. k - 1 : headers'[j].epoch = 0 => Newest(Run(j), Epoch)' = 0) =>
                    headers'[k].epoch = EpochAfter(1 .. headers[k].last, 1)'
  <2>1. \A j \in 1 .. k : j \in Segments
    BY <1>2 DEF Segments
  <2>2. /\ ManifestAfter(1 .. headers[k].last, Genesis.content)'
               = ManifestAfter(1 .. headers[k].last, Genesis.content)
        /\ EpochAfter(1 .. headers[k].last, 1)' = EpochAfter(1 .. headers[k].last, 1)
    BY <1>1, <1>5
  <2>3. (\A j \in 1 .. k : headers[j].manifest # None) =>
            headers[k].manifest = ManifestAfter(1 .. headers[k].last, Genesis.content)
    BY DEF HeadersName
  <2>4. headers[k].epoch # 0
        /\ (\A j \in 1 .. k - 1 : headers[j].epoch = 0 => Newest(Run(j), Epoch) = 0) =>
            headers[k].epoch = EpochAfter(1 .. headers[k].last, 1)
    BY DEF HeadersName
  <2>5. \A j \in 1 .. k - 1 : j \in Segments
    BY <1>2 DEF Segments
  <2>6. headers'[k] = headers[k]
    BY <1>1
  <2>7. (\A j \in 1 .. k : headers'[j].manifest # None) =>
            headers'[k].manifest = ManifestAfter(1 .. headers[k].last, Genesis.content)'
    BY <1>1, <2>1, <2>2, <2>3, <2>6
  <2>8. headers'[k].epoch # 0
        /\ (\A j \in 1 .. k - 1 : headers'[j].epoch = 0 => Newest(Run(j), Epoch)' = 0) =>
            headers'[k].epoch = EpochAfter(1 .. headers[k].last, 1)'
    BY <1>1, <1>6, <2>2, <2>4, <2>5, <2>6
  <2> QED
    BY <2>7, <2>8
<1>11. ASSUME NEW k \in Segments', k = new
       PROVE  /\ (\A j \in 1 .. k : headers'[j].manifest # None) =>
                    headers'[k].manifest = ManifestAfter(1 .. headers[k].last, Genesis.content)'
              /\ headers'[k].epoch # 0
                 /\ (\A j \in 1 .. k - 1 : headers'[j].epoch = 0 => Newest(Run(j), Epoch)' = 0) =>
                    headers'[k].epoch = EpochAfter(1 .. headers[k].last, 1)'
  <2>1. /\ ManifestAfter(1 .. headers[k].last, Genesis.content)'
               = ManifestAfter(1 .. h.last, Genesis.content)
        /\ EpochAfter(1 .. headers[k].last, 1)' = EpochAfter(1 .. h.last, 1)
    BY <1>1, <1>5, <1>11
  <2> QED
    BY <1>1, <1>8, <1>9, <1>11, <2>1
<1> QED
  BY <1>1, <1>10, <1>11 DEF HeadersName

(* A new record, with its row when a stamping binary writes it.            *)
LEMMA GoodAfterRecord ==
    ASSUME TypeOK, Good, NEW e \in Entry, Len(log) < MaxLog,
           \A p \in Resident : log[p].id # e.id,
           log' = Append(log, e), UNCHANGED <<headers, collisions, stamped, body, forged, sealer>>,
           \/ /\ identity[e.id].at = 0
              /\ identity' = [identity EXCEPT ![e.id] = [at |-> Len(log) + 1, seg |-> 0]]
              /\ Stamping' => Stamping
           \/ /\ ~e.stamps
              /\ identity' = identity
              /\ ~Stamping'
    PROVE  Good' /\ Extends
<1>1. /\ headers' = headers /\ collisions' = collisions /\ stamped' = stamped
      /\ body' = body /\ forged' = forged /\ sealer' = sealer
  OBVIOUS
<1>2. Longer(e)
  BY <1>1, RecordAppended DEF Good
<1>3. /\ log' \in Seq(Entry) /\ Len(log') = Len(log) + 1 /\ log'[Len(log) + 1] = e
      /\ \A p \in Written : log'[p] = log[p]
      /\ Written' = Written \cup {Len(log) + 1} /\ Resident' = Resident \cup {Len(log) + 1}
      /\ Len(log) + 1 \notin Written /\ Len(log) + 1 \in Place
      /\ SealedTo' = SealedTo /\ Segments' = Segments
      /\ \A k \in Segments : Run(k)' = Run(k)
      /\ Linked' /\ DistinctIds'
  BY <1>2 DEF Longer
<1>4. HeadersName'
  BY <1>1, <1>2, HeadersNameInLonger DEF Good
<1>5. /\ ChainTyped /\ e.id \in Id /\ Len(log) \in Nat /\ Place \subseteq 0 .. MaxLog
      /\ 0 \in 0 .. MaxLog
  BY Constants DEF Good, Entry, Place, ChainTyped
<1>6. identity' \in [Id -> [at : 0 .. MaxLog, seg : 0 .. MaxLog]]
  <2>1. [at |-> Len(log) + 1, seg |-> 0] \in [at : 0 .. MaxLog, seg : 0 .. MaxLog]
    BY <1>3, <1>5
  <2>2. identity \in [Id -> [at : 0 .. MaxLog, seg : 0 .. MaxLog]]
    BY <1>5 DEF ChainTyped
  <2> QED
    BY <2>1, <2>2
<1>7. ChainTyped'
  BY <1>1, <1>3, <1>5, <1>6 DEF ChainTyped
<1>8. ASSUME NEW i \in Id
      PROVE  \/ identity'[i] = identity[i]
             \/ /\ identity[i].at = 0 /\ i = e.id /\ identity'[i].at = Len(log) + 1
                /\ identity'[i].seg = 0
  BY <1>5 DEF ChainTyped
<1>9. /\ \A i \in Id : identity[i].at # 0 =>
            identity[i].at \in Written /\ log[identity[i].at].id = i
      /\ \A c \in collisions : c.at \in Written /\ c.seg \in Segments /\ c.id \in Id
  <2>1. \A i \in Id : identity[i].at \in 0 .. MaxLog
    BY <1>5 DEF ChainTyped
  <2>2. \A c \in collisions : c.at \in Place /\ c.seg \in Place /\ c.id \in Id
    BY <1>5 DEF ChainTyped
  <2>3. \A c \in collisions : c.seg \in Segments /\ c.at \in Run(c.seg)
    BY <2>2, ChainShape DEF Good, RowsAreTrue, Holds, Place, Segments
  <2>4. \A k \in Segments : Run(k) \subseteq Written
    BY RunPlaces DEF Good
  <2> QED
    BY <1>5, <2>1, <2>2, <2>3, <2>4 DEF Good, RowsAreTrue, Written
<1>10. \A k, p : Holds(k, p) /\ k # 0 /\ k \in Nat => Holds(k, p)'
  BY <1>1, <1>3, ChainShape DEF Holds, Segments
<1>11. RowsAreTrue'
  <2>1. ASSUME NEW i \in Id, identity'[i].at # 0
        PROVE  /\ identity'[i].at <= Len(log') /\ log'[identity'[i].at].id = i
               /\ identity'[i].seg # 0 => Holds(identity[i].seg, identity[i].at)'
    <3>1. CASE identity'[i] = identity[i]
      <4>1. identity[i].at \in Written /\ log[identity[i].at].id = i
        BY <1>9, <2>1, <3>1
      <4>2. identity[i].seg # 0 => Holds(identity[i].seg, identity[i].at) /\ identity[i].seg \in Nat
        BY <1>5, <2>1, <3>1 DEF Good, RowsAreTrue, ChainTyped
      <4>3. PICK s, a : s = identity[i].seg /\ a = identity[i].at
        OBVIOUS
      <4>4. s # 0 => Holds(s, a)'
        BY <1>10, <4>2, <4>3
      <4> QED
        BY <1>3, <1>5, <3>1, <4>1, <4>3, <4>4 DEF Written
    <3>2. CASE i = e.id /\ identity'[i].at = Len(log) + 1 /\ identity'[i].seg = 0
      BY <1>3, <3>2
    <3> QED
      BY <1>8, <3>1, <3>2
  <2>2. ASSUME NEW c \in collisions
        PROVE  log'[c.at].id = c.id /\ Holds(c.seg, c.at)' /\ identity'[c.id].at # c.at
    <3>1. /\ log[c.at].id = c.id /\ Holds(c.seg, c.at) /\ identity[c.id].at # c.at
          /\ identity[c.id].at # 0
      BY DEF Good, RowsAreTrue, RowsAreWhole
    <3>2. log'[c.at] = log[c.at] /\ c.id \in Id
      BY <1>3, <1>9
    <3>3. Holds(c.seg, c.at)'
      BY <1>9, <1>10, <3>1 DEF Segments
    <3> QED
      BY <1>8, <3>1, <3>2, <3>3
  <2> QED
    BY <1>1, <2>1, <2>2 DEF RowsAreTrue
<1>12. RowsKept
  BY <1>1, <1>8 DEF RowsKept
<1>13. RowsAreWhole'
  <2>1. ASSUME NEW p \in Written', log'[p].stamps PROVE identity'[log'[p].id].at # 0
    <3>1. CASE p \in Written
      <4>1. log[p].id \in Id /\ identity[log[p].id].at # 0
        BY <1>3, <2>1, <3>1, ChainShape DEF Good, RowsAreWhole
      <4> QED
        BY <1>3, <1>12, <3>1, <4>1 DEF RowsKept
    <3>2. CASE p = Len(log) + 1
      <4>1. identity' = [identity EXCEPT ![e.id] = [at |-> Len(log) + 1, seg |-> 0]]
        BY <1>3, <2>1, <3>2
      <4>2. identity'[e.id].at = Len(log) + 1
        BY <1>5, <4>1 DEF ChainTyped
      <4> QED
        BY <1>3, <1>5, <3>2, <4>2
    <3> QED
      BY <1>3, <3>1, <3>2
  <2>2. \A c \in collisions : identity'[c.id].at # 0
    BY <1>9, <1>12 DEF Good, RowsAreWhole, RowsKept
  <2>3. \A i \in Id : identity'[i].at = 0 => identity'[i].seg = 0
    BY <1>8 DEF Good, RowsAreWhole
  <2> QED
    BY <1>1, <2>1, <2>2, <2>3 DEF RowsAreWhole
<1>14. CountersAreExact'
  <2>1. Rows' = [identity |-> identity', collisions |-> collisions']
    BY DEF Rows
  <2>2. ASSUME NEW k \in Segments PROVE Counted(k, Rows) = Counted(k, Rows)'
    <3>1. k # 0
      BY DEF Segments
    <3>2. \A i \in Id : identity[i].at # 0 /\ identity[i].seg = k
                    <=> identity'[i].at # 0 /\ identity'[i].seg = k
      <4>1. \A i \in Id : identity[i].at = 0 => identity[i].seg = 0
        BY DEF Good, RowsAreWhole
      <4> QED
        BY <1>8, <3>1, <4>1
    <3>3. PICK then : then = Rows'
      OBVIOUS
    <3>4. /\ then.identity = identity' /\ then.collisions = collisions
          /\ Rows.identity = identity /\ Rows.collisions = collisions
      BY <1>1, <2>1, <3>3 DEF Rows
    <3>5. Counted(k, Rows) = Counted(k, then)
      BY <3>2, <3>4, CountedKept
    <3> QED
      BY <3>3, <3>5 DEF Counted
  <2> QED
    BY <1>1, <1>3, <2>2 DEF Good, CountersAreExact
<1>15. AllStamped'
  <2>1. SUFFICES ASSUME Stamping' PROVE AllStamped'
    BY DEF AllStamped
  <2>2. Stamping /\ identity[e.id].at = 0
        /\ identity' = [identity EXCEPT ![e.id] = [at |-> Len(log) + 1, seg |-> 0]]
    BY <2>1
  <2>3. /\ collisions = {}
        /\ \A p \in Written : identity[log[p].id].at = p
        /\ \A p \in Resident : identity[log[p].id].seg = 0
        /\ \A k \in Segments : /\ \A p \in Run(k) : identity[log[p].id].seg = k
                               /\ stamped[k] = Cardinality(Run(k))
    BY <2>2 DEF Good, AllStamped
  <2>4. ASSUME NEW p \in Written PROVE identity'[log'[p].id] = identity[log[p].id]
    <3>1. p # 0 /\ log[p].id \in Id
      BY ChainShape DEF Written
    <3>2. log[p].id # e.id
      BY <2>2, <2>3, <3>1
    <3> QED
      BY <1>3, <1>8, <3>1, <3>2
  <2>5. identity'[e.id].at = Len(log) + 1 /\ identity'[e.id].seg = 0
    BY <1>5, <2>2 DEF ChainTyped
  <2>6. Resident \subseteq Written /\ \A k \in Segments : Run(k) \subseteq Written
    BY RunsDivide, RunPlaces DEF Good, Divided
  <2>7. \A p \in Written' : identity'[log'[p].id].at = p
    BY <1>3, <2>3, <2>4, <2>5
  <2>8. \A p \in Resident' : identity'[log'[p].id].seg = 0
    BY <1>3, <2>3, <2>4, <2>5, <2>6
  <2>9. ASSUME NEW k \in Segments
        PROVE  /\ \A p \in Run(k)' : identity'[log'[p].id].seg = k
               /\ stamped'[k] = Cardinality(Run(k))'
    <3>1. Run(k)' = Run(k)
      BY <1>3
    <3>2. Cardinality(Run(k))' = Cardinality(Run(k))
      BY <3>1
    <3>3. \A p \in Run(k) : identity'[log'[p].id].seg = k
      BY <2>3, <2>4, <2>6
    <3> QED
      BY <1>1, <2>3, <3>1, <3>2, <3>3
  <2> QED
    BY <1>1, <1>3, <2>3, <2>7, <2>8, <2>9 DEF AllStamped
<1>16. OneStamp'
  <2>1. ASSUME NEW p \in Written', NEW q \in Written', p < q, log'[p].id = log'[q].id,
               log'[p].stamps, log'[q].stamps
        PROVE  FALSE
    <3>1. p \in Written
      BY <1>3, <1>5, <2>1 DEF Written
    <3>2. log[p].id \in Id /\ identity[log[p].id].at # 0 /\ log[p].stamps
      BY <1>3, <2>1, <3>1, ChainShape DEF Good, RowsAreWhole
    <3>3. CASE q \in Written
      BY <1>3, <2>1, <3>1, <3>3 DEF Good, OneStamp
    <3>4. CASE q = Len(log) + 1
      <4>1. e.stamps /\ e.id = log[p].id
        BY <1>3, <2>1, <3>1, <3>4
      <4> QED
        BY <3>2, <4>1
    <3> QED
      BY <1>3, <3>3, <3>4
  <2> QED
    BY <2>1 DEF OneStamp
<1>17. Extends
  <2>1. Len(log) + 1 \notin Written
    BY <1>3
  <2> QED
    BY <1>3, <1>12 DEF Extends
<1> QED
  BY <1>3, <1>4, <1>7, <1>11, <1>13, <1>14, <1>15, <1>16, <1>17 DEF Good

(* Rows for resident records that had none.                                *)
LEMMA GoodAfterBackfill ==
    ASSUME TypeOK, Good, NEW missing \in SUBSET Written, Stamping => missing = {},
           identity' = Backfilled(missing), Stamping' => Stamping,
           UNCHANGED <<log, headers, collisions, stamped, body, forged, sealer>>
    PROVE  Good' /\ Extends
<1>1. /\ log' = log /\ headers' = headers /\ collisions' = collisions /\ stamped' = stamped
      /\ body' = body /\ forged' = forged /\ sealer' = sealer
  OBVIOUS
<1>2. /\ Written' = Written /\ Segments' = Segments /\ SealedTo' = SealedTo
      /\ Resident' = Resident
      /\ \A k \in Segments : Run(k)' = Run(k)
  BY <1>1 DEF Written, Segments, SealedTo, Resident, Run
<1>3. /\ ChainTyped /\ Written \subseteq Place /\ Place \subseteq 0 .. MaxLog /\ 0 \notin Place
  BY ChainShape, Constants DEF Good, Linked, Written, Place
<1>4. ASSUME NEW i \in Id
      PROVE  \/ identity'[i] = identity[i]
             \/ /\ identity[i].at = 0 /\ missing # {}
                /\ identity'[i].at \in Written /\ log[identity'[i].at].id = i
                /\ identity'[i].seg = 0
                /\ identity'[i] \in [at : 0 .. MaxLog, seg : 0 .. MaxLog]
  <2>1. CASE identity[i].at = 0 /\ \E p \in missing : log[p].id = i
    <3> DEFINE q == CHOOSE p \in missing : log[p].id = i
    <3>1. q \in missing /\ log[q].id = i
      BY <2>1
    <3>2. identity'[i] = [at |-> q, seg |-> 0]
      BY <2>1 DEF Backfilled
    <3> HIDE DEF q
    <3>3. q \in 0 .. MaxLog /\ q \in Written
      BY <1>3, <3>1
    <3>4. 0 \in 0 .. MaxLog
      BY Constants
    <3> QED
      BY <2>1, <3>1, <3>2, <3>3, <3>4
  <2>2. CASE ~(identity[i].at = 0 /\ \E p \in missing : log[p].id = i)
    BY <2>2 DEF Backfilled
  <2> QED
    BY <2>1, <2>2
<1>5. identity' \in [Id -> [at : 0 .. MaxLog, seg : 0 .. MaxLog]]
  <2>1. \A i \in Id : identity'[i] \in [at : 0 .. MaxLog, seg : 0 .. MaxLog]
    BY <1>3, <1>4 DEF ChainTyped
  <2>2. identity' = [i \in Id |-> identity'[i]]
    BY DEF Backfilled
  <2> QED
    BY <2>1, <2>2
<1>6. ChainTyped'
  BY <1>1, <1>3, <1>5 DEF ChainTyped
<1>7. Linked' /\ DistinctIds'
  <2>1. Linked'
    BY <1>1, <1>2 DEF Good, Linked
  <2>2. \A p, q \in Resident : log[p].id = log[q].id => p = q
    BY DEF Good, DistinctIds, Distinct
  <2>3. \A k \in Segments : \A p, q \in Run(k) : log[p].id = log[q].id => p = q
    BY DEF Good, DistinctIds, Distinct
  <2>4. \A k \in Segments : \A p, q \in Run(k)' : log[p].id = log[q].id => p = q
    BY <1>2, <2>3
  <2>5. DistinctIds'
    BY <1>1, <1>2, <2>2, <2>4 DEF DistinctIds, Distinct
  <2> QED
    BY <2>1, <2>5
<1>8. \A k, p : Holds(k, p)' <=> Holds(k, p)
  BY <1>1 DEF Holds, Resident, SealedTo, Run
<1>9. RowsAreTrue'
  <2>1. ASSUME NEW i \in Id, identity'[i].at # 0
        PROVE  /\ identity'[i].at <= Len(log') /\ log'[identity'[i].at].id = i
               /\ identity'[i].seg # 0 => Holds(identity[i].seg, identity[i].at)'
    <3>1. CASE identity'[i] = identity[i]
      <4>1. PICK s, a : s = identity[i].seg /\ a = identity[i].at
        OBVIOUS
      <4>2. s # 0 => Holds(s, a)'
        BY <1>8, <2>1, <3>1, <4>1 DEF Good, RowsAreTrue
      <4>3. identity[i].at <= Len(log) /\ log[identity[i].at].id = i
        BY <2>1, <3>1 DEF Good, RowsAreTrue
      <4> QED
        BY <1>1, <3>1, <4>1, <4>2, <4>3
    <3>2. CASE identity'[i].at \in Written /\ log[identity'[i].at].id = i /\ identity'[i].seg = 0
      BY <1>1, <3>2, ChainShape DEF Written
    <3> QED
      BY <1>4, <3>1, <3>2
  <2>2. ASSUME NEW c \in collisions
        PROVE  log[c.at].id = c.id /\ Holds(c.seg, c.at) /\ identity'[c.id].at # c.at
    <3>1. c.id \in Id
      BY <1>3 DEF ChainTyped
    <3>2. identity[c.id].at # 0
      BY DEF Good, RowsAreWhole
    <3> QED
      BY <1>4, <3>1, <3>2 DEF Good, RowsAreTrue
  <2> QED
    BY <1>1, <1>8, <2>1, <2>2 DEF RowsAreTrue
<1>10. RowsKept
  BY <1>1, <1>4 DEF RowsKept
<1>11. RowsAreWhole'
  <2>1. \A p \in Written : log[p].id \in Id
    BY ChainShape
  <2>2. \A c \in collisions : c.id \in Id
    BY <1>3 DEF ChainTyped
  <2>3. \A i \in Id : identity'[i].at = 0 => identity'[i].seg = 0
    BY <1>4 DEF Good, RowsAreWhole
  <2>4. \A i \in Id : identity[i].at # 0 => identity'[i].at # 0
    BY <1>10 DEF RowsKept
  <2> QED
    BY <1>1, <1>2, <2>1, <2>2, <2>3, <2>4 DEF Good, RowsAreWhole
<1>12. CountersAreExact'
  <2>1. Rows' = [identity |-> identity', collisions |-> collisions']
    BY DEF Rows
  <2>2. ASSUME NEW k \in Segments PROVE Counted(k, Rows) = Counted(k, Rows)'
    <3>1. k # 0
      BY DEF Segments
    <3>2. \A i \in Id : identity[i].at # 0 /\ identity[i].seg = k
                    <=> identity'[i].at # 0 /\ identity'[i].seg = k
      <4>1. \A i \in Id : identity[i].at = 0 => identity[i].seg = 0
        BY DEF Good, RowsAreWhole
      <4> QED
        BY <1>4, <3>1, <4>1
    <3>3. PICK then : then = Rows'
      OBVIOUS
    <3>4. /\ then.identity = identity' /\ then.collisions = collisions
          /\ Rows.identity = identity /\ Rows.collisions = collisions
      BY <1>1, <2>1, <3>3 DEF Rows
    <3>5. Counted(k, Rows) = Counted(k, then)
      BY <3>2, <3>4, CountedKept
    <3> QED
      BY <3>3, <3>5 DEF Counted
  <2> QED
    BY <1>1, <1>2, <2>2 DEF Good, CountersAreExact
<1>13. AllStamped'
  <2>1. SUFFICES ASSUME Stamping' PROVE AllStamped'
    BY DEF AllStamped
  <2>2. Stamping /\ missing = {}
    BY <2>1
  <2>3. \A i \in Id : identity'[i] = identity[i]
    BY <1>4, <2>2
  <2>4. \A p \in Written : log[p].id \in Id
    BY ChainShape
  <2>5. Resident \subseteq Written /\ \A k \in Segments : Run(k) \subseteq Written
    BY RunsDivide, RunPlaces DEF Good, Divided
  <2>6. /\ collisions = {}
        /\ \A p \in Written : identity[log[p].id].at = p
        /\ \A p \in Resident : identity[log[p].id].seg = 0
        /\ \A k \in Segments : /\ \A p \in Run(k) : identity[log[p].id].seg = k
                               /\ stamped[k] = Cardinality(Run(k))
    BY <2>2 DEF Good, AllStamped
  <2>7. ASSUME NEW k \in Segments
        PROVE  /\ \A p \in Run(k)' : identity'[log[p].id].seg = k
               /\ stamped[k] = Cardinality(Run(k))'
    <3>1. Run(k)' = Run(k)
      BY <1>2
    <3>2. Cardinality(Run(k))' = Cardinality(Run(k))
      BY <3>1
    <3> QED
      BY <2>3, <2>4, <2>5, <2>6, <3>1, <3>2
  <2>8. \A p \in Written : identity'[log[p].id].at = p
    BY <2>3, <2>4, <2>6
  <2>9. \A p \in Resident : identity'[log[p].id].seg = 0
    BY <2>3, <2>4, <2>5, <2>6
  <2> QED
    BY <1>1, <1>2, <2>6, <2>7, <2>8, <2>9 DEF AllStamped
<1>14. OneStamp'
  BY <1>1, <1>2 DEF Good, OneStamp
<1>15. HeadersName'
  <2>1. \A places, kind : Newest(places, kind)' = Newest(places, kind)
    BY <1>1 DEF Newest
  <2>2. \A places, before :
            /\ ManifestAfter(places, before)' = ManifestAfter(places, before)
            /\ EpochAfter(places, before)' = EpochAfter(places, before)
    BY <1>1, <2>1 DEF ManifestAfter, EpochAfter
  <2>3. ASSUME NEW j \in Segments PROVE Newest(Run(j), Epoch)' = Newest(Run(j), Epoch)
    BY <1>2, <2>1
  <2>4. \A k \in Segments : \A j \in 1 .. k - 1 : j \in Segments
    BY ChainShape DEF Segments
  <2> QED
    BY <1>1, <1>2, <2>2, <2>3, <2>4 DEF Good, HeadersName
<1>16. Extends
  <2>1. \A k \in Segments : Run(k)' = Run(k)
    BY <1>2
  <2> QED
    BY <1>1, <1>2, <1>10, <2>1 DEF Extends
<1> QED
  BY <1>6, <1>7, <1>9, <1>11, <1>12, <1>13, <1>14, <1>15, <1>16 DEF Good

(* The header of the next segment is a header.                             *)
LEMMA HeaderIs ==
    ASSUME TypeOK, Linked, SealedTo + SegmentSize < Len(log),
           NEW manifest \in {None, Inherited}, NEW epoch \in {0, EpochAfter(Next1, SealedEpoch)}
    PROVE  [last |-> SealedTo + SegmentSize, manifest |-> manifest, epoch |-> epoch] \in Header
<1>1. /\ Len(log) \in Nat /\ SealedTo \in Nat /\ Len(headers) \in Nat
      /\ SegmentSize \in Nat \ {0} /\ MaxLog \in Nat \ {0} /\ Len(log) <= MaxLog
      /\ Genesis.content \in Content
  BY ChainShape, Constants DEF Linked
<1>2. SealedTo + SegmentSize \in Place
  BY <1>1 DEF Place
<1>3. \A k \in Segments : /\ headers[k].manifest \in Content \cup {None}
                          /\ headers[k].epoch \in 0 .. MaxLog
  BY ChainShape DEF Header
<1>4. Next1 \subseteq Written /\ Next1 = SealedTo + 1 .. SealedTo + SegmentSize
  BY <1>1 DEF Next1, Written
<1>5. headers # <<>> => Len(headers) \in Segments
  <2>1. headers \in Seq(Header)
    BY TypeParts DEF ChainTyped
  <2> QED
    BY <2>1 DEF Segments
<1>6. SealedManifest \in Content \cup {None}
  BY <1>1, <1>3, <1>5 DEF SealedManifest
<1>7. Inherited \in Content \cup {None}
  <2>1. \/ Newest(Next1, Manifest) = 0
        \/ Newest(Next1, Manifest) \in Next1
    BY <1>1, <1>4, NewestOfRun
  <2>2. \A p \in Next1 : log[p].content \in Content
    BY <1>4, ChainShape
  <2> QED
    BY <1>6, <2>1, <2>2 DEF Inherited, ManifestAfter
<1>8. SealedEpoch \in 0 .. MaxLog
  <2> DEFINE named == {k \in Segments : headers[k].epoch # 0}
             top == CHOOSE k \in named : \A j \in named : j <= k
  <2>1. SealedEpoch = IF named = {} THEN 1 ELSE headers[top].epoch
    BY DEF SealedEpoch, Segments
  <2>2. CASE named # {}
    <3>1. named \in SUBSET (0 .. Len(headers))
      BY <1>1 DEF Segments
    <3>2. \E k \in named : \A j \in named : j <= k
      BY <1>1, <2>2, <3>1, GreatestNumber
    <3>3. top \in named
      BY <3>2
    <3> QED
      BY <1>3, <2>1, <2>2, <3>3
  <2>3. CASE named = {}
    BY <1>1, <2>1, <2>3
  <2> QED
    BY <2>2, <2>3
<1>9. EpochAfter(Next1, SealedEpoch) \in 0 .. MaxLog
  <2>1. \/ Newest(Next1, Epoch) = 0
        \/ Newest(Next1, Epoch) \in Next1
    BY <1>1, <1>4, NewestOfRun
  <2>2. \A p \in Next1 : p \in 0 .. MaxLog
    BY <1>1, <1>4
  <2> QED
    BY <1>8, <2>1, <2>2 DEF EpochAfter
<1>10. manifest \in Content \cup {None} /\ epoch \in 0 .. MaxLog
  BY <1>1, <1>7, <1>9
<1> QED
  BY <1>2, <1>10 DEF Header

(* The next run is one.                                                    *)
LEMMA NextRun ==
    ASSUME TypeOK, Good, NEW new \in Nat, NEW h, Sealed(new, h), log' = log
    PROVE  /\ Next1 \in SUBSET Written /\ IsFiniteSet(Next1) /\ Distinct(Next1)
           /\ \A j \in Segments : Run(j)' = Run(j) /\ Run(j) \cap Next1 = {} /\ j # new
           /\ \A p \in Written : p \in Resident' => p \in Resident
<1>1. /\ Next1 \subseteq Resident /\ new \notin Segments /\ \A j \in Segments : Run(j)' = Run(j)
      /\ Resident' = Resident \ Next1
  BY DEF Sealed
<1>2. Resident \subseteq Written
  BY RunsDivide DEF Good, Divided
<1>3. \A j \in Segments : Run(j) \cap Resident = {}
  BY RunPlaces DEF Good
<1>4. IsFiniteSet(Next1)
  <2>1. SealedTo + 1 \in Int /\ SealedTo + SegmentSize \in Int
    BY ChainShape, Constants
  <2> QED
    BY <2>1, FS_Interval DEF Next1
<1>5. Distinct(Next1)
  BY <1>1 DEF Good, DistinctIds, Distinct
<1> QED
  BY <1>1, <1>2, <1>3, <1>4, <1>5

(* A seal of a stamping binary.                                            *)
LEMMA GoodAfterSeal ==
    ASSUME TypeOK, Good, SealedTo + SegmentSize < Len(log),
           NEW new \in Nat, new = Len(headers) + 1,
           headers' = Append(headers, [last |-> SealedTo + SegmentSize, manifest |-> Inherited,
                                       epoch |-> EpochAfter(Next1, SealedEpoch)]),
           body' = Append(body, "whole"), log' = log, forged' = forged,
           Accounts(new, Next1),
           \A n \in Node : sealer'[n] = sealer[n] \/ sealer'[n] = -1,
           Stamping' => Stamping
    PROVE  Good' /\ Extends
<1> DEFINE h == [last |-> SealedTo + SegmentSize, manifest |-> Inherited,
                 epoch |-> EpochAfter(Next1, SealedEpoch)]
<1>1. h \in Header /\ h.last = SealedTo + SegmentSize /\ h.manifest = Inherited
      /\ h.epoch = EpochAfter(Next1, SealedEpoch) /\ headers' = Append(headers, h)
  BY HeaderIs DEF Good
<1> HIDE DEF h
<1>2. Sealed(new, h)
  BY <1>1, HeaderAppended DEF Good
<1>3. /\ Next1 \in SUBSET Written /\ IsFiniteSet(Next1) /\ Distinct(Next1)
      /\ \A j \in Segments : Run(j)' = Run(j) /\ Run(j) \cap Next1 = {} /\ j # new
      /\ \A p \in Written : p \in Resident' => p \in Resident
  BY <1>2, NextRun
<1>4. /\ headers' \in Seq(Header) /\ Len(headers') = new
      /\ Segments' = Segments \cup {new} /\ new \in Place /\ Run(new)' = Next1
      /\ Written' = Written /\ Linked' /\ DistinctIds'
  BY <1>2 DEF Sealed
<1>5. identity' = Account(new, Next1).identity /\ collisions' = Account(new, Next1).collisions
  BY DEF Accounts
<1>6. Accounting(new, Next1)
  BY <1>3, <1>4, <1>5 DEF Accounting
<1>7. /\ identity' \in [Id -> [at : 0 .. MaxLog, seg : 0 .. MaxLog]]
      /\ collisions' \subseteq [id : Id, at : Place, seg : Place]
      /\ RowsAreTrue' /\ RowsAreWhole' /\ RowsKept
  <2>1. TypeOK /\ Linked /\ RowsAreTrue /\ RowsAreWhole
    BY DEF Good
  <2> QED
    BY <1>6, <2>1, AccountingIsTrue DEF RowsKept
<1>8. Len(stamped) = Len(headers) /\ Len(headers) \in Nat
  BY ChainShape DEF Good, ChainTyped
<1>9. /\ stamped' \in Seq({NoCounter} \cup Nat)
      /\ Len(stamped') = IF new > Len(stamped) THEN new ELSE Len(stamped)
      /\ CountersAreExact'
  <2>1. TypeOK /\ Linked /\ RowsAreTrue /\ RowsAreWhole /\ CountersAreExact
    BY DEF Good
  <2>2. new <= Len(stamped) + 1
    BY <1>8
  <2> QED
    BY <1>3, <1>6, <2>1, <2>2, AccountingCounts
<1>10. AllStamped'
  <2>1. CASE Stamping
    <3>1. TypeOK /\ Linked /\ RowsAreTrue /\ RowsAreWhole /\ CountersAreExact /\ AllStamped
      BY DEF Good
    <3>2. new <= Len(stamped) + 1
      BY <1>8
    <3> QED
      BY <1>2, <1>3, <1>6, <2>1, <3>1, <3>2, SealStamps
  <2>2. CASE ~Stamping
    BY <2>2 DEF AllStamped
  <2> QED
    BY <2>1, <2>2
<1>11. ChainTyped'
  <2>1. body \in Seq({"whole", "missing", "corrupt"}) /\ Len(body) = Len(headers)
        /\ log \in Seq(Entry) /\ forged \subseteq Place
    BY DEF Good, ChainTyped
  <2>2. body' \in Seq({"whole", "missing", "corrupt"}) /\ Len(body') = Len(body) + 1
    BY <2>1, AppendIs
  <2>3. Len(stamped') = Len(headers') /\ Len(body') = Len(headers')
    BY <1>4, <1>8, <1>9, <2>1, <2>2
  <2> QED
    BY <1>4, <1>7, <1>9, <2>1, <2>2, <2>3 DEF ChainTyped
<1>12. HeadersName'
  BY <1>1, <1>2, HeadersNameAfterSeal DEF Good
<1>13. OneStamp'
  BY <1>4 DEF Good, OneStamp
<1>14. Extends
  BY <1>3, <1>4, <1>7 DEF Extends
<1> QED
  BY <1>4, <1>7, <1>9, <1>10, <1>11, <1>12, <1>13, <1>14 DEF Good

(* A seal without accounting.                                              *)
LEMMA GoodAfterOldSeal ==
    ASSUME TypeOK, Good, SealedTo + SegmentSize < Len(log),
           NEW new \in Nat, new = Len(headers) + 1, NEW manifest \in {None, Inherited},
           headers' = Append(headers, [last |-> SealedTo + SegmentSize, manifest |-> manifest,
                                       epoch |-> 0]),
           body' = Append(body, "whole"), stamped' = Append(stamped, NoCounter),
           UNCHANGED <<log, identity, collisions, forged, sealer>>, ~Stamping'
    PROVE  Good' /\ Extends
<1> DEFINE h == [last |-> SealedTo + SegmentSize, manifest |-> manifest, epoch |-> 0]
<1>1. h \in Header /\ h.last = SealedTo + SegmentSize /\ h.manifest = manifest
      /\ h.epoch = 0 /\ headers' = Append(headers, h)
  BY HeaderIs DEF Good
<1> HIDE DEF h
<1>2. Sealed(new, h)
  BY <1>1, HeaderAppended DEF Good
<1>3. /\ \A j \in Segments : Run(j)' = Run(j) /\ j # new
      /\ \A p \in Written : p \in Resident' => p \in Resident
  BY <1>2, NextRun
<1>4. /\ headers' \in Seq(Header) /\ Len(headers') = new
      /\ Segments' = Segments \cup {new}
      /\ Written' = Written /\ Linked' /\ DistinctIds'
  BY <1>2 DEF Sealed
<1>5. /\ log' = log /\ identity' = identity /\ collisions' = collisions /\ forged' = forged
  OBVIOUS
<1>6. ChainTyped /\ Len(headers) \in Nat
  BY ChainShape DEF Good
<1>7. /\ stamped \in Seq({NoCounter} \cup Nat) /\ Len(stamped) = Len(headers)
      /\ body \in Seq({"whole", "missing", "corrupt"}) /\ Len(body) = Len(headers)
  BY <1>6 DEF ChainTyped
<1>8. /\ stamped' \in Seq({NoCounter} \cup Nat) /\ Len(stamped') = new
      /\ body' \in Seq({"whole", "missing", "corrupt"}) /\ Len(body') = new
      /\ stamped'[new] = NoCounter
      /\ \A k \in Segments : stamped'[k] = stamped[k]
  <2>1. NoCounter \in {NoCounter} \cup Nat /\ "whole" \in {"whole", "missing", "corrupt"}
    OBVIOUS
  <2>2. Segments = 1 .. Len(stamped)
    BY <1>7 DEF Segments
  <2> QED
    BY <1>7, <2>1, <2>2, AppendIs
<1>9. ChainTyped'
  BY <1>4, <1>5, <1>6, <1>8 DEF ChainTyped
<1>10. RowsAreTrue'
  <2>1. \A p : \A k \in Segments : p \in Run(k) => Holds(k, p)'
    BY <1>3, <1>4 DEF Holds, Segments
  <2>2. \A i \in Id : identity[i].seg \in 0 .. MaxLog
    BY <1>6 DEF ChainTyped
  <2>3. \A c \in collisions : c.seg \in Place
    BY <1>6 DEF ChainTyped
  <2>4. \A i \in Id : identity[i].at # 0 /\ identity[i].seg # 0 =>
            identity[i].seg \in Segments /\ identity[i].at \in Run(identity[i].seg)
    BY <1>6, <2>2, Constants DEF Good, RowsAreTrue, Holds, Segments
  <2>5. \A c \in collisions : c.seg \in Segments /\ c.at \in Run(c.seg)
    BY <1>6, <2>3, Constants DEF Good, RowsAreTrue, Holds, Segments, Place
  <2>6. ASSUME NEW i \in Id, identity[i].at # 0, identity[i].seg # 0
        PROVE  Holds(identity[i].seg, identity[i].at)'
    <3>1. PICK s, a : s = identity[i].seg /\ a = identity[i].at
      OBVIOUS
    <3>2. Holds(s, a)'
      BY <2>1, <2>4, <2>6, <3>1
    <3> QED
      BY <1>5, <3>1, <3>2
  <2>7. ASSUME NEW c \in collisions PROVE Holds(c.seg, c.at)'
    BY <2>1, <2>5
  <2> QED
    BY <1>5, <2>6, <2>7 DEF Good, RowsAreTrue
<1>11. RowsAreWhole'
  BY <1>4, <1>5 DEF Good, RowsAreWhole
<1>12. CountersAreExact'
  <2>1. \A k : Counted(k, Rows)' = Counted(k, Rows)
    BY <1>5 DEF Counted, Rows
  <2> QED
    BY <1>4, <1>8, <2>1 DEF Good, CountersAreExact
<1>13. AllStamped'
  BY DEF AllStamped
<1>14. HeadersName'
  BY <1>1, <1>2, HeadersNameAfterSeal DEF Good
<1>15. OneStamp'
  BY <1>4 DEF Good, OneStamp
<1>16. Extends
  <2>1. \A k \in Segments : Run(k)' = Run(k)
    BY <1>3
  <2> QED
    BY <1>3, <1>4, <1>5, <2>1 DEF Extends, RowsKept
<1> QED
  BY <1>4, <1>9, <1>10, <1>11, <1>12, <1>13, <1>14, <1>15, <1>16 DEF Good

(* The repair of one segment.                                              *)
LEMMA GoodAfterReindex ==
    ASSUME TypeOK, Good, NEW k \in Segments, Accounts(k, Run(k)),
           UNCHANGED <<log, headers, body, forged, sealer>>, ~Stamping'
    PROVE  Good' /\ Extends
<1> DEFINE places == Run(k)
<1>1. /\ log' = log /\ headers' = headers /\ body' = body /\ forged' = forged /\ sealer' = sealer
  OBVIOUS
<1>2. /\ Written' = Written /\ Segments' = Segments /\ SealedTo' = SealedTo
      /\ Resident' = Resident
      /\ \A j \in Segments : Run(j)' = Run(j)
  BY <1>1 DEF Written, Segments, SealedTo, Resident, Run
<1>3. /\ IsFiniteSet(places) /\ places \in SUBSET Written
  BY RunPlaces DEF Good
<1>4. Divided
  BY RunsDivide DEF Good
<1>5. \A j \in Segments : j # k => Run(j) \cap places = {}
  BY <1>4 DEF Divided
<1>6. Distinct(places) /\ Run(k)' = places
  BY <1>2 DEF Good, DistinctIds
<1>7. k \in Place
  <2>1. Len(headers) <= MaxLog
    BY <1>4, ChainShape, Constants DEF Divided, Good, Linked
  <2> QED
    BY <2>1, ChainShape, Constants DEF Segments, Place
<1>8. identity' = Account(k, places).identity /\ collisions' = Account(k, places).collisions
  BY DEF Accounts
<1>9. Accounts(k, places)
  OBVIOUS
<1> HIDE DEF places
<1>10. Accounting(k, places)
  BY <1>1, <1>2, <1>3, <1>5, <1>6, <1>7, <1>8 DEF Accounting
<1>11. TypeOK /\ Linked /\ RowsAreTrue /\ RowsAreWhole /\ CountersAreExact
  BY DEF Good
<1>12. /\ identity' \in [Id -> [at : 0 .. MaxLog, seg : 0 .. MaxLog]]
       /\ collisions' \subseteq [id : Id, at : Place, seg : Place]
       /\ RowsAreTrue' /\ RowsAreWhole' /\ RowsKept
  BY <1>10, <1>11, AccountingIsTrue DEF RowsKept
<1>13. Len(stamped) = Len(headers) /\ Len(headers) \in Nat /\ k \in Nat /\ k <= Len(headers)
  BY ChainShape DEF Good, ChainTyped, Segments
<1>14. /\ stamped' \in Seq({NoCounter} \cup Nat)
       /\ Len(stamped') = IF k > Len(stamped) THEN k ELSE Len(stamped)
       /\ CountersAreExact'
  <2>1. k <= Len(stamped) + 1
    BY <1>13
  <2> QED
    BY <1>3, <1>9, <1>10, <1>11, <2>1, AccountingCounts
<1>15. ChainTyped'
  <2>1. Len(stamped') = Len(headers')
    BY <1>1, <1>13, <1>14
  <2> QED
    BY <1>1, <1>12, <1>14, <2>1 DEF Good, ChainTyped
<1>16. Linked' /\ DistinctIds'
  <2>1. Linked'
    BY <1>1, <1>2 DEF Good, Linked
  <2>2. \A p, q \in Resident : log[p].id = log[q].id => p = q
    BY DEF Good, DistinctIds, Distinct
  <2>3. \A j \in Segments : \A p, q \in Run(j) : log[p].id = log[q].id => p = q
    BY DEF Good, DistinctIds, Distinct
  <2>4. \A j \in Segments : \A p, q \in Run(j)' : log[p].id = log[q].id => p = q
    BY <1>2, <2>3
  <2>5. DistinctIds'
    BY <1>1, <1>2, <2>2, <2>4 DEF DistinctIds, Distinct
  <2> QED
    BY <2>1, <2>5
<1>17. AllStamped'
  BY DEF AllStamped
<1>18. OneStamp'
  BY <1>1, <1>2 DEF Good, OneStamp
<1>19. HeadersName'
  <2>1. \A set, kind : Newest(set, kind)' = Newest(set, kind)
    BY <1>1 DEF Newest
  <2>2. \A set, before : /\ ManifestAfter(set, before)' = ManifestAfter(set, before)
                         /\ EpochAfter(set, before)' = EpochAfter(set, before)
    BY <1>1, <2>1 DEF ManifestAfter, EpochAfter
  <2>3. ASSUME NEW j \in Segments PROVE Newest(Run(j), Epoch)' = Newest(Run(j), Epoch)
    BY <1>2, <2>1
  <2>4. \A i \in Segments : \A j \in 1 .. i - 1 : j \in Segments
    BY ChainShape DEF Segments
  <2> QED
    BY <1>1, <1>2, <2>2, <2>3, <2>4 DEF Good, HeadersName
<1>20. Extends
  <2>1. \A j \in Segments : Run(j)' = Run(j)
    BY <1>2
  <2> QED
    BY <1>1, <1>2, <1>12, <2>1 DEF Extends
<1> QED
  BY <1>12, <1>14, <1>15, <1>16, <1>17, <1>18, <1>19, <1>20 DEF Good

----------------------------------------------------------------------------
(* Every step.                                                             *)

(* Nothing undoes what an older binary wrote.                              *)
LEMMA OldStays ==
    ASSUME TypeOK, Next
    PROVE  /\ Stamping' => Stamping
           /\ \A d \in scene.old : OldAppend(d) => ~Stamping'
           /\ OldSeal => ~Stamping'
<1>1. old \in OldKind /\ old.seals \in Nat
  BY TypeParts DEF OldTyped, OldKind
<1>2. \A d \in scene.old : OldAppend(d) => old'.wrote = old.wrote \cup {d}
  BY <1>1 DEF OldAppend, OldKind
<1>3. OldSeal => old'.seals = old.seals + 1
  BY <1>1 DEF OldSeal, OldKind
<1>4. \/ old'.wrote = old.wrote /\ old'.seals = old.seals
      \/ \E d \in scene.old : OldAppend(d)
      \/ OldSeal
  <2>1. \/ old' = old
        \/ old' = [old EXCEPT !.crashes = @ + 1]
        \/ \E b \in inflight : old' = [old EXCEPT !.losses = @ + IF Awaited(b) THEN 1 ELSE 0]
        \/ old' = [old EXCEPT !.losses = @ + 1]
        \/ old' = [old EXCEPT !.damage = @ + 1]
        \/ old' = [old EXCEPT !.gone = TRUE]
        \/ \E d \in scene.old : OldAppend(d)
        \/ OldSeal
    BY DEF Next, Open, Backfill, Recheck, Crash, Offer, Apply, GiveUp, Classify, AskHead, SealRead,
           SealCommit, ReindexSegment, ReindexReport, LookUp, ReadResident, AskAgain, ReadBody,
           OldLeaves, Damage
  <2> QED
    BY <1>1, <2>1 DEF OldKind
<1>5. OldSeal => ~Stamping'
  BY <1>1, <1>3 DEF Stamping
<1>6. \A d \in scene.old : OldAppend(d) => ~Stamping'
  BY <1>2 DEF Stamping
<1> QED
  BY <1>4, <1>5, <1>6 DEF Stamping

(* What is sealed when a seal is due leaves something resident.            *)
LEMMA DueLeaves == ASSUME TypeOK, Linked, Due PROVE SealedTo + SegmentSize < Len(log)
<1>1. /\ SealedTo \in Nat /\ Len(log) \in Nat /\ SealedTo < Len(log)
      /\ SegmentSize \in Nat /\ HotWindow \in Nat /\ SegmentSize <= HotWindow
  BY ChainShape, Constants DEF Linked
<1>2. Cardinality(SealedTo + 1 .. Len(log)) = Len(log) - (SealedTo + 1) + 1
  BY <1>1, FS_Interval
<1>3. Cardinality(Resident) = Len(log) - SealedTo
  BY <1>1, <1>2 DEF Resident
<1> QED
  BY <1>1, <1>3 DEF Due

(* Every step keeps the chain good, and takes nothing back.                *)
LEMMA ChainSteps ==
    ASSUME TypeOK, Good, HandlesKnow, scene \in Scenes, [Next]_vars
    PROVE  Good' /\ Extends
<1>1. ChainTyped /\ Linked
  BY DEF Good
<1>2. CASE UNCHANGED vars
  <2>1. UNCHANGED chain /\ UNCHANGED <<chain, body, forged>> /\ sealer' = sealer /\ old' = old
    BY <1>2 DEF vars, chain
  <2> QED
    BY <1>1, <2>1, ChainTypedKept, ChainAlone DEF Stamping
<1>3. SUFFICES ASSUME Next PROVE Good' /\ Extends
  BY <1>2
<1>4. Stamping' => Stamping
  BY <1>3, OldStays
<1>5. ASSUME UNCHANGED <<chain, body, forged>>,
             \A n \in Node : sealer'[n] = sealer[n] \/ sealer'[n] = -1
      PROVE  Good' /\ Extends
  <2>1. ChainTyped' /\ UNCHANGED chain
    BY <1>1, <1>5, ChainTypedKept
  <2> QED
    BY <1>4, <1>5, <2>1, ChainAlone
<1>6. ASSUME NEW n \in Node, Backfill(n) PROVE Good' /\ Extends
  <2>1. node[n].missing \in SUBSET Written /\ (Stamping => node[n].missing = {})
    BY DEF HandlesKnow
  <2>2. identity' = Backfilled(node[n].missing)
        /\ UNCHANGED <<log, headers, collisions, stamped, body, forged, sealer>>
    BY <1>6 DEF Backfill
  <2> QED
    BY <1>4, <2>1, <2>2, GoodAfterBackfill
<1>7. ASSUME NEW n \in Node, Crash(n) PROVE Good' /\ Extends
  <2>1. sealer' = [sealer EXCEPT ![n] = -1] /\ sealer \in [Node -> -1 .. MaxLog]
        /\ UNCHANGED <<chain, body, forged>>
    BY <1>7, TypeParts DEF Crash, SealerTyped
  <2> QED
    BY <1>5, <2>1
<1>8. ASSUME NEW b \in inflight, Apply(b) PROVE Good' /\ Extends
  <2>1. UNCHANGED <<headers, collisions, stamped, body, forged, sealer>> /\ Len(log) < MaxLog
    BY <1>8 DEF Apply
  <2>2. CASE Admissible(b)
    <3> DEFINE d == Wants[b.call]
               e == Record(d, TRUE)
    <3>1. b.call \in Call
      BY TypeParts DEF CallTyped
    <3>2. e \in Entry /\ e.id = d.id /\ d.id \in Id
      BY <3>1, Constants DEF Record, Entry
    <3>3. identity[e.id].at = 0 /\ \A p \in Resident : log[p].id # e.id
      BY <2>2, <3>2 DEF Admissible
    <3>4. /\ log' = Append(log, e)
          /\ identity' = [identity EXCEPT ![d.id] =
                            IF @.at = 0 THEN [at |-> Len(log) + 1, seg |-> 0] ELSE @]
      BY <1>8, <2>2 DEF Apply
    <3> HIDE DEF e
    <3>5. identity' = [identity EXCEPT ![e.id] = [at |-> Len(log) + 1, seg |-> 0]]
      BY <3>2, <3>3, <3>4
    <3> QED
      BY <1>4, <2>1, <3>2, <3>3, <3>4, <3>5, GoodAfterRecord
  <2>3. CASE ~Admissible(b)
    BY <1>5, <1>8, <2>1, <2>3 DEF Apply, chain
  <2> QED
    BY <2>2, <2>3
<1>9. ASSUME NEW n \in Node, SealRead(n) PROVE Good' /\ Extends
  <2>1. sealer' = [sealer EXCEPT ![n] = Len(headers)] /\ sealer \in [Node -> -1 .. MaxLog]
        /\ UNCHANGED <<chain, body, forged>> /\ Due
    BY <1>9, TypeParts DEF SealRead, SealerTyped
  <2>2. SealedTo + SegmentSize < Len(log)
    BY <1>1, <2>1, DueLeaves
  <2>3. ChainTyped' /\ UNCHANGED chain
    BY <1>1, <2>1, ChainTypedKept
  <2> QED
    BY <1>4, <2>1, <2>2, <2>3, ChainAlone
<1>10. ASSUME NEW n \in Node, SealCommit(n) PROVE Good' /\ Extends
  <2>1. /\ sealer' = [sealer EXCEPT ![n] = -1] /\ sealer \in [Node -> -1 .. MaxLog]
        /\ log' = log /\ forged' = forged
    BY <1>10, TypeParts DEF SealCommit, SealerTyped
  <2>2. \A m \in Node : sealer'[m] = sealer[m] \/ sealer'[m] = -1
    BY <2>1
  <2>3. CASE sealer[n] # Len(headers) \/ forged \cap Next1 # {}
    BY <1>5, <1>10, <2>1, <2>2, <2>3 DEF SealCommit, chain
  <2>4. CASE ~(sealer[n] # Len(headers) \/ forged \cap Next1 # {})
    <3>1. SealedTo + SegmentSize < Len(log)
      BY <1>1, <2>4 DEF Linked
    <3>2. PICK new \in Nat : new = Len(headers) + 1
      BY ChainShape
    <3>3. /\ headers' = Append(headers, [last |-> SealedTo + SegmentSize, manifest |-> Inherited,
                                         epoch |-> EpochAfter(Next1, SealedEpoch)])
          /\ body' = Append(body, "whole") /\ Accounts(new, Next1)
      BY <1>10, <2>4, <3>2 DEF SealCommit
    <3> QED
      BY <1>4, <2>1, <2>2, <3>1, <3>2, <3>3, GoodAfterSeal
  <2> QED
    BY <2>3, <2>4
<1>11. ASSUME NEW n \in Node, ReindexSegment(n) PROVE Good' /\ Extends
  <2> DEFINE k == NewestOf(node[n].todo)
  <2>1. node[n].todo \subseteq Segments /\ node[n].todo # {} /\ (Stamping => node[n].todo = {})
    BY <1>11 DEF HandlesKnow, ReindexSegment
  <2>2. k \in Segments
    <3>1. Len(headers) \in Nat /\ Segments \subseteq 0 .. Len(headers)
      BY ChainShape DEF Segments
    <3>2. \E t \in node[n].todo : \A s \in node[n].todo : s <= t
      BY <2>1, <3>1, GreatestNumber
    <3> QED
      BY <2>1, <3>2 DEF NewestOf
  <2>3. ~Stamping'
    BY <1>4, <2>1
  <2>4. UNCHANGED <<log, headers, body, forged, sealer>>
    BY <1>11 DEF ReindexSegment
  <2>5. CASE Fetched(k) = "record"
    <3>1. Accounts(k, Run(k))
      BY <1>11, <2>5 DEF ReindexSegment
    <3> HIDE DEF k
    <3> QED
      BY <2>2, <2>3, <2>4, <3>1, GoodAfterReindex
  <2>6. CASE Fetched(k) # "record"
    BY <1>5, <1>11, <2>4, <2>6 DEF ReindexSegment, chain
  <2> QED
    BY <2>5, <2>6
<1>12. ASSUME NEW d \in scene.old, OldAppend(d) PROVE Good' /\ Extends
  <2> DEFINE e == Record(d, FALSE)
  <2>1. d \in [id : Id, content : Content]
    BY Constants DEF Scene
  <2>2. e \in Entry /\ e.id = d.id /\ ~e.stamps
    BY <2>1 DEF Record, Entry
  <2>3. /\ Len(log) < MaxLog /\ log' = Append(log, e) /\ identity' = identity
        /\ \A p \in Resident : log[p].id # d.id
        /\ UNCHANGED <<headers, collisions, stamped, body, forged, sealer>>
    BY <1>12 DEF OldAppend
  <2>4. ~Stamping'
    BY <1>3, <1>12, OldStays
  <2> HIDE DEF e
  <2> QED
    BY <2>2, <2>3, <2>4, GoodAfterRecord
<1>13. ASSUME OldSeal PROVE Good' /\ Extends
  <2>1. SealedTo + SegmentSize < Len(log)
    BY <1>1, <1>13, DueLeaves DEF OldSeal
  <2>2. PICK new \in Nat : new = Len(headers) + 1
    BY ChainShape
  <2>3. PICK manifest \in {None, Inherited} :
            headers' = Append(headers, [last |-> SealedTo + SegmentSize, manifest |-> manifest,
                                        epoch |-> 0])
    BY <1>13 DEF OldSeal
  <2>4. body' = Append(body, "whole") /\ stamped' = Append(stamped, NoCounter)
        /\ UNCHANGED <<log, identity, collisions, forged, sealer>>
    BY <1>13 DEF OldSeal
  <2>5. ~Stamping'
    BY <1>3, <1>13, OldStays
  <2> QED
    BY <2>1, <2>2, <2>3, <2>4, <2>5, GoodAfterOldSeal
<1>14. ASSUME Damage PROVE Good' /\ Extends
  <2>1. UNCHANGED chain /\ sealer' = sealer
    BY <1>14 DEF Damage, chain
  <2>2. body' \in Seq({"whole", "missing", "corrupt"}) /\ Len(body') = Len(body)
    <3>1. body \in Seq({"whole", "missing", "corrupt"})
      BY <1>1 DEF ChainTyped
    <3>2. \/ body' = body
          \/ \E k \in 1 .. Len(body), state \in {"missing", "corrupt"} :
                 body' = [body EXCEPT ![k] = state]
      BY <1>14 DEF Damage
    <3> QED
      BY <3>1, <3>2
  <2>3. forged' \subseteq Place
    <3>1. forged' = forged \/ \E p \in Resident : forged' = {p}
      BY <1>14 DEF Damage
    <3>2. Resident \subseteq Place
      BY <1>1, ChainShape, Constants DEF Linked, Resident, Place
    <3> QED
      BY <1>1, <3>1, <3>2 DEF ChainTyped
  <2>4. ChainTyped'
    BY <1>1, <2>1, <2>2, <2>3 DEF ChainTyped, chain
  <2> QED
    BY <1>4, <2>1, <2>4, ChainAlone
<1>15. CASE UNCHANGED <<chain, body, forged>> /\ sealer' = sealer
  BY <1>5, <1>15
<1> QED
  BY <1>3, <1>6, <1>7, <1>8, <1>9, <1>10, <1>11, <1>12, <1>13, <1>14, <1>15
     DEF Next, Open, Recheck, Offer, GiveUp, Classify, AskHead, ReindexReport, LookUp,
         ReadResident, AskAgain, ReadBody, OldLeaves


----------------------------------------------------------------------------
(* The parts of the invariant together.                                    *)

(* The invariant's part about the chain is what ChainSteps starts from.    *)
LEMMA InvIsGood ==
    ASSUME IInv
    PROVE  TypeOK /\ Good /\ HandlesKnow /\ ReaderIsRight /\ RecoverFinds /\ OneCopy
           /\ scene \in Scenes
<1>1. /\ TypeOK /\ Linked /\ DistinctIds /\ RowsAreTrue /\ RowsAreWhole /\ CountersAreExact
      /\ AllStamped /\ OneCopy
  BY DEF IInv, RowInv
<1>2. HandlesKnow /\ ReaderIsRight /\ RecoverFinds /\ HeadersName /\ scene \in Scenes
  BY DEF IInv
<1>3. ChainTyped
  BY <1>1, TypeParts
<1>4. OneStamp
  BY <1>1 DEF OneCopy, OneStamp, Written
<1> QED
  BY <1>1, <1>2, <1>3, <1>4 DEF Good

(* Every variable keeps its type.                                          *)
LEMMA TypesKept ==
    ASSUME TypeOK, Linked, scene \in Scenes, [Next]_vars, ChainTyped'
    PROVE  TypeOK' /\ scene' \in Scenes
<1>1. /\ TypeOK' <=> /\ ChainTyped' /\ NodeTyped' /\ CallTyped' /\ SealerTyped' /\ ReaderTyped'
                     /\ OldTyped'
      /\ NodeTyped /\ CallTyped /\ SealerTyped /\ ReaderTyped /\ OldTyped
  BY TypeParts, PTL
<1>2. scene' = scene
  BY DEF Next, vars, Open, Backfill, Recheck, Crash, Offer, Apply, GiveUp, Classify, AskHead,
         SealRead, SealCommit, ReindexSegment, ReindexReport, LookUp, ReadResident, AskAgain,
         ReadBody, OldAppend, OldSeal, OldLeaves, Damage
<1>3. CASE Next
  BY <1>1, <1>2, <1>3, NodeTypedKept, CallTypedKept, SealerTypedKept, ReaderTypedKept,
     OldTypedKept
<1>4. CASE UNCHANGED vars
  <2>1. NodeTyped' /\ CallTyped' /\ SealerTyped' /\ ReaderTyped' /\ OldTyped'
    BY <1>1, <1>4 DEF vars, NodeTyped, CallTyped, SealerTyped, ReaderTyped, OldTyped
  <2> QED
    BY <1>1, <1>2, <2>1
<1> QED
  BY <1>3, <1>4

(* What one handle may believe of a chain.                                 *)
Knows(e, places, segments, sure) ==
    /\ e.missing \subseteq places
    /\ e.todo \subseteq segments
    /\ sure => e.missing = {} /\ e.todo = {} /\ (e.pc \in {"up", "walk"} => e.complete)

(* A handle believes nothing else of the chain it reads.                   *)
LEMMA HandlesKept ==
    ASSUME TypeOK, Good, HandlesKnow, [Next]_vars, Extends
    PROVE  HandlesKnow'
<1> DEFINE Right(e) == Knows(e, Written, Segments, Stamping)
<1>1. \A n \in Node : Right(node[n])
  BY DEF HandlesKnow, Knows
<1>2. Written \subseteq Written' /\ Segments \subseteq Segments' /\ (Stamping' => Stamping)
  BY DEF Extends
<1>3. ASSUME \A n \in Node : Right(node'[n]) PROVE HandlesKnow'
  BY <1>2, <1>3 DEF HandlesKnow, Knows
<1> HIDE DEF Right
<1>4. node \in [Node -> NodeKind] /\ \A n \in Node : node[n] \in NodeKind
  BY TypeParts DEF NodeTyped
<1>5. ASSUME NEW n \in Node, NEW e, Right(e), node' = [node EXCEPT ![n] = e] PROVE HandlesKnow'
  BY <1>1, <1>3, <1>4, <1>5
<1>6. /\ ChainTyped /\ Linked /\ AllStamped /\ Divided
  BY RunsDivide DEF Good
<1>7. Stamping => Covered
  <2>1. SUFFICES ASSUME Stamping PROVE Covered
    OBVIOUS
  <2>2. Uncovered = {}
    BY <1>6, <2>1 DEF AllStamped, Uncovered, Segments
  <2>3. \A p \in Resident : p \in Written
    BY <1>6 DEF Divided
  <2>4. Unstamped = {}
    BY <1>6, <2>1, <2>3 DEF AllStamped, Unstamped, Named
  <2> QED
    BY <2>2, <2>4 DEF Covered
<1>8. Unstamped \subseteq Written /\ Uncovered \subseteq Segments
  BY <1>6 DEF Divided, Unstamped, Uncovered, Segments
<1>9. Right(Down)
  BY DEF Right, Knows, Down
<1>10. ASSUME NEW n \in Node, Open(n) PROVE HandlesKnow'
  <2> DEFINE e == [Down EXCEPT !.pc = "backfill", !.missing = Unstamped, !.quiet = old.gone]
  <2>1. node' = [node EXCEPT ![n] = e]
    BY <1>10 DEF Open
  <2>2. e.pc = "backfill" /\ e.missing = Unstamped /\ e.todo = {}
    BY DEF Down
  <2> HIDE DEF e
  <2>3. Right(e)
    BY <1>7, <1>8, <2>2 DEF Right, Knows, Covered
  <2> QED
    BY <1>5, <2>1, <2>3
<1>11. ASSUME NEW n \in Node, Backfill(n) PROVE HandlesKnow'
  <2> DEFINE e == [node[n] EXCEPT !.pc = "recheck", !.missing = {}]
  <2>1. node' = [node EXCEPT ![n] = e]
    BY <1>4, <1>11 DEF Backfill
  <2>2. e.pc = "recheck" /\ e.missing = {} /\ e.todo = node[n].todo
    BY <1>4 DEF NodeKind
  <2> HIDE DEF e
  <2>3. Right(e)
    BY <1>1, <2>2 DEF Right, Knows
  <2> QED
    BY <1>5, <2>1, <2>3
<1>12. ASSUME NEW n \in Node, Recheck(n) PROVE HandlesKnow'
  <2> DEFINE walks == [node[n] EXCEPT !.pc = "walk", !.todo = Uncovered, !.complete = Covered]
             opens == [node[n] EXCEPT !.pc = "up", !.complete = TRUE]
  <2>1. /\ node[n].pc = "recheck"
        /\ \/ node' = [node EXCEPT ![n] = walks]
           \/ node' = [node EXCEPT ![n] = opens]
           \/ node' = [node EXCEPT ![n] = Down]
    BY <1>12 DEF Recheck
  <2>2. /\ walks.missing = node[n].missing /\ walks.todo = Uncovered /\ walks.complete = Covered
        /\ opens.missing = node[n].missing /\ opens.todo = node[n].todo /\ opens.complete
    BY <1>4 DEF NodeKind
  <2> HIDE DEF walks, opens
  <2>3. Right(walks)
    BY <1>1, <1>7, <1>8, <2>2 DEF Right, Knows, Covered
  <2>4. Right(opens)
    BY <1>1, <2>2 DEF Right, Knows
  <2> QED
    BY <1>5, <1>9, <2>1, <2>3, <2>4
<1>13. ASSUME NEW n \in Node, Crash(n) PROVE HandlesKnow'
  BY <1>5, <1>9, <1>13 DEF Crash
<1>14. ASSUME NEW n \in Node, SealCommit(n) PROVE HandlesKnow'
  <2>1. CASE sealer[n] # Len(headers) \/ forged \cap Next1 # {}
    BY <1>1, <1>3, <1>14, <2>1 DEF SealCommit
  <2>2. CASE ~(sealer[n] # Len(headers) \/ forged \cap Next1 # {})
    <3> DEFINE created == Account(Len(headers) + 1, Next1).created
               e == [node[n] EXCEPT !.complete = StillSure(n, created)]
    <3>1. node' = [node EXCEPT ![n] = e]
      BY <1>4, <1>14, <2>2 DEF SealCommit
    <3>2. Stamping => created = {}
      <4>1. SealedTo + SegmentSize < Len(log)
        BY <1>6, <2>2 DEF Linked
      <4>2. /\ Len(headers) \in Nat /\ Len(log) \in Nat /\ SealedTo \in Nat
            /\ Len(headers) <= SealedTo /\ MaxLog \in Nat /\ Len(log) <= MaxLog
            /\ SegmentSize \in Nat
        BY <1>6, ChainShape, Constants DEF Divided, Linked
      <4>3. Len(headers) + 1 \in Place
        BY <1>6, <4>2 DEF Place, Linked
      <4>4. Next1 \subseteq Resident /\ Next1 \subseteq Written
        BY <4>1, <4>2 DEF Next1, Resident, Written
      <4>5. Distinct(Next1)
        BY <4>4 DEF Good, DistinctIds, Distinct
      <4>6. Stamping => \A p \in Next1 : identity[log[p].id].at # 0
        BY <1>6, <4>2, <4>4 DEF AllStamped, Written
      <4> QED
        BY <1>6, <4>3, <4>4, <4>5, <4>6, AccountIs
    <3>3. /\ e.pc = node[n].pc /\ e.missing = node[n].missing /\ e.todo = node[n].todo
          /\ e.complete = (node[n].complete /\ created = {})
      BY <1>4 DEF NodeKind, StillSure
    <3> HIDE DEF e, created
    <3>4. Right(e)
      BY <1>1, <3>2, <3>3 DEF Right, Knows
    <3> QED
      BY <1>5, <3>1, <3>4
  <2> QED
    BY <2>1, <2>2
<1>15. ASSUME NEW n \in Node, ReindexSegment(n) PROVE HandlesKnow'
  <2>1. ~Stamping
    BY <1>1, <1>15 DEF Right, Knows, ReindexSegment
  <2>2. PICK k, f, m, h : node' = [node EXCEPT ![n] =
              [node[n] EXCEPT !.todo = node[n].todo \ {k}, !.found = f, !.complete = m,
                              !.damaged = h]]
    <3> DEFINE k == NewestOf(node[n].todo)
    <3>1. CASE Fetched(k) = "record"
      <4> DEFINE f == node[n].found \/ collisions' # collisions
                 m == StillSure(n, Account(k, Run(k)).created)
      <4>1. node' = [node EXCEPT ![n] = [@ EXCEPT
                        !.todo = node[n].todo \ {k},
                        !.found = node[n].found \/ collisions' # collisions,
                        !.complete = StillSure(n, Account(k, Run(k)).created)]]
        BY <1>15, <3>1 DEF ReindexSegment
      <4>2. node' = [node EXCEPT ![n] = [@ EXCEPT !.todo = node[n].todo \ {k}, !.found = f,
                                                  !.complete = m]]
        BY <1>4, <4>1
      <4> HIDE DEF f, m, k
      <4>3. node' = [node EXCEPT ![n] = [node[n] EXCEPT !.todo = node[n].todo \ {k}, !.found = f,
                                            !.complete = m, !.damaged = node[n].damaged]]
        BY <1>4, <4>2 DEF NodeKind
      <4> QED
        BY <4>3
    <3>2. CASE Fetched(k) # "record"
      <4>1. node' = [node EXCEPT ![n] = [@ EXCEPT !.todo = node[n].todo \ {k}, !.damaged = TRUE]]
        BY <1>15, <3>2 DEF ReindexSegment
      <4> HIDE DEF k
      <4>2. node' = [node EXCEPT ![n] = [node[n] EXCEPT !.todo = node[n].todo \ {k},
                                   !.found = node[n].found, !.complete = node[n].complete, !.damaged = TRUE]]
        BY <1>4, <4>1 DEF NodeKind
      <4> QED
        BY <4>2
    <3> QED
      BY <3>1, <3>2
  <2> DEFINE e == [node[n] EXCEPT !.todo = node[n].todo \ {k}, !.found = f, !.complete = m,
                                  !.damaged = h]
  <2>3. e.missing = node[n].missing /\ e.todo = node[n].todo \ {k}
    BY <1>4 DEF NodeKind
  <2>4. node' = [node EXCEPT ![n] = e]
    BY <2>2
  <2> HIDE DEF e
  <2>5. Right(e)
    BY <1>1, <2>1, <2>3 DEF Right, Knows
  <2> QED
    BY <1>5, <2>4, <2>5
<1>16. ASSUME NEW n \in Node, ReindexReport(n) PROVE HandlesKnow'
  <2> DEFINE pc == IF Outcome(n) # "ok" \/ Covered THEN Outcome(n) ELSE "stale"
             covered == Covered
             e == [node[n] EXCEPT !.complete = covered, !.pc = pc]
  <2>1. pc \in {"ok", "stale", "conflict", "uncovered"}
    BY DEF Outcome
  <2>2. node' = [node EXCEPT ![n] = [@ EXCEPT !.complete = covered, !.pc = pc]]
    BY <1>16 DEF ReindexReport
  <2> HIDE DEF pc, covered
  <2>3. node' = [node EXCEPT ![n] = e]
    BY <1>4, <2>2
  <2>4. e.pc = pc /\ e.missing = node[n].missing /\ e.todo = node[n].todo
    BY <1>4 DEF NodeKind
  <2> HIDE DEF e
  <2>5. Right(e)
    BY <1>1, <2>1, <2>4 DEF Right, Knows
  <2> QED
    BY <1>5, <2>3, <2>5
<1>17. CASE node' = node
  BY <1>1, <1>3, <1>17
<1> QED
  BY <1>10, <1>11, <1>12, <1>13, <1>14, <1>15, <1>16, <1>17
     DEF Next, vars, Offer, Apply, GiveUp, Classify, AskHead, SealRead,
         LookUp, ReadResident, AskAgain, ReadBody, OldAppend, OldSeal, OldLeaves, Damage


----------------------------------------------------------------------------
(* What callers are told.                                                  *)

(* The chain holds the decision of a call.                                 *)
Told(c) == \E p \in Written : log[p].id = Wants[c].id /\ log[p].content = Wants[c].content

(* That is OneCopy's second half, in a typed chain.                        *)
LEMMA ToldIsOneCopy ==
    ASSUME ChainTyped, NEW c \in Call
    PROVE  Told(c) <=> \E p \in 1 .. Len(log) : log[p] = Record(Wants[c], log[p].stamps)
<1>1. \A p \in Written : log[p] \in Entry
  <2>1. log \in Seq(Entry)
    BY DEF ChainTyped
  <2> QED
    BY <2>1, ElementKind DEF Written
<1>2. \A e \in Entry : (e.id = Wants[c].id /\ e.content = Wants[c].content)
                          <=> e = Record(Wants[c], e.stamps)
  BY DEF Entry, Record
<1> QED
  BY <1>1, <1>2 DEF Told, Written

(* The rows say that a decision landed only of one in the chain.           *)
LEMMA SpokenIsTold ==
    ASSUME TypeOK, RowsAreTrue, NEW c \in Call, Spoken(Wants[c]) = "landed"
    PROVE  Told(c)
<1> DEFINE i == Wants[c].id
<1>1. i \in Id
  BY Constants
<1>2. identity[i].at # 0 /\ Digest(i) = Wants[c].content
  BY DEF Spoken, None
<1>3. identity[i].at \in 0 .. MaxLog /\ MaxLog \in Nat
  BY <1>1, TypeParts, Constants DEF ChainTyped
<1>4. identity[i].at <= Len(log) /\ log[identity[i].at].id = i
  BY <1>1, <1>2 DEF RowsAreTrue
<1>5. identity[i].at \in Written
  BY <1>2, <1>3, <1>4, ChainShape DEF Written
<1> QED
  BY <1>2, <1>4, <1>5 DEF Told, Digest

(* A call answers "landed" by what the rows say, or when its batch is      *)
(* applied.                                                                *)
LEMMA LandsHow ==
    ASSUME TypeOK, [Next]_vars, NEW c \in Call, call'[c].pc = "landed"
    PROVE  \/ call[c].pc = "landed" \/ Spoken(Wants[c]) = "landed"
           \/ log' = Append(log, Record(Wants[c], TRUE))
<1>1. /\ call \in [Call -> CallKind] /\ inflight \subseteq [call : Call, parent : Place]
  BY TypeParts DEF CallTyped
<1>9. \A e \in CallKind : \A pc : [e EXCEPT !.pc = pc].pc = pc
  BY DEF CallKind
<1>2. CASE call' = call
  BY <1>2
<1>3. ASSUME NEW d \in Call, NEW n \in Node, Offer(d, n)
      PROVE  call[c].pc = "landed" \/ Spoken(Wants[c]) = "landed"
  <2>1. \E pc, parent, tries :
            /\ call' = [call EXCEPT ![d] = [pc |-> pc, node |-> n, parent |-> parent,
                                            tries |-> tries]]
            /\ pc = Backstop(n, Wants[d]) \/ pc = "sent" \/ pc = "error"
    BY <1>3 DEF Offer
  <2>2. call'[c] = call[c] \/ (c = d /\ (\/ call'[c].pc = Backstop(n, Wants[d])
                                         \/ call'[c].pc = "sent" \/ call'[c].pc = "error"))
    BY <1>1, <2>1
  <2>3. Backstop(n, Wants[d]) = "landed" => Spoken(Wants[d]) = "landed"
    BY DEF Backstop, None
  <2> QED
    BY <1>3, <2>2, <2>3
<1>4. ASSUME NEW b \in inflight, Apply(b)
      PROVE  call[c].pc = "landed" \/ log' = Append(log, Record(Wants[c], TRUE))
  <2>1. b.call \in Call
    BY <1>1
  <2>2. \/ Answer(b.call, "landed") /\ log' = Append(log, Record(Wants[b.call], TRUE))
        \/ call' = [call EXCEPT ![b.call].pc =
                       IF Awaited(b) THEN "failed" ELSE call[b.call].pc]
    BY <1>4 DEF Apply
  <2>3. CASE Answer(b.call, "landed") /\ log' = Append(log, Record(Wants[b.call], TRUE))
    <3>1. c # b.call => call'[c] = call[c]
      BY <1>1, <2>1, <2>3 DEF Answer
    <3> QED
      BY <2>3, <3>1
  <2>4. CASE call' = [call EXCEPT ![b.call].pc =
                         IF Awaited(b) THEN "failed" ELSE call[b.call].pc]
    <3> DEFINE pc == IF Awaited(b) THEN "failed" ELSE call[b.call].pc
    <3>1. pc = "landed" => call[b.call].pc = "landed"
      OBVIOUS
    <3> HIDE DEF pc
    <3>2. call'[c] = call[c] \/ (c = b.call /\ call'[c].pc = pc)
      BY <1>1, <1>9, <2>1, <2>4 DEF pc
    <3> QED
      BY <3>1, <3>2
  <2> QED
    BY <2>2, <2>3, <2>4
<1>5. ASSUME NEW d \in Call, GiveUp(d) PROVE call[c].pc = "landed"
  <2>1. call' = [call EXCEPT ![d].pc = "failed"]
    BY <1>5 DEF GiveUp
  <2> QED
    BY <1>1, <2>1
<1>6. ASSUME NEW d \in Call, AskHead(d) PROVE call[c].pc = "landed"
  <2>1. \/ call' = [call EXCEPT ![d].pc = "start"]
        \/ call' = [call EXCEPT ![d] = [pc |-> "error", node |-> call[d].node, parent |-> 0,
                                        tries |-> 0]]
    BY <1>6 DEF AskHead, Answer
  <2>2. CASE call' = [call EXCEPT ![d].pc = "start"]
    BY <1>1, <1>9, <2>2
  <2>3. CASE call' = [call EXCEPT ![d] = [pc |-> "error", node |-> call[d].node, parent |-> 0,
                                          tries |-> 0]]
    BY <1>1, <2>3
  <2> QED
    BY <2>1, <2>2, <2>3
<1>7. ASSUME NEW d \in Call, Classify(d)
      PROVE  call[c].pc = "landed" \/ Spoken(Wants[c]) = "landed"
  <2>1. \/ call' = [call EXCEPT ![d].pc = "unspent"]
        \/ call' = [call EXCEPT ![d] = [pc |-> Spoken(Wants[d]), node |-> call[d].node,
                                        parent |-> 0, tries |-> 0]]
    BY <1>7 DEF Classify, Answer
  <2>2. CASE call' = [call EXCEPT ![d].pc = "unspent"]
    BY <1>1, <1>9, <2>2
  <2>3. CASE call' = [call EXCEPT ![d] = [pc |-> Spoken(Wants[d]), node |-> call[d].node,
                                          parent |-> 0, tries |-> 0]]
    BY <1>1, <2>3
  <2> QED
    BY <2>1, <2>2, <2>3
<1>8. ASSUME NEW n \in Node, Crash(n) PROVE call[c].pc = "landed"
  <2>1. call' = [d \in Call |-> IF call[d].node = n /\ call[d].pc \notin Decided
                               THEN [call[d] EXCEPT !.pc = "error", !.parent = 0, !.tries = 0]
                               ELSE call[d]]
    BY <1>8 DEF Crash
  <2>2. \A e \in CallKind : [e EXCEPT !.pc = "error", !.parent = 0, !.tries = 0].pc # "landed"
    BY DEF CallKind
  <2> QED
    BY <1>1, <2>1, <2>2
<1> QED
  BY <1>2, <1>3, <1>4, <1>5, <1>6, <1>7, <1>8
     DEF Next, vars, Open, Backfill, Recheck, SealRead, SealCommit, ReindexSegment, ReindexReport,
         LookUp, ReadResident, AskAgain, ReadBody, OldAppend, OldSeal, OldLeaves, Damage

(* An id names one decision, and who was told so can find it.              *)
LEMMA OneCopyKept ==
    ASSUME TypeOK, Good, OneCopy, [Next]_vars, Good', Extends
    PROVE  OneCopy'
<1>1. OneStamp' /\ ChainTyped' /\ ChainTyped /\ RowsAreTrue
  BY DEF Good
<1>2. /\ Written \subseteq Written' /\ \A p \in Written : log'[p] = log[p]
  BY DEF Extends
<1>3. \A c \in Call : Told(c) => Told(c)'
  BY <1>2 DEF Told
<1>4. ASSUME NEW c \in Call, log' = Append(log, Record(Wants[c], TRUE)) PROVE Told(c)'
  <2> DEFINE e == Record(Wants[c], TRUE)
  <2>1. e \in Entry /\ e.id = Wants[c].id /\ e.content = Wants[c].content
    BY Constants DEF Record, Entry
  <2> HIDE DEF e
  <2>2. log \in Seq(Entry) /\ log' = Append(log, e) /\ Len(log) \in Nat
    BY <1>1, <1>4 DEF ChainTyped, e
  <2>3. Len(log') = Len(log) + 1 /\ log'[Len(log) + 1] = e
    BY <2>1, <2>2
  <2>4. Len(log) + 1 \in Written'
    BY <2>2, <2>3 DEF Written
  <2> QED
    BY <2>1, <2>3, <2>4 DEF Told
<1>5. ASSUME NEW c \in Call, call'[c].pc = "landed"
      PROVE  \E p \in 1 .. Len(log') : log'[p] = Record(Wants[c], log'[p].stamps)
  <2>1. \/ call[c].pc = "landed" \/ Spoken(Wants[c]) = "landed"
        \/ log' = Append(log, Record(Wants[c], TRUE))
    BY <1>5, LandsHow
  <2>2. call[c].pc = "landed" => Told(c)
    BY <1>1, ToldIsOneCopy DEF OneCopy
  <2>3. Told(c)'
    BY <1>1, <1>3, <1>4, <2>1, <2>2, SpokenIsTold
  <2>4. (ChainTyped => (Told(c) <=>
            \E p \in 1 .. Len(log) : log[p] = Record(Wants[c], log[p].stamps)))'
    BY ToldIsOneCopy, PTL
  <2> QED
    BY <1>1, <2>3, <2>4
<1> QED
  BY <1>1, <1>5 DEF OneCopy, OneStamp, Written


----------------------------------------------------------------------------
(* What a reader is told.                                                  *)

(* What is damaged is resident or a body, and there is none before any     *)
(* damage is done.                                                         *)
Marks ==
    /\ forged \subseteq Resident
    /\ old.damage = 0 => forged = {} /\ \A k \in Segments : body[k] = "whole"

(* A seal does not take altered records with it, and damage is not undone. *)
LEMMA MarksKept ==
    ASSUME TypeOK, TypeOK', Good, Marks, [Next]_vars
    PROVE  /\ Marks'
           /\ old'.damage = 0 => old.damage = 0
           /\ reader' = reader /\ reader.pc \in Answered =>
                 forged' = forged /\ \A k \in Segments : body'[k] = body[k]
<1>1. /\ ChainTyped /\ Linked /\ old \in OldKind /\ old.damage \in Nat
      /\ body \in Seq({"whole", "missing", "corrupt"}) /\ Len(body) = Len(headers)
      /\ Len(headers) \in Nat
  BY TypeParts, ChainShape DEF Good, OldTyped, OldKind, ChainTyped
<1>2. Len(body') = Len(headers')
  BY DEF TypeOK
<1>3. old'.damage = old.damage \/ (Damage /\ old'.damage = old.damage + 1)
  <2>1. \/ old' = old
        \/ old' = [old EXCEPT !.crashes = @ + 1]
        \/ \E b \in inflight : old' = [old EXCEPT !.losses = @ + IF Awaited(b) THEN 1 ELSE 0]
        \/ old' = [old EXCEPT !.losses = @ + 1]
        \/ Damage
        \/ old' = [old EXCEPT !.gone = TRUE]
        \/ \E d \in scene.old : old' = [old EXCEPT !.wrote = @ \cup {d}]
        \/ old' = [old EXCEPT !.seals = @ + 1]
    BY DEF Next, vars, Open, Backfill, Recheck, Crash, Offer, Apply, GiveUp, Classify, AskHead,
           SealRead, SealCommit, ReindexSegment, ReindexReport, LookUp, ReadResident, AskAgain,
           ReadBody, OldAppend, OldSeal, OldLeaves
  <2>2. Damage => old'.damage = old.damage + 1
    BY <1>1 DEF Damage, OldKind
  <2> QED
    BY <1>1, <2>1, <2>2 DEF OldKind
<1>4. old'.damage = 0 => old.damage = 0 /\ ~Damage
  <2>1. Damage => old'.damage = old.damage + 1
    BY <1>1 DEF Damage, OldKind
  <2> QED
    BY <1>1, <1>3, <2>1
<1>5. ASSUME Damage
      PROVE  Marks' /\ reader.pc \notin Answered
  <2>1. /\ forged' = forged \/ \E p \in Resident : forged' = {p}
        /\ UNCHANGED chain /\ reader.pc \notin Answered
    BY <1>5 DEF Damage
  <2>2. Resident' = Resident
    BY <2>1 DEF chain, Resident, SealedTo
  <2> QED
    BY <1>4, <1>5, <2>1, <2>2 DEF Marks
<1>6. ASSUME NEW h \in Header, h.last = SealedTo + SegmentSize, SealedTo + SegmentSize < Len(log),
             headers' = Append(headers, h), body' = Append(body, "whole"), log' = log,
             \A n \in Node : sealer'[n] = sealer[n] \/ sealer'[n] = -1,
             forged' = forged, forged \cap Next1 = {}, old'.damage = 0 => old.damage = 0
      PROVE  Marks' /\ \A k \in Segments : body'[k] = body[k]
  <2>1. PICK new \in Nat : new = Len(headers) + 1
    BY <1>1
  <2>2. Sealed(new, h)
    BY <1>6, <2>1, HeaderAppended DEF Good
  <2>3. Resident' = Resident \ Next1 /\ Segments' = Segments \cup {new}
    BY <2>2 DEF Sealed
  <2>4. body'[new] = "whole" /\ \A k \in Segments : body'[k] = body[k]
    BY <1>1, <1>6, <2>1 DEF Segments
  <2> QED
    BY <1>6, <2>3, <2>4 DEF Marks
<1>7. ASSUME UNCHANGED <<headers, body, forged>>, old'.damage = 0 => old.damage = 0,
             Resident \subseteq Resident'
      PROVE  Marks' /\ \A k \in Segments : body'[k] = body[k]
  BY <1>7 DEF Marks, Segments
<1>8. ASSUME ~Damage
      PROVE  Marks' /\ forged' = forged /\ \A k \in Segments : body'[k] = body[k]
  <2>1. old'.damage = 0 => old.damage = 0
    BY <1>4
  <2>2. forged' = forged
    BY <1>8 DEF Next, vars, Open, Backfill, Recheck, Crash, Offer, Apply, GiveUp, Classify, AskHead,
           SealRead, SealCommit, ReindexSegment, ReindexReport, LookUp, ReadResident, AskAgain,
           ReadBody, OldAppend, OldSeal, OldLeaves
  <2>3. ASSUME NEW n \in Node, SealCommit(n), headers' # headers
        PROVE  Marks' /\ \A k \in Segments : body'[k] = body[k]
    <3> DEFINE h == [last |-> SealedTo + SegmentSize, manifest |-> Inherited,
                     epoch |-> EpochAfter(Next1, SealedEpoch)]
    <3>1. /\ sealer[n] = Len(headers) /\ forged \cap Next1 = {}
          /\ headers' = Append(headers, h) /\ body' = Append(body, "whole") /\ log' = log
      BY <2>3 DEF SealCommit
    <3>2. SealedTo + SegmentSize < Len(log)
      BY <1>1, <3>1 DEF Linked
    <3>3. h \in Header /\ h.last = SealedTo + SegmentSize
      BY <1>1, <3>2, HeaderIs
    <3>4. \A m \in Node : sealer'[m] = sealer[m] \/ sealer'[m] = -1
      <4>1. sealer' = [sealer EXCEPT ![n] = -1] /\ sealer \in [Node -> -1 .. MaxLog]
        BY <2>3, TypeParts DEF SealCommit, SealerTyped
      <4> QED
        BY <4>1
    <3> HIDE DEF h
    <3> QED
      BY <1>6, <2>1, <2>2, <3>1, <3>2, <3>3, <3>4
  <2>4. ASSUME OldSeal PROVE Marks' /\ \A k \in Segments : body'[k] = body[k]
    <3>1. SealedTo + SegmentSize < Len(log)
      BY <1>1, <2>4, DueLeaves DEF OldSeal
    <3>2. PICK manifest \in {None, Inherited} :
              headers' = Append(headers, [last |-> SealedTo + SegmentSize, manifest |-> manifest,
                                          epoch |-> 0])
      BY <2>4 DEF OldSeal
    <3> DEFINE h == [last |-> SealedTo + SegmentSize, manifest |-> manifest, epoch |-> 0]
    <3>3. h \in Header /\ h.last = SealedTo + SegmentSize
      BY <1>1, <3>1, HeaderIs
    <3>4. body' = Append(body, "whole") /\ log' = log /\ sealer' = sealer /\ forged \cap Next1 = {}
          /\ headers' = Append(headers, h)
      BY <2>4, <3>2 DEF OldSeal
    <3> HIDE DEF h
    <3> QED
      BY <1>6, <2>1, <2>2, <3>1, <3>3, <3>4
  <2>5. ASSUME headers' = headers, body' = body, log' = log \/ \E e : log' = Append(log, e)
        PROVE  Marks' /\ \A k \in Segments : body'[k] = body[k]
    <3>1. SealedTo' = SealedTo
      BY <2>5 DEF SealedTo
    <3>2. log \in Seq(Entry) /\ log' \in Seq(Entry)
      BY DEF TypeOK, Entry
    <3>3. Len(log') \in Nat /\ Len(log) \in Nat /\ Len(log) <= Len(log')
      BY <2>5, <3>2
    <3>4. Resident \subseteq Resident'
      BY <3>1, <3>3, ChainShape DEF Resident
    <3> QED
      BY <1>7, <2>1, <2>2, <2>5, <3>4
  <2>6. ASSUME NEW n \in Node, SealCommit(n), headers' = headers
        PROVE  body' = body /\ log' = log
    <3>1. CASE sealer[n] # Len(headers) \/ forged \cap Next1 # {}
      BY <2>6, <3>1 DEF SealCommit
    <3>2. CASE ~(sealer[n] # Len(headers) \/ forged \cap Next1 # {})
      <4>1. \E h : headers' = Append(headers, h)
        BY <2>6, <3>2 DEF SealCommit
      <4>2. Len(headers') = Len(headers) + 1
        <5>1. headers \in Seq(Header)
          BY <1>1 DEF ChainTyped
        <5> QED
          BY <4>1, <5>1
      <4> QED
        BY <1>1, <2>6, <4>2
    <3> QED
      BY <3>1, <3>2
  <2>7. CASE headers' = headers /\ body' = body /\ log' = log
    BY <2>2, <2>5, <2>7
  <2>8. ASSUME NEW b \in inflight, Apply(b)
        PROVE  headers' = headers /\ body' = body /\ (log' = log \/ \E e : log' = Append(log, e))
    BY <2>8 DEF Apply
  <2>9. ASSUME NEW d \in scene.old, OldAppend(d)
        PROVE  headers' = headers /\ body' = body /\ \E e : log' = Append(log, e)
    BY <2>9 DEF OldAppend
  <2> QED
    BY <1>8, <2>2, <2>3, <2>4, <2>5, <2>6, <2>7, <2>8, <2>9
       DEF Next, vars, chain, Open, Backfill, Recheck, Crash, Offer, GiveUp, Classify, AskHead,
           SealRead, ReindexSegment, ReindexReport, LookUp, ReadResident, AskAgain, ReadBody,
           OldLeaves
<1> QED
  BY <1>4, <1>5, <1>8


(* What one reader may have been told, of a chain and its bodies.          *)
RightOf(r) ==
    /\ r.pc \in {"resident", "missed", "sealed", "record"} =>
          r.at \in Written /\ log[r.at].id = r.id /\ identity[r.id].at = r.at
    /\ r.pc \in {"resident", "missed"} => r.seg = 0
    /\ r.pc = "missed" => r.at \notin Resident
    /\ r.pc = "sealed" \/ (r.pc = "record" /\ r.seg # 0) =>
          r.seg \in Segments /\ r.at \in Run(r.seg)
FoundBy(r) ==
    /\ r.pc = "record" => /\ r.at \notin forged
                          /\ r.seg # 0 => body[r.seg] = "whole"
    /\ Stamping /\ r.pc = "absent" => ~r.known
    /\ Stamping /\ old.damage = 0 =>
          r.pc \notin {"unproven", "conflict", "notfound", "integrity"}

(* These are the invariant's two parts about the reader.                   *)
LEMMA ReaderParts ==
    ReaderIsRight /\ RecoverFinds <=> RightOf(reader) /\ FoundBy(reader) /\ Marks
  BY DEF ReaderIsRight, RecoverFinds, RightOf, FoundBy, Marks

(* What a step that does not read leaves of it.                            *)
LEMMA ReaderStays ==
    ASSUME TypeOK, TypeOK', Good, Good', Marks, RightOf(reader), FoundBy(reader), [Next]_vars,
           Extends, reader' = reader
    PROVE  (RightOf(reader) /\ FoundBy(reader))'
<1>1. /\ Written \subseteq Written' /\ Segments \subseteq Segments'
      /\ \A p \in Written : log'[p] = log[p]
      /\ \A k \in Segments : Run(k)' = Run(k)
      /\ \A p \in Written : p \in Resident' => p \in Resident
      /\ Stamping' => Stamping
      /\ \A i \in Id : identity[i].at # 0 => identity'[i].at = identity[i].at
  BY DEF Extends, RowsKept
<1>2. /\ old'.damage = 0 => old.damage = 0
      /\ reader.pc \in Answered => forged' = forged /\ \A k \in Segments : body'[k] = body[k]
  BY MarksKept
<1>3. reader.id \in Id /\ 0 \notin Written
  BY TypeParts, ChainShape DEF ReaderTyped, ReaderKind, Written
<1>4. reader.pc \in {"resident", "missed", "sealed", "record"} =>
          /\ reader.at \in Written' /\ log'[reader.at].id = reader.id
          /\ identity'[reader.id].at = reader.at
  BY <1>1, <1>3 DEF RightOf
<1>5. reader.pc \in {"resident", "missed"} => reader.seg = 0
  BY DEF RightOf
<1>6. reader.pc = "missed" => reader.at \notin Resident'
  BY <1>1 DEF RightOf
<1>7. ASSUME reader.pc = "sealed" \/ (reader.pc = "record" /\ reader.seg # 0)
      PROVE  reader.seg \in Segments' /\ reader.at \in Run(reader.seg)'
  <2>1. PICK k : k = reader.seg
    OBVIOUS
  <2>2. k \in Segments /\ reader.at \in Run(k)
    BY <1>7, <2>1 DEF RightOf
  <2>3. Run(k)' = Run(k) /\ k \in Segments'
    BY <1>1, <2>2
  <2>4. Run(k)' = Run(reader.seg)'
    BY <2>1
  <2> QED
    BY <2>1, <2>2, <2>3, <2>4
<1>8. (RightOf(reader))'
  BY <1>4, <1>5, <1>6, <1>7 DEF RightOf
<1>9. reader.pc = "record" =>
          /\ reader.at \notin forged'
          /\ reader.seg # 0 => body'[reader.seg] = "whole"
  BY <1>2 DEF RightOf, FoundBy, Answered
<1>10. /\ Stamping' /\ reader.pc = "absent" => ~reader.known
       /\ Stamping' /\ old'.damage = 0 =>
             reader.pc \notin {"unproven", "conflict", "notfound", "integrity"}
  BY <1>1, <1>2 DEF FoundBy
<1> QED
  BY <1>8, <1>9, <1>10 DEF FoundBy

(* A step of the reader, which changes nothing else.                       *)
LEMMA ReaderMoves ==
    ASSUME TypeOK, Good, HandlesKnow, Marks, RightOf(reader), FoundBy(reader),
           \/ \E n \in Node, i \in Id : LookUp(n, i)
           \/ ReadResident \/ AskAgain \/ ReadBody
    PROVE  RightOf(reader') /\ FoundBy(reader')
<1>1. /\ ChainTyped /\ Linked /\ AllStamped /\ RowsAreTrue /\ Divided
      /\ reader \in ReaderKind
  BY TypeParts, RunsDivide DEF Good, ReaderTyped
<1>2. \A i \in Id : /\ identity[i].at \in 0 .. MaxLog /\ identity[i].seg \in 0 .. MaxLog
                    /\ identity[i].at # 0 => identity[i].at \in Written
                                             /\ log[identity[i].at].id = i
                    /\ identity[i].at # 0 /\ identity[i].seg # 0 =>
                          /\ identity[i].seg \in Segments
                          /\ identity[i].at \in Run(identity[i].seg)
  <2>1. SUFFICES ASSUME NEW i \in Id
                 PROVE  /\ identity[i].at \in 0 .. MaxLog /\ identity[i].seg \in 0 .. MaxLog
                        /\ identity[i].at # 0 => identity[i].at \in Written
                                                 /\ log[identity[i].at].id = i
                        /\ identity[i].at # 0 /\ identity[i].seg # 0 =>
                              /\ identity[i].seg \in Segments
                              /\ identity[i].at \in Run(identity[i].seg)
    OBVIOUS
  <2>2. PICK at, seg : at = identity[i].at /\ seg = identity[i].seg
    OBVIOUS
  <2>3. at \in 0 .. MaxLog /\ seg \in 0 .. MaxLog
    BY <1>1, <2>2 DEF ChainTyped
  <2>4. at # 0 => at <= Len(log) /\ log[at].id = i /\ (seg # 0 => Holds(seg, at))
    BY <1>1, <2>2 DEF RowsAreTrue
  <2>5. at # 0 => at \in Written
    BY <2>3, <2>4, ChainShape, Constants DEF Written
  <2>6. at # 0 /\ seg # 0 => seg \in Segments /\ at \in Run(seg)
    <3>1. Len(headers) \in Nat /\ MaxLog \in Nat
      BY ChainShape, Constants
    <3>2. at # 0 /\ seg # 0 => seg <= Len(headers) /\ at \in Run(seg)
      BY <2>4 DEF Holds
    <3> QED
      BY <2>3, <3>1, <3>2 DEF Segments
  <2> QED
    BY <2>2, <2>3, <2>4, <2>5, <2>6
<1>3. \A pc, at, seg : Read(pc, at, seg) => /\ reader'.pc = pc /\ reader'.at = at
                                            /\ reader'.seg = seg /\ reader'.id = reader.id
  BY <1>1 DEF Read, ReaderKind
<1>4. reader.id \in Id
  BY <1>1 DEF ReaderKind
<1>5. Stamping => \A i : ~Collided(i)
  BY <1>1 DEF AllStamped, Collided
<1>6. ASSUME NEW n \in Node, NEW i \in Id, LookUp(n, i) PROVE RightOf(reader') /\ FoundBy(reader')
  <2> DEFINE row == identity[i]
             known == \E p \in 1 .. Len(log) : log[p].id = i
             pc == IF Collided(i) THEN "conflict"
                   ELSE IF row.at = 0
                   THEN IF node[n].complete THEN "absent" ELSE "unproven"
                   ELSE IF row.seg = 0 THEN "resident" ELSE "sealed"
  <2>1. reader' = [node |-> n, id |-> i, at |-> row.at, seg |-> row.seg, known |-> known, pc |-> pc]
        /\ node[n].pc \in {"up", "walk"}
    BY <1>6 DEF LookUp
  <2>2. /\ reader'.id = i /\ reader'.at = row.at /\ reader'.seg = row.seg /\ reader'.pc = pc
        /\ reader'.known = known
    BY <2>1
  <2>3. Stamping => node[n].complete
    BY <2>1 DEF HandlesKnow
  <2>4. Stamping /\ row.at = 0 => ~known
    <3>1. Stamping => \A p \in Written : identity[log[p].id].at = p
      BY <1>1 DEF AllStamped
    <3>2. 0 \notin Written
      BY DEF Written
    <3> QED
      BY <3>1, <3>2 DEF Written
  <2>5. /\ pc \in {"conflict", "absent", "unproven", "resident", "sealed"}
        /\ pc = "resident" => row.at # 0 /\ row.seg = 0
        /\ pc = "sealed" => row.at # 0 /\ row.seg # 0
        /\ pc = "absent" => row.at = 0
        /\ Stamping => pc \notin {"conflict", "unproven"}
    BY <1>5, <2>3
  <2> HIDE DEF known, pc
  <2>6. RightOf(reader')
    BY <1>2, <2>2, <2>5 DEF RightOf
  <2>7. FoundBy(reader')
    BY <2>2, <2>4, <2>5 DEF FoundBy
  <2> QED
    BY <2>6, <2>7
<1>7. ASSUME ReadResident PROVE RightOf(reader') /\ FoundBy(reader')
  <2> DEFINE pc == IF ~Verifies THEN "integrity"
                   ELSE IF reader.at \in Resident THEN "record" ELSE "missed"
  <2>1. Read(pc, reader.at, reader.seg) /\ reader.pc = "resident"
    BY <1>7 DEF ReadResident
  <2>2. /\ reader.at \in Written /\ log[reader.at].id = reader.id
        /\ identity[reader.id].at = reader.at /\ reader.seg = 0
    BY <2>1 DEF RightOf
  <2>3. old.damage = 0 => Verifies
    <3>1. Len(log) \in Resident
      BY <1>1, ChainShape DEF Linked, Resident
    <3> QED
      BY <3>1 DEF Marks, Verifies
  <2>4. /\ pc \in {"integrity", "record", "missed"}
        /\ pc = "missed" => reader.at \notin Resident
        /\ pc = "record" => reader.at \notin forged
        /\ old.damage = 0 => pc # "integrity"
    BY <2>3 DEF Verifies
  <2>5. reader'.pc = pc /\ reader'.at = reader.at /\ reader'.seg = 0 /\ reader'.id = reader.id
    BY <1>3, <2>1, <2>2
  <2> HIDE DEF pc
  <2> QED
    BY <2>2, <2>4, <2>5 DEF RightOf, FoundBy
<1>8. ASSUME AskAgain PROVE RightOf(reader') /\ FoundBy(reader')
  <2> DEFINE pc == Revalidated(reader.id)
             row == identity[reader.id]
  <2>1. Read(pc, reader.at, row.seg) /\ reader.pc = "missed"
    BY <1>8 DEF AskAgain
  <2>2. /\ reader.at \in Written /\ log[reader.at].id = reader.id /\ row.at = reader.at
        /\ reader.at \notin Resident
    BY <2>1 DEF RightOf
  <2>3. row.at # 0
    BY <2>2 DEF Written
  <2>4. Stamping => row.seg # 0
    <3>1. PICK k \in Segments : reader.at \in Run(k)
      BY <1>1, <2>2 DEF Divided
    <3>2. Stamping => row.seg = k
      BY <1>1, <2>2, <3>1 DEF AllStamped
    <3>3. k # 0
      BY DEF Segments
    <3> QED
      BY <3>2, <3>3
  <2>5. /\ pc \in {"conflict", "sealed", "integrity"}
        /\ pc = "sealed" => row.seg # 0
        /\ Stamping => pc = "sealed"
    BY <1>5, <2>2, <2>4 DEF Revalidated
  <2>6. reader'.pc = pc /\ reader'.at = reader.at /\ reader'.seg = row.seg /\ reader'.id = reader.id
    BY <1>3, <2>1
  <2> HIDE DEF pc
  <2>7. row.seg # 0 => row.seg \in Segments /\ reader.at \in Run(row.seg)
    BY <1>2, <1>4, <2>2, <2>3
  <2> HIDE DEF row
  <2>8. RightOf(reader')
    BY <2>2, <2>5, <2>6, <2>7 DEF RightOf, row
  <2>9. FoundBy(reader')
    BY <2>5, <2>6 DEF FoundBy
  <2> QED
    BY <2>8, <2>9
<1>9. ASSUME ReadBody PROVE RightOf(reader') /\ FoundBy(reader')
  <2> DEFINE pc == IF Fetched(reader.seg) # "record" \/ reader.at \in Run(reader.seg)
                   THEN Fetched(reader.seg) ELSE "integrity"
  <2>1. Read(pc, reader.at, reader.seg) /\ reader.pc = "sealed"
    BY <1>9 DEF ReadBody
  <2>2. /\ reader.at \in Written /\ log[reader.at].id = reader.id
        /\ identity[reader.id].at = reader.at
        /\ reader.seg \in Segments /\ reader.at \in Run(reader.seg)
    BY <2>1 DEF RightOf
  <2>3. reader.at \notin forged
    BY <1>1, <2>2, RunPlaces DEF Marks
  <2>4. /\ pc \in {"record", "notfound", "integrity"}
        /\ pc = "record" => body[reader.seg] = "whole"
        /\ old.damage = 0 => pc = "record"
    <3>1. /\ Fetched(reader.seg) \in {"record", "notfound", "integrity"}
          /\ body[reader.seg] = "whole" => Fetched(reader.seg) = "record"
          /\ body[reader.seg] \in {"whole", "missing", "corrupt"}
      <4>1. reader.seg \in 1 .. Len(body) /\ body \in Seq({"whole", "missing", "corrupt"})
        BY <1>1, <2>2 DEF ChainTyped, Segments
      <4>2. body[reader.seg] \in {"whole", "missing", "corrupt"}
        BY <4>1, ElementKind
      <4> QED
        BY <4>2 DEF Fetched
    <3>2. Fetched(reader.seg) = "record" => body[reader.seg] = "whole"
      BY <3>1 DEF Fetched
    <3> QED
      BY <2>2, <3>1, <3>2 DEF Marks
  <2>5. reader'.pc = pc /\ reader'.at = reader.at /\ reader'.seg = reader.seg
        /\ reader'.id = reader.id
    BY <1>3, <2>1
  <2> HIDE DEF pc
  <2>6. RightOf(reader')
    BY <2>2, <2>4, <2>5 DEF RightOf
  <2>7. FoundBy(reader')
    BY <2>3, <2>4, <2>5 DEF FoundBy
  <2> QED
    BY <2>6, <2>7
<1> QED
  BY <1>6, <1>7, <1>8, <1>9

(* Every step keeps what is known of the reader.                           *)
LEMMA ReaderKept ==
    ASSUME TypeOK, TypeOK', Good, Good', HandlesKnow, ReaderIsRight, RecoverFinds, [Next]_vars,
           Extends
    PROVE  ReaderIsRight' /\ RecoverFinds'
<1>1. RightOf(reader) /\ FoundBy(reader) /\ Marks
  BY ReaderParts
<1>2. Marks'
  BY <1>1, MarksKept
<1>3. ASSUME reader' = reader PROVE (RightOf(reader) /\ FoundBy(reader))'
  BY <1>1, <1>3, ReaderStays
<1>4. ASSUME reader' = IdleReader PROVE (RightOf(reader) /\ FoundBy(reader))'
  BY <1>4 DEF RightOf, FoundBy, IdleReader
<1>5. ASSUME \/ \E n \in Node, i \in Id : LookUp(n, i)
             \/ ReadResident \/ AskAgain \/ ReadBody
      PROVE  (RightOf(reader) /\ FoundBy(reader))'
  <2>1. UNCHANGED <<chain, body, forged, old>>
    BY <1>5 DEF LookUp, ReadResident, AskAgain, ReadBody
  <2>2. RightOf(reader') /\ FoundBy(reader')
    BY <1>1, <1>5, ReaderMoves
  <2>3. /\ Written' = Written /\ Segments' = Segments /\ Resident' = Resident
        /\ (Stamping' <=> Stamping) /\ log' = log /\ identity' = identity
        /\ body' = body /\ forged' = forged /\ old' = old
    BY <2>1 DEF chain, Written, Segments, Resident, SealedTo, Stamping
  <2>4. \A k : Run(k)' = Run(k)
    BY <2>1 DEF chain, Run
  <2>5. Run(reader.seg)' = Run(reader'.seg)
    <3>1. PICK k : k = reader'.seg
      OBVIOUS
    <3>2. Run(k)' = Run(k) /\ Run(reader.seg)' = Run(k)'
      BY <2>4, <3>1
    <3> QED
      BY <3>1, <3>2
  <2>6. (RightOf(reader))'
    BY <2>2, <2>3, <2>5 DEF RightOf
  <2>7. (FoundBy(reader))'
    BY <2>2, <2>3 DEF FoundBy
  <2> QED
    BY <2>6, <2>7
<1>6. \/ reader' = reader \/ reader' = IdleReader
      \/ \E n \in Node, i \in Id : LookUp(n, i)
      \/ ReadResident \/ AskAgain \/ ReadBody
  BY DEF Next, vars, Open, Backfill, Recheck, Crash, Offer, Apply, GiveUp, Classify, AskHead,
         SealRead, SealCommit, ReindexSegment, ReindexReport, OldAppend, OldSeal, OldLeaves, Damage
<1>7. (RightOf(reader) /\ FoundBy(reader) /\ Marks)'
  BY <1>2, <1>3, <1>4, <1>5, <1>6
<1>8. (ReaderIsRight /\ RecoverFinds <=> RightOf(reader) /\ FoundBy(reader) /\ Marks)'
  BY ReaderParts, PTL
<1> QED
  BY <1>7, <1>8

----------------------------------------------------------------------------
(* The invariant holds.                                                    *)

(* Every step keeps it, and takes nothing back.                            *)
LEMMA NextIInv == IInv /\ [Next]_vars => IInv' /\ RowsKept
<1> SUFFICES ASSUME IInv, [Next]_vars PROVE IInv' /\ RowsKept
  OBVIOUS
<1>1. /\ TypeOK /\ Good /\ HandlesKnow /\ ReaderIsRight /\ RecoverFinds /\ OneCopy
      /\ scene \in Scenes
  BY InvIsGood
<1>2. Good' /\ Extends
  BY <1>1, ChainSteps
<1>3. TypeOK' /\ scene' \in Scenes
  BY <1>1, <1>2, TypesKept DEF Good
<1>4. HandlesKnow'
  BY <1>1, <1>2, HandlesKept
<1>5. ReaderIsRight' /\ RecoverFinds'
  BY <1>1, <1>2, <1>3, ReaderKept
<1>6. OneCopy'
  BY <1>1, <1>2, OneCopyKept
<1>7. RowInv'
  BY <1>2, <1>3, <1>6 DEF RowInv, Good
<1> QED
  BY <1>2, <1>3, <1>4, <1>5, <1>7 DEF IInv, Good, Extends

(* So it holds in every state the fleet can reach.                         *)
LEMMA IInvHolds == Spec => []IInv
<1>1. IInv /\ [Next]_vars => IInv'
  BY NextIInv
<1> QED
  BY InitIInv, <1>1, PTL DEF Spec

(* Every variable keeps its type: every row names a place the log may      *)
(* have, there is one counter and one body per header, and a handle, a     *)
(* call and a reader are at a step of their own (identity.rs, append.rs).  *)
THEOREM LineageTypeCorrect == Spec => []TypeOK
<1>1. IInv => TypeOK
  BY DEF IInv, RowInv
<1> QED
  BY IInvHolds, <1>1, PTL

(* One decision per id, and a true account of each, for any mix of         *)
(* stamping and older binaries: rows name the record and the segment that  *)
(* holds it, a chain whose coverage reads complete has one row for each    *)
(* record, a chain only stamping binaries wrote reads complete, and a      *)
(* caller told that its decision landed finds it (identity.rs).            *)
THEOREM IdentitySoundHolds == Spec => []IdentitySound
<1>1. IInv => IdentitySound
  BY RowsAccount DEF IInv
<1> QED
  BY IInvHolds, <1>1, PTL

(* Ledger::recover answers the record it was asked for, whatever is sealed *)
(* between its reads; it says absent only of an id the chain did not hold, *)
(* and reports damage only when there is some.                             *)
THEOREM RecoverFindsHolds == Spec => []RecoverFinds
<1>1. IInv => RecoverFinds
  BY DEF IInv
<1> QED
  BY IInvHolds, <1>1, PTL

(* What chain.rs reads from the resident records and the headers is the    *)
(* newest transition and the newest epoch of the whole chain, as far as    *)
(* the headers were written by binaries that name them.                    *)
THEOREM TailIsNewestHolds == Spec => []TailIsNewest
<1>1. IInv => TailIsNewest
  BY HeadersNameTheTail DEF IInv, RowInv
<1> QED
  BY IInvHolds, <1>1, PTL

(* No append, seal, backfill or reindex deletes a row or points it at      *)
(* another record or segment, and no collision is taken back.              *)
THEOREM RowsAreKeptHolds == Spec => RowsAreKept
<1>1. IInv /\ [Next]_vars => RowsKept
  BY NextIInv
<1>2. IInv /\ [Next]_vars =>
        [/\ \A i \in Id : identity[i].at # 0 =>
              /\ identity'[i].at = identity[i].at
              /\ identity[i].seg # 0 => identity'[i].seg = identity[i].seg
         /\ collisions \subseteq collisions']_vars
  BY <1>1 DEF RowsKept
<1> QED
  BY IInvHolds, <1>2, PTL DEF Spec, RowsAreKept
=============================================================================
