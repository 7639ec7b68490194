---------------------------- MODULE FrontProofs ----------------------------
(***************************************************************************)
(* Theorems about Front, for every scene: every manifest, every ceiling    *)
(* and every request.  However the layers of the router and the calls of   *)
(* the handlers refuse, their queue behaves as Denials says, fairness      *)
(* included; nothing is touched outside the ceiling, and no request passes *)
(* a layer without what that layer asks for.  The first part is about      *)
(* Denials alone, for every set of denials and every capacity; it assumes  *)
(* ~LateRefusals where the end of the runtime matters.                     *)
(***************************************************************************)
EXTENDS Front, TLAPS, FiniteSetTheorems, NaturalsInduction, WellFoundedInduction

Holding == {"writing", "written", "failed"}    \* append_all holds a decision
NoRepeats(queue) == \A i, j \in 1 .. Len(queue) : queue[i] = queue[j] => i = j

(* What the appender holds is what the queue says it is writing, or a drain*)
(* has taken it and counted it.                                            *)
WriterAgrees ==
    /\ appender \in Holding =>
          /\ writing \in answered
          /\ appending = writing \/ (appending = NoDenial /\ Counted(writing))
    /\ appender \notin Holding => appending = NoDenial
    /\ appender = "written" => writing \in chain

(* A waiting denial has been handed to nobody else.                        *)
WaitingIsFresh ==
    /\ NoRepeats(waiting)
    /\ \A d \in Held(waiting) :
          /\ d \in answered
          /\ ~Counted(d)
          /\ d \notin chain \cup late
          /\ appender \in Holding => d # writing

(* Nothing is known of a denial before it is answered.                     *)
UnansweredIsFresh ==
    \A d \in Denial : d \notin answered => ~Counted(d) /\ d \notin chain \cup late

(* A denial the queue refused went nowhere.                                *)
DroppedIsGone ==
    \A d \in Denial : lost[d] = <<"dropped">> =>
        d \notin chain \cup late /\ (appender \in Holding => d # writing)

(* A denial is counted at most once, and not while it is being written.    *)
CountsAreSingle ==
    /\ \A d \in Denial : Len(lost[d]) <= 1
    /\ appending # NoDenial => ~Counted(appending)

CInv ==
    /\ TypeOK
    /\ WriterAgrees
    /\ WaitingIsFresh
    /\ UnansweredIsFresh
    /\ DroppedIsGone
    /\ CountsAreSingle

(* The appender's last word leaves nothing owed.                           *)
GoneOwesNothing == appender = "gone" => waiting = <<>>

AInv == CInv /\ Accounted /\ GoneOwesNothing

DInv == AInv /\ DrainSettles /\ owedAtStop \subseteq answered

----------------------------------------------------------------------------
(* Facts about queues.                                                     *)

(* A push adds its denial to those held, and keeps them distinct.          *)
LEMMA HeldByAppend ==
    ASSUME NEW S, NEW q \in Seq(S), NEW d \in S
    PROVE  /\ Append(q, d) \in Seq(S)
           /\ Len(Append(q, d)) = Len(q) + 1
           /\ Held(Append(q, d)) = Held(q) \cup {d}
           /\ NoRepeats(q) /\ d \notin Held(q) => NoRepeats(Append(q, d))
<1>1. Append(q, d) \in Seq(S) /\ Len(Append(q, d)) = Len(q) + 1
  OBVIOUS
<1>2. \A i \in 1 .. Len(q) : Append(q, d)[i] = q[i]
  OBVIOUS
<1>3. Append(q, d)[Len(q) + 1] = d
  OBVIOUS
<1>4. 1 .. Len(q) + 1 = (1 .. Len(q)) \cup {Len(q) + 1}
  OBVIOUS
<1>5. Held(Append(q, d)) = Held(q) \cup {d}
  BY <1>1, <1>2, <1>3, <1>4 DEF Held
<1>6. ASSUME NoRepeats(q), d \notin Held(q) PROVE NoRepeats(Append(q, d))
  BY <1>1, <1>2, <1>3, <1>4, <1>6 DEF Held, NoRepeats
<1> QED
  BY <1>1, <1>5, <1>6

(* Taking the head leaves the other denials held, in a distinct queue.     *)
LEMMA HeldByTail ==
    ASSUME NEW S, NEW q \in Seq(S), q # <<>>
    PROVE  /\ Head(q) \in S
           /\ Tail(q) \in Seq(S)
           /\ Len(Tail(q)) = Len(q) - 1
           /\ Held(q) = {Head(q)} \cup Held(Tail(q))
           /\ NoRepeats(q) => NoRepeats(Tail(q)) /\ Head(q) \notin Held(Tail(q))
<1>1. Len(q) \in Nat \ {0} /\ Head(q) = q[1] /\ q[1] \in S
  OBVIOUS
<1>2. Tail(q) \in Seq(S) /\ Len(Tail(q)) = Len(q) - 1
  OBVIOUS
<1>3. \A i \in 1 .. Len(q) - 1 : Tail(q)[i] = q[i + 1]
  OBVIOUS
<1>4. Held(q) = {Head(q)} \cup Held(Tail(q))
  <2>1. ASSUME NEW i \in 1 .. Len(q) PROVE q[i] \in {Head(q)} \cup Held(Tail(q))
    <3>1. CASE i = 1
      BY <1>1, <3>1
    <3>2. CASE i # 1
      <4>1. i - 1 \in 1 .. Len(q) - 1 /\ Tail(q)[i - 1] = q[i]
        BY <1>1, <1>3, <3>2
      <4> QED
        BY <1>2, <4>1 DEF Held
    <3> QED
      BY <3>1, <3>2
  <2>2. ASSUME NEW i \in 1 .. Len(Tail(q)) PROVE Tail(q)[i] \in Held(q)
    BY <1>1, <1>2, <1>3 DEF Held
  <2>3. Head(q) \in Held(q)
    BY <1>1 DEF Held
  <2> QED
    BY <2>1, <2>2, <2>3 DEF Held
<1>5. ASSUME NoRepeats(q) PROVE NoRepeats(Tail(q)) /\ Head(q) \notin Held(Tail(q))
  BY <1>1, <1>2, <1>3, <1>5 DEF Held, NoRepeats
<1> QED
  BY <1>1, <1>2, <1>4, <1>5

(* An empty queue holds nothing.                                           *)
LEMMA HeldByNone == Held(<<>>) = {} /\ NoRepeats(<<>>)
  BY DEF Held, NoRepeats

(* A report adds its cause to the denials reported and to no other.        *)
LEMMA ReportAdds ==
    ASSUME lost \in [Denial -> Seq(Cause)],
           NEW ds \in SUBSET Denial, NEW cause \in Cause, Report(ds, cause)
    PROVE  /\ lost' \in [Denial -> Seq(Cause)]
           /\ \A d \in ds : Counted(d)'
           /\ \A d \in ds : ~Counted(d) => lost'[d] = <<cause>> /\ Len(lost'[d]) <= 1
           /\ \A d \in Denial \ ds : lost'[d] = lost[d]
<1>1. \A d \in Denial : lost'[d] = IF d \in ds THEN Append(lost[d], cause) ELSE lost[d]
  BY DEF Report
<1>2. ASSUME NEW d \in Denial
      PROVE  Append(lost[d], cause) \in Seq(Cause) /\ Append(lost[d], cause) # <<>>
  OBVIOUS
<1>3. lost' \in [Denial -> Seq(Cause)]
  BY <1>1, <1>2 DEF Report
<1>4. Append(<<>>, cause) = <<cause>> /\ Len(<<cause>>) <= 1
  OBVIOUS
<1> QED
  BY <1>1, <1>2, <1>3, <1>4 DEF Counted

----------------------------------------------------------------------------
(* The queue starts empty, and nothing is counted.                         *)
LEMMA DenialsTypeCorrectAtInit == Init => TypeOK
<1>1. <<>> \in Seq(Denial) /\ <<>> \in Seq(Cause) /\ Len(<<>>) = 0
  OBVIOUS
<1>2. ASSUME Init PROVE closed \in BOOLEAN /\ permit \in BOOLEAN
  BY <1>2, Zenon DEF Init
<1>3. ASSUME Init PROVE lost \in [Denial -> Seq(Cause)]
  BY <1>1, <1>3 DEF Init
<1>4. ASSUME Init PROVE waiting \in Seq(Denial) /\ Len(waiting) <= Capacity
  BY <1>1, <1>4, CapacityAssumption DEF Init
<1> QED
  BY <1>2, <1>3, <1>4, NoDenialAssumption DEF Init, TypeOK

(* Every variable keeps its type, and the queue its capacity.              *)
THEOREM DenialsTypeCorrect == Spec => []TypeOK
<1> USE NoDenialAssumption, CapacityAssumption
<1> DEFINE WriterHolds == appender \in Holding => writing \in Denial
<1>1. Init => TypeOK /\ WriterHolds
  BY DenialsTypeCorrectAtInit DEF Init, Holding
<1>2. ASSUME TypeOK, WriterHolds, [Next]_vars PROVE TypeOK' /\ WriterHolds'
  <2> USE <1>2 DEF TypeOK, Holding
  <2>1. Held(waiting) \subseteq Denial /\ Owed \subseteq Denial
    BY DEF Held, Owed
  <2>2. ASSUME Abandon PROVE lost' \in [Denial -> Seq(Cause)] /\ waiting' = <<>> /\ appending' = NoDenial
    BY <2>1, <2>2, ReportAdds DEF Abandon, Cause
  <2>3. ASSUME NEW d \in Denial, Refuse(d) PROVE TypeOK' /\ WriterHolds'
    <3>1. CASE ~Full
      <4>1. Append(waiting, d) \in Seq(Denial) /\ Len(Append(waiting, d)) = Len(waiting) + 1
        BY HeldByAppend
      <4>2. Len(waiting) \in Nat
        OBVIOUS
      <4> QED
        <5>1. waiting' \in Seq(Denial) /\ Len(waiting') <= Capacity
          <6>1. waiting' = Append(waiting, d)
            BY <2>3, <3>1 DEF Refuse
          <6>2. Len(waiting) + 1 <= Capacity
            BY <3>1, <4>2 DEF Full
          <6> QED
            BY <4>1, <6>1, <6>2
        <5>2. permit' \in BOOLEAN
          BY <2>3, <3>1, Zenon DEF Refuse, PermitLeft
        <5>3. UNCHANGED <<appending, closed, appender, writing, chain, late, lost, stop,
                          owedAtStop>> /\ answered' \in SUBSET Denial
          BY <2>3, <3>1 DEF Refuse
        <5> QED
          BY <5>1, <5>2, <5>3
    <3>2. CASE Full
      BY <2>3, <3>2, ReportAdds DEF Refuse, Cause
    <3> QED
      BY <3>1, <3>2
  <2>4. ASSUME NEW d \in Denial, LandsLate(d) PROVE TypeOK' /\ WriterHolds'
    BY <2>4 DEF LandsLate
  <2>5. CASE Take
    <3>1. /\ Head(waiting) \in Denial /\ Tail(waiting) \in Seq(Denial)
          /\ Len(Tail(waiting)) = Len(waiting) - 1
      BY <2>5, HeldByTail DEF Take
    <3>2. Len(waiting) \in Nat
      OBVIOUS
    <3> QED
      BY <2>5, <3>1, <3>2 DEF Take
  <2>6. CASE FindNone
    BY <2>6 DEF FindNone
  <2>7. CASE Await
    BY <2>7 DEF Await
  <2>8. CASE Wake
    BY <2>8 DEF Wake
  <2>9. CASE Appended \/ AppendFails
    BY <2>9 DEF Appended, AppendFails
  <2>10. CASE Settle
    <3>1. CASE StillOwed /\ appender = "failed"
      <4>1. writing \in Denial
        BY <3>1, <2>10 DEF Settle, StillOwed
      <4> QED
        BY <2>10, <3>1, <4>1, ReportAdds DEF Settle, Cause
    <3>2. CASE ~(StillOwed /\ appender = "failed")
      BY <2>10, <3>2 DEF Settle
    <3> QED
      BY <3>1, <3>2
  <2>11. CASE BeginDrain \/ Flush \/ ShutStore
    BY <2>11 DEF BeginDrain, Flush, ShutStore
  <2>12. CASE DrainAbandons
    BY <2>2, <2>12 DEF DrainAbandons
  <2>13. CASE DropKernel
    BY <2>13 DEF DropKernel, PermitLeft
  <2>14. CASE EndRuntime
    <3>1. CASE appender = "gone"
      BY <2>14, <3>1 DEF EndRuntime
    <3>2. CASE appender # "gone"
      <4>1. Abandon
        BY <2>14, <3>2 DEF EndRuntime
      <4>2. lost' \in [Denial -> Seq(Cause)] /\ waiting' = <<>> /\ appending' = NoDenial
        BY <2>2, <4>1
      <4> QED
        BY <2>14, <4>2 DEF EndRuntime
    <3> QED
      BY <3>1, <3>2
  <2>15. CASE UNCHANGED vars
    BY <2>15 DEF vars
  <2> QED
    BY <2>3, <2>4, <2>5, <2>6, <2>7, <2>8, <2>9, <2>10, <2>11, <2>12, <2>13, <2>14,
       <2>15 DEF Next, Appender
<1> QED
  BY <1>1, <1>2, PTL DEF Spec

----------------------------------------------------------------------------
(* CInv is inductive.                                                      *)
LEMMA InitCInv == Init => CInv
<1> SUFFICES ASSUME Init PROVE CInv
  OBVIOUS
<1>1. TypeOK
  BY DenialsTypeCorrectAtInit
<1>2. waiting = <<>> /\ appending = NoDenial /\ appender = "looking" /\ chain = {} /\ late = {}
  BY DEF Init
<1>3. \A d \in Denial : lost[d] = <<>>
  BY DEF Init
<1>4. WaitingIsFresh
  BY <1>2, HeldByNone DEF WaitingIsFresh
<1>5. WriterAgrees
  BY <1>2 DEF WriterAgrees, Holding
<1>6. UnansweredIsFresh
  BY <1>2, <1>3 DEF UnansweredIsFresh, Counted
<1>7. DroppedIsGone
  BY <1>2, <1>3 DEF DroppedIsGone, Holding
<1>8. CountsAreSingle
  BY <1>2, <1>3 DEF CountsAreSingle
<1> QED
  BY <1>1, <1>4, <1>5, <1>6, <1>7, <1>8 DEF CInv

LEMMA NextCInv ==
    ASSUME CInv, TypeOK', [Next]_vars
    PROVE  CInv'
<1> USE NoDenialAssumption
<1> DEFINE Inner == WriterAgrees /\ WaitingIsFresh /\ UnansweredIsFresh /\ DroppedIsGone
                   /\ CountsAreSingle
<1> SUFFICES Inner'
  BY DEF CInv
<1>t. /\ answered \subseteq Denial /\ waiting \in Seq(Denial)
      /\ writing \in Denial \cup {NoDenial} /\ appending \in Denial \cup {NoDenial}
      /\ lost \in [Denial -> Seq(Cause)] /\ Held(waiting) \subseteq Denial
      /\ Owed \subseteq Denial
  <2>1. /\ answered \subseteq Denial /\ waiting \in Seq(Denial)
        /\ writing \in Denial \cup {NoDenial} /\ appending \in Denial \cup {NoDenial}
        /\ lost \in [Denial -> Seq(Cause)]
    BY DEF CInv, TypeOK
  <2>2. Held(waiting) \subseteq Denial
    BY <2>1 DEF Held
  <2> QED
    BY <2>1, <2>2 DEF Owed
<1>c. \A d \in Denial : Counted(d) <=> lost[d] # <<>>
  BY DEF Counted
<1> USE DEF CInv, WriterAgrees, WaitingIsFresh, UnansweredIsFresh, DroppedIsGone,
            CountsAreSingle, Holding
<1>w. /\ appending # NoDenial => appender \in Holding /\ appending = writing
      /\ appender \in Holding => writing \in Denial
  BY <1>t
<1>a. ASSUME Abandon
      PROVE  /\ waiting' = <<>> /\ appending' = NoDenial
             /\ \A d \in Owed : Counted(d)' /\ lost'[d] = <<"abandoned">> /\ Len(lost'[d]) <= 1
             /\ \A d \in Denial \ Owed : lost'[d] = lost[d]
  <2>1. \A d \in Owed : ~Counted(d)
    BY <1>t DEF Owed
  <2> QED
    BY <1>a, <1>t, <2>1, ReportAdds DEF Abandon, Cause
<1>ab. ASSUME Abandon, UNCHANGED <<answered, chain, late>>,
              \/ UNCHANGED <<appender, writing>>
              \/ appender' = "gone"
       PROVE  Inner'
  <2>1. <<"abandoned">> # <<"dropped">>
    OBVIOUS
  <2>2. \A e \in Denial \ Owed : Counted(e)' <=> Counted(e)
    BY <1>a, <1>ab DEF Counted
  <2>3. Held(waiting') = {} /\ NoRepeats(waiting')
    BY <1>a, <1>ab, HeldByNone
  <2>4. WriterAgrees'
    <3>1. ASSUME appender \in Holding, UNCHANGED writing PROVE Counted(writing)'
      <4>1. CASE writing \in Owed
        BY <1>a, <1>ab, <3>1, <4>1 DEF Counted
      <4>2. CASE writing \notin Owed
        <5>1. appending # writing
          BY <1>w, <3>1, <4>2 DEF Owed
        <5>2. Counted(writing) /\ writing \in Denial \ Owed
          BY <1>w, <3>1, <4>2, <5>1
        <5> QED
          BY <1>a, <1>ab, <3>1, <5>2 DEF Counted
      <4> QED
        BY <4>1, <4>2
    <3> QED
      BY <1>a, <1>ab, <3>1
  <2>5. WaitingIsFresh'
    BY <2>3
  <2>6. UnansweredIsFresh'
    <3>1. Owed \subseteq answered
      BY <1>t DEF Owed
    <3> QED
      BY <1>ab, <2>2, <3>1
  <2>7. DroppedIsGone'
    BY <1>a, <1>ab, <2>1
  <2>8. CountsAreSingle'
    <3>1. ASSUME NEW e \in Denial PROVE Len(lost'[e]) <= 1
      <4>1. CASE e \in Owed
        BY <1>a, <1>ab, <4>1
      <4>2. CASE e \notin Owed
        BY <1>a, <1>ab, <4>2
      <4> QED
        BY <4>1, <4>2
    <3> QED
      BY <1>a, <1>ab, <3>1
  <2> QED
    BY <2>4, <2>5, <2>6, <2>7, <2>8
<1>1. ASSUME NEW d \in Denial, Refuse(d) PROVE Inner'
  <2>1. /\ d \notin answered /\ d \notin Held(waiting) /\ ~Counted(d)
        /\ d \notin chain \cup late /\ (appender \in Holding => d # writing)
    BY <1>1 DEF Refuse
  <2>2. /\ answered' = answered \cup {d}
        /\ UNCHANGED <<appending, appender, writing, chain, late>>
    BY <1>1 DEF Refuse
  <2>3. CASE ~Full
    <3>1. waiting' = Append(waiting, d) /\ lost' = lost
      BY <1>1, <2>3 DEF Refuse
    <3>2. Held(waiting') = Held(waiting) \cup {d} /\ NoRepeats(waiting')
      BY <1>t, <2>1, <3>1, HeldByAppend
    <3>3. \A e \in Denial : Counted(e)' <=> Counted(e)
      BY <3>1 DEF Counted
    <3>4. WriterAgrees'
      BY <1>t, <2>2, <3>3
    <3>5. WaitingIsFresh'
      BY <1>t, <2>1, <2>2, <3>2, <3>3
    <3> QED
      BY <1>t, <2>2, <3>1, <3>3, <3>4, <3>5
  <2>4. CASE Full
    <3>1. waiting' = waiting /\ Report({d}, "dropped")
      BY <1>1, <2>4 DEF Refuse
    <3>2. /\ Counted(d)' /\ Len(lost'[d]) <= 1
          /\ \A e \in Denial \ {d} : lost'[e] = lost[e]
      BY <1>t, <2>1, <3>1, ReportAdds DEF Cause
    <3>3. \A e \in Denial \ {d} : Counted(e)' <=> Counted(e)
      BY <3>2 DEF Counted
    <3>4. WriterAgrees'
      BY <1>t, <2>1, <2>2, <3>3
    <3>5. WaitingIsFresh'
      BY <1>t, <2>1, <2>2, <3>1, <3>3
    <3>6. UnansweredIsFresh'
      BY <2>2, <3>3
    <3>7. DroppedIsGone'
      BY <2>1, <2>2, <3>2
    <3>8. CountsAreSingle'
      <4>1. ASSUME NEW e \in Denial PROVE Len(lost'[e]) <= 1
        <5>1. CASE e = d
          BY <3>2, <5>1
        <5>2. CASE e # d
          BY <3>2, <5>2
        <5> QED
          BY <5>1, <5>2
      <4>2. appending' # NoDenial => ~Counted(appending)'
        BY <1>t, <1>w, <2>1, <2>2, <3>3
      <4> QED
        BY <4>1, <4>2
    <3> QED
      BY <3>4, <3>5, <3>6, <3>7, <3>8
  <2> QED
    BY <2>3, <2>4
<1>2. ASSUME NEW d \in Denial, LandsLate(d) PROVE Inner'
  <2>1. /\ d \in late /\ chain' = chain \cup {d} /\ late' = late \ {d}
        /\ UNCHANGED <<answered, waiting, appending, appender, writing, lost>>
    BY <1>2 DEF LandsLate
  <2>2. \A e \in Denial : Counted(e)' <=> Counted(e)
    BY <2>1 DEF Counted
  <2> QED
    BY <1>t, <2>1, <2>2
<1>3. CASE Take
  <2>1. /\ waiting # <<>> /\ waiting' = Tail(waiting) /\ writing' = Head(waiting)
        /\ appending' = Head(waiting) /\ appender' = "writing"
        /\ UNCHANGED <<answered, chain, late, lost>>
    BY <1>3 DEF Take
  <2>2. /\ Held(waiting) = {writing'} \cup Held(waiting')
        /\ NoRepeats(waiting') /\ writing' \notin Held(waiting')
    BY <1>t, <2>1, HeldByTail
  <2>3. \A e \in Denial : Counted(e)' <=> Counted(e)
    BY <2>1 DEF Counted
  <2>4. writing' \in Held(waiting)
    BY <2>2
  <2>5. WriterAgrees' /\ CountsAreSingle'
    BY <1>t, <2>1, <2>3, <2>4
  <2>6. WaitingIsFresh'
    BY <1>t, <2>1, <2>2, <2>3
  <2>7. UnansweredIsFresh'
    BY <2>1, <2>3
  <2>8. DroppedIsGone'
    <3>1. ~Counted(writing')
      BY <2>4
    <3>2. lost[writing'] # <<"dropped">>
      BY <3>1 DEF Counted
    <3> QED
      BY <2>1, <3>2
  <2> QED
    BY <2>5, <2>6, <2>7, <2>8
<1>4. CASE FindNone \/ Await \/ Wake
  <2>1. /\ appender \notin Holding /\ appender' \notin Holding
        /\ UNCHANGED <<answered, waiting, appending, writing, chain, late, lost>>
    BY <1>4 DEF FindNone, Await, Wake
  <2>2. \A e \in Denial : Counted(e)' <=> Counted(e)
    BY <2>1 DEF Counted
  <2> QED
    BY <1>t, <2>1, <2>2
<1>5. CASE Appended
  <2>1. /\ appender = "writing" /\ appender' = "written" /\ chain' = chain \cup {writing}
        /\ UNCHANGED <<answered, waiting, appending, writing, late, lost>>
    BY <1>5 DEF Appended
  <2>2. \A e \in Denial \cup {NoDenial} : Counted(e)' <=> Counted(e)
    BY <2>1 DEF Counted
  <2> QED
    BY <1>t, <2>1, <2>2
<1>6. CASE AppendFails
  <2>1. /\ appender = "writing" /\ appender' = "failed" /\ late' \subseteq late \cup {writing}
        /\ UNCHANGED <<answered, waiting, appending, writing, chain, lost>>
    BY <1>6 DEF AppendFails
  <2>2. \A e \in Denial \cup {NoDenial} : Counted(e)' <=> Counted(e)
    BY <2>1 DEF Counted
  <2> QED
    BY <1>t, <2>1, <2>2
<1>7. CASE Settle
  <2>1. /\ appender \in Holding /\ appender' \notin Holding /\ appender' # "written"
        /\ appending' = NoDenial /\ writing \in Denial
        /\ UNCHANGED <<answered, waiting, chain, late>>
    BY <1>7, <1>t DEF Settle, StillOwed
  <2>2. CASE StillOwed /\ appender = "failed"
    <3>1. Report({writing}, "failed") /\ ~Counted(writing)
      BY <1>7, <2>1, <2>2 DEF Settle, StillOwed
    <3>2. /\ lost'[writing] = <<"failed">> /\ Len(lost'[writing]) <= 1
          /\ \A e \in Denial \ {writing} : lost'[e] = lost[e]
      BY <1>t, <2>1, <3>1, ReportAdds DEF Cause
    <3>3. \A e \in Denial \ {writing} : Counted(e)' <=> Counted(e)
      BY <3>2 DEF Counted
    <3>4. <<"failed">> # <<"dropped">>
      OBVIOUS
    <3>5. WriterAgrees' /\ WaitingIsFresh'
      BY <1>t, <2>1, <3>3
    <3>6. UnansweredIsFresh'
      BY <2>1, <3>3
    <3>7. DroppedIsGone'
      BY <2>1, <3>2, <3>4
    <3>8. CountsAreSingle'
      <4>1. ASSUME NEW e \in Denial PROVE Len(lost'[e]) <= 1
        <5>1. CASE e = writing
          BY <3>2, <5>1
        <5>2. CASE e # writing
          BY <3>2, <5>2
        <5> QED
          BY <5>1, <5>2
      <4> QED
        BY <2>1, <4>1
    <3> QED
      BY <3>5, <3>6, <3>7, <3>8
  <2>3. CASE ~(StillOwed /\ appender = "failed")
    <3>1. lost' = lost
      BY <1>7, <2>3 DEF Settle
    <3>2. \A e \in Denial : Counted(e)' <=> Counted(e)
      BY <3>1 DEF Counted
    <3> QED
      BY <1>t, <2>1, <3>1, <3>2
  <2> QED
    BY <2>2, <2>3
<1>8. CASE BeginDrain \/ Flush \/ ShutStore \/ DropKernel
  <2>1. UNCHANGED <<answered, waiting, appending, appender, writing, chain, late, lost>>
    BY <1>8 DEF BeginDrain, Flush, ShutStore, DropKernel
  <2>2. \A e \in Denial \cup {NoDenial} : Counted(e)' <=> Counted(e)
    BY <2>1 DEF Counted
  <2> QED
    BY <1>t, <2>1, <2>2
<1>9. CASE DrainAbandons
  <2>1. Abandon /\ UNCHANGED <<answered, appender, writing, chain, late>>
    BY <1>9 DEF DrainAbandons
  <2> QED
    BY <1>ab, <2>1
<1>10. CASE EndRuntime
  <2>1. appender' = "gone" /\ UNCHANGED <<answered, chain, late>>
    BY <1>10 DEF EndRuntime
  <2>2. CASE appender = "gone"
    <3>1. UNCHANGED <<waiting, appending, lost>>
      BY <1>10, <2>2 DEF EndRuntime
    <3>2. \A e \in Denial : Counted(e)' <=> Counted(e)
      BY <3>1 DEF Counted
    <3> QED
      BY <1>t, <2>1, <2>2, <3>1, <3>2
  <2>3. CASE appender # "gone"
    <3>1. Abandon
      BY <1>10, <2>3 DEF EndRuntime
    <3> QED
      BY <1>ab, <2>1, <3>1
  <2> QED
    BY <2>2, <2>3
<1>11. CASE UNCHANGED vars
  <2>1. UNCHANGED <<answered, waiting, appending, appender, writing, chain, late, lost>>
    BY <1>11 DEF vars
  <2>2. \A e \in Denial \cup {NoDenial} : Counted(e)' <=> Counted(e)
    BY <2>1 DEF Counted
  <2> QED
    BY <1>t, <2>1, <2>2
<1> QED
  BY <1>1, <1>2, <1>3, <1>4, <1>5, <1>6, <1>7, <1>8, <1>9, <1>10, <1>11
     DEF Next, Appender

(* A denial is counted under one cause, once, whatever the kernel, the     *)
(* appender and its guard do, late refusals included.                      *)
THEOREM CountedOnceHolds == Spec => []CountedOnce
<1>1. Init => CInv
  BY InitCInv
<1>2. CInv /\ TypeOK' /\ [Next]_vars => CInv'
  BY NextCInv
<1>3. CInv => CountedOnce
  BY DEF CInv, CountsAreSingle, DroppedIsGone, CountedOnce
<1> QED
  BY <1>1, <1>2, <1>3, DenialsTypeCorrect, PTL DEF Spec

----------------------------------------------------------------------------
(* What is on the chain stays there, and what is counted stays counted.    *)
LEMMA SettledStaysSettled ==
    ASSUME TypeOK, [Next]_vars
    PROVE  chain \subseteq chain' /\ \A d \in Denial : Counted(d) => Counted(d)'
<1>1. ASSUME NEW ds \in SUBSET Denial, NEW cause \in Cause, Report(ds, cause)
      PROVE  \A d \in Denial : Counted(d) => Counted(d)'
  <2>1. lost \in [Denial -> Seq(Cause)]
    BY DEF TypeOK
  <2>2. /\ \A d \in ds : Counted(d)'
        /\ \A d \in Denial \ ds : lost'[d] = lost[d]
    BY <1>1, <2>1, ReportAdds
  <2> QED
    BY <2>2 DEF Counted
<1>2. ASSUME Abandon PROVE \A d \in Denial : Counted(d) => Counted(d)'
  <2>1. Owed \in SUBSET Denial /\ "abandoned" \in Cause
    BY DEF TypeOK, Owed, Held, Cause
  <2> QED
    BY <1>1, <1>2, <2>1 DEF Abandon
<1>3. ASSUME UNCHANGED lost PROVE \A d \in Denial : Counted(d) => Counted(d)'
  BY <1>3 DEF Counted
<1>4. ASSUME NEW d \in Denial, Refuse(d) PROVE chain' = chain /\ (UNCHANGED lost \/ Report({d}, "dropped"))
  BY <1>4 DEF Refuse
<1>5. ASSUME NEW d \in Denial, LandsLate(d) PROVE chain \subseteq chain' /\ UNCHANGED lost
  BY <1>5 DEF LandsLate
<1>6. CASE Take \/ FindNone \/ Await \/ Wake \/ Appended \/ AppendFails
  BY <1>3, <1>6 DEF Take, FindNone, Await, Wake, Appended, AppendFails
<1>7. CASE Settle
  <2>1. chain' = chain
    BY <1>7 DEF Settle
  <2>2. CASE StillOwed /\ appender = "failed"
    <3>1. Report({writing}, "failed") /\ "failed" \in Cause
      BY <1>7, <2>2 DEF Settle, Cause
    <3>2. CASE writing \in Denial
      BY <1>1, <2>1, <3>1, <3>2
    <3>3. CASE writing \notin Denial
      BY <2>1, <3>1, <3>3 DEF Report, Counted
    <3> QED
      BY <3>2, <3>3
  <2>3. CASE ~(StillOwed /\ appender = "failed")
    BY <1>3, <1>7, <2>1, <2>3 DEF Settle
  <2> QED
    BY <2>2, <2>3
<1>8. CASE BeginDrain \/ Flush \/ ShutStore \/ DropKernel \/ UNCHANGED vars
  BY <1>3, <1>8 DEF BeginDrain, Flush, ShutStore, DropKernel, vars
<1>9. CASE DrainAbandons \/ EndRuntime
  <2>1. chain' = chain /\ (Abandon \/ UNCHANGED lost)
    BY <1>9 DEF DrainAbandons, EndRuntime
  <2> QED
    BY <1>2, <1>3, <2>1
<1>10. "dropped" \in Cause
  BY DEF Cause
<1>11. ASSUME NEW d \in Denial, Refuse(d) \/ LandsLate(d)
       PROVE  chain \subseteq chain' /\ \A e \in Denial : Counted(e) => Counted(e)'
  BY <1>1, <1>3, <1>4, <1>5, <1>10, <1>11
<1> QED
  BY <1>6, <1>7, <1>8, <1>9, <1>11 DEF Next, Appender

(* When no request outlives the appender, its owing nothing is final and   *)
(* every denial stays accounted for.                                       *)
LEMMA NextAInv ==
    ASSUME AInv, TypeOK', CInv', [Next]_vars, ~LateRefusals
    PROVE  AInv'
<1> USE NoDenialAssumption
<1> DEFINE Kept == chain \subseteq chain' /\ \A d \in Denial : Counted(d) => Counted(d)'
<1> DEFINE Acc(d) == \/ d \in chain
                     \/ Counted(d)
                     \/ appender # "gone" /\ (d = appending \/ d \in Held(waiting))
<1>k. Kept
  BY SettledStaysSettled DEF AInv, CInv
<1>t. /\ answered \subseteq Denial /\ waiting \in Seq(Denial)
      /\ lost \in [Denial -> Seq(Cause)] /\ Owed \in SUBSET Denial
      /\ WriterAgrees /\ GoneOwesNothing /\ \A d \in answered : Acc(d)
  BY DEF AInv, CInv, TypeOK, Owed, Held, Accounted
<1> SUFFICES (\A d \in answered' : Acc(d)') /\ GoneOwesNothing'
  BY DEF AInv, Accounted
<1> HIDE DEF Kept
<1>q. ASSUME answered' = answered, appender' = "gone" => appender = "gone",
             Owed \subseteq Owed'
      PROVE  \A d \in answered' : Acc(d)'
  BY <1>k, <1>q, <1>t DEF Kept, Owed
<1>u. ASSUME UNCHANGED <<answered, waiting, appending, appender>>
      PROVE  (\A d \in answered' : Acc(d)') /\ GoneOwesNothing'
  <2>1. Owed' = Owed
    BY <1>u DEF Owed
  <2>2. answered' = answered /\ (appender' = "gone" => appender = "gone") /\ Owed \subseteq Owed'
    BY <1>u, <2>1
  <2>3. \A d \in answered' : Acc(d)'
    BY ONLY <1>q, <2>2
  <2> QED
    BY <1>t, <1>u, <2>3 DEF GoneOwesNothing
<1>a. ASSUME Abandon, answered' = answered
      PROVE  (\A d \in answered' : Acc(d)') /\ waiting' = <<>>
  <2>1. \A d \in Owed : Counted(d)'
    <3>1. "abandoned" \in Cause
      BY DEF Cause
    <3> QED
      BY <1>a, <1>t, <3>1, ReportAdds DEF Abandon
  <2> QED
    BY <1>a, <1>k, <1>t, <2>1 DEF Abandon, Kept, Owed
<1>1. ASSUME NEW d \in Denial, Refuse(d) PROVE (\A e \in answered' : Acc(e)') /\ GoneOwesNothing'
  <2>1. /\ appender # "gone" /\ answered' = answered \cup {d}
        /\ appending' = appending /\ appender' = appender
    BY <1>1 DEF Refuse
  <2>2. Held(waiting) \subseteq Held(waiting') /\ (d \in Held(waiting') \/ Counted(d)')
    <3>1. CASE ~Full
      <4>1. waiting' = Append(waiting, d)
        BY <1>1, <3>1 DEF Refuse
      <4> QED
        BY <1>t, <4>1, HeldByAppend
    <3>2. CASE Full
      <4>1. waiting' = waiting /\ Report({d}, "dropped") /\ "dropped" \in Cause
        BY <1>1, <3>2 DEF Refuse, Cause
      <4> QED
        BY <1>t, <4>1, ReportAdds
    <3> QED
      BY <3>1, <3>2
  <2> QED
    BY <1>k, <1>t, <2>1, <2>2 DEF Kept, GoneOwesNothing
<1>2. ASSUME NEW d \in Denial, LandsLate(d) PROVE (\A e \in answered' : Acc(e)') /\ GoneOwesNothing'
  <2>1. UNCHANGED <<answered, waiting, appending, appender>>
    BY <1>2 DEF LandsLate
  <2> QED
    BY <1>u, <2>1
<1>3. CASE Take
  <2>1. /\ waiting # <<>> /\ waiting' = Tail(waiting) /\ appending' = Head(waiting)
        /\ appender = "looking" /\ appender' = "writing" /\ answered' = answered
    BY <1>3 DEF Take
  <2>2. Held(waiting) = {appending'} \cup Held(waiting') /\ appending = NoDenial
    BY <1>t, <2>1, HeldByTail DEF WriterAgrees, Holding
  <2> QED
    BY <1>k, <1>t, <2>1, <2>2 DEF Kept, GoneOwesNothing
<1>4. CASE FindNone
  <2>1. waiting = <<>> /\ appending = NoDenial /\ UNCHANGED <<answered, waiting, appending>>
    BY <1>4, <1>t DEF FindNone, WriterAgrees, Holding
  <2> QED
    BY <1>k, <1>t, <2>1, HeldByNone DEF Kept, GoneOwesNothing
<1>5. CASE Await \/ Wake \/ Appended \/ AppendFails
  <2>1. UNCHANGED <<answered, waiting, appending>> /\ appender' # "gone"
    BY <1>5 DEF Await, Wake, Appended, AppendFails
  <2>2. Owed' = Owed
    BY <2>1 DEF Owed
  <2>3. answered' = answered /\ (appender' = "gone" => appender = "gone") /\ Owed \subseteq Owed'
    BY <2>1, <2>2
  <2>4. \A d \in answered' : Acc(d)'
    BY ONLY <1>q, <2>3
  <2> QED
    BY <2>1, <2>4 DEF GoneOwesNothing
<1>6. CASE Settle
  <2>1. UNCHANGED <<answered, waiting>> /\ appender' = "looking" /\ appender \in Holding
    BY <1>6 DEF Settle, Holding
  <2>2. ASSUME NEW d \in Denial, d = appending PROVE d \in chain' \/ Counted(d)'
    <3>1. d = writing /\ StillOwed /\ writing \in Denial
      BY <1>t, <2>1, <2>2 DEF WriterAgrees, StillOwed
    <3>2. CASE appender = "written"
      BY <1>k, <1>t, <3>1, <3>2 DEF WriterAgrees, Kept
    <3>3. CASE appender = "failed"
      <4>1. Report({writing}, "failed") /\ "failed" \in Cause
        BY <1>6, <3>1, <3>3 DEF Settle, Cause
      <4> QED
        BY <1>t, <3>1, <4>1, ReportAdds
    <3> QED
      BY <1>6, <3>2, <3>3 DEF Settle
  <2> QED
    BY <1>k, <1>t, <2>1, <2>2 DEF Kept, GoneOwesNothing
<1>7. CASE BeginDrain \/ Flush \/ ShutStore \/ DropKernel \/ UNCHANGED vars
  <2>1. UNCHANGED <<answered, waiting, appending, appender>>
    BY <1>7 DEF BeginDrain, Flush, ShutStore, DropKernel, vars
  <2> QED
    BY <1>u, <2>1
<1>8. CASE DrainAbandons
  BY <1>8, <1>a DEF DrainAbandons, GoneOwesNothing
<1>9. CASE EndRuntime
  <2>1. CASE appender = "gone"
    <3>1. UNCHANGED <<answered, waiting, appending>>
      BY <1>9, <2>1 DEF EndRuntime
    <3>2. appender' = appender
      BY <1>9, <2>1 DEF EndRuntime
    <3> QED
      BY <1>u, <3>1, <3>2
  <2>2. CASE appender # "gone"
    BY <1>9, <1>a, <2>2 DEF EndRuntime, GoneOwesNothing
  <2> QED
    BY <2>1, <2>2
<1> QED
  BY <1>1, <1>2, <1>3, <1>4, <1>5, <1>6, <1>7, <1>8, <1>9 DEF Next, Appender

(* An empty queue and an appender that has not begun lose nothing.         *)
LEMMA InitAInv == Init => DInv
<1> SUFFICES ASSUME Init PROVE DInv
  OBVIOUS
<1>1. CInv
  BY InitCInv
<1>2. Accounted /\ GoneOwesNothing
  BY DEF Init, Accounted, GoneOwesNothing
<1>3. DrainSettles /\ owedAtStop \subseteq answered
  BY DEF Init, DrainSettles
<1> QED
  BY <1>1, <1>2, <1>3 DEF AInv, DInv

(* If no request outlives the appender, a denial answered with an id is in *)
(* the chain, still owed, or counted.                                      *)
THEOREM AccountedHolds == ~LateRefusals /\ Spec => []Accounted
<1>1. Init => AInv /\ CInv
  BY InitAInv, InitCInv DEF DInv
<1>2. ~LateRefusals /\ AInv /\ CInv /\ TypeOK' /\ [Next]_vars => AInv' /\ CInv'
  BY NextAInv, NextCInv
<1>3. AInv => Accounted
  BY DEF AInv
<1>4. Spec => []TypeOK
  BY DenialsTypeCorrect
<1>5. SUFFICES ASSUME ~LateRefusals PROVE Spec => []Accounted
  OBVIOUS
<1>6. AInv /\ CInv /\ TypeOK' /\ [Next]_vars => AInv' /\ CInv'
  BY <1>2, <1>5
<1> QED
  BY <1>1, <1>3, <1>4, <1>6, PTL DEF Spec

----------------------------------------------------------------------------
(* Once the drain has returned, what it had to settle is settled.          *)
LEMMA NextDInv ==
    ASSUME DInv, AInv', [Next]_vars
    PROVE  DInv'
<1> DEFINE Done == \A d \in owedAtStop : d \in chain \/ Counted(d)
<1>k. chain \subseteq chain' /\ \A d \in Denial : Counted(d) => Counted(d)'
  BY SettledStaysSettled DEF DInv, AInv, CInv
<1>t. /\ answered \subseteq Denial /\ owedAtStop \subseteq answered /\ Accounted
      /\ lost \in [Denial -> Seq(Cause)] /\ Owed \in SUBSET Denial
      /\ stop \in {"drained", "shut"} => Done
  BY DEF DInv, AInv, CInv, TypeOK, Owed, Held, DrainSettles
<1> SUFFICES (stop' \in {"drained", "shut"} => Done') /\ owedAtStop' \subseteq answered'
  BY DEF DInv, DrainSettles
<1>q. ASSUME owedAtStop' = owedAtStop, Done PROVE Done'
  BY <1>k, <1>q, <1>t
<1>1. CASE BeginDrain
  BY <1>1 DEF BeginDrain
<1>2. CASE Flush
  <2>1. UNCHANGED <<answered, owedAtStop>>
    BY <1>2 DEF Flush
  <2>2. CASE Owed = {}
    <3>1. \A d \in answered : d \notin Held(waiting)
      BY <2>2 DEF Owed
    <3>2. \A d \in answered : d # appending
      BY <1>t, <2>2, NoDenialAssumption DEF Owed
    <3>3. Done
      BY <1>t, <3>1, <3>2 DEF Accounted
    <3> QED
      BY <1>q, <1>t, <2>1, <3>3
  <2>3. CASE Owed # {}
    BY <1>2, <1>t, <2>1, <2>3 DEF Flush
  <2> QED
    BY <2>2, <2>3
<1>3. CASE DrainAbandons
  <2>1. UNCHANGED <<answered, owedAtStop>> /\ Report(Owed, "abandoned") /\ "abandoned" \in Cause
    BY <1>3 DEF DrainAbandons, Abandon, Cause
  <2>2. \A d \in Owed : Counted(d)'
    BY <1>t, <2>1, ReportAdds
  <2>3. ASSUME NEW d \in owedAtStop PROVE d \in chain' \/ Counted(d)'
    BY <1>k, <1>t, <2>2, NoDenialAssumption DEF Accounted, Owed
  <2> QED
    BY <1>t, <2>1, <2>3
<1>4. CASE ShutStore
  BY <1>4, <1>q, <1>t DEF ShutStore
<1>5. CASE EndRuntime
  BY <1>5, <1>t DEF EndRuntime
<1>6. ASSUME NEW d \in Denial, Refuse(d) \/ LandsLate(d)
      PROVE  (stop' \in {"drained", "shut"} => Done') /\ owedAtStop' \subseteq answered'
  <2>1. stop' = stop /\ owedAtStop' = owedAtStop /\ answered \subseteq answered'
    BY <1>6 DEF Refuse, LandsLate
  <2> QED
    BY <1>q, <1>t, <2>1
<1>7. CASE Appender \/ DropKernel \/ UNCHANGED vars
  <2>1. UNCHANGED <<stop, owedAtStop, answered>>
    BY <1>7 DEF Appender, Take, FindNone, Await, Wake, Appended, AppendFails, Settle,
                DropKernel, vars
  <2> QED
    BY <1>q, <1>t, <2>1
<1> QED
  BY <1>1, <1>2, <1>3, <1>4, <1>5, <1>6, <1>7 DEF Next

(* If no request outlives the appender, the drain leaves no denial that was*)
(* answered before it began out of the chain and uncounted.                *)
THEOREM DrainSettlesHolds == ~LateRefusals /\ Spec => []DrainSettles
<1>1. Init => DInv /\ CInv
  BY InitAInv, InitCInv
<1>2. ASSUME ~LateRefusals
      PROVE  DInv /\ CInv /\ TypeOK' /\ [Next]_vars => DInv' /\ CInv'
  BY <1>2, NextAInv, NextCInv, NextDInv DEF DInv
<1>3. DInv => DrainSettles
  BY DEF DInv
<1>4. Spec => []TypeOK
  BY DenialsTypeCorrect
<1>5. SUFFICES ASSUME ~LateRefusals PROVE Spec => []DrainSettles
  OBVIOUS
<1>6. DInv /\ CInv /\ TypeOK' /\ [Next]_vars => DInv' /\ CInv'
  BY <1>2, <1>5
<1> QED
  BY <1>1, <1>3, <1>4, <1>6, PTL DEF Spec

(* The denials, whatever appender, drain, stop and end of the runtime do.  *)
THEOREM DenialsSoundHolds == ~LateRefusals => (Spec => []DenialsSound)
<1>1. TypeOK /\ Accounted /\ CountedOnce /\ DrainSettles => DenialsSound
  BY DEF DenialsSound
<1> QED
  BY <1>1, DenialsTypeCorrect, AccountedHolds, CountedOnceHolds, DrainSettlesHolds, PTL

----------------------------------------------------------------------------
(* The requests of the front.                                              *)

(* The key a request counts under, at either limiter.                      *)
BearerKey(r, w) == <<"bearer", <<>>, Script(r).who, w>>
EdgeKey(r, w) == <<"edge", GroupOf(Script(r).path).prefix, Identify(Script(r)), w>>
Counter == {BearerKey(r, w) : r \in Denial, w \in Nat}
               \cup {EdgeKey(r, w) : r \in Denial, w \in Nat}

Why == {"none", "service", "role", "unknown_service", "no_grant", "constraint", "secrets"}
Request == [at : Stage, router : Router, principal : {"none", "session", "token"}, window : Nat,
            call : Nat \ {0}, admitted : SUBSET Counter, answer : Answer, why : Why]

Shape ==
    /\ picked \in DOMAIN Scenes
    /\ cell \in {"source", "built", "unbuilt", "refused", "up"}
    /\ slot \in Router
    /\ now \in 0 .. scene.windows
    /\ req \in [Denial -> Request]
    /\ DOMAIN counts \subseteq Counter
    /\ \A key \in DOMAIN counts : counts[key] \in Nat \ {0}

(* What serves was verified, and is what the chain is committed to.        *)
Booted ==
    /\ cell \in {"built", "up"} => Verified(scene.manifest, scene.sites)
    /\ cell = "up" => Valid(scene.manifest) /\ scene.adopted = scene.manifest

(* A request and the moment it is at.                                      *)
Staged(r) ==
    /\ req[r].at # "idle" => cell = "up" /\ r \in Arriving
    /\ req[r].at # "done" => req[r].answer = "none" /\ req[r].why = "none"
    /\ req[r].window <= now
    /\ req[r].answer = "refused" <=> r \in answered

BeforeSession == {"bearer", "validate", "count", "counting", "session"}
AfterSession == {"edge", "csrf", "limit", "limiting", "role", "handler"}

(* What a request has proved when it is at a layer.                        *)
Proved(r) ==
    LET s == Script(r)
    IN  /\ req[r].router # "whole" => req[r].principal = "none"
        /\ req[r].at \in BeforeSession => req[r].router = "whole"
        /\ req[r].at \in {"idle", "bearer", "validate"} => req[r].principal = "none"
        /\ req[r].at = "validate" => Declared(s.path) # Absent
        /\ req[r].at \in {"count", "counting"} => req[r].principal = "token"
        /\ req[r].principal = "session" => s.session = "live"
        /\ req[r].principal = "token" =>
               /\ Declared(s.path) # Absent
               /\ s.authorization \in {"person", "service"}
               /\ s.authorization = "service" => Declared(s.path).service
        /\ req[r].at \in AfterSession /\ req[r].router = "whole" => ~Both(s)
        /\ req[r].at \in AfterSession \ {"edge"} => req[r].router # "probes"
        /\ req[r].at \in AfterSession \ {"edge", "csrf"} /\ req[r].principal = "session" =>
               (s.unsafe /\ ~UnderAuth(s.path) => s.pair)
        /\ req[r].at = "handler" /\ RoleGated(s.path) => RoleHeld(r)

(* What CredentialsKept says of one request.                               *)
Cleared(r) ==
    LET s == Script(r)
    IN  /\ req[r].router # "probes"
        /\ req[r].principal = "session" =>
               s.session = "live" /\ (s.unsafe /\ ~UnderAuth(s.path) => s.pair)
        /\ req[r].principal = "token" =>
               /\ Declared(s.path) # Absent
               /\ s.authorization \in {"person", "service"}
               /\ s.authorization = "service" => Declared(s.path).service
        /\ req[r].router = "whole" => ~Both(s)
        /\ RoleGated(s.path) => req[r].principal # "none" /\ s.role

(* What VerifiedIsAdmitted says of one request.                            *)
RightlyRefused(r) ==
    req[r].why \in {"unknown_service", "no_grant"} =>
        LET call == Script(r).calls[req[r].call]
            facade == scene.sites[call.site]
        IN  \/ call.method \in {"fenced", "http.egress"}
            \/ facade.named # [service |-> facade.service, kind |-> facade.kind,
                               resource |-> facade.resource]

(* Under which keys a request went past a limiter.                         *)
CountedAt(r, kind) == \E key \in req[r].admitted : key[1] = kind
Keyed(r) ==
    /\ \A key \in req[r].admitted :
           \E w \in 0 .. now : key = BearerKey(r, w) \/ key = EdgeKey(r, w)
    /\ req[r].at \in {"idle", "bearer", "validate", "count", "counting"} => req[r].admitted = {}
    /\ req[r].at \in {"session", "edge", "csrf", "limit", "limiting"} =>
           /\ ~CountedAt(r, "edge")
           /\ req[r].principal = "token" => CountedAt(r, "bearer")
    /\ req[r].at \in {"role", "handler"} \/ Reached(r) =>
           OnOperatorMount(Script(r).path) \/ CountedAt(r, "edge")

Proper(r) == /\ Staged(r) /\ Proved(r) /\ Keyed(r) /\ RightlyRefused(r)
             /\ (Reached(r) => Cleared(r))

(* The requests a counter counted: those it let through and those it did   *)
(* not.                                                                    *)
LimitedKey(r) ==
    IF req[r].principal = "token" /\ ~CountedAt(r, "bearer")
    THEN BearerKey(r, req[r].window) ELSE EdgeKey(r, req[r].window)
Passed(key) == {r \in Denial : key \in req[r].admitted}
Charged(key) ==
    Passed(key) \cup {r \in Denial : req[r].answer = "limited" /\ key = LimitedKey(r)}

(* Every counter is exact, and lets no more through than its ceiling.      *)
Exact ==
    /\ IsFiniteSet(Arrived)
    /\ \A key \in Counter : Cardinality(Charged(key)) = Spent(key)
    /\ \A r \in Arriving, w \in Nat :
           Cardinality(Passed(EdgeKey(r, w))) <= GroupOf(Script(r).path).limit

IInv == /\ Shape /\ Booted /\ (\A r \in Denial : Proper(r)) /\ Exact /\ CeilingKept

----------------------------------------------------------------------------
(* The queue.                                                              *)

(* What a layer does by itself does not touch the queue.                   *)
LEMMA LayerSteps ==
    ASSUME NEW r \in Denial, Handle(r)
    PROVE  Refuse(r) \/ UNCHANGED vars
<1>1. CASE Arrive(r) \/ BearerGate(r) \/ ReadClock(r) \/ SessionLayer(r) \/ EnterEdge(r)
           \/ CsrfCheck(r) \/ Finish(r)
  BY <1>1 DEF Arrive, BearerGate, ReadClock, SessionLayer, EnterEdge, CsrfCheck, Finish, Local
<1>2. CASE Validate(r)
  BY <1>2 DEF Validate, Local, ReplyRefused
<1>3. CASE CountAdd(r)
  BY <1>3 DEF CountAdd
<1>4. CASE RoleGate(r)
  BY <1>4 DEF RoleGate, Local, ReplyRefused
<1>5. CASE Call(r)
  BY <1>5 DEF Call, Local, ReplyRefused
<1> QED
  BY <1>1, <1>2, <1>3, <1>4, <1>5 DEF Handle

(* Every step of the front is a step of the queue, or none of its.         *)
LEMMA FrontStepsAreQueueSteps ==
    [FrontNext]_allVars => [Next]_vars
<1> SUFFICES ASSUME [FrontNext]_allVars PROVE Next \/ UNCHANGED vars
  OBVIOUS
<1>1. CASE Build \/ Boot \/ Switch \/ Tick
  BY <1>1 DEF Build, Boot, Switch, Tick
<1>2. CASE \E r \in Denial : Handle(r)
  BY <1>2, LayerSteps DEF Next
<1>3. CASE Queue
  BY <1>3 DEF Queue, Next
<1>4. CASE Ends
  BY <1>4 DEF Ends, Next
<1>5. CASE UNCHANGED allVars
  BY <1>5 DEF allVars
<1> QED
  BY <1>1, <1>2, <1>3, <1>4, <1>5 DEF FrontNext

(* The front of a cell implements the denial queue's specification: no     *)
(* order of its layers refuses past the queue or twice, and its appender   *)
(* is scheduled as the queue assumes.                                      *)
THEOREM FrontImplementsDenials == FrontSpec => Spec
<1>1. FrontInit => Init
  BY DEF FrontInit
<1> QED
  BY <1>1, FrontStepsAreQueueSteps, PTL DEF FrontSpec, Spec

(* Every refusal a request of the cell is answered with is on the chain,   *)
(* owed or counted, once, whatever layer or call refused it.               *)
THEOREM FrontKeepsDenials == ~LateRefusals => (FrontSpec => []DenialsSound)
<1> QED
  BY FrontImplementsDenials, DenialsSoundHolds, PTL

----------------------------------------------------------------------------
(* The scene does not change, and what a request says is kept.             *)

LEMMA SameScene ==
    ASSUME picked' = picked
    PROVE  /\ scene' = scene /\ Arriving' = Arriving /\ Counter' = Counter
           /\ \A r : /\ Script(r)' = Script(r)
                     /\ Declared(Script(r).path)' = Declared(Script(r).path)
                     /\ Exempt(Script(r))' = Exempt(Script(r))
           /\ \A r, w : BearerKey(r, w)' = BearerKey(r, w) /\ EdgeKey(r, w)' = EdgeKey(r, w)
           /\ \A r : GroupOf(Script(r).path)' = GroupOf(Script(r).path)
<1>1. scene' = scene
  BY DEF scene
<1>2. Arriving' = Arriving /\ \A r : Script(r)' = Script(r)
  BY <1>1 DEF Arriving, Script
<1>3. \A r : Declared(Script(r).path)' = Declared(Script(r).path)
  BY <1>1, <1>2 DEF Declared
<1>4. \A r : GroupOf(Script(r).path)' = GroupOf(Script(r).path)
  BY <1>1, <1>2 DEF GroupOf
<1>5. \A r : Identify(Script(r))' = Identify(Script(r))
  BY <1>1, <1>2 DEF Identify, Header, Peer
<1>6. \A r : Exempt(Script(r))' = Exempt(Script(r))
  BY <1>2, <1>3 DEF Exempt
<1>7. \A r, w : BearerKey(r, w)' = BearerKey(r, w) /\ EdgeKey(r, w)' = EdgeKey(r, w)
  BY <1>2, <1>4, <1>5 DEF BearerKey, EdgeKey
<1>8. Counter' = Counter
  BY <1>7 DEF Counter
<1> QED
  BY <1>1, <1>2, <1>3, <1>4, <1>6, <1>7, <1>8

(* Why a request was refused stays right.                                  *)
LEMMA SameRefusal ==
    ASSUME NEW r \in Denial, RightlyRefused(r), picked' = picked,
           req'[r].why = req[r].why, req'[r].call = req[r].call
    PROVE  RightlyRefused(r)'
<1>1. scene' = scene /\ Script(r)' = Script(r)
  BY SameScene
<1> QED
  BY <1>1 DEF RightlyRefused

(* A request that is left alone stays proper while the clock runs on.      *)
LEMMA LeftAlone ==
    ASSUME NEW r \in Denial, Proper(r), picked' = picked, now \in Nat, now' \in Nat,
           now <= now', req'[r] = req[r], cell = "up" => cell' = "up",
           r \in answered' <=> r \in answered, Shape
    PROVE  Proper(r)'
<1> USE SameScene
<1>1. Staged(r)'
  <2>1. req[r].window \in Nat
    BY DEF Shape, Request
  <2> QED
    BY <2>1 DEF Proper, Staged
<1>2. Proved(r)'
  BY DEF Proper, Proved, RoleHeld
<1>3. Reached(r)' <=> Reached(r)
  BY DEF Reached
<1>4. Cleared(r) <=> Cleared(r)'
  BY DEF Cleared
<1>5. CountedAt(r, "edge")' = CountedAt(r, "edge") /\ CountedAt(r, "bearer")' = CountedAt(r, "bearer")
  BY DEF CountedAt
<1>6. Keyed(r)'
  <2>1. \A key \in req[r].admitted :
           \E w \in 0 .. now' : key = BearerKey(r, w) \/ key = EdgeKey(r, w)
    <3>1. 0 .. now \subseteq 0 .. now'
      OBVIOUS
    <3> QED
      BY <3>1 DEF Proper, Keyed
  <2>2. \A key \in req'[r].admitted :
           \E w \in 0 .. now' : key = BearerKey(r, w)' \/ key = EdgeKey(r, w)'
    BY <2>1
  <2> QED
    BY <1>3, <1>5, <2>2 DEF Proper, Keyed
<1> QED
  BY <1>1, <1>2, <1>3, <1>4, <1>6, SameRefusal DEF Proper

(* A layer lets a request pass to the next, or answers it.                 *)
Rest(r) == /\ req'[r].window = req[r].window /\ req'[r].call = req[r].call
           /\ req'[r].router = req[r].router /\ req'[r].principal = req[r].principal
           /\ req'[r].admitted = req[r].admitted
Others(r) == \A q \in Denial \ {r} : req'[q] = req[q]

LEMMA Passing ==
    ASSUME Shape, picked' = picked, NEW r \in Denial, NEW stage \in Stage, Pass(r, stage)
    PROVE  /\ (req \in [Denial -> Request])'
           /\ Rest(r) /\ Others(r) /\ req'[r].at = stage
           /\ req'[r].answer = req[r].answer /\ req'[r].why = req[r].why
<1>1. Request' = Request
  BY SameScene DEF Request
<1> QED
  BY <1>1 DEF Shape, Request, Pass, Rest, Others

LEMMA Replying ==
    ASSUME Shape, picked' = picked, NEW r \in Denial, NEW answer \in Answer, Reply(r, answer)
    PROVE  /\ (req \in [Denial -> Request])'
           /\ Rest(r) /\ Others(r) /\ req'[r].at = "done"
           /\ req'[r].answer = answer /\ req'[r].why = req[r].why
<1>1. Request' = Request /\ "done" \in Stage
  BY SameScene DEF Request, Stage
<1> QED
  BY <1>1 DEF Shape, Request, Reply, Rest, Others

LEMMA Refusing ==
    ASSUME Shape, NEW r \in Denial, NEW why \in Why, ReplyRefused(r, why)
    PROVE  /\ (req \in [Denial -> Request])'
           /\ Rest(r) /\ Others(r) /\ req'[r].at = "done"
           /\ req'[r].answer = "refused" /\ req'[r].why = why
           /\ answered' = answered \cup {r}
<1> DEFINE q == [req[r] EXCEPT !.at = "done", !.answer = "refused", !.why = why]
<1>1. Request' = Request /\ "done" \in Stage /\ "refused" \in Answer
  BY SameScene DEF Request, Stage, Answer, ReplyRefused
<1>2. req' = [req EXCEPT ![r] = q] /\ answered' = answered \cup {r}
  BY DEF ReplyRefused, Refuse
<1>3. req[r] \in Request /\ DOMAIN req = Denial
  BY DEF Shape
<1>4. /\ q \in Request /\ q.at = "done" /\ q.answer = "refused" /\ q.why = why
      /\ q.window = req[r].window /\ q.call = req[r].call /\ q.router = req[r].router
      /\ q.principal = req[r].principal /\ q.admitted = req[r].admitted
  BY <1>1, <1>3 DEF Request
<1> HIDE DEF q
<1>5. req'[r] = q /\ Others(r)
  BY <1>2, <1>3 DEF Others
<1>6. (req \in [Denial -> Request])'
  BY <1>1, <1>2, <1>4 DEF Shape
<1> QED
  BY <1>2, <1>4, <1>5, <1>6 DEF Rest

(* The premises of a request's own steps.                                  *)
Steps(r) == /\ Shape /\ Booted /\ Proper(r) /\ r \in Denial
            /\ UNCHANGED <<picked, cell, now>>
Live(r) == req[r].at \notin {"idle", "done"}

(* What stays of a request that keeps its keys.                            *)
LEMMA KeysStay ==
    ASSUME NEW r, Steps(r), Rest(r)
    PROVE  /\ \A key \in req'[r].admitted :
                 \E w \in 0 .. now' : key = BearerKey(r, w)' \/ key = EdgeKey(r, w)'
           /\ CountedAt(r, "edge")' = CountedAt(r, "edge")
           /\ CountedAt(r, "bearer")' = CountedAt(r, "bearer")
<1>1. picked' = picked /\ now' = now /\ req'[r].admitted = req[r].admitted
  BY DEF Steps, Rest
<1>2. \A w : BearerKey(r, w)' = BearerKey(r, w) /\ EdgeKey(r, w)' = EdgeKey(r, w)
  BY <1>1, SameScene
<1>3. \A key \in req[r].admitted :
         \E w \in 0 .. now : key = BearerKey(r, w) \/ key = EdgeKey(r, w)
  BY DEF Steps, Proper, Keyed
<1>4. \A key \in req'[r].admitted :
         \E w \in 0 .. now' : key = BearerKey(r, w)' \/ key = EdgeKey(r, w)'
  BY <1>1, <1>2, <1>3
<1>5. CountedAt(r, "edge")' = CountedAt(r, "edge")
      /\ CountedAt(r, "bearer")' = CountedAt(r, "bearer")
  BY <1>1 DEF CountedAt
<1> QED
  BY <1>4, <1>5

(* An answer other than the handler's leaves a request proper.             *)
LEMMA AnsweredIsProper ==
    ASSUME NEW r, Steps(r), Live(r), NEW answer \in Answer \ {"none", "refused", "served"},
           Reply(r, answer), answered' = answered
    PROVE  Proper(r)'
<1>1. picked' = picked /\ cell' = cell /\ now' = now /\ r \in Denial /\ Shape /\ answer \in Answer
  BY DEF Steps
<1>2. /\ Rest(r) /\ Others(r) /\ req'[r].at = "done" /\ req'[r].answer = answer
      /\ req'[r].why = "none"
  BY <1>1, Replying DEF Steps, Live, Proper, Staged
<1>3. Script(r)' = Script(r) /\ Arriving' = Arriving
  BY <1>1, SameScene
<1>4. ~Reached(r)' /\ RightlyRefused(r)'
  BY <1>2 DEF Reached, RightlyRefused
<1>5. Staged(r)'
  BY <1>1, <1>2, <1>3 DEF Staged, Steps, Proper, Live, Rest, Shape
<1>6. Proved(r)'
  BY <1>1, <1>2, <1>3, SameScene DEF Proved, Steps, Proper, Rest, BeforeSession, AfterSession
<1>7. Keyed(r)'
  BY <1>2, <1>4, KeysStay DEF Keyed
<1> QED
  BY <1>4, <1>5, <1>6, <1>7 DEF Proper

LEMMA PassedOn ==
    ASSUME NEW r, Steps(r), Live(r), NEW stage \in Stage \ {"idle", "done"}, Pass(r, stage),
           answered' = answered
    PROVE  /\ Staged(r)' /\ RightlyRefused(r)' /\ Rest(r) /\ req'[r].at = stage
           /\ Reached(r)' <=> stage = "handler"
           /\ Script(r)' = Script(r)
<1>1. picked' = picked /\ cell' = cell /\ now' = now /\ r \in Denial /\ Shape /\ stage \in Stage
  BY DEF Steps
<1>2. /\ Rest(r) /\ Others(r) /\ req'[r].at = stage /\ req'[r].answer = "none"
      /\ req'[r].why = "none"
  BY <1>1, Passing DEF Steps, Live, Proper, Staged
<1>3. Script(r)' = Script(r) /\ Arriving' = Arriving
  BY <1>1, SameScene
<1>4. (Reached(r)' <=> stage = "handler") /\ RightlyRefused(r)'
  BY <1>2 DEF Reached, RightlyRefused
<1>5. Staged(r)'
  BY <1>1, <1>2, <1>3 DEF Staged, Steps, Proper, Live, Rest
<1> QED
  BY <1>2, <1>3, <1>4, <1>5

----------------------------------------------------------------------------
(* Layer by layer.                                                         *)

LEMMA ArriveIsProper ==
    ASSUME NEW r, Steps(r), Arrive(r)
    PROVE  Proper(r)' /\ Others(r) /\ (req \in [Denial -> Request])'
<1>1. picked' = picked /\ cell' = cell /\ now' = now /\ answered' = answered /\ r \in Denial
      /\ Shape /\ slot \in Router
  BY DEF Steps, Arrive, Local, vars, Shape
<1>2. Script(r)' = Script(r) /\ Arriving' = Arriving /\ Request' = Request
  BY <1>1, SameScene DEF Request
<1>3. /\ req[r].at = "idle" /\ req'[r].at = IF slot = "whole" THEN "bearer" ELSE "edge"
      /\ req'[r].router = slot
      /\ req'[r].window = req[r].window /\ req'[r].call = req[r].call
      /\ req'[r].principal = req[r].principal /\ req'[r].admitted = req[r].admitted
      /\ req'[r].answer = req[r].answer /\ req'[r].why = req[r].why
      /\ Others(r)
  BY <1>1 DEF Arrive, Shape, Request, Others
<1>4. /\ req'[r].answer = "none" /\ req'[r].why = "none" /\ req'[r].admitted = {}
      /\ req'[r].principal = "none"
  BY <1>3 DEF Steps, Proper, Staged, Proved, Keyed
<1>5. ~Reached(r)' /\ RightlyRefused(r)'
  BY <1>3, <1>4 DEF Reached, RightlyRefused
<1>6. Staged(r)'
  BY <1>1, <1>2, <1>3, <1>4 DEF Staged, Steps, Proper, Arrive
<1>7. Proved(r)'
  BY <1>2, <1>3, <1>4 DEF Proved, BeforeSession, AfterSession
<1>8. Keyed(r)'
  BY <1>3, <1>4, <1>5 DEF Keyed, CountedAt
<1>9. (req \in [Denial -> Request])'
  <2> DEFINE stage == IF slot = "whole" THEN "bearer" ELSE "edge"
  <2>1. req[r] \in Request /\ stage \in Stage
    BY <1>1 DEF Shape, Stage
  <2> HIDE DEF stage
  <2>2. [req[r] EXCEPT !.at = stage, !.router = slot] \in Request
    BY <1>1, <2>1 DEF Request
  <2>3. req' = [req EXCEPT ![r] = [req[r] EXCEPT !.at = stage, !.router = slot]]
    BY DEF Arrive, stage
  <2> QED
    BY <1>1, <1>2, <2>2, <2>3 DEF Shape
<1> QED
  BY <1>3, <1>5, <1>6, <1>7, <1>8, <1>9 DEF Proper

(* Where a request goes on before the session layer, and what it shows.    *)
LEMMA BearerGateIsProper ==
    ASSUME NEW r, Steps(r), BearerGate(r)
    PROVE  Proper(r)' /\ Others(r) /\ (req \in [Denial -> Request])'
<1> DEFINE s == Script(r)
<1>1. /\ Live(r) /\ answered' = answered /\ req[r].at = "bearer" /\ picked' = picked
      /\ r \in Denial /\ Shape
  BY DEF Steps, BearerGate, Local, vars, Live
<1>2. \/ \E answer \in {"ambiguous", "invalid", "unauthorized"} : Reply(r, answer)
      \/ Pass(r, "session")
      \/ Pass(r, "validate") /\ Declared(s.path) # Absent
  BY DEF BearerGate
<1>3. CASE \E answer \in {"ambiguous", "invalid", "unauthorized"} : Reply(r, answer)
  BY <1>1, <1>3, AnsweredIsProper, Replying DEF Answer
<1>4. CASE Pass(r, "session")
  <2>1. /\ Staged(r)' /\ RightlyRefused(r)' /\ Rest(r) /\ req'[r].at = "session" /\ ~Reached(r)'
    BY <1>1, <1>4, PassedOn DEF Stage
  <2>2. Proved(r)'
    BY <1>1, <2>1, SameScene DEF Proved, Steps, Proper, Rest, BeforeSession, AfterSession
  <2>3. ~CountedAt(r, "edge") /\ req[r].principal = "none"
    BY <1>1 DEF Steps, Proper, Keyed, Proved, CountedAt
  <2>4. Keyed(r)'
    BY <2>1, <2>3, KeysStay DEF Keyed, Rest
  <2>5. Others(r) /\ (req \in [Denial -> Request])'
    BY <1>1, <1>4, Passing DEF Stage
  <2> QED
    BY <2>1, <2>2, <2>4, <2>5 DEF Proper
<1>5. CASE Pass(r, "validate") /\ Declared(s.path) # Absent
  <2>1. /\ Staged(r)' /\ RightlyRefused(r)' /\ Rest(r) /\ req'[r].at = "validate" /\ ~Reached(r)'
    BY <1>1, <1>5, PassedOn DEF Stage
  <2>2. Proved(r)'
    BY <1>1, <1>5, <2>1, SameScene
    DEF Proved, Steps, Proper, Rest, BeforeSession, AfterSession
  <2>3. req[r].admitted = {}
    BY <1>1 DEF Steps, Proper, Keyed
  <2>4. Keyed(r)'
    BY <2>1, <2>3, KeysStay DEF Keyed, Rest
  <2>5. Others(r) /\ (req \in [Denial -> Request])'
    BY <1>1, <1>5, Passing DEF Stage
  <2> QED
    BY <2>1, <2>2, <2>4, <2>5 DEF Proper
<1> QED
  BY <1>2, <1>3, <1>4, <1>5

(* The answer of a refusal that no handler and no gate made.               *)
LEMMA LayerRefusalIsProper ==
    ASSUME NEW r, Steps(r), Live(r), NEW why \in {"service", "role"}, ReplyRefused(r, why)
    PROVE  Proper(r)'
<1>1. picked' = picked /\ cell' = cell /\ now' = now /\ r \in Denial /\ Shape /\ why \in Why
  BY DEF Steps, Why
<1>2. /\ Rest(r) /\ req'[r].at = "done" /\ req'[r].answer = "refused" /\ req'[r].why = why
      /\ answered' = answered \cup {r}
  BY <1>1, Refusing
<1>3. Script(r)' = Script(r) /\ Arriving' = Arriving
  BY <1>1, SameScene
<1>4. ~Reached(r)' /\ RightlyRefused(r)'
  BY <1>2 DEF Reached, RightlyRefused
<1>5. Staged(r)'
  BY <1>1, <1>2, <1>3 DEF Staged, Steps, Proper, Live, Rest
<1>6. Proved(r)'
  BY <1>1, <1>2, SameScene DEF Proved, Steps, Proper, Rest, BeforeSession, AfterSession
<1>7. Keyed(r)'
  BY <1>2, <1>4, KeysStay DEF Keyed
<1> QED
  BY <1>4, <1>5, <1>6, <1>7 DEF Proper

LEMMA ValidateIsProper ==
    ASSUME NEW r, Steps(r), Validate(r)
    PROVE  Proper(r)' /\ Others(r) /\ (req \in [Denial -> Request])'
<1> DEFINE s == Script(r)
           Judges == req' = [req EXCEPT ![r] = [@ EXCEPT !.at = "count", !.principal = "token"]]
<1>1. Live(r) /\ req[r].at = "validate" /\ picked' = picked /\ r \in Denial /\ Shape
  BY DEF Steps, Validate, Live
<1>2. \/ Reply(r, "unauthorized") /\ Local
      \/ Reply(r, "failed") /\ Local
      \/ ReplyRefused(r, "service")
      \/ /\ s.authorization = "person" \/ (s.authorization = "service" /\ Declared(s.path).service)
         /\ Judges /\ Local
  BY DEF Validate
<1>3. CASE \E answer \in {"unauthorized", "failed"} : Reply(r, answer) /\ Local
  <2>1. answered' = answered
    BY <1>3 DEF Local, vars
  <2> QED
    BY <1>1, <1>3, <2>1, AnsweredIsProper, Replying DEF Answer
<1>4. CASE ReplyRefused(r, "service")
  BY <1>1, <1>4, LayerRefusalIsProper, Refusing DEF Why
<1>5. CASE /\ s.authorization = "person" \/ (s.authorization = "service" /\ Declared(s.path).service)
           /\ Judges /\ Local
  <2>1. answered' = answered /\ cell' = cell /\ now' = now
    BY <1>5 DEF Local, vars
  <2>2. Script(r)' = Script(r) /\ Arriving' = Arriving /\ Request' = Request
    BY <1>1, SameScene DEF Request
  <2>3. /\ req'[r].at = "count" /\ req'[r].principal = "token"
        /\ req'[r].window = req[r].window /\ req'[r].router = req[r].router
        /\ req'[r].admitted = req[r].admitted
        /\ req'[r].answer = req[r].answer /\ req'[r].why = req[r].why
        /\ Others(r)
    BY <1>1, <1>5 DEF Shape, Request, Others
  <2>4. req'[r].answer = "none" /\ req'[r].why = "none" /\ req'[r].admitted = {}
    BY <1>1, <2>3 DEF Steps, Proper, Staged, Keyed
  <2>5. ~Reached(r)' /\ RightlyRefused(r)'
    BY <2>3, <2>4 DEF Reached, RightlyRefused
  <2>6. Staged(r)'
    BY <1>1, <2>1, <2>2, <2>3, <2>4 DEF Staged, Steps, Proper
  <2>7. Proved(r)'
    BY <1>1, <1>5, <2>2, <2>3, SameScene DEF Proved, Steps, Proper, BeforeSession, AfterSession
  <2>8. Keyed(r)'
    BY <2>3, <2>4, <2>5 DEF Keyed
  <2>9. (req \in [Denial -> Request])'
    <3>1. req[r] \in Request
      BY <1>1 DEF Shape
    <3>2. [req[r] EXCEPT !.at = "count", !.principal = "token"] \in Request
      BY <3>1 DEF Request, Stage
    <3>3. req' = [req EXCEPT ![r] = [req[r] EXCEPT !.at = "count", !.principal = "token"]]
      BY <1>5
    <3> QED
      BY <1>1, <2>2, <3>2, <3>3 DEF Shape
  <2> QED
    BY <2>3, <2>5, <2>6, <2>7, <2>8, <2>9 DEF Proper
<1> QED
  BY <1>2, <1>3, <1>4, <1>5

LEMMA ReadClockIsProper ==
    ASSUME NEW r, Steps(r), ReadClock(r)
    PROVE  Proper(r)' /\ Others(r) /\ (req \in [Denial -> Request])'
<1> DEFINE stage == IF req[r].at = "count" THEN "counting" ELSE "limiting"
<1>1. /\ picked' = picked /\ cell' = cell /\ now' = now /\ answered' = answered /\ r \in Denial
      /\ Shape /\ req[r].at \in {"count", "limit"} /\ stage \in Stage /\ now \in Nat
  BY DEF Steps, ReadClock, Local, vars, Shape, Stage
<1>2. Script(r)' = Script(r) /\ Arriving' = Arriving /\ Request' = Request
  BY <1>1, SameScene DEF Request
<1>3. req' = [req EXCEPT ![r] = [req[r] EXCEPT !.at = stage, !.window = now]]
  BY DEF ReadClock
<1>4. req[r] \in Request
  BY <1>1 DEF Shape
<1>5. [req[r] EXCEPT !.at = stage, !.window = now] \in Request
  <2> HIDE DEF stage
  <2> QED
    BY <1>1, <1>4 DEF Request
<1>6. /\ req'[r].at = stage /\ req'[r].window = now
      /\ req'[r].router = req[r].router /\ req'[r].principal = req[r].principal
      /\ req'[r].admitted = req[r].admitted /\ req'[r].call = req[r].call
      /\ req'[r].answer = req[r].answer /\ req'[r].why = req[r].why
      /\ Others(r)
  BY <1>1, <1>3, <1>4 DEF Shape, Request, Others
<1>7. req'[r].answer = "none" /\ req'[r].why = "none"
  BY <1>1, <1>6 DEF Steps, Proper, Staged
<1>8. ~Reached(r)' /\ RightlyRefused(r)'
  BY <1>6, <1>7 DEF Reached, RightlyRefused
<1>9. Staged(r)'
  BY <1>1, <1>2, <1>6, <1>7 DEF Staged, Steps, Proper
<1>10. Proved(r)'
  BY <1>1, <1>6, SameScene DEF Proved, Steps, Proper, BeforeSession, AfterSession
<1>11. Keyed(r)'
  <2>1. \A key \in req'[r].admitted :
           \E w \in 0 .. now' : key = BearerKey(r, w)' \/ key = EdgeKey(r, w)'
    BY <1>1, <1>6, SameScene DEF Steps, Proper, Keyed
  <2>2. CountedAt(r, "edge")' = CountedAt(r, "edge")
        /\ CountedAt(r, "bearer")' = CountedAt(r, "bearer")
    BY <1>6 DEF CountedAt
  <2>3. req[r].at = "count" => req'[r].admitted = {}
    BY <1>6 DEF Steps, Proper, Keyed
  <2>4. req[r].at = "limit" =>
          /\ ~CountedAt(r, "edge")
          /\ (req[r].principal = "token" => CountedAt(r, "bearer"))
    BY DEF Steps, Proper, Keyed
  <2>5. CASE req[r].at = "count"
    <3>1. req'[r].at = "counting"
      BY <1>6, <2>5
    <3> QED
      BY <1>8, <2>1, <2>3, <2>5, <3>1 DEF Keyed
  <2>6. CASE req[r].at = "limit"
    <3>1. req'[r].at = "limiting"
      BY <1>6, <2>6
    <3>2. ~CountedAt(r, "edge")' /\ (req'[r].principal = "token" => CountedAt(r, "bearer")')
      <4>1. req'[r].admitted = req[r].admitted /\ req'[r].principal = req[r].principal
        BY <1>6
      <4>2. ~CountedAt(r, "edge") /\ (req[r].principal = "token" => CountedAt(r, "bearer"))
        BY <2>4, <2>6
      <4> QED
        BY <4>1, <4>2 DEF CountedAt
    <3> QED
      BY <1>8, <2>1, <3>1, <3>2 DEF Keyed
  <2> QED
    BY <1>1, <2>5, <2>6
<1>12. (req \in [Denial -> Request])'
  BY <1>1, <1>2, <1>3, <1>5 DEF Shape
<1> QED
  BY <1>6, <1>8, <1>9, <1>10, <1>11, <1>12 DEF Proper

LEMMA SessionLayerIsProper ==
    ASSUME NEW r, Steps(r), SessionLayer(r)
    PROVE  Proper(r)' /\ Others(r) /\ (req \in [Denial -> Request])'
<1> DEFINE s == Script(r)
           Opens == req' = [req EXCEPT ![r] = [@ EXCEPT !.at = "edge", !.principal = "session"]]
<1>1. /\ Live(r) /\ answered' = answered /\ req[r].at = "session" /\ picked' = picked
      /\ r \in Denial /\ Shape /\ cell' = cell /\ now' = now
  BY DEF Steps, SessionLayer, Local, vars, Live
<1>2. \/ \E answer \in {"ambiguous", "unauthorized", "failed"} : Reply(r, answer)
      \/ ~Both(s) /\ Pass(r, "edge")
      \/ ~Both(s) /\ s.session = "live" /\ Opens
  BY DEF SessionLayer
<1>3. CASE \E answer \in {"ambiguous", "unauthorized", "failed"} : Reply(r, answer)
  BY <1>1, <1>3, AnsweredIsProper, Replying DEF Answer
<1>4. CASE ~Both(s) /\ Pass(r, "edge")
  <2>1. /\ Staged(r)' /\ RightlyRefused(r)' /\ Rest(r) /\ req'[r].at = "edge" /\ ~Reached(r)'
    BY <1>1, <1>4, PassedOn DEF Stage
  <2>2. Proved(r)'
    BY <1>1, <1>4, <2>1, SameScene
    DEF Proved, Steps, Proper, Rest, BeforeSession, AfterSession
  <2>3. ~CountedAt(r, "edge") /\ (req[r].principal = "token" => CountedAt(r, "bearer"))
    BY <1>1 DEF Steps, Proper, Keyed
  <2>4. Keyed(r)'
    BY <2>1, <2>3, KeysStay DEF Keyed, Rest
  <2>5. Others(r) /\ (req \in [Denial -> Request])'
    BY <1>1, <1>4, Passing DEF Stage
  <2> QED
    BY <2>1, <2>2, <2>4, <2>5 DEF Proper
<1>5. CASE ~Both(s) /\ s.session = "live" /\ Opens
  <2>1. Script(r)' = Script(r) /\ Arriving' = Arriving /\ Request' = Request
    BY <1>1, SameScene DEF Request
  <2>2. /\ req'[r].at = "edge" /\ req'[r].principal = "session"
        /\ req'[r].window = req[r].window /\ req'[r].router = req[r].router
        /\ req'[r].admitted = req[r].admitted
        /\ req'[r].answer = req[r].answer /\ req'[r].why = req[r].why
        /\ Others(r)
    BY <1>1, <1>5 DEF Shape, Request, Others
  <2>3. /\ req'[r].answer = "none" /\ req'[r].why = "none"
        /\ ~CountedAt(r, "edge") /\ req[r].router = "whole"
    BY <1>1, <2>2 DEF Steps, Proper, Staged, Keyed, Proved, BeforeSession
  <2>4. ~Reached(r)' /\ RightlyRefused(r)'
    BY <2>2, <2>3 DEF Reached, RightlyRefused
  <2>5. Staged(r)'
    BY <1>1, <2>1, <2>2, <2>3 DEF Staged, Steps, Proper
  <2>6. Proved(r)'
    BY <1>1, <1>5, <2>1, <2>2, <2>3, SameScene DEF Proved, BeforeSession, AfterSession
  <2>7. Keyed(r)'
    <3>1. \A key \in req'[r].admitted :
             \E w \in 0 .. now' : key = BearerKey(r, w)' \/ key = EdgeKey(r, w)'
      BY <1>1, <2>2, SameScene DEF Steps, Proper, Keyed
    <3>2. CountedAt(r, "edge")' = CountedAt(r, "edge")
      BY <2>2 DEF CountedAt
    <3> QED
      BY <2>2, <2>3, <2>4, <3>1, <3>2 DEF Keyed
  <2>8. (req \in [Denial -> Request])'
    <3>1. req[r] \in Request
      BY <1>1 DEF Shape
    <3>2. [req[r] EXCEPT !.at = "edge", !.principal = "session"] \in Request
      BY <3>1 DEF Request, Stage
    <3>3. req' = [req EXCEPT ![r] = [req[r] EXCEPT !.at = "edge", !.principal = "session"]]
      BY <1>5
    <3> QED
      BY <1>1, <2>1, <3>2, <3>3 DEF Shape
  <2> QED
    BY <2>2, <2>4, <2>5, <2>6, <2>7, <2>8 DEF Proper
<1> QED
  BY <1>2, <1>3, <1>4, <1>5

LEMMA EnterEdgeIsProper ==
    ASSUME NEW r, Steps(r), EnterEdge(r)
    PROVE  Proper(r)' /\ Others(r) /\ (req \in [Denial -> Request])'
<1>1. /\ Live(r) /\ answered' = answered /\ req[r].at = "edge" /\ picked' = picked
      /\ r \in Denial /\ Shape /\ cell' = cell /\ now' = now
  BY DEF Steps, EnterEdge, Local, vars, Live
<1>2. CASE Reply(r, "notFound")
  BY <1>1, <1>2, AnsweredIsProper, Replying DEF Answer
<1>3. CASE Probed(Script(r).path) /\ Reply(r, "served")
  <2>1. /\ Rest(r) /\ Others(r) /\ req'[r].at = "done" /\ req'[r].answer = "served"
        /\ req'[r].why = "none" /\ (req \in [Denial -> Request])'
    BY <1>1, <1>3, Replying DEF Answer, Steps, Proper, Staged, Live
  <2>2. Script(r)' = Script(r) /\ Arriving' = Arriving
    BY <1>1, SameScene
  <2>3. ~Reached(r)' /\ RightlyRefused(r)'
    BY <1>3, <2>1, <2>2 DEF Reached, RightlyRefused, Probed
  <2>4. Staged(r)'
    BY <1>1, <2>1, <2>2 DEF Staged, Steps, Proper, Rest
  <2>5. Proved(r)'
    BY <1>1, <2>1, SameScene DEF Proved, Steps, Proper, Rest, BeforeSession, AfterSession
  <2>6. Keyed(r)'
    BY <2>1, <2>3, KeysStay DEF Keyed
  <2> QED
    BY <2>1, <2>3, <2>4, <2>5, <2>6 DEF Proper
<1>4. CASE req[r].router # "probes" /\ Pass(r, "csrf")
  <2>1. /\ Staged(r)' /\ RightlyRefused(r)' /\ Rest(r) /\ req'[r].at = "csrf" /\ ~Reached(r)'
    BY <1>1, <1>4, PassedOn DEF Stage
  <2>2. Proved(r)'
    BY <1>1, <1>4, <2>1, SameScene
    DEF Proved, Steps, Proper, Rest, BeforeSession, AfterSession
  <2>3. ~CountedAt(r, "edge") /\ (req[r].principal = "token" => CountedAt(r, "bearer"))
    BY <1>1 DEF Steps, Proper, Keyed
  <2>4. Keyed(r)'
    BY <2>1, <2>3, KeysStay DEF Keyed, Rest
  <2>5. Others(r) /\ (req \in [Denial -> Request])'
    BY <1>1, <1>4, Passing DEF Stage
  <2> QED
    BY <2>1, <2>2, <2>4, <2>5 DEF Proper
<1> QED
  BY <1>2, <1>3, <1>4 DEF EnterEdge

(* A cookie's request that changes something shows the pair: what is exempt*)
(* has no session, or is under /auth.                                      *)
LEMMA CsrfCheckIsProper ==
    ASSUME NEW r, Steps(r), CsrfCheck(r)
    PROVE  Proper(r)' /\ Others(r) /\ (req \in [Denial -> Request])'
<1> DEFINE s == Script(r)
           stage == IF OnOperatorMount(s.path) THEN "role" ELSE "limit"
<1>1. /\ Live(r) /\ answered' = answered /\ req[r].at = "csrf" /\ picked' = picked
      /\ r \in Denial /\ Shape /\ cell' = cell /\ now' = now /\ stage \in Stage \ {"idle", "done"}
  BY DEF Steps, CsrfCheck, Local, vars, Live, Stage
<1>2. \/ Reply(r, "csrf")
      \/ (Exempt(s) \/ ~s.unsafe \/ s.pair) /\ Pass(r, stage)
  BY DEF CsrfCheck
<1>3. CASE Reply(r, "csrf")
  BY <1>1, <1>3, AnsweredIsProper, Replying DEF Answer
<1>4. CASE (Exempt(s) \/ ~s.unsafe \/ s.pair) /\ Pass(r, stage)
  <2>1. /\ Staged(r)' /\ RightlyRefused(r)' /\ Rest(r) /\ req'[r].at = stage
        /\ Reached(r)' <=> stage = "handler"
        /\ Script(r)' = Script(r)
    <3> HIDE DEF stage
    <3> QED
      BY <1>1, <1>4, PassedOn
  <2>2. ~Reached(r)'
    BY <2>1
  <2>3. req[r].principal = "session" => (s.unsafe /\ ~UnderAuth(s.path) => s.pair)
    <3>1. req[r].principal = "session" => s.session = "live" /\ ~Both(s)
      BY <1>1 DEF Steps, Proper, Proved, AfterSession, Shape, Request
    <3> QED
      BY <1>4, <3>1 DEF Exempt, Both
  <2>4. Proved(r)'
    BY <1>1, <2>1, <2>3, SameScene
    DEF Proved, Steps, Proper, Rest, BeforeSession, AfterSession
  <2>5. ~CountedAt(r, "edge") /\ (req[r].principal = "token" => CountedAt(r, "bearer"))
    BY <1>1 DEF Steps, Proper, Keyed
  <2>6. Keyed(r)'
    BY <2>1, <2>2, <2>5, KeysStay DEF Keyed, Rest
  <2>7. Others(r) /\ (req \in [Denial -> Request])'
    <3> HIDE DEF stage
    <3> QED
      BY <1>1, <1>4, Passing
  <2> QED
    BY <2>1, <2>2, <2>4, <2>6, <2>7 DEF Proper
<1> QED
  BY <1>2, <1>3, <1>4

(* What a request at the handler has shown is what CredentialsKept asks.   *)
LEMMA HandlerIsCleared ==
    ASSUME NEW r, Steps(r), Rest(r)
    PROVE  /\ Cleared(r)' <=> Cleared(r)
           /\ Script(r)' = Script(r)
<1>1. picked' = picked
  BY DEF Steps
<1>2. Script(r)' = Script(r) /\ Declared(Script(r).path)' = Declared(Script(r).path)
  BY <1>1, SameScene
<1> QED
  BY <1>2 DEF Cleared, Rest

LEMMA RoleGateIsProper ==
    ASSUME NEW r, Steps(r), RoleGate(r)
    PROVE  Proper(r)' /\ Others(r) /\ (req \in [Denial -> Request])'
<1> DEFINE s == Script(r)
<1>1. /\ Live(r) /\ req[r].at = "role" /\ picked' = picked
      /\ r \in Denial /\ Shape
  BY DEF Steps, RoleGate, Live
<1>2. \/ Reply(r, "unauthorized") /\ Local
      \/ RoleHeld(r) /\ Pass(r, "handler") /\ Local
      \/ ReplyRefused(r, "role")
  BY DEF RoleGate
<1>3. CASE Reply(r, "unauthorized") /\ Local
  <2>1. answered' = answered
    BY <1>3 DEF Local, vars
  <2> QED
    BY <1>1, <1>3, <2>1, AnsweredIsProper, Replying DEF Answer
<1>4. CASE ReplyRefused(r, "role")
  BY <1>1, <1>4, LayerRefusalIsProper, Refusing DEF Why
<1>5. CASE RoleHeld(r) /\ Pass(r, "handler") /\ Local
  <2>1. answered' = answered
    BY <1>5 DEF Local, vars
  <2>2. /\ Staged(r)' /\ RightlyRefused(r)' /\ Rest(r) /\ req'[r].at = "handler"
    BY <1>1, <1>5, <2>1, PassedOn DEF Stage
  <2>3. Cleared(r)
    BY <1>1, <1>5 DEF Steps, Proper, Proved, AfterSession, Cleared, RoleHeld
  <2>4. Cleared(r)'
    BY <2>2, <2>3, HandlerIsCleared
  <2>5. Proved(r)'
    BY <1>1, <1>5, <2>2, SameScene
    DEF Proved, Steps, Proper, Rest, BeforeSession, AfterSession, RoleHeld
  <2>6. OnOperatorMount(s.path) \/ CountedAt(r, "edge")
    BY <1>1 DEF Steps, Proper, Keyed
  <2>7. Keyed(r)'
    BY <2>2, <2>6, KeysStay, HandlerIsCleared DEF Keyed, OnOperatorMount
  <2>8. Others(r) /\ (req \in [Denial -> Request])'
    BY <1>1, <1>5, Passing DEF Stage
  <2> QED
    BY <2>2, <2>4, <2>5, <2>7, <2>8 DEF Proper
<1> QED
  BY <1>2, <1>3, <1>4, <1>5

LEMMA FinishIsProper ==
    ASSUME NEW r, Steps(r), Finish(r)
    PROVE  Proper(r)' /\ Others(r) /\ (req \in [Denial -> Request])'
<1>1. /\ Live(r) /\ answered' = answered /\ req[r].at = "handler" /\ picked' = picked
      /\ r \in Denial /\ Shape /\ cell' = cell /\ now' = now /\ Reached(r)
  BY DEF Steps, Finish, Local, vars, Live, Reached
<1>2. /\ Rest(r) /\ Others(r) /\ req'[r].at = "done" /\ req'[r].answer = "served"
      /\ req'[r].why = "none" /\ (req \in [Denial -> Request])'
  BY <1>1, Replying DEF Finish, Answer, Steps, Proper, Staged, Live
<1>3. Script(r)' = Script(r) /\ Arriving' = Arriving
  BY <1>1, SameScene
<1>4. RightlyRefused(r)'
  BY <1>2 DEF RightlyRefused
<1>5. Cleared(r)'
  BY <1>1, <1>2, HandlerIsCleared DEF Steps, Proper
<1>6. Staged(r)'
  BY <1>1, <1>2, <1>3 DEF Staged, Steps, Proper, Rest
<1>7. Proved(r)'
  BY <1>1, <1>2, SameScene DEF Proved, Steps, Proper, Rest, BeforeSession, AfterSession
<1>8. OnOperatorMount(Script(r).path) \/ CountedAt(r, "edge")
  BY <1>1 DEF Steps, Proper, Keyed
<1>9. Keyed(r)'
  BY <1>2, <1>3, <1>8, KeysStay DEF Keyed, OnOperatorMount
<1> QED
  BY <1>2, <1>4, <1>5, <1>6, <1>7, <1>9 DEF Proper

----------------------------------------------------------------------------
(* The gate.                                                               *)

(* What the gate answers: a triple nobody was granted is not one the build *)
(* verified.                                                               *)
LEMMA VerdictSays ==
    ASSUME NEW m, NEW q
    PROVE  /\ Verdict(m, q) \in Why \cup {"allow"}
           /\ Verdict(m, q) \in {"unknown_service", "no_grant"} =>
                 \/ q.service \notin DOMAIN m.services
                 \/ ~\E cap \in Elements(Granted(m, q.service)) : Covers(cap, q.kind, q.resource)
           /\ Verdict(m, q) = "allow" =>
                 /\ q.service \in DOMAIN m.services
                 /\ \E cap \in Elements(Granted(m, q.service)) :
                       Covers(cap, q.kind, q.resource) /\ Admits(cap, q)
BY DEF Verdict, Why

(* The triple of a call that is not an argument is the facade's.           *)
LEMMA AskedIsTheFacades ==
    ASSUME NEW facade, NEW call, call.method \notin {"fenced", "http.egress"}
    PROVE  LET q == RequestOf(facade, call)
           IN  q.service = facade.service /\ q.kind = facade.kind /\ q.resource = facade.resource
BY DEF RequestOf

LEMMA RefusalIsRight ==
    ASSUME NEW m, NEW sites, NEW call, Verified(m, sites), call.site \in DOMAIN sites,
           Verdict(m, RequestOf(sites[call.site], call)) \in {"unknown_service", "no_grant"},
           call.method \notin {"fenced", "http.egress"}
    PROVE  LET facade == sites[call.site]
           IN  facade.named # [service |-> facade.service, kind |-> facade.kind,
                               resource |-> facade.resource]
<1> DEFINE facade == sites[call.site]
           q == RequestOf(facade, call)
           named == [service |-> facade.service, kind |-> facade.kind,
                     resource |-> facade.resource]
<1>1. SUFFICES ASSUME facade.named = named PROVE FALSE
  OBVIOUS
<1>2. q.service = facade.service /\ q.kind = facade.kind /\ q.resource = facade.resource
  BY AskedIsTheFacades
<1>3. facade.service \in DOMAIN m.services
      /\ \E cap \in Elements(Granted(m, facade.service)) :
            Covers(cap, facade.kind, facade.resource)
  BY <1>1 DEF Verified
<1> QED
  <2> HIDE DEF q, facade
  <2> QED
    BY <1>2, <1>3, VerdictSays DEF q, facade

(* A host the gate lets through lies under the domain that was granted.    *)
LEMMA HostIsUnder ==
    ASSUME NEW pattern, IsList(pattern), pattern # <<>>, NEW host, IsList(host),
           MatchesHost(pattern, host)
    PROVE  IF pattern[1] = "*"
           THEN \E sub \in 1 .. Len(host) : host = SubSeq(host, 1, sub) \o Tail(pattern)
           ELSE host = pattern
<1>1. Head(pattern) = pattern[1]
  BY DEF IsList
<1>2. CASE pattern[1] = "*"
  <2>1. PICK i \in 2 .. Len(host) : SubSeq(host, i, Len(host)) = Tail(pattern)
    BY <1>1, <1>2 DEF MatchesHost
  <2>2. Len(host) \in Nat /\ i - 1 \in 1 .. Len(host)
    BY DEF IsList
  <2>3. host = SubSeq(host, 1, i - 1) \o SubSeq(host, i, Len(host))
    BY <2>2 DEF IsList
  <2> QED
    BY <1>2, <2>1, <2>2, <2>3
<1>3. CASE pattern[1] # "*"
  BY <1>1, <1>3 DEF MatchesHost
<1> QED
  BY <1>2, <1>3

(* What the gate asks for is what will be touched.                         *)
LEMMA AskedIsTouched ==
    ASSUME NEW facade, NEW call, Fits(facade, call)
    PROVE  LET q == RequestOf(facade, call)
               t == Touched(facade, call)
           IN  /\ t.service = q.service /\ t.kind = q.kind /\ t.on = q.resource
               /\ q.key # Absent => t.key = q.key /\ q.key = call.key
               /\ q.kind = "http.egress" => q.resource = call.host
<1>1. CASE call.method = "fenced"
  BY <1>1 DEF RequestOf, Touched, TableKind, KvKind, CounterKind
<1>2. CASE call.method = "http.egress"
  BY <1>2 DEF RequestOf, Touched, TableKind, KvKind, CounterKind, Fits
<1>3. CASE call.method \in TableKind
  BY <1>3 DEF RequestOf, Touched, TableKind, KvKind, CounterKind, Fits
<1>4. CASE call.method \in KvKind \cup CounterKind \cup {"lock.acquire", "notify.publish"}
  BY <1>4 DEF RequestOf, Touched, TableKind, KvKind, CounterKind, Fits
<1>5. CASE call.method \notin {"fenced", "http.egress"} \cup TableKind \cup KvKind
                              \cup CounterKind \cup {"lock.acquire", "notify.publish"}
  BY <1>5 DEF RequestOf, Touched, Fits
<1> QED
  BY <1>1, <1>2, <1>3, <1>4, <1>5

(* A service was granted what the manifest says, under the name it has.    *)
LEMMA GrantedIsDeclared ==
    ASSUME NEW m, ManifestShaped(m), Valid(m), NEW service \in DOMAIN m.services,
           NEW cap \in Elements(Granted(m, service))
    PROVE  /\ cap \in Elements(m.capabilities)
           /\ \E j \in DOMAIN m.services[service] : m.services[service][j] = cap.id
<1> DEFINE ids == m.services[service]
<1>1. ids \in Seq(Elements(ids)) /\ Len(ids) \in Nat /\ DOMAIN ids = 1 .. Len(ids)
  BY DEF ManifestShaped, IsList
<1>2. Len(Granted(m, service)) = Len(ids)
  <2>1. Granted(m, service) \in Seq({Granted(m, service)[i] : i \in 1 .. Len(ids)})
        /\ Len(Granted(m, service)) = Len(ids)
    <3> HIDE DEF ids
    <3> QED
      BY <1>1 DEF Granted, ids
  <2> QED
    BY <2>1
<1>3. PICK j \in 1 .. Len(ids) : cap = Granted(m, service)[j]
  BY <1>2 DEF Elements
<1>4. cap = CHOOSE c \in Elements(m.capabilities) : c.id = ids[j]
  BY <1>1, <1>3 DEF Granted
<1>5. \E c \in Elements(m.capabilities) : c.id = ids[j]
  BY <1>1 DEF Valid, ServicesValid, Elements
<1>6. cap \in Elements(m.capabilities) /\ cap.id = ids[j]
  BY <1>4, <1>5
<1> QED
  BY <1>1, <1>6

(* The gate allows nothing but what the ceiling declares: whatever facade  *)
(* and arguments a call names.                                             *)
LEMMA AllowedIsPermitted ==
    ASSUME NEW m, ManifestShaped(m), Valid(m), NEW facade, NEW call, Fits(facade, call),
           call.key # Absent => IsList(call.key), IsList(call.host),
           Verdict(m, RequestOf(facade, call)) = "allow"
    PROVE  Permitted(m, Touched(facade, call))
<1> DEFINE q == RequestOf(facade, call)
           t == Touched(facade, call)
<1>1. /\ t.service = q.service /\ t.kind = q.kind /\ t.on = q.resource
      /\ q.key # Absent => t.key = q.key /\ q.key = call.key
      /\ q.kind = "http.egress" => q.resource = call.host
  BY AskedIsTouched
<1> HIDE DEF q, t
<1>2. q.service \in DOMAIN m.services
      /\ \E cap \in Elements(Granted(m, q.service)) :
            Covers(cap, q.kind, q.resource) /\ Admits(cap, q)
  BY VerdictSays DEF q
<1>3. PICK cap \in Elements(Granted(m, q.service)) :
              Covers(cap, q.kind, q.resource) /\ Admits(cap, q)
  BY <1>2
<1>4. /\ cap \in Elements(m.capabilities)
      /\ \E j \in DOMAIN m.services[q.service] : m.services[q.service][j] = cap.id
  BY <1>2, GrantedIsDeclared
<1>5. PICK i \in DOMAIN m.capabilities : cap = m.capabilities[i]
  BY <1>4 DEF ManifestShaped, IsList, Elements
<1>6. IF t.kind = "http.egress" /\ cap.resource[1] = "*"
      THEN \E sub \in 1 .. Len(t.on) : t.on = SubSeq(t.on, 1, sub) \o Tail(cap.resource)
      ELSE t.on = cap.resource
  <2>1. CASE q.kind = "http.egress"
    <3>1. MatchesHost(cap.resource, call.host) /\ IsList(cap.resource) /\ cap.resource # <<>>
      BY <1>1, <1>3, <1>4, <2>1 DEF Covers, ManifestShaped
    <3> QED
      BY <1>1, <2>1, <3>1, HostIsUnder
  <2>2. CASE q.kind # "http.egress"
    BY <1>1, <1>3, <2>2 DEF Covers
  <2> QED
    BY <2>1, <2>2
<1>7. cap.prefix # Absent =>
         t.key # Absent /\ \E n \in 0 .. Len(t.key) : SubSeq(t.key, 1, n) = cap.prefix
  <2>1. SUFFICES ASSUME cap.prefix # Absent
                 PROVE  t.key # Absent /\ \E n \in 0 .. Len(t.key) : SubSeq(t.key, 1, n) = cap.prefix
    OBVIOUS
  <2>2. q.key # Absent /\ StartsWith(q.key, cap.prefix)
    BY <1>3, <2>1 DEF Admits
  <2>3. t.key = q.key /\ IsList(t.key) /\ IsList(cap.prefix)
    BY <1>1, <1>4, <2>1, <2>2 DEF ManifestShaped
  <2>4. Len(cap.prefix) \in 0 .. Len(t.key)
    BY <2>2, <2>3 DEF StartsWith, IsList
  <2> QED
    BY <2>2, <2>3, <2>4 DEF StartsWith
<1>8. cap.kind = t.kind
  BY <1>1, <1>3 DEF Covers
<1>9. \E j \in DOMAIN m.services[t.service] : m.services[t.service][j] = cap.id
  BY <1>1, <1>4
<1>10. Permitted(m, t)
  BY <1>5, <1>6, <1>7, <1>8, <1>9 DEF Permitted
<1> QED
  BY <1>10 DEF t

(* Governed::call: a refusal is right, and what runs is permitted.         *)
LEMMA CallIsProper ==
    ASSUME NEW r, Steps(r), Call(r)
    PROVE  Proper(r)' /\ Others(r) /\ (req \in [Denial -> Request])'
<1> DEFINE call == Script(r).calls[req[r].call]
           facade == scene.sites[call.site]
           verdict == Verdict(scene.manifest, RequestOf(facade, call))
           Performs == req' = [req EXCEPT ![r].call = @ + 1]
<1>1. /\ Live(r) /\ req[r].at = "handler" /\ picked' = picked /\ cell' = cell /\ now' = now
      /\ r \in Denial /\ Shape /\ Reached(r) /\ Cleared(r) /\ cell = "up" /\ r \in Arriving
  BY DEF Steps, Call, Live, Reached, Proper, Staged
<1>2. Script(r)' = Script(r) /\ Arriving' = Arriving /\ Request' = Request /\ scene' = scene
  BY <1>1, SameScene DEF Request
<1>3. OnOperatorMount(Script(r).path) \/ CountedAt(r, "edge")
  BY <1>1 DEF Steps, Proper, Keyed
<1>4. \/ \E answer \in {"invalid", "failed"} : Reply(r, answer) /\ Local
      \/ verdict # "allow" /\ ReplyRefused(r, verdict)
      \/ Performs /\ UNCHANGED <<vars, picked, cell, slot, now, counts>>
  BY DEF Call
<1>5. CASE \E answer \in {"invalid", "failed"} : Reply(r, answer) /\ Local
  <2>1. answered' = answered
    BY <1>5 DEF Local, vars
  <2> QED
    BY <1>1, <1>5, <2>1, AnsweredIsProper, Replying DEF Answer
<1>6. CASE verdict # "allow" /\ ReplyRefused(r, verdict)
  <2>1. verdict \in Why
    BY <1>6, VerdictSays
  <2>2. /\ Rest(r) /\ Others(r) /\ req'[r].at = "done" /\ req'[r].answer = "refused"
        /\ req'[r].why = verdict
        /\ answered' = answered \cup {r} /\ (req \in [Denial -> Request])'
    <3> HIDE DEF verdict
    <3> QED
      BY <1>1, <1>6, <2>1, Refusing
  <2>3. Staged(r)'
    BY <1>1, <1>2, <2>2 DEF Staged, Steps, Proper, Rest
  <2>4. Proved(r)'
    BY <1>1, <2>2, SameScene DEF Proved, Steps, Proper, Rest, BeforeSession, AfterSession
  <2>5. Cleared(r)'
    BY <1>1, <2>2, HandlerIsCleared
  <2>6. Keyed(r)'
    BY <1>2, <1>3, <2>2, KeysStay DEF Keyed, OnOperatorMount
  <2>7. call.site \in DOMAIN scene.sites
    <3>1. req[r].call \in 1 .. Len(Script(r).calls)
      <4>1. req[r].call \in Nat \ {0}
        BY <1>1 DEF Steps, Shape, Request
      <4>2. Len(Script(r).calls) \in Nat
        BY <1>1, ScenesAssumption DEF Shape, Script, scene, Arriving, IsList
      <4>3. req[r].call <= Len(Script(r).calls)
        BY <1>6 DEF Call, ReplyRefused
      <4> QED
        BY <4>1, <4>2, <4>3
    <3>2. call \in Elements(Script(r).calls)
      BY <3>1 DEF Elements
    <3>3. \A c \in Elements(Script(r).calls) : CallShaped(c, scene.sites)
      BY <1>1, ScenesAssumption DEF Shape, Script, scene, Arriving
    <3> QED
      BY <3>2, <3>3 DEF CallShaped
  <2>8. RightlyRefused(r)'
    <3>1. SUFFICES ASSUME verdict \in {"unknown_service", "no_grant"},
                          call.method \notin {"fenced", "http.egress"}
                   PROVE  facade.named # [service |-> facade.service, kind |-> facade.kind,
                                          resource |-> facade.resource]
      <4>1. RightlyRefused(r)' <=>
              (verdict \in {"unknown_service", "no_grant"} =>
                 \/ call.method \in {"fenced", "http.egress"}
                 \/ facade.named # [service |-> facade.service, kind |-> facade.kind,
                                    resource |-> facade.resource])
        <5>1. req'[r].why = verdict /\ req'[r].call = req[r].call
          BY <2>2 DEF Rest
        <5> HIDE DEF verdict
        <5> QED
          BY <1>2, <5>1 DEF RightlyRefused
      <4> QED
        BY <4>1
    <3>2. Verified(scene.manifest, scene.sites)
      BY <1>1 DEF Steps, Booted
    <3> QED
      BY <2>7, <3>1, <3>2, RefusalIsRight
  <2> QED
    BY <2>2, <2>3, <2>4, <2>5, <2>6, <2>8 DEF Proper
<1>7. CASE Performs /\ UNCHANGED <<vars, picked, cell, slot, now, counts>>
  <2>1. answered' = answered
    BY <1>7 DEF vars
  <2>2. /\ req'[r].at = "handler" /\ req'[r].principal = req[r].principal
        /\ req'[r].window = req[r].window /\ req'[r].router = req[r].router
        /\ req'[r].admitted = req[r].admitted
        /\ req'[r].answer = req[r].answer /\ req'[r].why = req[r].why
        /\ Others(r)
    BY <1>1, <1>7 DEF Shape, Request, Others
  <2>3. req'[r].answer = "none" /\ req'[r].why = "none"
    BY <1>1, <2>2 DEF Steps, Proper, Staged
  <2>4. Staged(r)'
    BY <1>1, <1>2, <2>1, <2>2, <2>3 DEF Staged, Steps, Proper
  <2>5. Proved(r)'
    BY <1>1, <2>2, SameScene DEF Proved, Steps, Proper, BeforeSession, AfterSession, RoleHeld
  <2>6. Cleared(r)'
    BY <1>1, <2>2, SameScene DEF Cleared
  <2>7. RightlyRefused(r)'
    BY <2>3 DEF RightlyRefused
  <2>8. Keyed(r)'
    <3>1. \A key \in req'[r].admitted :
             \E w \in 0 .. now' : key = BearerKey(r, w)' \/ key = EdgeKey(r, w)'
      BY <1>1, <2>2, SameScene DEF Steps, Proper, Keyed
    <3>2. CountedAt(r, "edge")' <=> CountedAt(r, "edge")
      BY <2>2 DEF CountedAt
    <3> QED
      BY <1>2, <1>3, <2>2, <3>1, <3>2 DEF Keyed, OnOperatorMount
  <2>9. (req \in [Denial -> Request])'
    <3>1. req[r] \in Request
      BY <1>1 DEF Shape
    <3>2. [req[r] EXCEPT !.call = req[r].call + 1] \in Request
      BY <3>1 DEF Request
    <3>3. req' = [req EXCEPT ![r] = [req[r] EXCEPT !.call = req[r].call + 1]]
      BY <1>7
    <3> QED
      BY <1>1, <1>2, <3>2, <3>3 DEF Shape
  <2> QED
    BY <2>2, <2>4, <2>5, <2>6, <2>7, <2>8, <2>9 DEF Proper
<1> QED
  BY <1>4, <1>5, <1>6, <1>7

(* What a call touched is within the ceiling the chain is committed to.    *)
LEMMA CallKeepsCeiling ==
    ASSUME NEW r, Steps(r), CeilingKept, Call(r)
    PROVE  CeilingKept'
<1> DEFINE call == Script(r).calls[req[r].call]
           facade == scene.sites[call.site]
<1>1. /\ picked' = picked /\ r \in Denial /\ Shape /\ cell = "up" /\ r \in Arriving
      /\ scene.adopted = scene.manifest /\ Valid(scene.manifest)
  BY DEF Steps, Call, Proper, Staged, Booted
<1>2. scene' = scene
  BY <1>1, SameScene
<1>3. \/ performed' = performed
      \/ /\ performed' = performed \cup {Touched(facade, call)}
         /\ Fits(facade, call) /\ Verdict(scene.manifest, RequestOf(facade, call)) = "allow"
  BY DEF Call, Local, ReplyRefused
<1>4. CASE performed' = performed
  BY <1>2, <1>4 DEF CeilingKept
<1>5. CASE /\ performed' = performed \cup {Touched(facade, call)}
           /\ Fits(facade, call) /\ Verdict(scene.manifest, RequestOf(facade, call)) = "allow"
  <2>1. call \in Elements(Script(r).calls)
    <3>1. req[r].call \in Nat \ {0}
      BY <1>1 DEF Steps, Shape, Request
    <3>2. Len(Script(r).calls) \in Nat
      BY <1>1, ScenesAssumption DEF Shape, Script, scene, Arriving, IsList
    <3>3. req[r].call <= Len(Script(r).calls)
      BY <1>5 DEF Call, ReplyRefused
    <3>4. req[r].call \in 1 .. Len(Script(r).calls)
      BY <3>1, <3>2, <3>3
    <3> QED
      BY <3>4 DEF Elements
  <2>2. ManifestShaped(scene.manifest) /\ CallShaped(call, scene.sites)
    BY <1>1, <2>1, ScenesAssumption DEF Shape, Script, scene, Arriving
  <2>3. Permitted(scene.manifest, Touched(facade, call))
    <3> HIDE DEF call, facade
    <3> QED
      BY <1>1, <1>5, <2>2, AllowedIsPermitted DEF CallShaped
  <2>4. \A t \in performed' : Permitted(scene.adopted, t)
    <3> HIDE DEF call, facade
    <3> QED
      BY <1>1, <1>5, <2>3 DEF CeilingKept
  <2> QED
    BY <1>2, <2>4 DEF CeilingKept
<1> QED
  BY <1>3, <1>4, <1>5

----------------------------------------------------------------------------
(* The limiters.                                                           *)

(* The longest declared prefix is there when any fits.                     *)
LEMMA LongestFits ==
    ASSUME NEW entries, \A e \in entries : e # Absent /\ IsList(e.prefix),
           NEW path, IsList(path)
    PROVE  LET fitting == {e \in entries : StartsWith(path, e.prefix)}
           IN  /\ fitting = {} => Longest(entries, path) = Absent
               /\ fitting # {} => Longest(entries, path) \in fitting
<1> DEFINE fitting == {e \in entries : StartsWith(path, e.prefix)}
           Gaps == {Len(path) - Len(e.prefix) : e \in fitting}
<1>1. CASE fitting = {}
  BY <1>1 DEF Longest
<1>2. CASE fitting # {}
  <2>1. \A e \in fitting : Len(e.prefix) \in Nat /\ Len(path) - Len(e.prefix) \in Nat
    BY DEF IsList, StartsWith
  <2>2. Gaps \in SUBSET Nat /\ Gaps # {}
    BY <1>2, <2>1
  <2>3. PICK x \in Gaps : \A y \in Gaps : x <= y
    <3> HIDE DEF Gaps
    <3>1. IsWellFoundedOn(OpToRel(<, Nat), Nat)
      BY NatLessThanWellFounded
    <3> DEFINE Less == OpToRel(<, Nat)
    <3>2. \A a, b \in Nat : b < a => <<b, a>> \in Less
      BY DEF OpToRel
    <3> HIDE DEF Less
    <3>3. PICK x \in Gaps : \A y \in Gaps : ~(<<y, x>> \in Less)
      BY <2>2, <3>1, WFMin DEF Less
    <3>4. ASSUME NEW y \in Gaps PROVE ~(y < x)
      BY <2>2, <3>2, <3>3
    <3>5. \A y \in Gaps : x <= y
      BY <2>2, <3>4
    <3> QED
      BY <3>5
  <2>4. PICK e \in fitting : x = Len(path) - Len(e.prefix)
    BY <2>3
  <2>5. \A f \in fitting : Len(f.prefix) <= Len(e.prefix)
    <3>1. SUFFICES ASSUME NEW f \in fitting PROVE Len(f.prefix) <= Len(e.prefix)
      OBVIOUS
    <3>2. x <= Len(path) - Len(f.prefix)
      BY <2>3
    <3>3. Len(path) \in Nat
      BY DEF IsList
    <3> QED
      BY <2>1, <2>4, <3>2, <3>3
  <2>6. (CHOOSE d \in fitting : \A f \in fitting : Len(f.prefix) <= Len(d.prefix)) \in fitting
    BY <2>5
  <2>7. Longest(entries, path)
          = CHOOSE d \in fitting : \A f \in fitting : Len(f.prefix) <= Len(d.prefix)
    BY <1>2 DEF Longest
  <2> QED
    BY <1>2, <2>6, <2>7
<1> QED
  BY <1>1, <1>2

(* The ceiling of a group is the group's: two paths that share one share   *)
(* its ceiling.                                                            *)
LEMMA GroupHasOneLimit ==
    ASSUME Shape, NEW r \in Arriving, NEW q \in Arriving,
           GroupOf(Script(r).path).prefix = GroupOf(Script(q).path).prefix
    PROVE  /\ GroupOf(Script(r).path).limit = GroupOf(Script(q).path).limit
           /\ GroupOf(Script(r).path).limit \in Nat
<1> DEFINE Fitting(p) == {e \in scene.groups : StartsWith(p, e.prefix)}
<1>1. /\ \A g \in scene.groups : g # Absent /\ IsList(g.prefix) /\ g.limit \in Nat
      /\ \A g, h \in scene.groups : g.prefix = h.prefix => g = h
      /\ scene.limit \in Nat
      /\ \A s \in Arriving : IsList(Script(s).path)
  BY ScenesAssumption DEF Shape, Script, scene, Arriving
<1>2. ASSUME NEW s \in Arriving
      PROVE  \/ /\ Fitting(Script(s).path) = {}
                /\ GroupOf(Script(s).path) = [prefix |-> <<>>, limit |-> scene.limit]
             \/ /\ GroupOf(Script(s).path) \in scene.groups
  <2>1. IsList(Script(s).path)
    BY <1>1
  <2>2. CASE Fitting(Script(s).path) = {}
    <3>1. Longest(scene.groups, Script(s).path) = Absent
      BY <1>1, <2>1, <2>2, LongestFits
    <3> QED
      BY <2>2, <3>1 DEF GroupOf
  <2>3. CASE Fitting(Script(s).path) # {}
    <3>1. Longest(scene.groups, Script(s).path) \in Fitting(Script(s).path)
      BY <1>1, <2>1, <2>3, LongestFits
    <3>2. Longest(scene.groups, Script(s).path) # Absent
      BY <1>1, <3>1
    <3> QED
      BY <3>1, <3>2 DEF GroupOf
  <2> QED
    BY <2>2, <2>3
<1>3. ASSUME NEW s \in Arriving, NEW g \in scene.groups, g.prefix = <<>>
      PROVE  g \in Fitting(Script(s).path)
  <2>1. Len(Script(s).path) \in Nat /\ SubSeq(Script(s).path, 1, 0) = <<>> /\ Len(<<>>) = 0
    BY <1>1 DEF IsList
  <2>2. Len(g.prefix) = 0 /\ SubSeq(Script(s).path, 1, Len(g.prefix)) = g.prefix
    BY <1>3, <2>1
  <2>3. Len(g.prefix) <= Len(Script(s).path)
    BY <2>1, <2>2
  <2>4. StartsWith(Script(s).path, g.prefix)
    BY <2>2, <2>3 DEF StartsWith
  <2> QED
    BY <2>4
<1>4. CASE /\ Fitting(Script(r).path) = {}
           /\ GroupOf(Script(r).path) = [prefix |-> <<>>, limit |-> scene.limit]
  <2>1. GroupOf(Script(q).path) \notin scene.groups
    BY <1>3, <1>4
  <2> QED
    BY <1>1, <1>2, <1>4, <2>1
<1>5. CASE GroupOf(Script(r).path) \in scene.groups
  <2>1. CASE /\ Fitting(Script(q).path) = {}
             /\ GroupOf(Script(q).path) = [prefix |-> <<>>, limit |-> scene.limit]
    BY <1>3, <1>5, <2>1
  <2>2. CASE GroupOf(Script(q).path) \in scene.groups
    BY <1>1, <1>5, <2>2
  <2> QED
    BY <1>2, <2>1, <2>2
<1> QED
  BY <1>2, <1>4, <1>5

(* The entry between two lists lies where the first of them ends.          *)
LEMMA BetweenTwo ==
    ASSUME NEW U, NEW a \in Seq(U), NEW b \in Seq(U), NEW x, <<x>> \in Seq(U)
    PROVE  /\ Len(a \o <<x>> \o b) = Len(a) + 1 + Len(b)
           /\ (a \o <<x>> \o b)[Len(a) + 1] = x
<1>1. a \o <<x>> \in Seq(U) /\ Len(a \o <<x>>) = Len(a) + 1 /\ (a \o <<x>>)[Len(a) + 1] = x
  OBVIOUS
<1> QED
  BY <1>1

(* client_identity::identify finds who the client is, whatever it wrote.   *)
LEMMA IdentifyFinds ==
    ASSUME Shape, NEW r \in Arriving
    PROVE  Identify(Script(r)) = Script(r).client
<1> DEFINE s == Script(r)
           proxies == [i \in 1 .. scene.hops - 1 |-> "proxy"]
<1>1. scene.hops \in Nat /\ IsList(s.forged)
  BY ScenesAssumption DEF Shape, Script, scene, Arriving
<1>2. CASE scene.hops = 0
  BY <1>2 DEF Identify, Peer
<1>3. CASE scene.hops # 0
  <2>1. proxies \in Seq({"proxy"}) /\ Len(proxies) = scene.hops - 1
    BY <1>1, <1>3
  <2>2. s.forged \in Seq(Elements(s.forged)) /\ Len(s.forged) \in Nat
    BY <1>1 DEF IsList
  <2> DEFINE U == Elements(s.forged) \cup {s.client, "proxy"}
  <2>3. s.forged \in Seq(U) /\ proxies \in Seq(U) /\ <<s.client>> \in Seq(U)
    <3>1. s.forged \in Seq(U)
      BY <2>2
    <3>2. proxies \in Seq(U)
      <4>1. \A i \in 1 .. scene.hops - 1 : proxies[i] \in U
        OBVIOUS
      <4> HIDE DEF U
      <4> QED
        BY <1>1, <1>3, <4>1
    <3> QED
      BY <3>1, <3>2
  <2>4. Header(s) = s.forged \o <<s.client>> \o proxies
    BY <1>3 DEF Header
  <2>5. /\ Len(Header(s)) = Len(s.forged) + 1 + Len(proxies)
        /\ Header(s)[Len(s.forged) + 1] = s.client
    <3> HIDE DEF proxies, U, s
    <3> QED
      BY <2>3, <2>4, BetweenTwo
  <2>6. Len(Header(s)) - scene.hops + 1 = Len(s.forged) + 1 /\ ~(Len(Header(s)) < scene.hops)
    <3> HIDE DEF proxies, U, s
    <3> QED
      BY <1>1, <1>3, <2>1, <2>2, <2>5
  <2> QED
    BY <1>3, <2>5, <2>6 DEF Identify
<1> QED
  BY <1>2, <1>3

(* What counter_add does: it answers nothing, or counts one and lets the   *)
(* request through or not.                                                 *)
CountedIn(r) ==
    counts' = [k \in DOMAIN counts \cup {KeyOf(r)} |->
                  Spent(k) + IF k = KeyOf(r) THEN 1 ELSE 0]
AfterCount(r) == IF req[r].at = "counting" THEN "session"
                 ELSE IF RoleGated(Script(r).path) THEN "role" ELSE "handler"
LetThrough(r) ==
    /\ req' = [req EXCEPT ![r] = [req[r] EXCEPT !.admitted = @ \cup {KeyOf(r)},
                                                !.at = AfterCount(r)]]
    /\ Spent(KeyOf(r)) + 1 <= Ceiling(r)

LEMMA CountAddDoes ==
    ASSUME NEW r, CountAdd(r)
    PROVE  \/ Reply(r, "failed") /\ counts' = counts
           \/ CountedIn(r) /\ LetThrough(r)
           \/ CountedIn(r) /\ Reply(r, "limited")
BY DEF CountAdd, CountedIn, LetThrough, AfterCount, Admitted

LEMMA KeyCounted ==
    ASSUME NEW r, Steps(r), req[r].at \in {"counting", "limiting"}
    PROVE  /\ KeyOf(r) \in Counter /\ req[r].window \in 0 .. now /\ req[r] \in Request
           /\ req[r].at = "counting" => /\ KeyOf(r) = BearerKey(r, req[r].window)
                                        /\ KeyOf(r)[1] = "bearer"
           /\ req[r].at = "limiting" => /\ KeyOf(r) = EdgeKey(r, req[r].window)
                                        /\ KeyOf(r)[1] = "edge"
<1>1. req[r].window \in 0 .. now /\ req[r].window \in Nat /\ r \in Denial /\ req[r] \in Request
  BY DEF Steps, Shape, Request, Proper, Staged
<1>2. CASE req[r].at = "counting"
  BY <1>1, <1>2 DEF KeyOf, BearerKey, Counter
<1>3. CASE req[r].at = "limiting"
  BY <1>1, <1>3 DEF KeyOf, EdgeKey, Counter
<1> QED
  BY <1>1, <1>2, <1>3

LEMMA CountAddIsProper ==
    ASSUME NEW r, Steps(r), CountAdd(r)
    PROVE  Proper(r)' /\ Others(r) /\ (req \in [Denial -> Request])'
<1> DEFINE s == Script(r)
           stage == AfterCount(r)
           key == KeyOf(r)
<1>1. /\ Live(r) /\ answered' = answered /\ picked' = picked /\ cell' = cell /\ now' = now
      /\ r \in Denial /\ Shape /\ req[r].at \in {"counting", "limiting"}
  BY DEF Steps, CountAdd, vars, Live
<1>2. CASE \E answer \in {"failed", "limited"} : Reply(r, answer)
  BY <1>1, <1>2, AnsweredIsProper, Replying DEF Answer
<1>3. CASE LetThrough(r)
  <2>1. Script(r)' = Script(r) /\ Arriving' = Arriving /\ Request' = Request
    BY <1>1, SameScene DEF Request
  <2>2. /\ key \in Counter /\ req[r].window \in 0 .. now /\ req[r] \in Request
        /\ req[r].at = "counting" => key = BearerKey(r, req[r].window) /\ key[1] = "bearer"
        /\ req[r].at = "limiting" => key = EdgeKey(r, req[r].window) /\ key[1] = "edge"
    BY <1>1, KeyCounted
  <2>3. stage \in Stage /\ stage \notin {"idle", "done"}
    BY DEF AfterCount, Stage
  <2>4. req' = [req EXCEPT ![r] = [req[r] EXCEPT !.admitted = req[r].admitted \cup {key},
                                                 !.at = stage]]
    BY <1>3 DEF LetThrough
  <2> HIDE DEF stage, key
  <2>5. /\ req'[r].at = stage /\ req'[r].admitted = req[r].admitted \cup {key}
        /\ req'[r].window = req[r].window /\ req'[r].router = req[r].router
        /\ req'[r].principal = req[r].principal /\ req'[r].call = req[r].call
        /\ req'[r].answer = req[r].answer /\ req'[r].why = req[r].why
        /\ Others(r)
    BY <1>1, <2>2, <2>4 DEF Shape, Request, Others
  <2>6. (req \in [Denial -> Request])'
    <3>1. [req[r] EXCEPT !.admitted = req[r].admitted \cup {key}, !.at = stage] \in Request
      BY <2>2, <2>3 DEF Request
    <3> QED
      BY <1>1, <2>1, <2>4, <3>1 DEF Shape
  <2>7. req'[r].answer = "none" /\ req'[r].why = "none"
    BY <1>1, <2>5 DEF Steps, Proper, Staged
  <2>8. (Reached(r)' <=> stage = "handler") /\ RightlyRefused(r)'
    BY <2>5, <2>7 DEF Reached, RightlyRefused
  <2>9. Staged(r)'
    BY <1>1, <2>1, <2>3, <2>5, <2>7 DEF Staged, Steps, Proper
  <2>10. \A k \in req'[r].admitted :
            \E w \in 0 .. now' : k = BearerKey(r, w)' \/ k = EdgeKey(r, w)'
    <3>1. \A k \in req[r].admitted :
             \E w \in 0 .. now : k = BearerKey(r, w) \/ k = EdgeKey(r, w)
      BY DEF Steps, Proper, Keyed
    <3>2. \A w : BearerKey(r, w)' = BearerKey(r, w) /\ EdgeKey(r, w)' = EdgeKey(r, w)
      BY <1>1, SameScene
    <3>3. \A k \in req'[r].admitted :
             \E w \in 0 .. now : k = BearerKey(r, w) \/ k = EdgeKey(r, w)
      BY <1>1, <2>2, <2>5, <3>1
    <3> QED
      BY <1>1, <3>2, <3>3
  <2>11. CASE req[r].at = "counting"
    <3>1. stage = "session" /\ req[r].admitted = {}
      BY <2>11 DEF stage, AfterCount, Steps, Proper, Keyed
    <3>2. Proved(r)'
      BY <1>1, <2>5, <2>11, <3>1, SameScene
      DEF Proved, Steps, Proper, BeforeSession, AfterSession
    <3>3. ~CountedAt(r, "edge")' /\ CountedAt(r, "bearer")'
      BY <2>2, <2>5, <2>11, <3>1 DEF CountedAt
    <3>4. Keyed(r)'
      BY <2>5, <2>8, <2>10, <3>1, <3>3 DEF Keyed
    <3> QED
      BY <2>5, <2>6, <2>8, <2>9, <3>1, <3>2, <3>4 DEF Proper
  <2>12. CASE req[r].at = "limiting"
    <3>1. stage = IF RoleGated(s.path) THEN "role" ELSE "handler"
      BY <2>12 DEF stage, AfterCount
    <3>2. Proved(r)'
      <4>1. RoleGated(s.path)' <=> RoleGated(s.path)
        BY <2>1 DEF RoleGated, OnOperatorMount
      <4> QED
        BY <1>1, <2>1, <2>5, <2>12, <3>1, <4>1, SameScene
        DEF Proved, Steps, Proper, BeforeSession, AfterSession, RoleHeld
    <3>3. CountedAt(r, "edge")'
      BY <2>2, <2>5, <2>12 DEF CountedAt
    <3>4. Keyed(r)'
      BY <2>5, <2>8, <2>10, <3>1, <3>3 DEF Keyed
    <3>5. stage = "handler" => Cleared(r)'
      BY <1>1, <2>5, <2>12, <3>1, SameScene
      DEF Cleared, Proved, Steps, Proper, AfterSession
    <3> QED
      BY <2>5, <2>6, <2>8, <2>9, <3>2, <3>4, <3>5 DEF Proper
  <2> QED
    BY <1>1, <2>11, <2>12
<1> QED
  BY <1>2, <1>3, CountAddDoes

----------------------------------------------------------------------------
(* The counters.                                                           *)

(* Only a request that arrived was counted.                                *)
LEMMA ChargedArrived ==
    ASSUME Shape, \A r \in Denial : Proper(r), NEW key
    PROVE  Charged(key) \subseteq Arrived /\ Passed(key) \subseteq Charged(key)
BY DEF Charged, Passed, Arrived, Proper, Staged, Keyed

(* Nothing that a counter depends on moves.                                *)
Unmoved(r) ==
    /\ req'[r].admitted = req[r].admitted
    /\ req'[r] = req[r] \/ (req[r].answer # "limited" /\ req'[r].answer # "limited")

LEMMA UnmovedIsExact ==
    ASSUME Exact, picked' = picked, counts' = counts, \A r \in Denial : Unmoved(r),
           IsFiniteSet(Arrived')
    PROVE  Exact'
<1>1. /\ Arriving' = Arriving /\ Counter' = Counter
      /\ \A r, w : BearerKey(r, w)' = BearerKey(r, w) /\ EdgeKey(r, w)' = EdgeKey(r, w)
      /\ \A r : GroupOf(Script(r).path)' = GroupOf(Script(r).path)
  BY SameScene
<1>2. \A key : Passed(key)' = Passed(key)
  BY DEF Passed, Unmoved
<1>3. \A r \in Denial : req[r].answer = "limited" => req'[r] = req[r]
  BY DEF Unmoved
<1>4. \A r \in Denial : req[r].answer = "limited" => LimitedKey(r)' = LimitedKey(r)
  BY <1>1, <1>3 DEF LimitedKey, CountedAt
<1>5. \A r \in Denial : req[r].answer = "limited" <=> req'[r].answer = "limited"
  BY DEF Unmoved
<1>6. \A key : Charged(key)' = Charged(key)
  BY <1>2, <1>4, <1>5 DEF Charged
<1>7. \A key : Spent(key)' = Spent(key)
  BY DEF Spent
<1> QED
  BY <1>1, <1>2, <1>6, <1>7 DEF Exact

(* Who has not counted yet is not among those a counter counted.           *)
LEMMA NotYetCharged ==
    ASSUME NEW r, Steps(r), req[r].at \in {"counting", "limiting"}
    PROVE  r \notin Charged(KeyOf(r))
<1>1. req[r].answer = "none"
  BY DEF Steps, Proper, Staged
<1>2. CASE req[r].at = "counting"
  BY <1>1, <1>2 DEF Charged, Passed, Steps, Proper, Keyed
<1>3. CASE req[r].at = "limiting"
  <2>1. KeyOf(r)[1] = "edge" /\ ~CountedAt(r, "edge")
    BY <1>3, KeyCounted DEF Steps, Proper, Keyed
  <2> QED
    BY <1>1, <2>1 DEF Charged, Passed, CountedAt
<1> QED
  BY <1>2, <1>3

(* A count that was made is charged to whoever made it, and to nobody else.*)
LEMMA CountIsCharged ==
    ASSUME NEW r, Steps(r), req[r].at \in {"counting", "limiting"}, Others(r),
           LetThrough(r) \/ Reply(r, "limited")
    PROVE  /\ \A k : Charged(k)' = Charged(k) \cup (IF k = KeyOf(r) THEN {r} ELSE {})
           /\ LetThrough(r) =>
                 \A k : Passed(k)' = Passed(k) \cup (IF k = KeyOf(r) THEN {r} ELSE {})
           /\ Reply(r, "limited") => \A k : Passed(k)' = Passed(k)
<1> DEFINE key == KeyOf(r)
<1>1. /\ picked' = picked /\ r \in Denial /\ Shape /\ req[r] \in Request
      /\ req[r].answer = "none"
  BY KeyCounted DEF Steps, Proper, Staged
<1>2. \A q, w : BearerKey(q, w)' = BearerKey(q, w) /\ EdgeKey(q, w)' = EdgeKey(q, w)
  BY <1>1, SameScene
<1>3. \A q \in Denial \ {r} : /\ req'[q] = req[q] /\ LimitedKey(q)' = LimitedKey(q)
  BY <1>2 DEF Others, LimitedKey, CountedAt
<1>4. CASE LetThrough(r)
  <2>1. req' = [req EXCEPT ![r] = [req[r] EXCEPT !.admitted = req[r].admitted \cup {key},
                                                 !.at = AfterCount(r)]]
    BY <1>4 DEF LetThrough
  <2> HIDE DEF key
  <2>2. req'[r].admitted = req[r].admitted \cup {key} /\ req'[r].answer = "none"
    BY <1>1, <2>1 DEF Shape, Request
  <2>3. \A k : Passed(k)' = Passed(k) \cup (IF k = key THEN {r} ELSE {})
    BY <1>1, <1>3, <2>2 DEF Passed
  <2>4. \A k : Charged(k)' = Charged(k) \cup (IF k = key THEN {r} ELSE {})
    BY <1>1, <1>3, <2>2, <2>3 DEF Charged
  <2>5. ~Reply(r, "limited")
    <3>1. Reply(r, "limited") => req'[r].answer = "limited"
      BY <1>1, Replying DEF Answer
    <3> QED
      BY <2>2, <3>1
  <2> QED
    BY <2>3, <2>4, <2>5 DEF key
<1>5. CASE Reply(r, "limited")
  <2>1. /\ req'[r].admitted = req[r].admitted /\ req'[r].answer = "limited"
        /\ req'[r].principal = req[r].principal /\ req'[r].window = req[r].window
    BY <1>1, <1>5, Replying DEF Answer, Rest
  <2>2. LimitedKey(r)' = key
    <3>1. LimitedKey(r)' = LimitedKey(r)
      BY <1>2, <2>1 DEF LimitedKey, CountedAt
    <3>2. CASE req[r].at = "counting"
      <4>1. req[r].principal = "token" /\ ~CountedAt(r, "bearer") /\ key = BearerKey(r, req[r].window)
        BY <3>2, KeyCounted DEF Steps, Proper, Keyed, Proved, CountedAt
      <4> QED
        BY <3>1, <4>1 DEF LimitedKey
    <3>3. CASE req[r].at = "limiting"
      <4>1. ~(req[r].principal = "token" /\ ~CountedAt(r, "bearer"))
            /\ key = EdgeKey(r, req[r].window)
        BY <3>3, KeyCounted DEF Steps, Proper, Keyed
      <4> QED
        BY <3>1, <4>1 DEF LimitedKey
    <3> QED
      BY <3>2, <3>3
  <2> HIDE DEF key
  <2>3. \A k : Passed(k)' = Passed(k)
    BY <1>1, <1>3, <2>1 DEF Passed
  <2>4. \A k : Charged(k)' = Charged(k) \cup (IF k = key THEN {r} ELSE {})
    BY <1>1, <1>3, <2>1, <2>2, <2>3 DEF Charged
  <2>5. ~LetThrough(r)
    <3>1. LetThrough(r) => req'[r].answer = req[r].answer
      BY <1>1 DEF LetThrough, Shape, Request
    <3> QED
      BY <1>1, <2>1, <3>1
  <2> QED
    BY <2>3, <2>4, <2>5 DEF key
<1> QED
  BY <1>4, <1>5

LEMMA CountIsExact ==
    ASSUME NEW r, Steps(r), \A q \in Denial : Proper(q), Exact, Others(r), CountedIn(r),
           req[r].at \in {"counting", "limiting"}, LetThrough(r) \/ Reply(r, "limited"),
           IsFiniteSet(Arrived')
    PROVE  Exact'
<1>0. PICK key : key = KeyOf(r)
  OBVIOUS
<1>1. picked' = picked /\ r \in Denial /\ Shape /\ r \in Arriving
  BY DEF Steps, Proper, Staged
<1>2. /\ Arriving' = Arriving /\ Counter' = Counter
      /\ \A q, w : EdgeKey(q, w)' = EdgeKey(q, w)
      /\ \A q : GroupOf(Script(q).path)' = GroupOf(Script(q).path)
  BY <1>1, SameScene
<1>3. key \in Counter /\ r \notin Charged(key)
  BY <1>0, KeyCounted, NotYetCharged
<1>4. \A k : Spent(k)' = Spent(k) + IF k = key THEN 1 ELSE 0
  <2>1. \A k : Spent(k) \in Nat
    BY <1>1 DEF Shape, Spent
  <2>2. DOMAIN counts' = DOMAIN counts \cup {key}
        /\ \A k \in DOMAIN counts' : counts'[k] = Spent(k) + IF k = key THEN 1 ELSE 0
    BY <1>0 DEF CountedIn
  <2>3. \A k : k \notin DOMAIN counts' => Spent(k) = 0 /\ k # key
    BY <2>2 DEF Spent
  <2> QED
    BY <2>1, <2>2, <2>3 DEF Spent
<1>5. /\ \A k : Charged(k)' = Charged(k) \cup (IF k = key THEN {r} ELSE {})
      /\ LetThrough(r) => \A k : Passed(k)' = Passed(k) \cup (IF k = key THEN {r} ELSE {})
      /\ Reply(r, "limited") => \A k : Passed(k)' = Passed(k)
  BY <1>0, CountIsCharged
<1>6. \A k : IsFiniteSet(Charged(k)) /\ IsFiniteSet(Passed(k))
  BY <1>1, ChargedArrived, FS_Subset DEF Exact
<1>7. \A k \in Counter : Cardinality(Charged(k)') = Spent(k)'
  <2>1. SUFFICES ASSUME NEW k \in Counter PROVE Cardinality(Charged(k)') = Spent(k)'
    OBVIOUS
  <2>2. CASE k = key
    <3>1. Cardinality(Charged(key) \cup {r}) = Cardinality(Charged(key)) + 1
      BY <1>3, <1>6, FS_AddElement
    <3> QED
      BY <1>3, <1>4, <1>5, <2>2, <3>1 DEF Exact
  <2>3. CASE k # key
    <3>1. Charged(k)' = Charged(k) /\ Cardinality(Charged(k)) \in Nat
      BY <1>5, <1>6, <2>3, FS_CardinalityType
    <3> QED
      BY <1>4, <2>3, <3>1 DEF Exact
  <2> QED
    BY <2>2, <2>3
<1>8. \A q \in Arriving, w \in Nat :
         Cardinality(Passed(EdgeKey(q, w))') <= GroupOf(Script(q).path).limit
  <2>1. SUFFICES ASSUME NEW q \in Arriving, NEW w \in Nat
                 PROVE  Cardinality(Passed(EdgeKey(q, w))') <= GroupOf(Script(q).path).limit
    OBVIOUS
  <2>2. CASE EdgeKey(q, w) = key /\ LetThrough(r)
    <3>1. Spent(key) + 1 <= Ceiling(r)
      BY <1>0, <2>2 DEF LetThrough
    <3>2. req[r].at = "limiting" /\ key = EdgeKey(r, req[r].window)
      <4>1. key[1] = "edge"
        BY <2>2 DEF EdgeKey
      <4> QED
        BY <1>0, <4>1, KeyCounted
    <3>3. GroupOf(Script(r).path).prefix = GroupOf(Script(q).path).prefix
      BY <2>2, <3>2 DEF EdgeKey
    <3>4. Ceiling(r) = GroupOf(Script(q).path).limit /\ Ceiling(r) \in Nat
      BY <1>1, <3>2, <3>3, GroupHasOneLimit DEF Ceiling
    <3>5. Passed(key)' \subseteq Charged(key)'
      BY <1>1, <1>5, <2>2, ChargedArrived
    <3>6. IsFiniteSet(Charged(key)')
      <4>1. Charged(key)' = Charged(key) \cup {r}
        BY <1>5
      <4> QED
        BY <1>6, <4>1, FS_AddElement
    <3>7. Cardinality(Passed(key)') <= Cardinality(Charged(key)')
          /\ Cardinality(Passed(key)') \in Nat /\ Cardinality(Charged(key)') \in Nat
      BY <3>5, <3>6, FS_Subset, FS_CardinalityType
    <3>8. Cardinality(Charged(key)') = Spent(key) + 1
      BY <1>3, <1>4, <1>7
    <3> QED
      BY <1>2, <2>2, <3>1, <3>4, <3>7, <3>8
  <2>3. CASE ~(EdgeKey(q, w) = key /\ LetThrough(r))
    <3>1. Passed(EdgeKey(q, w))' = Passed(EdgeKey(q, w))
      BY <1>2, <1>5, <2>3
    <3> QED
      BY <2>1, <3>1 DEF Exact
  <2> QED
    BY <2>2, <2>3
<1>9. \A k \in Counter' : Cardinality(Charged(k))' = Spent(k)'
  BY <1>2, <1>7
<1>10. \A q \in Arriving', w \in Nat :
          Cardinality(Passed(EdgeKey(q, w)))' <= GroupOf(Script(q).path)'.limit
  BY <1>2, <1>8
<1> QED
  BY <1>9, <1>10 DEF Exact

----------------------------------------------------------------------------
(* Every step.                                                             *)

LEMMA InitIInv == FrontInit => IInv
<1> SUFFICES ASSUME FrontInit PROVE IInv
  OBVIOUS
<1>1. /\ picked \in DOMAIN Scenes /\ cell = "source" /\ slot = "probes" /\ now = 0
      /\ counts = [key \in {} |-> 0] /\ req = [r \in Denial |-> Fresh] /\ performed = {}
      /\ answered = {}
  BY DEF FrontInit, Init
<1>2. Fresh \in Request
  BY DEF Fresh, Request, Stage, Router, Answer, Why
<1>3. Shape
  <2>1. scene.windows \in Nat
    BY <1>1, ScenesAssumption DEF scene
  <2>2. now \in 0 .. scene.windows
    BY <1>1, <2>1
  <2>3. DOMAIN counts = {}
    BY <1>1
  <2> QED
    BY <1>1, <1>2, <2>2, <2>3 DEF Shape, Router
<1>4. \A r \in Denial : Proper(r)
  <2>1. SUFFICES ASSUME NEW r \in Denial PROVE Proper(r)
    OBVIOUS
  <2>2. /\ req[r].at = "idle" /\ req[r].answer = "none" /\ req[r].why = "none"
        /\ req[r].admitted = {} /\ req[r].principal = "none" /\ req[r].window = 0
    BY <1>1 DEF Fresh
  <2>3. Staged(r)
    BY <1>1, <2>2 DEF Staged
  <2>4. Proved(r)
    BY <2>2 DEF Proved, BeforeSession, AfterSession
  <2>5. ~Reached(r) /\ RightlyRefused(r)
    BY <2>2 DEF Reached, RightlyRefused
  <2>6. Keyed(r)
    BY <2>2, <2>5 DEF Keyed
  <2> QED
    BY <2>3, <2>4, <2>5, <2>6 DEF Proper
<1>5. Exact
  <2>1. Arrived = {}
    BY <1>1 DEF Arrived, Fresh
  <2>2. \A key : Charged(key) = {} /\ Passed(key) = {} /\ Spent(key) = 0
    BY <1>1 DEF Charged, Passed, Spent, Fresh
  <2>3. IsFiniteSet({}) /\ Cardinality({}) = 0
    BY FS_EmptySet
  <2>4. \A r \in Arriving : GroupOf(Script(r).path).limit \in Nat
    BY <1>3, GroupHasOneLimit
  <2>5. \A r \in Arriving, w \in Nat :
           Cardinality(Passed(EdgeKey(r, w))) <= GroupOf(Script(r).path).limit
    <3>1. \A n \in Nat : 0 <= n
      OBVIOUS
    <3> QED
      BY <2>2, <2>3, <2>4, <3>1
  <2> QED
    BY <2>1, <2>2, <2>3, <2>5 DEF Exact
<1>6. Booted /\ CeilingKept
  BY <1>1 DEF Booted, CeilingKept
<1> QED
  BY <1>3, <1>4, <1>5, <1>6 DEF IInv

(* What the steps of a request share.                                      *)
LEMMA HandleIsProper ==
    ASSUME IInv, NEW r \in Denial, Handle(r)
    PROVE  /\ Steps(r) /\ UNCHANGED slot
           /\ Proper(r)' /\ Others(r) /\ (req \in [Denial -> Request])'
           /\ \A q \in Denial \ {r} : q \in answered' <=> q \in answered
<1>1. /\ Steps(r) /\ UNCHANGED slot
      /\ \A q \in Denial \ {r} : q \in answered' <=> q \in answered
  <2>1. UNCHANGED <<picked, cell, now, slot>>
        /\ \A q \in Denial \ {r} : q \in answered' <=> q \in answered
    <3>1. CASE Arrive(r) \/ BearerGate(r) \/ ReadClock(r) \/ SessionLayer(r) \/ EnterEdge(r)
               \/ CsrfCheck(r) \/ Finish(r)
      BY <3>1 DEF Arrive, BearerGate, ReadClock, SessionLayer, EnterEdge, CsrfCheck, Finish,
                  Local, vars
    <3>2. CASE Validate(r) \/ RoleGate(r)
      BY <3>2 DEF Validate, RoleGate, Local, ReplyRefused, Refuse, vars
    <3>3. CASE CountAdd(r)
      BY <3>3 DEF CountAdd, vars
    <3>4. CASE Call(r)
      BY <3>4 DEF Call, Local, ReplyRefused, Refuse, vars
    <3> QED
      BY <3>1, <3>2, <3>3, <3>4 DEF Handle
  <2> QED
    BY <2>1 DEF IInv, Steps
<1>2. Proper(r)' /\ Others(r) /\ (req \in [Denial -> Request])'
  BY <1>1, ArriveIsProper, BearerGateIsProper, ValidateIsProper, ReadClockIsProper,
     CountAddIsProper, SessionLayerIsProper, EnterEdgeIsProper, CsrfCheckIsProper,
     RoleGateIsProper, FinishIsProper, CallIsProper
  DEF Handle
<1> QED
  BY <1>1, <1>2

(* Only the limiters count.                                                *)
LEMMA OnlyLimitersCount ==
    ASSUME NEW r, Steps(r), Handle(r), ~CountAdd(r)
    PROVE  counts' = counts /\ Unmoved(r)
<1>1. picked' = picked /\ r \in Denial /\ Shape
  BY DEF Steps
<1>2. req[r].at # "done" => req[r].answer = "none"
  BY DEF Steps, Proper, Staged
<1>3. ASSUME NEW answer \in Answer \ {"limited"}, req[r].at # "done", Reply(r, answer)
      PROVE  Unmoved(r)
  BY <1>1, <1>2, <1>3, Replying DEF Unmoved, Rest
<1>4. ASSUME NEW stage \in Stage, req[r].at # "done", Pass(r, stage)
      PROVE  Unmoved(r)
  BY <1>1, <1>2, <1>4, Passing DEF Unmoved, Rest
<1>5. ASSUME NEW why \in Why, req[r].at # "done", ReplyRefused(r, why)
      PROVE  Unmoved(r) /\ counts' = counts
  BY <1>1, <1>2, <1>5, Refusing DEF Unmoved, Rest, ReplyRefused
<1>6. ASSUME NEW q, req[r].at # "done", req' = [req EXCEPT ![r] = q],
             q.admitted = req[r].admitted, q.answer = req[r].answer
      PROVE  Unmoved(r)
  <2>1. req'[r] = q
    BY <1>1, <1>6 DEF Shape
  <2> QED
    BY <1>2, <1>6, <2>1 DEF Unmoved
<1>7. req[r] \in Request
  BY <1>1 DEF Shape
<1>8. CASE Arrive(r)
  <2> DEFINE q == [req[r] EXCEPT !.at = IF slot = "whole" THEN "bearer" ELSE "edge",
                                 !.router = slot]
  <2>1. req' = [req EXCEPT ![r] = q] /\ counts' = counts /\ req[r].at # "done"
    BY <1>8 DEF Arrive, Local
  <2>2. q.admitted = req[r].admitted /\ q.answer = req[r].answer
    BY <1>7 DEF Request
  <2> HIDE DEF q
  <2> QED
    BY <1>6, <2>1, <2>2
<1>9. CASE BearerGate(r)
  BY <1>3, <1>4, <1>9 DEF BearerGate, Local, Answer, Stage
<1>10. CASE Validate(r)
  <2>1. req[r].at # "done"
    BY <1>10 DEF Validate
  <2>2. \/ \E answer \in {"unauthorized", "failed"} : Reply(r, answer) /\ counts' = counts
        \/ ReplyRefused(r, "service")
        \/ /\ req' = [req EXCEPT ![r] = [req[r] EXCEPT !.at = "count", !.principal = "token"]]
           /\ counts' = counts
    BY <1>10 DEF Validate, Local
  <2>3. CASE \E answer \in {"unauthorized", "failed"} : Reply(r, answer) /\ counts' = counts
    BY <1>3, <2>1, <2>3 DEF Answer
  <2>4. CASE ReplyRefused(r, "service")
    BY <1>5, <2>1, <2>4 DEF Why
  <2>5. CASE /\ req' = [req EXCEPT ![r] = [req[r] EXCEPT !.at = "count", !.principal = "token"]]
             /\ counts' = counts
    <3> DEFINE q == [req[r] EXCEPT !.at = "count", !.principal = "token"]
    <3>1. q.admitted = req[r].admitted /\ q.answer = req[r].answer
      BY <1>7 DEF Request
    <3>2. req' = [req EXCEPT ![r] = q]
      BY <2>5
    <3> HIDE DEF q
    <3> QED
      BY <1>6, <2>1, <2>5, <3>1, <3>2
  <2> QED
    BY <2>2, <2>3, <2>4, <2>5
<1>11. CASE ReadClock(r)
  <2> DEFINE q == [req[r] EXCEPT !.at = IF req[r].at = "count" THEN "counting" ELSE "limiting",
                                 !.window = now]
  <2>1. req' = [req EXCEPT ![r] = q] /\ counts' = counts /\ req[r].at # "done"
    BY <1>11 DEF ReadClock, Local
  <2>2. q.admitted = req[r].admitted /\ q.answer = req[r].answer
    BY <1>7 DEF Request
  <2> HIDE DEF q
  <2> QED
    BY <1>6, <2>1, <2>2
<1>12. CASE SessionLayer(r)
  <2>1. req[r].at # "done" /\ counts' = counts
    BY <1>12 DEF SessionLayer, Local
  <2>2. \/ \E answer \in {"ambiguous", "unauthorized", "failed"} : Reply(r, answer)
        \/ Pass(r, "edge")
        \/ req' = [req EXCEPT ![r] = [req[r] EXCEPT !.at = "edge", !.principal = "session"]]
    BY <1>12 DEF SessionLayer
  <2>3. CASE \E answer \in {"ambiguous", "unauthorized", "failed"} : Reply(r, answer)
    BY <1>3, <2>1, <2>3 DEF Answer
  <2>4. CASE Pass(r, "edge")
    BY <1>4, <2>1, <2>4 DEF Stage
  <2>5. CASE req' = [req EXCEPT ![r] = [req[r] EXCEPT !.at = "edge", !.principal = "session"]]
    <3> DEFINE q == [req[r] EXCEPT !.at = "edge", !.principal = "session"]
    <3>1. q.admitted = req[r].admitted /\ q.answer = req[r].answer
      BY <1>7 DEF Request
    <3>2. req' = [req EXCEPT ![r] = q]
      BY <2>5
    <3> HIDE DEF q
    <3> QED
      BY <1>6, <2>1, <3>1, <3>2
  <2> QED
    BY <2>1, <2>2, <2>3, <2>4, <2>5
<1>13. CASE EnterEdge(r) \/ CsrfCheck(r) \/ Finish(r)
  BY <1>3, <1>4, <1>13 DEF EnterEdge, CsrfCheck, Finish, Local, Answer, Stage
<1>14. CASE RoleGate(r)
  BY <1>3, <1>4, <1>5, <1>14 DEF RoleGate, Local, Answer, Stage, Why
<1>15. CASE Call(r)
  <2> DEFINE verdict == Verdict(scene.manifest, RequestOf(scene.sites[Script(r).calls[req[r].call].site],
                                                          Script(r).calls[req[r].call]))
             q == [req[r] EXCEPT !.call = req[r].call + 1]
  <2>1. req[r].at # "done"
    BY <1>15 DEF Call
  <2>2. \/ \E answer \in {"invalid", "failed"} : Reply(r, answer) /\ counts' = counts
        \/ verdict # "allow" /\ ReplyRefused(r, verdict)
        \/ req' = [req EXCEPT ![r] = q] /\ counts' = counts
    BY <1>15 DEF Call, Local
  <2>3. verdict \in Why \cup {"allow"}
    BY VerdictSays
  <2>4. q.admitted = req[r].admitted /\ q.answer = req[r].answer
    BY <1>7 DEF Request
  <2> HIDE DEF verdict, q
  <2> QED
    BY <1>3, <1>5, <1>6, <2>1, <2>2, <2>3, <2>4 DEF Answer
<1> QED
  BY <1>8, <1>9, <1>10, <1>11, <1>12, <1>13, <1>14, <1>15 DEF Handle

LEMMA HandleKeepsIInv ==
    ASSUME IInv, NEW r \in Denial, Handle(r)
    PROVE  IInv'
<1>1. /\ Steps(r) /\ UNCHANGED slot
      /\ Proper(r)' /\ Others(r) /\ (req \in [Denial -> Request])'
      /\ \A q \in Denial \ {r} : q \in answered' <=> q \in answered
  BY HandleIsProper
<1>2. /\ picked' = picked /\ cell' = cell /\ now' = now /\ Shape /\ Booted /\ Exact
      /\ \A q \in Denial : Proper(q)
  BY <1>1 DEF Steps, IInv
<1>3. scene' = scene /\ Counter' = Counter /\ now \in Nat
  BY <1>2, SameScene DEF Shape
<1>4. \A q \in Denial : Proper(q)'
  <2>1. SUFFICES ASSUME NEW q \in Denial \ {r} PROVE Proper(q)'
    BY <1>1
  <2>2. Proper(q) /\ req'[q] = req[q] /\ (q \in answered' <=> q \in answered) /\ now <= now'
    BY <1>1, <1>2, <1>3 DEF Others
  <2> QED
    BY <1>2, <1>3, <2>2, LeftAlone
<1>5. IsFiniteSet(Arrived')
  <2>1. Arrived' \subseteq Arrived \cup {r}
    BY <1>1 DEF Arrived, Others
  <2>2. IsFiniteSet(Arrived \cup {r})
    BY <1>2, FS_AddElement DEF Exact
  <2> QED
    BY <2>1, <2>2, FS_Subset
<1>6. CASE CountAdd(r)
  <2>1. req[r].at \in {"counting", "limiting"}
    BY <1>6 DEF CountAdd
  <2>2. KeyOf(r) \in Counter
    BY <1>1, <2>1, KeyCounted
  <2>3. ASSUME Reply(r, "failed") /\ counts' = counts PROVE Exact' /\ Shape'
    <3>1. Unmoved(r)
      <4>1. req[r].answer = "none"
        BY <2>1 DEF IInv, Proper, Staged
      <4> QED
        BY <1>2, <2>3, <4>1, Replying DEF Unmoved, Rest, Answer
    <3>2. \A q \in Denial : Unmoved(q)
      BY <1>1, <3>1 DEF Unmoved, Others
    <3>3. Exact'
      BY <1>2, <1>5, <2>3, <3>2, UnmovedIsExact
    <3>4. Shape'
      BY <1>1, <1>2, <1>3, <2>3 DEF Shape
    <3> QED
      BY <3>3, <3>4
  <2>4. ASSUME CountedIn(r) /\ (LetThrough(r) \/ Reply(r, "limited")) PROVE Exact' /\ Shape'
    <3>1. Exact'
      BY <1>1, <1>2, <1>5, <2>1, <2>4, CountIsExact
    <3>2. DOMAIN counts' \subseteq Counter /\ \A k \in DOMAIN counts' : counts'[k] \in Nat \ {0}
      <4>1. \A k : Spent(k) \in Nat /\ (k \in DOMAIN counts => Spent(k) # 0)
        BY <1>2 DEF Shape, Spent
      <4>2. PICK key : key = KeyOf(r)
        OBVIOUS
      <4>3. DOMAIN counts' = DOMAIN counts \cup {key}
            /\ \A k \in DOMAIN counts' : counts'[k] = Spent(k) + IF k = key THEN 1 ELSE 0
        BY <2>4, <4>2 DEF CountedIn
      <4>4. DOMAIN counts \subseteq Counter
        BY <1>2 DEF Shape
      <4> QED
        BY <2>2, <4>1, <4>2, <4>3, <4>4
    <3>3. Shape'
      BY <1>1, <1>2, <1>3, <3>2 DEF Shape
    <3> QED
      BY <3>1, <3>3
  <2>5. Exact' /\ Shape' /\ performed' = performed
    BY <1>6, <2>3, <2>4, CountAddDoes DEF CountAdd
  <2>6. Booted' /\ CeilingKept'
    BY <1>2, <1>3, <2>5 DEF Booted, CeilingKept, IInv
  <2> QED
    BY <1>4, <2>5, <2>6 DEF IInv
<1>7. CASE ~CountAdd(r)
  <2>1. counts' = counts /\ Unmoved(r)
    BY <1>1, <1>7, OnlyLimitersCount
  <2>2. \A q \in Denial : Unmoved(q)
    BY <1>1, <2>1 DEF Unmoved, Others
  <2>3. Exact'
    BY <1>2, <1>5, <2>1, <2>2, UnmovedIsExact
  <2>4. Shape' /\ Booted'
    BY <1>1, <1>2, <1>3, <2>1 DEF Shape, Booted
  <2>5. CeilingKept'
    <3>1. CASE Call(r)
      BY <1>1, <3>1, CallKeepsCeiling DEF IInv
    <3>2. CASE ~Call(r)
      <4>1. performed' = performed
        BY <1>7, <3>2 DEF Handle, Arrive, BearerGate, Validate, ReadClock, SessionLayer,
           EnterEdge, CsrfCheck, RoleGate, Finish, Local, ReplyRefused
      <4> QED
        BY <1>3, <4>1 DEF CeilingKept, IInv
    <3> QED
      BY <3>1, <3>2
  <2> QED
    BY <1>4, <2>3, <2>4, <2>5 DEF IInv
<1> QED
  BY <1>6, <1>7

(* What happens beside the requests: the build, the boot, the switch of the*)
(* router, the clock, and the queue.                                       *)
LEMMA ElsewhereKeepsIInv ==
    ASSUME IInv, Build \/ Boot \/ Switch \/ Tick \/ Queue \/ UNCHANGED allVars
    PROVE  IInv'
<1>1. /\ Shape /\ Booted /\ Exact /\ CeilingKept /\ \A r \in Denial : Proper(r)
  BY DEF IInv
<1>2. /\ picked' = picked /\ req' = req /\ counts' = counts /\ performed' = performed
  BY DEF Build, Boot, Switch, Tick, Queue, front, allVars
<1>3. answered' = answered
  BY DEF Build, Boot, Switch, Tick, Queue, vars, allVars, Appender, Take, FindNone, Await, Wake,
         Appended, AppendFails, Settle, LandsLate, BeginDrain, Flush, DrainAbandons, ShutStore,
         DropKernel
<1>4. scene' = scene /\ Counter' = Counter /\ Request' = Request
  BY <1>2, SameScene DEF Request
<1>5. now \in Nat /\ scene.windows \in Nat
  BY <1>1, ScenesAssumption DEF Shape, scene
<1>6. now' \in 0 .. scene.windows /\ now' \in Nat /\ now <= now'
  <2>1. CASE Tick
    BY <1>5, <2>1 DEF Tick
  <2>2. CASE Build \/ Boot \/ Switch \/ Queue \/ UNCHANGED allVars
    <3>1. now' = now
      BY <2>2 DEF Build, Boot, Switch, Queue, front, allVars
    <3> QED
      BY <1>1, <1>5, <3>1 DEF Shape
  <2> QED
    BY <2>1, <2>2
<1>7. /\ cell' \in {"source", "built", "unbuilt", "refused", "up"} /\ slot' \in Router
      /\ (cell = "up" => cell' = "up") /\ Booted'
  <2>1. CASE Build
    BY <1>1, <1>4, <2>1 DEF Build, Booted, Shape
  <2>2. CASE Boot
    <3>1. scene.mode \in {"local", "remote", "none"}
      BY <1>1, ScenesAssumption DEF Shape, scene
    <3> QED
      BY <1>1, <1>4, <2>2, <3>1 DEF Boot, Booted, Shape, Router
  <2>3. CASE Switch \/ Tick \/ Queue \/ UNCHANGED allVars
    <3>1. cell' = cell /\ slot' \in Router
      BY <1>1, <2>3 DEF Switch, Tick, Queue, front, allVars, Shape, Router
    <3> QED
      BY <1>1, <1>4, <3>1 DEF Booted, Shape
  <2> QED
    BY <2>1, <2>2, <2>3
<1>8. Shape'
  BY <1>1, <1>2, <1>4, <1>6, <1>7 DEF Shape
<1>9. \A r \in Denial : Proper(r)'
  BY <1>1, <1>2, <1>3, <1>5, <1>6, <1>7, LeftAlone
<1>10. Exact'
  <2>1. Arrived' = Arrived
    BY <1>2 DEF Arrived
  <2>2. IsFiniteSet(Arrived') /\ \A r \in Denial : Unmoved(r)
    BY <1>1, <1>2, <2>1 DEF Exact, Unmoved
  <2> QED
    BY <1>1, <1>2, <2>2, UnmovedIsExact
<1>11. CeilingKept'
  BY <1>1, <1>2, <1>4 DEF CeilingKept
<1> QED
  BY <1>7, <1>8, <1>9, <1>10, <1>11 DEF IInv

(* The end of the runtime cuts what is in flight, and counts nothing.      *)
LEMMA EndsKeepsIInv ==
    ASSUME IInv, Ends
    PROVE  IInv'
<1>1. /\ Shape /\ Booted /\ Exact /\ CeilingKept /\ \A r \in Denial : Proper(r)
  BY DEF IInv
<1>2. /\ UNCHANGED <<picked, cell, slot, now, counts, performed>> /\ answered' = answered
      /\ req' = [r \in Denial |-> IF r \in InFlight
                                  THEN [req[r] EXCEPT !.at = "done", !.answer = "cut"]
                                  ELSE req[r]]
  BY DEF Ends, EndRuntime
<1>3. scene' = scene /\ Counter' = Counter /\ Request' = Request /\ now \in Nat /\ now <= now'
  <2>1. now \in Nat
    BY <1>1 DEF Shape
  <2>2. now <= now'
    <3>1. now' = now
      BY <1>2
    <3> QED
      BY <2>1, <3>1
  <2>3. scene' = scene /\ Counter' = Counter /\ Request' = Request
    BY <1>2, SameScene DEF Request
  <2> QED
    BY <2>1, <2>2, <2>3
<1>4. \A r \in Denial : req[r] \in Request
  BY <1>1 DEF Shape
<1>5. \A r \in Denial : [req[r] EXCEPT !.at = "done", !.answer = "cut"] \in Request
  BY <1>4 DEF Request, Stage, Answer
<1>6. (req \in [Denial -> Request])'
  BY <1>2, <1>3, <1>4, <1>5
<1>7. Shape'
  BY <1>1, <1>2, <1>3, <1>6 DEF Shape
<1>8. ASSUME NEW r \in Denial, Live(r)
      PROVE  /\ Rest(r) /\ req'[r].at = "done" /\ req'[r].answer = "cut"
             /\ req'[r].why = req[r].why
  <2>1. req'[r] = [req[r] EXCEPT !.at = "done", !.answer = "cut"]
    BY <1>2, <1>8 DEF Live, InFlight
  <2> QED
    BY <1>4, <2>1 DEF Request, Rest
<1>9. ASSUME NEW r \in Denial, ~Live(r) PROVE req'[r] = req[r]
  BY <1>2, <1>9 DEF Live, InFlight
<1>10. \A r \in Denial : Proper(r)'
  <2>1. SUFFICES ASSUME NEW r \in Denial PROVE Proper(r)'
    OBVIOUS
  <2>2. CASE ~Live(r)
    BY <1>1, <1>2, <1>3, <1>9, <2>2, LeftAlone
  <2>3. CASE Live(r)
    <3>1. Steps(r)
      BY <1>1, <1>2 DEF Steps
    <3>2. /\ Rest(r) /\ req'[r].at = "done" /\ req'[r].answer = "cut" /\ req'[r].why = "none"
      BY <1>1, <1>8, <2>3 DEF Proper, Staged, Live
    <3>3. Script(r)' = Script(r) /\ Arriving' = Arriving
      BY <1>2, SameScene
    <3>4. ~Reached(r)' /\ RightlyRefused(r)'
      BY <3>2 DEF Reached, RightlyRefused
    <3>5. Staged(r)'
      BY <1>1, <1>2, <2>3, <3>2, <3>3 DEF Staged, Proper, Live, Rest
    <3>6. Proved(r)'
      BY <1>2, <3>1, <3>2, SameScene DEF Proved, Steps, Proper, Rest, BeforeSession, AfterSession
    <3>7. Keyed(r)'
      BY <3>1, <3>2, <3>4, KeysStay DEF Keyed
    <3> QED
      BY <3>4, <3>5, <3>6, <3>7 DEF Proper
  <2> QED
    BY <2>2, <2>3
<1>11. \A r \in Denial : Unmoved(r)
  <2>1. SUFFICES ASSUME NEW r \in Denial PROVE Unmoved(r)
    OBVIOUS
  <2>2. CASE Live(r)
    <3>1. req[r].answer = "none"
      BY <1>1, <2>2 DEF Proper, Staged, Live
    <3> QED
      BY <1>8, <2>2, <3>1 DEF Unmoved, Rest
  <2>3. CASE ~Live(r)
    BY <1>9, <2>3 DEF Unmoved
  <2> QED
    BY <2>2, <2>3
<1>12. Exact'
  <2>1. Arrived' = Arrived
    BY <1>8, <1>9 DEF Arrived, Live
  <2> QED
    BY <1>1, <1>2, <1>11, <2>1, UnmovedIsExact DEF Exact
<1>13. Booted' /\ CeilingKept'
  BY <1>1, <1>2, <1>3 DEF Booted, CeilingKept
<1> QED
  BY <1>7, <1>10, <1>12, <1>13 DEF IInv

LEMMA NextIInv == IInv /\ [FrontNext]_allVars => IInv'
BY HandleKeepsIInv, ElsewhereKeepsIInv, EndsKeepsIInv DEF FrontNext

LEMMA IInvHolds == FrontSpec => []IInv
BY InitIInv, NextIInv, PTL DEF FrontSpec

(* What the invariant says of the properties.                              *)
LEMMA IInvSaysTypes ==
    ASSUME IInv
    PROVE  FrontTypeOK
<1>1. /\ Shape /\ Exact /\ \A r \in Denial : Proper(r)
  BY DEF IInv
<1>2. \A key \in DOMAIN counts : counts[key] \in 1 .. Cardinality(Arrived)
  <2>1. SUFFICES ASSUME NEW key \in DOMAIN counts
                 PROVE  counts[key] \in 1 .. Cardinality(Arrived)
    OBVIOUS
  <2>2. counts[key] \in Nat \ {0} /\ key \in Counter /\ Spent(key) = counts[key]
    BY <1>1 DEF Shape, Spent
  <2>3. Charged(key) \subseteq Arrived
    BY <1>1, ChargedArrived
  <2>4. Cardinality(Charged(key)) <= Cardinality(Arrived) /\ Cardinality(Arrived) \in Nat
    BY <1>1, <2>3, FS_Subset, FS_CardinalityType DEF Exact
  <2> QED
    BY <1>1, <2>2, <2>4 DEF Exact
<1>3. \A r \in Denial :
         /\ req[r].at \in Stage /\ req[r].router \in Router
         /\ req[r].principal \in {"none", "session", "token"}
         /\ req[r].window \in 0 .. now /\ req[r].answer \in Answer
         /\ (req[r].answer = "refused") = (r \in answered)
  <2>1. SUFFICES ASSUME NEW r \in Denial
                 PROVE  /\ req[r].at \in Stage /\ req[r].router \in Router
                        /\ req[r].principal \in {"none", "session", "token"}
                        /\ req[r].window \in 0 .. now /\ req[r].answer \in Answer
                        /\ (req[r].answer = "refused") = (r \in answered)
    OBVIOUS
  <2>2. req[r] \in Request /\ now \in Nat
    BY <1>1 DEF Shape
  <2>3. req[r].window <= now /\ (req[r].answer = "refused" <=> r \in answered)
    BY <1>1 DEF Proper, Staged
  <2>4. (req[r].answer = "refused") = (r \in answered)
    BY <2>3
  <2>5. /\ req[r].at \in Stage /\ req[r].router \in Router
        /\ req[r].principal \in {"none", "session", "token"}
        /\ req[r].window \in Nat /\ req[r].answer \in Answer
    BY <2>2 DEF Request
  <2>6. req[r].window \in 0 .. now
    BY <2>2, <2>3, <2>5
  <2> QED
    BY <2>4, <2>5, <2>6
<1> QED
  BY <1>1, <1>2, <1>3 DEF FrontTypeOK, Shape

(* A limiter let through, of a client, a group and a window, those whose   *)
(* key it is.                                                              *)
LEMMA IInvLimits ==
    ASSUME IInv
    PROVE  LimitHolds
<1>1. /\ Shape /\ Exact /\ \A r \in Denial : Proper(r)
  BY DEF IInv
<1>2. Arriving \subseteq Denial
  BY <1>1, ScenesAssumption DEF Shape, Arriving, scene
<1>3. ASSUME NEW r \in Arriving, NEW window \in 0 .. now
      PROVE  Cardinality(Through(Script(r).client, GroupOf(Script(r).path).prefix, window))
                <= GroupOf(Script(r).path).limit
  <2> DEFINE through == Through(Script(r).client, GroupOf(Script(r).path).prefix, window)
             key == EdgeKey(r, window)
  <2>1. window \in Nat /\ key \in Counter
    BY <1>1, <1>2 DEF Shape, Counter
  <2>2. through \subseteq Passed(key)
    <3>1. SUFFICES ASSUME NEW q \in through PROVE q \in Passed(key)
      OBVIOUS
    <3>2. /\ q \in Arriving /\ q \in Denial /\ Script(q).client = Script(r).client
          /\ GroupOf(Script(q).path).prefix = GroupOf(Script(r).path).prefix
          /\ \E k \in req[q].admitted :
                k[1] = "edge" /\ k[2] = GroupOf(Script(r).path).prefix /\ k[4] = window
      BY <1>2 DEF Through
    <3>3. PICK k \in req[q].admitted :
                k[1] = "edge" /\ k[2] = GroupOf(Script(r).path).prefix /\ k[4] = window
      BY <3>2
    <3>4. PICK w \in 0 .. now : k = BearerKey(q, w) \/ k = EdgeKey(q, w)
      BY <1>1, <3>2 DEF Proper, Keyed
    <3>5. k = EdgeKey(q, w) /\ w = window
      BY <3>3, <3>4 DEF BearerKey, EdgeKey
    <3>6. Identify(Script(q)) = Identify(Script(r))
      BY <1>1, <3>2, IdentifyFinds
    <3>7. k = key
      BY <3>2, <3>5, <3>6 DEF EdgeKey
    <3> QED
      BY <3>2, <3>7 DEF Passed
  <2>3. IsFiniteSet(Passed(key))
    BY <1>1, ChargedArrived, FS_Subset DEF Exact
  <2>4. Cardinality(through) <= Cardinality(Passed(key))
        /\ Cardinality(through) \in Nat /\ Cardinality(Passed(key)) \in Nat
    BY <2>2, <2>3, FS_Subset, FS_CardinalityType
  <2>5. Cardinality(Passed(key)) <= GroupOf(Script(r).path).limit
    BY <1>1, <2>1 DEF Exact
  <2>6. GroupOf(Script(r).path).limit \in Nat
    BY <1>1, GroupHasOneLimit
  <2> QED
    BY <2>4, <2>5, <2>6
<1>4. \A r \in Arriving : Reached(r) /\ ~OnOperatorMount(Script(r).path) =>
         \E key \in req[r].admitted : key[1] = "edge"
  BY <1>1, <1>2 DEF Proper, Keyed, CountedAt
<1> QED
  BY <1>3, <1>4 DEF LimitHolds

----------------------------------------------------------------------------
(* Every variable of the front keeps its type: an answer is recorded when  *)
(* it is a refusal, and no counter counts more than the requests that      *)
(* arrived (serve.rs, rate_limit.rs).                                      *)
THEOREM FrontTypeCorrect == FrontSpec => []FrontTypeOK
BY IInvHolds, IInvSaysTypes, PTL

(* Nothing a handler touched lies outside the ceiling the chain is         *)
(* committed to, for every manifest, every facade and every argument of a  *)
(* call (adjudicate.rs, facade.rs).                                        *)
THEOREM CeilingKeptHolds == FrontSpec => []CeilingKept
<1>1. IInv => CeilingKept
  BY DEF IInv
<1> QED
  BY <1>1, IInvHolds, PTL

(* The gate refuses what was not granted and nothing that the build had    *)
(* verified (adjudicate.rs, verify.rs).                                    *)
THEOREM AdjudicatedHolds == FrontSpec => []Adjudicated
<1>1. IInv => Adjudicated
  BY IInvSaysTypes DEF IInv, Adjudicated, VerifiedIsAdmitted, Proper, RightlyRefused
<1> QED
  BY <1>1, IInvHolds, PTL

(* No handler acts for a confused deputy, whatever credentials a request   *)
(* brings, in whatever order its layers come (serve.rs, Assembly::build).  *)
THEOREM CredentialsKeptHolds == FrontSpec => []CredentialsKept
<1>1. IInv => CredentialsKept
  <2>1. ASSUME IInv PROVE Arriving \subseteq Denial
    BY <2>1, ScenesAssumption DEF IInv, Shape, Arriving, scene
  <2> QED
    BY <2>1 DEF IInv, CredentialsKept, Proper, Cleared
<1> QED
  BY <1>1, IInvHolds, PTL

(* A client gets through the limiter no more often than its group allows,  *)
(* however requests, the clock and the counting interleave, and whatever it*)
(* writes into the header (rate_limit.rs, client_identity.rs).             *)
THEOREM LimitHoldsAlways == FrontSpec => []LimitHolds
BY IInvHolds, IInvLimits, PTL
=============================================================================
