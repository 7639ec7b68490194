----------------------------- MODULE StopProofs -----------------------------
(* Theorems about a stop: the streams it drains (Stream), for every finite *)
(* set of requests, every set of identities, every ceiling and every       *)
(* channel capacity; and the process it ends and the record it leaves      *)
(* (Serve), for every finite set of services and every number of boots,    *)
(* kills and requests.                                                     *)
EXTENDS Stream, Serve, FiniteSetTheorems, TLAPS

(* An attached stream is open and not closed, and before a drain gives up  *)
(* every open stream that is not closed is attached, and none is closed    *)
(* before it is open.                                                      *)
AttachedWhileOpen ==
    /\ \A r \in Request : attached[r] => request[r] = "open"
    /\ hub # "overran" =>
          \A r \in Request :
              /\ attached[r] <=> request[r] = "open" /\ "closed" \notin flags[r]
              /\ "closed" \in flags[r] => request[r] = "open"

SInv == StreamTypeOK /\ AttachedWhileOpen /\ SlotsMatch

----------------------------------------------------------------------------
(* What the shared statements do.                                          *)

(* A release gives natural numbers back, and touches only identities that  *)
(* have an attached stream among those closed.                             *)
LEMMA ReleasedType ==
    ASSUME StreamTypeOK, NEW rs \in SUBSET Request
    PROVE  /\ Released(rs) \in [Identity -> Nat]
           /\ (\A r \in rs : ~attached[r]) => Released(rs) = open
<1> DEFINE slots(i) == {r \in rs : attached[r] /\ IdentityOf[r] = i}
<1>1. \A i \in Identity : slots(i) \in SUBSET Request
  OBVIOUS
<1>2. \A i \in Identity : IsFiniteSet(slots(i)) /\ Cardinality(slots(i)) \in Nat
  BY <1>1, RequestAssumption, FS_Subset, FS_CardinalityType
<1>3. open \in [Identity -> Nat]
  BY DEF StreamTypeOK
<1>4. Released(rs) = [i \in Identity |-> IF Cardinality(slots(i)) < open[i]
                                           THEN open[i] - Cardinality(slots(i)) ELSE 0]
  BY DEF Released
<1>5. Released(rs) \in [Identity -> Nat]
  <2> HIDE DEF slots
  <2>1. ASSUME NEW i \in Identity
        PROVE  (IF Cardinality(slots(i)) < open[i]
                  THEN open[i] - Cardinality(slots(i)) ELSE 0) \in Nat
    BY <1>2, <1>3
  <2> QED
    BY <1>4, <2>1
<1>6. ASSUME \A r \in rs : ~attached[r] PROVE Released(rs) = open
  <2>1. \A i \in Identity : slots(i) = {}
    BY <1>6
  <2>2. Cardinality({}) = 0
    BY FS_EmptySet
  <2>3. \A i \in Identity : Cardinality(slots(i)) = 0
    BY <2>1, <2>2
  <2> HIDE DEF slots
  <2>4. \A i \in Identity : (IF Cardinality(slots(i)) < open[i]
                               THEN open[i] - Cardinality(slots(i)) ELSE 0) = open[i]
    BY <1>3, <2>3
  <2> QED
    BY <1>3, <1>4, <2>4
<1> QED
  BY <1>5, <1>6

(* A close keeps the types of what it writes.                              *)
LEMMA CloseType ==
    ASSUME StreamTypeOK, NEW rs \in SUBSET Request, Close(rs)
    PROVE  /\ flags' \in [Request -> SUBSET Flag]
           /\ attached' \in [Request -> BOOLEAN]
           /\ open' \in [Identity -> Nat]
           /\ notified' \in BOOLEAN
           /\ nudged' \in [Request -> BOOLEAN]
<1> DEFINE closing == {r \in rs : "closed" \notin flags[r]}
<1>1. open' = Released(closing) /\ closing \in SUBSET Request
  BY DEF Close
<1>2. open' \in [Identity -> Nat]
  BY <1>1, ReleasedType
<1>3. flags' \in [Request -> SUBSET Flag]
  BY DEF Close, StreamTypeOK, Flag
<1>4. attached' \in [Request -> BOOLEAN] /\ nudged' \in [Request -> BOOLEAN]
  BY DEF Close, Nudge
<1>5. notified' \in BOOLEAN
  BY Zenon DEF Close
<1> QED
  BY <1>2, <1>3, <1>4, <1>5

(* So does a signal.                                                       *)
LEMMA SignalType ==
    ASSUME StreamTypeOK, NEW rs \in SUBSET Request, NEW flag \in Flag, Signal(rs, flag)
    PROVE  /\ flags' \in [Request -> SUBSET Flag]
           /\ woken' \in [Request -> BOOLEAN]
           /\ waker' \in [Request -> BOOLEAN]
           /\ nudged' \in [Request -> BOOLEAN]
<1>1. flags' \in [Request -> SUBSET Flag]
  BY DEF Signal, StreamTypeOK
<1>2. /\ woken' \in [Request -> BOOLEAN]
      /\ waker' \in [Request -> BOOLEAN]
      /\ nudged' \in [Request -> BOOLEAN]
  BY DEF Signal, Nudge
<1> QED
  BY <1>1, <1>2

(* Every variable keeps its type, and a channel its capacity.              *)
LEMMA TypeInit == StreamInit => StreamTypeOK
<1> SUFFICES ASSUME StreamInit PROVE StreamTypeOK
  OBVIOUS
<1>1. buffer \in [Request -> 0 .. ChannelCapacity]
  BY ChannelCapacityAssumption DEF StreamInit
<1>2. open \in [Identity -> Nat] /\ flags \in [Request -> SUBSET Flag]
  BY DEF StreamInit
<1>3. /\ attached \in [Request -> BOOLEAN] /\ waker \in [Request -> BOOLEAN]
      /\ woken \in [Request -> BOOLEAN] /\ nudged \in [Request -> BOOLEAN]
  BY DEF StreamInit
<1>4. notified \in BOOLEAN /\ accepting \in BOOLEAN
  BY Zenon DEF StreamInit
<1>5. /\ request \in [Request -> {"none", "refused", "handling", "answered", "counted",
                                "listed", "open"}]
      /\ source \in [Request -> {"none", "idle", "checked", "pending", "ended", "dropped"}]
      /\ producer \in [Request -> {"none", "up", "gone"}]
      /\ waiter \in [Request -> {"off", "looked", "armed", "asleep", "told"}]
  BY DEF StreamInit
<1> QED
  BY <1>1, <1>2, <1>3, <1>4, <1>5 DEF StreamInit, StreamTypeOK

LEMMA TypeNext ==
    ASSUME StreamTypeOK, [StreamNext]_streamVars
    PROVE  StreamTypeOK'
<1> USE ChannelCapacityAssumption, IdentityOfAssumption DEF StreamTypeOK, stream
<1>1. ASSUME NEW r \in Request, Arrive(r) \/ Answer(r) \/ AnswerLate(r) PROVE StreamTypeOK'
  BY <1>1 DEF Arrive, Answer, AnswerLate
<1>2. ASSUME NEW r \in Request, Count(r) \/ List(r) \/ Attach(r) PROVE StreamTypeOK'
  <2>1. CASE Count(r)
    <3>1. IdentityOf[r] \in Identity /\ open[IdentityOf[r]] + 1 \in Nat
      OBVIOUS
    <3>2. open' \in [Identity -> Nat]
      BY <2>1, <3>1 DEF Count
    <3> QED
      BY <2>1, <3>2 DEF Count
  <2>2. CASE List(r)
    BY <2>2 DEF List
  <2>3. CASE Attach(r)
    BY <2>3 DEF Attach
  <2> QED
    BY <1>2, <2>1, <2>2, <2>3
<1>3. ASSUME NEW r \in Request, Poll(r) PROVE StreamTypeOK'
  <2>1. CASE Close({r})
    BY <1>3, <2>1, CloseType DEF Poll
  <2>2. CASE UNCHANGED <<flags, attached, open, notified, nudged>>
    BY <1>3, <2>2 DEF Poll
  <2> QED
    BY <1>3, <2>1, <2>2 DEF Poll
<1>4. ASSUME NEW r \in Request, Receive(r) PROVE StreamTypeOK'
  <2>1. CASE Close({r}) /\ UNCHANGED buffer
    BY <1>4, <2>1, CloseType DEF Receive
  <2>2. CASE UNCHANGED <<flags, attached, open, notified, nudged>>
    <3>1. buffer' \in [Request -> 0 .. ChannelCapacity]
      <4>1. buffer[r] > 0 => buffer[r] - 1 \in 0 .. ChannelCapacity
        OBVIOUS
      <4> QED
        BY <1>4, <4>1 DEF Receive
    <3>2. woken' \in [Request -> BOOLEAN]
      BY <1>4 DEF Receive
    <3> QED
      BY <1>4, <2>2, <3>1, <3>2 DEF Receive
  <2> QED
    BY <1>4, <2>1, <2>2 DEF Receive
<1>5. ASSUME NEW r \in Request, Park(r) \/ KeepAlive(r) PROVE StreamTypeOK'
  BY <1>5 DEF Park, KeepAlive
<1>6. ASSUME NEW r \in Request, DropSource(r) PROVE StreamTypeOK'
  <2>1. Close({r})
    BY <1>6 DEF DropSource
  <2> QED
    BY <1>6, <2>1, CloseType DEF DropSource
<1>7. ASSUME NEW r \in Request, Emit(r) PROVE StreamTypeOK'
  <2>1. CASE Fits(r)
    <3>1. buffer[r] + 1 \in 0 .. ChannelCapacity
      BY <2>1 DEF Fits
    <3>2. buffer' \in [Request -> 0 .. ChannelCapacity] /\ UNCHANGED <<flags, waker, nudged>>
      BY <1>7, <2>1, <3>1 DEF Emit
    <3>3. woken' \in [Request -> BOOLEAN]
      BY <1>7, <2>1 DEF Emit, ChannelWakes
    <3> QED
      BY <1>7, <3>2, <3>3 DEF Emit
  <2>2. CASE ~Fits(r)
    BY <1>7, <2>2, SignalType DEF Emit, Flag
  <2> QED
    BY <2>1, <2>2
<1>8. ASSUME NEW r \in Request, ProducerEnds(r) PROVE StreamTypeOK'
  BY <1>8 DEF ProducerEnds, ChannelWakes
<1>9. ASSUME NEW r \in Request, Wait(r) PROVE StreamTypeOK'
  BY <1>9 DEF Wait, Look, EnableWait, LookAgain, WakeUp, Goto
<1>10. CASE BeginStop \/ CountOpen \/ EnableDrain \/ CountAgain \/ DrainWakes \/ StopListening
  BY <1>10 DEF BeginStop, CountOpen, EnableDrain, CountAgain, DrainWakes, StopListening
<1>11. CASE TellAll
  <2>1. Signal(Live, "shutdown") /\ Live \in SUBSET Request /\ "shutdown" \in Flag
    BY <1>11 DEF TellAll, Live, Flag
  <2> QED
    BY <1>11, <2>1, SignalType DEF TellAll
<1>12. CASE DrainTimesOut
  <2>1. Close(Live) /\ Live \in SUBSET Request
    BY <1>12 DEF DrainTimesOut, Live
  <2> QED
    BY <1>12, <2>1, CloseType DEF DrainTimesOut
<1>13. CASE UNCHANGED streamVars
  BY <1>13 DEF streamVars
<1> QED
  BY <1>1, <1>2, <1>3, <1>4, <1>5, <1>6, <1>7, <1>8, <1>9, <1>10, <1>11, <1>12, <1>13
     DEF StreamNext, Body

(* Every variable keeps its type, and a channel its capacity.              *)
THEOREM StreamTypeCorrect == StreamSpec => []StreamTypeOK
<1> QED
  BY TypeInit, TypeNext, PTL DEF StreamSpec

----------------------------------------------------------------------------
(* A producer that waits for its cancellation never sleeps through it.     *)
THEOREM ProducerNotAsleepHolds == StreamSpec => []ProducerNotAsleep
<1>1. StreamInit => ProducerNotAsleep
  BY DEF StreamInit, ProducerNotAsleep
<1>2. ASSUME StreamTypeOK, ProducerNotAsleep, [StreamNext]_streamVars PROVE ProducerNotAsleep'
  <2> USE DEF ProducerNotAsleep, Cancelled
  <2>1. CASE \E rs \in SUBSET Request : Close(rs) /\ waiter' = waiter
    <3>1. PICK rs \in SUBSET Request : Close(rs) /\ waiter' = waiter
      BY <2>1
    <3> QED
      BY <1>2, <3>1 DEF Close, Nudge
  <2>2. CASE \E rs \in SUBSET Request, flag \in Flag : Signal(rs, flag) /\ waiter' = waiter
    <3>1. PICK rs \in SUBSET Request, flag \in Flag : Signal(rs, flag) /\ waiter' = waiter
      BY <2>2
    <3> QED
      BY <1>2, <3>1 DEF Signal, Nudge
  <2>3. CASE flags' = flags /\ \A r \in Request : waiter'[r] = "asleep" /\ ~nudged'[r] =>
                                   flags[r] = {} \/ (waiter[r] = "asleep" /\ ~nudged[r])
    BY <1>2, <2>3
  <2>4. ASSUME NEW r \in Request, Wait(r) PROVE ProducerNotAsleep'
    <3>1. /\ flags' = flags
          /\ \A q \in Request \ {r} : waiter'[q] = waiter[q] /\ nudged'[q] = nudged[q]
          /\ waiter'[r] = "asleep" => flags[r] = {}
      BY <1>2, <2>4 DEF Wait, Look, EnableWait, LookAgain, WakeUp, Goto, StreamTypeOK
    <3> QED
      BY <2>3, <3>1
  <2>5. ASSUME NEW r \in Request, ProducerEnds(r) PROVE ProducerNotAsleep'
    <3>1. /\ flags' = flags
          /\ \A q \in Request \ {r} : waiter'[q] = waiter[q] /\ nudged'[q] = nudged[q]
          /\ waiter'[r] = "off"
      BY <1>2, <2>5 DEF ProducerEnds, StreamTypeOK
    <3> QED
      BY <2>3, <3>1
  <2>6. ASSUME UNCHANGED <<flags, waiter, nudged>> PROVE ProducerNotAsleep'
    BY <1>2, <2>6
  <2>7. ASSUME NEW r \in Request, Poll(r) \/ Receive(r) \/ DropSource(r) \/ Emit(r)
        PROVE  ProducerNotAsleep'
    <3>1. \/ UNCHANGED <<flags, waiter, nudged>>
          \/ Close({r}) /\ waiter' = waiter
          \/ Signal({r}, "overflow") /\ waiter' = waiter
      BY <2>7 DEF Poll, Receive, DropSource, Emit
    <3>2. "overflow" \in Flag /\ {r} \in SUBSET Request
      BY DEF Flag
    <3> QED
      BY <2>1, <2>2, <2>6, <3>1, <3>2
  <2>8. ASSUME NEW r \in Request, \/ Arrive(r) \/ Answer(r) \/ AnswerLate(r) \/ Count(r)
                                 \/ List(r) \/ Attach(r) \/ Park(r) \/ KeepAlive(r)
        PROVE  UNCHANGED <<flags, waiter, nudged>>
    BY <2>8 DEF Arrive, Answer, AnswerLate, Count, List, Attach, Park, KeepAlive, stream
  <2>9. CASE TellAll \/ DrainTimesOut
    <3>1. Live \in SUBSET Request /\ "shutdown" \in Flag
      BY DEF Live, Flag
    <3> QED
      BY <2>1, <2>2, <2>9, <3>1 DEF TellAll, DrainTimesOut
  <2>10. CASE \/ BeginStop \/ CountOpen \/ EnableDrain \/ CountAgain \/ DrainWakes
              \/ StopListening \/ UNCHANGED streamVars
    BY <2>6, <2>10 DEF BeginStop, CountOpen, EnableDrain, CountAgain, DrainWakes,
                       StopListening, streamVars, stream
  <2> QED
    BY <1>2, <2>4, <2>5, <2>6, <2>7, <2>8, <2>9, <2>10 DEF StreamNext, Body
<1> QED
  BY <1>1, <1>2, StreamTypeCorrect, PTL DEF StreamSpec

----------------------------------------------------------------------------
(* The drain never sleeps through the end of the last stream.              *)
THEOREM DrainNotAsleepHolds == StreamSpec => []DrainNotAsleep
<1>1. StreamInit => DrainNotAsleep
  BY DEF StreamInit, DrainNotAsleep
<1>2. ASSUME StreamTypeOK, DrainNotAsleep, [StreamNext]_streamVars PROVE DrainNotAsleep'
  <2> USE DEF DrainNotAsleep, NoneOpen, stream
  <2>1. ASSUME UNCHANGED <<open, hub, notified>> PROVE DrainNotAsleep'
    BY <1>2, <2>1
  <2>2. ASSUME NEW r \in Request, Close({r}), hub' = hub PROVE DrainNotAsleep'
    <3> DEFINE closing == {q \in {r} : "closed" \notin flags[q]}
    <3>1. closing \in SUBSET Request /\ open' = Released(closing)
      BY <2>2 DEF Close
    <3>2. notified' = (notified \/ (hub \in {"armed", "waiting"} /\ \E q \in closing : attached[q]))
      BY <2>2 DEF Close
    <3>3. CASE \A q \in closing : ~attached[q]
      <4>1. open' = open
        BY <1>2, <3>1, <3>3, ReleasedType
      <4> QED
        BY <1>2, <2>2, <3>2, <3>3, <4>1
    <3>4. CASE \E q \in closing : attached[q]
      BY <2>2, <3>2, <3>4
    <3> QED
      BY <3>3, <3>4
  <2>3. ASSUME NEW r \in Request, Poll(r) \/ Receive(r) \/ DropSource(r) PROVE DrainNotAsleep'
    <3>1. hub' = hub /\ (Close({r}) \/ UNCHANGED <<open, notified>>)
      BY <2>3 DEF Poll, Receive, DropSource
    <3> QED
      BY <2>1, <2>2, <3>1
  <2>4. ASSUME NEW r \in Request, Count(r) PROVE DrainNotAsleep'
    <3>1. IdentityOf[r] \in Identity /\ open[IdentityOf[r]] + 1 # 0
      BY <1>2, IdentityOfAssumption DEF StreamTypeOK
    <3>2. open'[IdentityOf[r]] # 0
      BY <1>2, <2>4, <3>1 DEF Count, StreamTypeOK
    <3> QED
      BY <3>1, <3>2
  <2>5. ASSUME NEW r \in Request, \/ Arrive(r) \/ Answer(r) \/ AnswerLate(r) \/ List(r)
                                 \/ Attach(r) \/ Park(r) \/ KeepAlive(r) \/ Emit(r)
                                 \/ ProducerEnds(r) \/ Wait(r)
        PROVE  DrainNotAsleep'
    BY <2>1, <2>5 DEF Arrive, Answer, AnswerLate, List, Attach, Park, KeepAlive, Emit,
                      ProducerEnds, Wait
  <2>6. CASE BeginStop \/ TellAll \/ CountOpen \/ EnableDrain \/ DrainWakes \/ DrainTimesOut
    BY <2>6 DEF BeginStop, TellAll, CountOpen, EnableDrain, DrainWakes, DrainTimesOut
  <2>7. CASE CountAgain
    BY <2>7 DEF CountAgain
  <2>8. CASE StopListening \/ UNCHANGED streamVars
    BY <2>1, <2>8 DEF StopListening, streamVars
  <2> QED
    BY <1>2, <2>3, <2>4, <2>5, <2>6, <2>7, <2>8 DEF StreamNext, Body
<1> QED
  BY <1>1, <1>2, StreamTypeCorrect, PTL DEF StreamSpec

----------------------------------------------------------------------------
(* Slots.                                                                  *)

(* One stream's end gives its identity one slot back and no other any.     *)
LEMMA CloseOne ==
    ASSUME SInv, NEW r \in Request, request[r] = "open", hub # "overran", Close({r}),
           UNCHANGED <<request, hub>>
    PROVE  AttachedWhileOpen' /\ SlotsMatch'
<1> USE IdentityOfAssumption, RequestAssumption
<1>t. /\ open \in [Identity -> Nat] /\ attached \in [Request -> BOOLEAN]
      /\ flags \in [Request -> SUBSET Flag]
      /\ \A q \in Request : /\ attached[q] <=> request[q] = "open" /\ "closed" \notin flags[q]
                            /\ "closed" \in flags[q] => request[q] = "open"
      /\ \A i \in Identity : open[i] = Cardinality(Taken(i))
  BY DEF SInv, StreamTypeOK, AttachedWhileOpen, SlotsMatch
<1>1. CASE "closed" \in flags[r]
  <2>1. {q \in {r} : "closed" \notin flags[q]} = {}
    BY <1>1
  <2>2. flags' = flags /\ attached' = attached
    BY <1>t, <2>1 DEF Close
  <2>3. open' = open
    <3>1. open' = Released({})
      BY <2>1 DEF Close
    <3> QED
      BY <3>1, ReleasedType DEF SInv
  <2>4. \A i \in Identity : Taken(i)' = Taken(i)
    BY <2>2 DEF Taken
  <2> QED
    BY <1>t, <2>2, <2>3, <2>4 DEF AttachedWhileOpen, SlotsMatch
<1>2. CASE "closed" \notin flags[r]
  <2>1. {q \in {r} : "closed" \notin flags[q]} = {r} /\ attached[r]
    BY <1>t, <1>2
  <2>2. /\ flags' = [q \in Request |-> IF q = r THEN flags[q] \cup {"closed"} ELSE flags[q]]
        /\ attached' = [q \in Request |-> attached[q] /\ q # r]
        /\ open' = Released({r})
    BY <2>1 DEF Close
  <2>3. AttachedWhileOpen'
    <3>1. \A q \in Request : attached'[q] <=> attached[q] /\ q # r
      BY <2>2, Zenon
    <3>2. \A q \in Request : "closed" \in flags'[q] <=> "closed" \in flags[q] \/ q = r
      BY <2>2
    <3> QED
      BY <1>t, <3>1, <3>2 DEF AttachedWhileOpen
  <2>4. ASSUME NEW i \in Identity PROVE open'[i] = Cardinality(Taken(i)')
    <3>1. IsFiniteSet(Taken(i))
      BY FS_Subset DEF Taken
    <3>2. Cardinality({}) = 0 /\ Cardinality({r}) = 1
      BY FS_EmptySet, FS_Singleton
    <3>3. CASE IdentityOf[r] = i
      <4>1. r \in Taken(i) /\ Taken(i)' = Taken(i) \ {r}
        BY <1>2, <2>2, <3>3 DEF Taken
      <4>2. Cardinality(Taken(i)') = Cardinality(Taken(i)) - 1
        BY <3>1, <4>1, FS_RemoveElement
      <4>3. {q \in {r} : attached[q] /\ IdentityOf[q] = i} = {r}
        BY <2>1, <3>3
      <4>4. Cardinality(Taken(i)) \in Nat /\ Cardinality(Taken(i)) # 0
        BY <3>1, <4>1, FS_CardinalityType, FS_EmptySet
      <4>5. open'[i] = IF 1 < open[i] THEN open[i] - 1 ELSE 0
        BY <2>2, <3>2, <4>3 DEF Released
      <4> QED
        BY <1>t, <4>2, <4>4, <4>5
    <3>4. CASE IdentityOf[r] # i
      <4>1. Taken(i)' = Taken(i)
        BY <2>2, <3>4 DEF Taken
      <4>2. {q \in {r} : attached[q] /\ IdentityOf[q] = i} = {}
        BY <3>4
      <4>3. open'[i] = IF 0 < open[i] THEN open[i] - 0 ELSE 0
        BY <2>2, <3>2, <4>2 DEF Released
      <4> QED
        BY <1>t, <4>1, <4>3
    <3> QED
      BY <3>3, <3>4
  <2> QED
    BY <2>3, <2>4 DEF SlotsMatch
<1> QED
  BY <1>1, <1>2

LEMMA NextSInv ==
    ASSUME SInv, [StreamNext]_streamVars
    PROVE  SInv'
<1> USE IdentityOfAssumption, RequestAssumption DEF stream
<1> DEFINE Kept == AttachedWhileOpen' /\ SlotsMatch'
<1>t. StreamTypeOK /\ StreamTypeOK'
  BY TypeNext DEF SInv
<1> SUFFICES Kept
  BY <1>t DEF SInv
<1>a. /\ \A r \in Request : attached[r] => request[r] = "open"
      /\ hub # "overran" =>
            \A r \in Request : /\ attached[r] <=> request[r] = "open" /\ "closed" \notin flags[r]
                               /\ "closed" \in flags[r] => request[r] = "open"
  BY DEF SInv, AttachedWhileOpen
<1>s. hub # "overran" => \A i \in Identity : open[i] = Cardinality(Taken(i))
  BY DEF SInv, SlotsMatch
<1>q. ASSUME attached' = attached, open' = open, hub' = "overran" \/ hub # "overran",
             \A r \in Request :
                 /\ "closed" \in flags'[r] <=> "closed" \in flags[r]
                 /\ request'[r] = "open" <=> request[r] = "open"
                 /\ request'[r] \in {"counted", "listed", "open"}
                        <=> request[r] \in {"counted", "listed", "open"}
      PROVE  Kept
  <2>1. \A i \in Identity : Taken(i)' = Taken(i)
    BY <1>q DEF Taken
  <2> QED
    BY <1>a, <1>q, <1>s, <2>1 DEF AttachedWhileOpen, SlotsMatch
<1>o. ASSUME hub = "overran", hub' = "overran",
             \A r \in Request : attached'[r] => request'[r] = "open"
      PROVE  Kept
  BY <1>o DEF AttachedWhileOpen, SlotsMatch
<1>1. ASSUME NEW r \in Request, Arrive(r) \/ Answer(r) \/ AnswerLate(r) \/ List(r) PROVE Kept
  <2>1. /\ attached' = attached /\ open' = open /\ hub' = hub /\ flags' = flags
        /\ \A q \in Request :
               /\ request'[q] = "open" <=> request[q] = "open"
               /\ request'[q] \in {"counted", "listed", "open"}
                      <=> request[q] \in {"counted", "listed", "open"}
    BY <1>1, <1>t DEF Arrive, Answer, AnswerLate, List, StreamTypeOK
  <2>2. CASE hub = "overran"
    BY <1>a, <1>o, <2>1, <2>2
  <2>3. CASE hub # "overran"
    BY <1>q, <2>1, <2>3
  <2> QED
    BY <2>2, <2>3
<1>2. ASSUME NEW r \in Request, Count(r) PROVE Kept
  <2>1. /\ request[r] = "answered" /\ request' = [request EXCEPT ![r] = "counted"]
        /\ open' = [open EXCEPT ![IdentityOf[r]] = @ + 1]
        /\ attached' = attached /\ flags' = flags /\ hub' = hub
    BY <1>2 DEF Count
  <2>2. AttachedWhileOpen'
    BY <1>a, <1>t, <2>1 DEF AttachedWhileOpen, StreamTypeOK
  <2>3. ASSUME hub # "overran", NEW i \in Identity PROVE open'[i] = Cardinality(Taken(i)')
    <3>1. IsFiniteSet(Taken(i)) /\ open[i] = Cardinality(Taken(i))
      BY <1>s, <2>3, FS_Subset DEF Taken
    <3>2. "closed" \notin flags[r]
      BY <1>a, <2>1, <2>3
    <3>3. CASE IdentityOf[r] = i
      <4>1. r \notin Taken(i) /\ Taken(i)' = Taken(i) \cup {r}
        BY <1>t, <2>1, <3>2, <3>3 DEF Taken, StreamTypeOK
      <4>2. Cardinality(Taken(i)') = Cardinality(Taken(i)) + 1
        BY <3>1, <4>1, FS_AddElement
      <4> QED
        BY <1>t, <2>1, <3>1, <3>3, <4>2 DEF StreamTypeOK
    <3>4. CASE IdentityOf[r] # i
      <4>1. Taken(i)' = Taken(i)
        BY <1>t, <2>1, <3>4 DEF Taken, StreamTypeOK
      <4> QED
        BY <1>t, <2>1, <3>1, <3>4, <4>1 DEF StreamTypeOK
    <3> QED
      BY <3>3, <3>4
  <2> QED
    BY <2>1, <2>2, <2>3 DEF SlotsMatch
<1>3. ASSUME NEW r \in Request, Attach(r) PROVE Kept
  <2>1. /\ request[r] = "listed" /\ request' = [request EXCEPT ![r] = "open"]
        /\ attached' = [attached EXCEPT ![r] = TRUE]
        /\ open' = open /\ flags' = flags /\ hub' = hub
    BY <1>3 DEF Attach
  <2>2. \A q \in Request \ {r} : request'[q] = request[q] /\ attached'[q] = attached[q]
    BY <1>t, <2>1 DEF StreamTypeOK
  <2>3. request'[r] = "open" /\ attached'[r]
    BY <1>t, <2>1 DEF StreamTypeOK
  <2>4. AttachedWhileOpen'
    BY <1>a, <2>1, <2>2, <2>3 DEF AttachedWhileOpen
  <2>5. \A i \in Identity : Taken(i)' = Taken(i)
    BY <2>1, <2>2, <2>3 DEF Taken
  <2> QED
    BY <1>s, <2>1, <2>4, <2>5 DEF SlotsMatch
<1>4. ASSUME NEW r \in Request, Poll(r) \/ Receive(r) \/ DropSource(r) PROVE Kept
  <2>1. /\ request[r] = "open" /\ request' = request /\ hub' = hub
        /\ \/ Close({r})
           \/ UNCHANGED <<flags, attached, open>>
    BY <1>4 DEF Poll, Receive, DropSource
  <2>2. CASE UNCHANGED <<flags, attached, open>>
    BY <1>a, <1>o, <1>q, <2>1, <2>2
  <2>3. CASE Close({r}) /\ hub = "overran"
    <3>1. \A q \in Request : attached'[q] => attached[q]
      BY <2>3 DEF Close
    <3> QED
      BY <1>a, <1>o, <2>1, <2>3, <3>1
  <2>4. CASE Close({r}) /\ hub # "overran" /\ request[r] = "open"
    BY <2>1, <2>4, CloseOne
  <2> QED
    BY <2>1, <2>2, <2>3, <2>4
<1>5. ASSUME NEW r \in Request, Park(r) \/ KeepAlive(r) \/ ProducerEnds(r) \/ Wait(r)
      PROVE  Kept
  <2>1. UNCHANGED <<request, flags, attached, open, hub>>
    BY <1>5 DEF Park, KeepAlive, ProducerEnds, Wait
  <2> QED
    BY <1>a, <1>o, <1>q, <2>1
<1>f. ASSUME NEW rs \in SUBSET Request, NEW flag \in {"overflow", "shutdown"}, Signal(rs, flag)
      PROVE  \A r \in Request : "closed" \in flags'[r] <=> "closed" \in flags[r]
  BY <1>f, <1>t DEF Signal, StreamTypeOK
<1>6. ASSUME NEW r \in Request, Emit(r) PROVE Kept
  <2>1. UNCHANGED <<request, attached, open, hub>>
    BY <1>6 DEF Emit
  <2>2. \A q \in Request : "closed" \in flags'[q] <=> "closed" \in flags[q]
    BY <1>6, <1>f DEF Emit
  <2> QED
    BY <1>a, <1>o, <1>q, <2>1, <2>2
<1>7. CASE TellAll
  <2>1. UNCHANGED <<request, attached, open>> /\ hub = "telling" /\ Live \in SUBSET Request
    BY <1>7 DEF TellAll, Live
  <2>2. \A q \in Request : "closed" \in flags'[q] <=> "closed" \in flags[q]
    BY <1>7, <1>f, <2>1 DEF TellAll
  <2> QED
    BY <1>q, <2>1, <2>2
<1>8. CASE DrainTimesOut
  <2>1. hub' = "overran" /\ request' = request /\ Close(Live)
    BY <1>8 DEF DrainTimesOut
  <2>2. \A q \in Request : attached'[q] => attached[q]
    BY <2>1 DEF Close
  <2> QED
    BY <1>a, <2>1, <2>2 DEF AttachedWhileOpen, SlotsMatch
<1>9. CASE BeginStop \/ CountOpen \/ EnableDrain \/ CountAgain \/ DrainWakes
  <2>1. UNCHANGED <<request, flags, attached, open>> /\ hub # "overran"
    BY <1>9 DEF BeginStop, CountOpen, EnableDrain, CountAgain, DrainWakes
  <2> QED
    BY <1>q, <2>1
<1>10. CASE StopListening \/ UNCHANGED streamVars
  <2>1. UNCHANGED <<request, flags, attached, open, hub>>
    BY <1>10 DEF StopListening, streamVars
  <2> QED
    BY <1>a, <1>o, <1>q, <2>1
<1> QED
  BY <1>1, <1>2, <1>3, <1>4, <1>5, <1>6, <1>7, <1>8, <1>9, <1>10 DEF StreamNext, Body

LEMMA InitSInv == StreamInit => SInv
<1> SUFFICES ASSUME StreamInit PROVE SInv
  OBVIOUS
<1>1. StreamTypeOK
  BY TypeInit
<1>2. AttachedWhileOpen
  BY DEF StreamInit, AttachedWhileOpen
<1>3. \A i \in Identity : Taken(i) = {}
  BY DEF StreamInit, Taken
<1>4. SlotsMatch
  BY <1>3, FS_EmptySet DEF StreamInit, SlotsMatch
<1> QED
  BY <1>1, <1>2, <1>4 DEF SInv

(* However a stream ends, and whoever ends it first, its slot comes back   *)
(* exactly once, until a drain gives up.                                   *)
THEOREM SlotsMatchHolds == StreamSpec => []SlotsMatch
<1>1. StreamInit => SInv
  BY InitSInv
<1>2. SInv /\ [StreamNext]_streamVars => SInv'
  BY NextSInv
<1>3. SInv => SlotsMatch
  BY DEF SInv
<1> QED
  BY <1>1, <1>2, <1>3, PTL DEF StreamSpec

(* A request is turned away when its client holds as many streams as it    *)
(* may, and only then.                                                     *)
THEOREM AdmittedAsHeldHolds == StreamSpec => AdmittedAsHeld
<1> DEFINE A == \A r \in Request :
                  request[r] = "none" /\ request'[r] # "none" /\ hub # "overran" =>
                      (request'[r] = "handling"
                         <=> Cardinality(Taken(IdentityOf[r])) < MaxConcurrentStreams)
<1>1. StreamInit => SInv
  BY InitSInv
<1>2. SInv /\ [StreamNext]_streamVars => SInv'
  BY NextSInv
<1>3. ASSUME SInv, [StreamNext]_streamVars PROVE [A]_streamVars
  <2> SUFFICES ASSUME NEW r \in Request, request[r] = "none", request'[r] # "none",
                      hub # "overran"
               PROVE  request'[r] = "handling"
                        <=> Cardinality(Taken(IdentityOf[r])) < MaxConcurrentStreams
    OBVIOUS
  <2>1. open[IdentityOf[r]] = Cardinality(Taken(IdentityOf[r]))
    BY <1>3, IdentityOfAssumption DEF SInv, SlotsMatch
  <2>2. request \in [Request -> {"none", "refused", "handling", "answered", "counted",
                                 "listed", "open"}]
    BY <1>3 DEF SInv, StreamTypeOK
  <2>3. Arrive(r)
    <3>1. ASSUME NEW q \in Request,
                 \/ Answer(q) \/ AnswerLate(q) \/ Count(q) \/ List(q) \/ Attach(q)
                 \/ q # r /\ Arrive(q)
          PROVE  request'[r] = request[r]
      BY <2>2, <3>1 DEF Answer, AnswerLate, Count, List, Attach, Arrive
    <3>2. ASSUME NEW q \in Request, \/ Poll(q) \/ Receive(q) \/ Park(q) \/ KeepAlive(q)
                                    \/ DropSource(q) \/ Emit(q) \/ ProducerEnds(q) \/ Wait(q)
          PROVE  request' = request
      BY <3>2 DEF Poll, Receive, Park, KeepAlive, DropSource, Emit, ProducerEnds, Wait
    <3>3. CASE \/ BeginStop \/ TellAll \/ CountOpen \/ EnableDrain \/ CountAgain \/ DrainWakes
               \/ DrainTimesOut \/ StopListening \/ UNCHANGED streamVars
      BY <3>3 DEF BeginStop, TellAll, CountOpen, EnableDrain, CountAgain, DrainWakes,
                  DrainTimesOut, StopListening, streamVars
    <3> QED
      BY <1>3, <3>1, <3>2, <3>3 DEF StreamNext, Body
  <2>4. request'[r] = IF open[IdentityOf[r]] < MaxConcurrentStreams THEN "handling" ELSE "refused"
    BY <2>2, <2>3 DEF Arrive, Admits
  <2> QED
    BY <2>1, <2>4
<1> QED
  BY <1>1, <1>2, <1>3, PTL DEF StreamSpec, AdmittedAsHeld

(* Every channel and counter is as opening, closing, overflow and drain    *)
(* leave it.                                                               *)
THEOREM StreamSoundHolds == StreamSpec => []StreamSound
<1>1. StreamTypeOK /\ SlotsMatch => StreamSound
  BY DEF StreamSound
<1> QED
  BY <1>1, StreamTypeCorrect, SlotsMatchHolds, PTL

(* Neither the drain nor a producer sleeps through what it waits for.      *)
THEOREM NobodySleepsHolds == StreamSpec => []NobodySleeps
<1>1. DrainNotAsleep /\ ProducerNotAsleep => NobodySleeps
  BY DEF NobodySleeps
<1> QED
  BY <1>1, DrainNotAsleepHolds, ProducerNotAsleepHolds, PTL

----------------------------------------------------------------------------
(* Serve: the process, its entry point and its record.                     *)

(* Where the entry point can be under each of its names, and where serve   *)
(* is meanwhile.                                                           *)
Before == {"down", "begin", "mark", "start"}
During == {"serving", "grace", "rauthy_gone"}
After == {"rauthy_stop", "finish", "exit"}
Placed ==
    /\ sup \in Before \cup Unready => serve = "none"
    /\ sup \in During => serve \notin {"none", "dropped"}
    /\ sup \in After => serve \in {"none", "done", "dropped"}
    /\ sup \in Unready \cup {"start", "grace", "rauthy_gone", "rauthy_stop"} => Supervised
    /\ sup = "begin" => seq < MaxBoots
    /\ sup \notin {"down", "begin"} => seq >= 1

(* A process that has started nothing; SIGTERM before the handler of       *)
(* `supervise` is armed is a kill.                                         *)
Bare ==
    /\ sup \in Before =>
          /\ reasons = {} /\ cut = {} /\ ~failed /\ ~asked
          /\ store = "shut" /\ rauthy = "off"
          /\ Supervised => ~signal
          /\ sup = "down" => entry = "none" /\ ~signal
    /\ Supervised /\ sup \notin Before \cup {"finish", "exit"} => rauthy # "off"

(* What serve holds before it listens and after it was dropped: nothing.   *)
Listening ==
    /\ serve \in {"none", "open", "compose", "declare", "bind", "dropped"} =>
          /\ server = "off" /\ observed = {} /\ result = "ok"
    /\ server = "off" => /\ \A s \in Services : svc[s] = "off"
                         /\ reqs = 0 /\ streams = 0 /\ owed = 0 /\ until = "wait"
    /\ server = "up" => serve = "run"
    /\ server = "returned" => reqs = 0 /\ streams = 0
    /\ server \in {"returned", "cut"} => until \in {"done", "over"}
    /\ server = "cut" => "connection_drain_overrun" \in observed
    /\ serve = "run" => server # "off"
    /\ until \in {"drain", "window", "late", "over"} => serve = "run"
    /\ \A s \in Services : svc[s] \notin {"off", "joined"} => serve = "run"
    /\ owed > 0 => serve \in {"run", "denials"}
    /\ store = "closed" => serve \in {"done", "dropped"}
    /\ serve = "dropped" => "serve_grace_overrun" \in reasons

(* What this stop lost is named, or will be before the record is written.  *)
CutIsNamed ==
    /\ cut # {} => \/ reasons # {} \/ observed # {} \/ result = "error"
                   \/ until \in {"late", "over"} \/ server = "failed"
    /\ \A s \in Services : svc[s] \in {"aborting", "aborted"} => observed # {}
    /\ serve = "done" /\ server = "failed" => observed # {} \/ result = "error"
    /\ sup \in After /\ (observed # {} \/ result = "error") => reasons # {}
    /\ ~Supervised /\ sup \notin After => reasons = {}

(* What the volume says of the last boot that was counted, and of this one.*)
Recorded ==
    /\ rec.boot <= seq
    /\ prev # "unread" => sup = "mark"
    /\ sup = "mark" => rec.boot < seq
    /\ past.ended = "finished" =>
          /\ sup \in {"down", "begin", "mark", "exit"}
          /\ rec.outcome # "none"
          /\ rec.outcome = "confirmed" => past.clean
          /\ rec.code = "zero" => rec.outcome = "confirmed"
    /\ sup \in {"down", "begin"} /\ rec.boot = seq /\ seq # 0 =>
          IF rec.outcome # "none" THEN past.ended = "finished"
          ELSE /\ past.ended \in {"killed", "quit"}
               /\ rec.received => past.ended = "killed" /\ past.signalled
    /\ sup \notin {"down", "begin", "mark"} =>
          /\ rec.boot = seq
          /\ sup # "exit" => rec.outcome = "none"
          /\ sup = "exit" => past.ended = "finished"
          /\ rec.received => signal

(* The invariant of Serve.                                                 *)
ServeInv == /\ TypeOK /\ Placed /\ Bare /\ Listening /\ CutIsNamed /\ Recorded /\ RecordIsTrue

(* A process that is down is all that.                                     *)
LEMMA InitServeInv == Init => ServeInv
<1> SUFFICES ASSUME Init PROVE ServeInv
  OBVIOUS
<1>1. TypeOK
  <2>1. 0 \in 0..MaxBoots /\ 0 \in 0..MaxKills
    BY BoundsAssumption
  <2>2. rec = Fresh /\ past = NoPast /\ seq = 0 /\ kills = 0 /\ Idle
    BY DEF Init
  <2>3. rec \in [boot : 0..MaxBoots, received : BOOLEAN,
                 outcome : {"none", "confirmed", "unconfirmed"},
                 code : {"none", "zero", "infra", "own"}]
    BY <2>1, <2>2 DEF Fresh
  <2>4. past \in [ended : {"none", "killed", "finished", "quit"}, clean : BOOLEAN,
                  signalled : BOOLEAN]
    BY <2>2 DEF NoPast
  <2>5. svc \in [Services -> {"off", "running", "aborting", "joined"} \cup Ended]
    BY <2>2 DEF Idle
  <2>6. sup \in Sup /\ serve \in ServeAt
    BY <2>2 DEF Idle, Sup, ServeAt
  <2>7. entry \in Entries \cup {"none"} /\ signal \in BOOLEAN /\ asked \in BOOLEAN
        /\ cancel \in BOOLEAN /\ timedOut \in BOOLEAN /\ wake \in BOOLEAN /\ first \in BOOLEAN
        /\ watched \in BOOLEAN /\ failed \in BOOLEAN
    BY <2>2 DEF Idle
  <2>8. reqs = 0 /\ owed = 0 /\ streams \in 0..1
    BY <2>2 DEF Idle
  <2>9. observed \subseteq Reason /\ reasons \subseteq Reason
    BY <2>2 DEF Idle
  <2> QED
    BY <2>1, <2>2, <2>3, <2>4, <2>5, <2>6, <2>7, <2>8, <2>9 DEF Idle, TypeOK
<1>2. Placed /\ Bare /\ Listening /\ CutIsNamed
  BY DEF Init, Idle, Placed, Bare, Listening, CutIsNamed, Before, During, After, Unready, Supervised
<1>3. Recorded /\ RecordIsTrue
  BY DEF Init, Idle, Recorded, RecordIsTrue, Fresh, NoPast
<1> QED
  BY <1>1, <1>2, <1>3 DEF ServeInv

(* The record and what the last boot is told of.                           *)
LEMMA RecordKept == ServeInv /\ Next => Recorded' /\ RecordIsTrue'
<1> SUFFICES ASSUME ServeInv, Next PROVE Recorded' /\ RecordIsTrue'
  OBVIOUS
<1>1. /\ rec \in [boot : 0..MaxBoots, received : BOOLEAN,
                  outcome : {"none", "confirmed", "unconfirmed"},
                  code : {"none", "zero", "infra", "own"}]
      /\ seq \in Nat /\ rec.boot \in Nat /\ MaxBoots \in Nat
  BY BoundsAssumption DEF ServeInv, TypeOK
<1>2. Recorded /\ RecordIsTrue /\ Placed /\ Bare
  BY DEF ServeInv
<1>3. ASSUME NEW e \in Entries, Boot(e) PROVE Recorded' /\ RecordIsTrue'
  BY <1>2, <1>3 DEF Boot, record, Recorded, RecordIsTrue
<1>4. ASSUME Begin PROVE Recorded' /\ RecordIsTrue'
  BY <1>1, <1>2, <1>4 DEF Begin, Classify, Recorded, RecordIsTrue
<1>5. ASSUME Mark PROVE Recorded' /\ RecordIsTrue'
  BY <1>1, <1>2, <1>5 DEF Mark, Fresh, NoPast, Recorded, RecordIsTrue
<1>6. ASSUME Kill PROVE Recorded' /\ RecordIsTrue'
  BY <1>1, <1>2, <1>6 DEF Kill, Gone, record, Recorded, RecordIsTrue
<1>7. ASSUME Refuse PROVE Recorded' /\ RecordIsTrue'
  BY <1>1, <1>2, <1>7 DEF Refuse, Gone, record, Recorded, RecordIsTrue, Placed, Bare, Before
<1>8. ASSUME Exit PROVE Recorded' /\ RecordIsTrue'
  BY <1>1, <1>2, <1>8 DEF Exit, Gone, record, Recorded, RecordIsTrue
<1>9. ASSUME Finish PROVE Recorded' /\ RecordIsTrue'
  <2>1. reasons = {} => cut = {}
    BY <1>9 DEF ServeInv, Finish, CutIsNamed, Placed, Listening, After
  <2>2. /\ rec'.outcome = IF reasons = {} THEN "confirmed" ELSE "unconfirmed"
        /\ rec'.code = ExitCode /\ rec'.boot = rec.boot /\ rec'.received = rec.received
    BY <1>1, <1>9 DEF Finish
  <2>3. past'.ended = "finished" /\ (cut = {} => past'.clean)
    BY <1>9 DEF Finish
  <2>4. sup = "finish" /\ sup' = "exit" /\ UNCHANGED <<seq, prev, signal>>
    BY <1>9 DEF Finish
  <2>5. prev' = "unread"
    BY <1>2, <2>4 DEF Recorded
  <2>6. /\ rec'.outcome # "none"
        /\ rec'.outcome = "confirmed" => past'.clean
        /\ rec'.code = "zero" => rec'.outcome = "confirmed"
    BY <2>1, <2>2, <2>3 DEF ExitCode
  <2> QED
    BY <1>2, <2>2, <2>3, <2>4, <2>5, <2>6 DEF Recorded, RecordIsTrue
<1>10. ASSUME rec' = rec \/ (rec' = [rec EXCEPT !.received = TRUE] /\ signal'),
              seq' = seq, prev' = prev, past' = past, signal => signal',
              \/ sup' = sup
              \/ /\ sup \notin {"down", "begin", "mark", "exit"}
                 /\ sup' \notin {"down", "begin", "mark", "exit"},
              rec' = rec \/ sup \notin {"down", "begin", "mark", "exit"}
       PROVE  Recorded' /\ RecordIsTrue'
  BY <1>1, <1>2, <1>10 DEF Recorded, RecordIsTrue
<1>11. ASSUME StopBegins PROVE Recorded' /\ RecordIsTrue'
  <2>1. sup \notin {"down", "begin", "mark", "exit"}
    BY <1>2, <1>11 DEF StopBegins, Placed, Before, After
  <2> QED
    BY <1>10, <1>11, <2>1 DEF StopBegins, Told
<1>12. CASE ShutdownUnready \/ Shutdown
  BY <1>10, <1>12 DEF ShutdownUnready, Shutdown, Unready
<1>13. CASE Sigterm
  BY <1>10, <1>13 DEF Sigterm, record
<1> QED
  BY <1>3, <1>4, <1>5, <1>6, <1>7, <1>8, <1>9, <1>10, <1>11, <1>12, <1>13
     DEF Next, ServeStep, SupStep, Environment, record, Unready,
         Open, Compose, Declare, Listen, StreamsDrain, WindowEnds, ServerReturns,
         BudgetExpires, Deadline, LoopEnds, DrainDenials, ShutStore, Join,
         ServeAlone, Spawn, GoneUnready, ReadyStep, WaitHealthy, ReadyAfterHealth,
         CustodyClient, CustodyRefused, ReapplyAccess, CustodyAgain, GoneServing,
         AbsorbServe, AfterServe, GraceExpires, StopRauthy, RequestBegins, RequestEnds, StreamOpens,
         StreamCloses, Ledgered, StoreFails, RauthyExits, ServerFails, Composed, ServiceEnds,
         AbortLands


(* Where a step of serve finds the entry point.                            *)
LEMMA ServeRuns ==
    ASSUME ServeInv, serve \notin {"none", "done", "dropped"}
    PROVE  sup \in During
BY DEF ServeInv, TypeOK, Placed, Sup, Before, During, After

(* Where a listener, a request or a stream finds serve.                    *)
LEMMA ListenerRuns ==
    ASSUME ServeInv, server # "off"
    PROVE  sup \in During \cup After /\ serve \notin {"none", "dropped"}
BY DEF ServeInv, TypeOK, Placed, Listening, Sup, Before, During, After

(* The entry point and serve move together.                                *)
LEMMA PlacedKept == ServeInv /\ Next => Placed'
<1> SUFFICES ASSUME ServeInv, Next PROVE Placed'
  OBVIOUS
<1>1. Placed /\ Bare /\ seq \in Nat /\ MaxBoots \in Nat
  BY BoundsAssumption DEF ServeInv, TypeOK
<1> USE DEF Placed, Before, During, After, Unready, Supervised
<1>2. ASSUME NEW e \in Entries, Boot(e) PROVE Placed'
  BY <1>1, <1>2 DEF Boot, record
<1>3. CASE Begin
  BY <1>1, <1>3 DEF Begin
<1>4. CASE Mark
  BY <1>1, <1>4 DEF Mark, record
<1>5. CASE Kill \/ Refuse \/ Exit
  BY <1>5 DEF Kill, Refuse, Exit, Gone
<1>6. CASE Open \/ Compose \/ Declare \/ Listen \/ LoopEnds \/ DrainDenials \/ ShutStore
  <2>1. serve \notin {"none", "done", "dropped"}
    BY <1>6 DEF Open, Compose, Declare, Listen, LoopEnds, DrainDenials, ShutStore
  <2>2. sup \in During
    BY <2>1, ServeRuns
  <2>3. /\ sup' = sup /\ entry' = entry /\ seq' = seq
        /\ serve' \notin {"none", "dropped"}
    BY <1>6 DEF Open, Compose, Declare, Listen, LoopEnds, DrainDenials, ShutStore,
                FailsBefore, record
  <2> QED
    BY <1>1, <2>2, <2>3
<1>7. CASE GraceExpires
  BY <1>1, <1>7 DEF GraceExpires, AfterServe, record
<1>8. CASE ServeAlone \/ Spawn \/ GoneUnready \/ CustodyRefused \/ ShutdownUnready
  BY <1>1, <1>8 DEF ServeAlone, Spawn, GoneUnready, CustodyRefused, ShutdownUnready, record
<1>9. ASSUME NEW from \in Unready, NEW to \in Unready \cup {"serving"}, ReadyStep(from, to)
      PROVE  Placed'
  BY <1>1, <1>9 DEF ReadyStep, record
<1>10. CASE GoneServing \/ Shutdown \/ AbsorbServe \/ StopRauthy \/ Finish
  BY <1>1, <1>10 DEF GoneServing, Shutdown, AbsorbServe, AfterServe, StopRauthy, Finish, record
<1>11. CASE UNCHANGED <<sup, serve, entry, seq>>
  BY <1>1, <1>11
<1> HIDE DEF Placed, Before, During, After, Supervised
<1> QED
  BY <1>2, <1>3, <1>4, <1>5, <1>6, <1>7, <1>8, <1>9, <1>10, <1>11
     DEF Next, ServeStep, SupStep, Environment, record, Unready,
         StopBegins, StreamsDrain, WindowEnds, ServerReturns, BudgetExpires, Deadline, Join,
         WaitHealthy, ReadyAfterHealth, CustodyClient, ReapplyAccess, CustodyAgain,
         Sigterm, RequestBegins, RequestEnds, StreamOpens, StreamCloses, Ledgered, StoreFails,
         RauthyExits, ServerFails, Composed, ServiceEnds, AbortLands

(* Nothing is owed by a process that has started nothing.                  *)
LEMMA BareKept == ServeInv /\ Next => Bare'
<1> SUFFICES ASSUME ServeInv, Next PROVE Bare'
  OBVIOUS
<1>1. Placed /\ Bare
  BY DEF ServeInv
<1> USE DEF Bare, Before, Supervised
<1>2. ASSUME NEW e \in Entries, Boot(e) PROVE Bare'
  BY <1>1, <1>2 DEF Boot, judged, world
<1>3. CASE Begin \/ Mark
  BY <1>1, <1>3 DEF Begin, Mark, judged, world
<1>4. CASE Kill \/ Refuse \/ Exit
  BY <1>4 DEF Kill, Refuse, Exit, Gone
<1>5. ASSUME sup \notin Before, sup' \notin Before, entry' = entry,
             sup' \in {"finish", "exit"} \/ sup \notin {"finish", "exit"},
             rauthy # "off" => rauthy' # "off"
      PROVE  Bare'
  BY <1>1, <1>5 DEF Unready
<1>6. CASE Spawn
  BY <1>1, <1>6 DEF Spawn
<1>7. ASSUME serve \notin {"none", "done", "dropped"} \/ server # "off"
      PROVE  sup \notin Before
  BY <1>7, ServeRuns, ListenerRuns DEF During, After
<1>8. CASE Sigterm
  BY <1>1, <1>8 DEF Sigterm, judged, world
<1>9. CASE RequestEnds
  <2>1. server # "off"
    BY <1>9 DEF RequestEnds, ServeInv, Listening
  <2> QED
    BY <1>5, <1>7, <1>9, <2>1 DEF RequestEnds
<1>10. CASE Open \/ Compose \/ Declare \/ Listen \/ LoopEnds \/ DrainDenials \/ ShutStore
  <2>1. serve \notin {"none", "done", "dropped"}
    BY <1>10 DEF Open, Compose, Declare, Listen, LoopEnds, DrainDenials, ShutStore
  <2>2. sup' = sup /\ entry' = entry /\ rauthy' = rauthy
    BY <1>10 DEF Open, Compose, Declare, Listen, LoopEnds, DrainDenials, ShutStore, world
  <2> QED
    BY <1>5, <1>7, <2>1, <2>2
<1>11. CASE StreamsDrain \/ BudgetExpires \/ StoreFails
  <2>1. server # "off"
    BY <1>11 DEF StreamsDrain, BudgetExpires, StoreFails, ServeInv, Listening
  <2> QED
    BY <1>5, <1>7, <1>11, <2>1 DEF StreamsDrain, BudgetExpires, StoreFails, world
<1>12. ASSUME NEW s \in Services, Join(s) PROVE Bare'
  BY <1>5, <1>7, <1>12 DEF Join, world
<1>13. CASE RauthyExits
  BY <1>1, <1>5, <1>13 DEF RauthyExits
<1>14. ASSUME NEW from \in Unready, NEW to \in Unready \cup {"serving"}, ReadyStep(from, to)
       PROVE  Bare'
  BY <1>5, <1>14 DEF ReadyStep, world, Unready
<1>15. CASE GoneUnready \/ CustodyRefused \/ ShutdownUnready
  BY <1>5, <1>15 DEF GoneUnready, CustodyRefused, ShutdownUnready, world, Unready
<1>16. CASE ServeAlone \/ GoneServing \/ Shutdown \/ AbsorbServe \/ GraceExpires
  BY <1>5, <1>16 DEF ServeAlone, GoneServing, Shutdown, AbsorbServe, GraceExpires, AfterServe, world
<1>17. CASE StopRauthy \/ Finish
  BY <1>1, <1>17 DEF StopRauthy, Finish
<1>18. CASE UNCHANGED <<sup, entry, signal, asked, store, rauthy, reasons, cut, failed>>
  BY <1>1, <1>18
<1> HIDE DEF Bare, Before, Supervised
<1> QED
  BY <1>2, <1>3, <1>4, <1>6, <1>8, <1>9, <1>10, <1>11, <1>12, <1>13, <1>14, <1>15, <1>16,
     <1>17, <1>18
     DEF Next, ServeStep, SupStep, Environment, record, Unready, judged, world, run,
         StopBegins, WindowEnds, ServerReturns, Deadline,
         WaitHealthy, ReadyAfterHealth, CustodyClient, ReapplyAccess, CustodyAgain,
         RequestBegins, StreamOpens, StreamCloses, Ledgered,
         ServerFails, Composed, ServiceEnds, AbortLands


(* What the listener, the services and the requests are while serve moves. *)
LEMMA ListeningKept == ServeInv /\ Next => Listening'
<1> SUFFICES ASSUME ServeInv, Next PROVE Listening'
  OBVIOUS
<1>0. svc \in [Services -> {"off", "running", "aborting", "joined"} \cup Ended]
  BY DEF ServeInv, TypeOK
<1>1. /\ Listening /\ Placed /\ streams \in 0..1 /\ reqs \in Nat /\ owed \in Nat
      /\ svc \in [Services -> {"off", "running", "aborting", "joined"} \cup Ended]
  BY <1>0 DEF ServeInv, TypeOK
<1> USE DEF Listening
<1>2. CASE Kill \/ Refuse \/ Exit
  BY <1>2 DEF Kill, Refuse, Exit, Gone
<1>3. CASE Mark
  BY <1>1, <1>3 DEF Mark, Placed, Before, judged, run, world
<1>4. CASE Open
  BY <1>1, <1>4 DEF Open, FailsBefore, run
<1>5. CASE Compose
  BY <1>1, <1>5 DEF Compose, FailsBefore, world
<1>6. CASE Declare
  BY <1>1, <1>6 DEF Declare, FailsBefore, world, run
<1>7. CASE Listen
  BY <1>1, <1>7 DEF Listen, FailsBefore, world
<1>8. CASE RequestBegins \/ StreamOpens \/ StreamCloses \/ Ledgered
  BY <1>1, <1>8 DEF RequestBegins, StreamOpens, StreamCloses, Ledgered, Accepting, run, judged
<1>9. CASE RequestEnds
  BY <1>1, <1>9 DEF RequestEnds, run
<1>10. ASSUME NEW s \in Services, ServiceEnds(s) \/ AbortLands(s) PROVE Listening'
  <2>1. serve = "run"
    BY <1>1, <1>10 DEF ServiceEnds, AbortLands
  <2>2. UNCHANGED <<serve, server, observed, result, reqs, streams, owed, until, store, reasons>>
    BY <1>10 DEF ServiceEnds, AbortLands, world, judged
  <2> QED
    BY <1>1, <2>1, <2>2
<1>11. ASSUME NEW s \in Services, Join(s) PROVE Listening'
  <2>1. serve = "run" /\ observed \subseteq observed'
    BY <1>11 DEF Join
  <2>2. UNCHANGED <<serve, server, result, reqs, streams, owed, until, store, reasons>>
    BY <1>11 DEF Join, world
  <2> QED
    BY <1>1, <2>1, <2>2
<1>12. CASE Deadline
  <2>1. serve = "run" /\ observed \subseteq observed'
    BY <1>12 DEF Deadline
  <2>2. UNCHANGED <<serve, server, result, reqs, streams, owed, until, store, reasons>>
    BY <1>12 DEF Deadline, world
  <2> QED
    BY <1>1, <2>1, <2>2
<1>13. CASE StopBegins \/ StreamsDrain \/ WindowEnds
  BY <1>1, <1>13 DEF StopBegins, StreamsDrain, WindowEnds, world, judged
<1>14. CASE ServerReturns \/ ServerFails \/ BudgetExpires
  BY <1>1, <1>14 DEF ServerReturns, ServerFails, BudgetExpires, world, judged
<1>15. CASE LoopEnds
  BY <1>1, <1>15 DEF LoopEnds, LoopOver, world
<1>16. CASE DrainDenials
  BY <1>1, <1>16 DEF DrainDenials, run
<1>17. CASE ShutStore
  BY <1>1, <1>17 DEF ShutStore, run
<1>18. CASE GraceExpires
  BY <1>1, <1>18 DEF GraceExpires
<1>19. CASE StoreFails
  BY <1>1, <1>19 DEF StoreFails, judged, run
<1>20. CASE ServeAlone
  BY <1>1, <1>20 DEF ServeAlone, world, run
<1>21. ASSUME NEW from \in Unready, NEW to \in Unready \cup {"serving"}, ReadyStep(from, to)
       PROVE  Listening'
  BY <1>1, <1>21 DEF ReadyStep, world, run, Placed
<1>22. ASSUME UNCHANGED <<serve, server, svc, until, observed, result, store, reqs, streams, owed>>,
              reasons \subseteq reasons'
       PROVE  Listening'
  BY <1>1, <1>22
<1> HIDE DEF Listening
<1>23. CASE GoneUnready \/ GoneServing \/ AbsorbServe \/ StopRauthy \/ Spawn
  BY <1>22, <1>23 DEF GoneUnready, GoneServing, AbsorbServe, StopRauthy, Spawn, world, run, judged
<1> QED
  BY <1>2, <1>3, <1>4, <1>5, <1>6, <1>7, <1>8, <1>9, <1>10, <1>11, <1>12, <1>13, <1>14, <1>15,
     <1>16, <1>17, <1>18, <1>19, <1>20, <1>21, <1>22, <1>23
     DEF Next, ServeStep, SupStep, Environment, record, Unready, judged, world, run,
         WaitHealthy, ReadyAfterHealth, CustodyClient, CustodyRefused, ReapplyAccess, CustodyAgain,
         ShutdownUnready, Shutdown, Finish, Boot, Begin, Sigterm, RauthyExits, Composed

(* What serve and Rauthy lost, and what they name.                         *)
LEMMA NamedSays ==
    /\ observed # {} \/ result = "error" => Named # {}
    /\ RauthyCut # {} => RauthyReason # {}
BY DEF Named, RauthyCut, RauthyReason

(* A loss is named at the step that makes it or by what the loop still     *)
(* holds, and what serve names reaches the record's reasons.               *)
LEMMA CutIsNamedKept == ServeInv /\ Next => CutIsNamed'
<1> SUFFICES ASSUME ServeInv, Next PROVE CutIsNamed'
  OBVIOUS
<1>0. svc \in [Services -> {"off", "running", "aborting", "joined"} \cup Ended]
  BY DEF ServeInv, TypeOK
<1>1. /\ CutIsNamed /\ Listening /\ Placed /\ Bare /\ streams \in 0..1 /\ reqs \in Nat
      /\ owed \in Nat /\ serve \in ServeAt /\ sup \in Sup
      /\ server \in {"off", "up", "returned", "failed", "cut"}
      /\ svc \in [Services -> {"off", "running", "aborting", "joined"} \cup Ended]
  BY <1>0 DEF ServeInv, TypeOK
<1> USE DEF CutIsNamed, After, Supervised
<1>2. CASE Kill \/ Refuse \/ Exit
  BY <1>2 DEF Kill, Refuse, Exit, Gone
<1>3. ASSUME NEW e \in Entries, Boot(e) PROVE CutIsNamed'
  BY <1>1, <1>3 DEF Boot, judged, run, Bare, Before
<1>4. CASE Begin \/ Mark
  BY <1>1, <1>4 DEF Begin, Mark, judged, run, Bare, Before, Listening
<1>5. serve \notin {"none", "done", "dropped"} => sup \in During
  BY ServeRuns
<1>6. CASE Open \/ Compose \/ Declare
  <2>1. /\ sup \in During /\ sup' = sup /\ UNCHANGED <<entry, reasons, cut, server, svc, until>>
        /\ result = "ok" /\ observed = {} /\ server = "off"
    BY <1>1, <1>5, <1>6 DEF Open, Compose, Declare, judged, run, Listening
  <2> QED
    BY <1>1, <2>1 DEF Listening, During
<1>7. CASE Listen
  <2>1. /\ sup \in During /\ sup' = sup /\ UNCHANGED <<entry, reasons, cut, until>>
        /\ result = "ok" /\ observed = {} /\ server = "off" /\ server' # "failed"
        /\ \A s \in Services : svc'[s] \notin {"aborting", "aborted"}
    BY <1>1, <1>5, <1>7 DEF Listen, FailsBefore, judged, run, Listening
  <2> QED
    BY <1>1, <2>1 DEF Listening, During
<1>8. ASSUME serve = "run", UNCHANGED <<sup, serve, entry, reasons, result>>,
             observed \subseteq observed',
             cut' = cut \/ observed' # {} \/ until' = "late",
             until' = until \/ until \notin {"late", "over"} \/ until' = "over",
             server' = server \/ server = "up",
             \A s \in Services : \/ svc'[s] = svc[s] \/ svc[s] = "aborting"
                                \/ svc'[s] \notin {"aborting", "aborted"} \/ observed' # {}
      PROVE  CutIsNamed'
  BY <1>1, <1>5, <1>8 DEF During
<1>9. CASE StopBegins \/ WindowEnds \/ ServerReturns \/ BudgetExpires \/ ServerFails
  BY <1>1, <1>8, <1>9
     DEF StopBegins, WindowEnds, ServerReturns, BudgetExpires, ServerFails, judged, Listening
<1>10. CASE StreamsDrain
  BY <1>1, <1>8, <1>10 DEF StreamsDrain, judged, Listening
<1>11. ASSUME NEW s \in Services, ServiceEnds(s) \/ AbortLands(s) PROVE CutIsNamed'
  <2>1. serve = "run"
    BY <1>1, <1>11 DEF ServiceEnds, AbortLands, Listening
  <2>2. UNCHANGED <<sup, serve, entry, reasons, result, observed, cut, until, server>>
    BY <1>11 DEF ServiceEnds, AbortLands, judged
  <2>3. ASSUME NEW x \in Services
        PROVE  svc'[x] = svc[x] \/ svc[x] = "aborting" \/ svc'[x] \notin {"aborting", "aborted"}
    BY <1>1, <1>11 DEF ServiceEnds, AbortLands
  <2> QED
    BY <1>8, <2>1, <2>2, <2>3
<1>12. ASSUME NEW s \in Services, Join(s) PROVE CutIsNamed'
  <2>1. serve = "run" /\ svc[s] \in Ended
    BY <1>12 DEF Join
  <2>2. UNCHANGED <<sup, serve, entry, reasons, result, until, server>>
    BY <1>12 DEF Join
  <2>3. observed' = observed \cup JoinReason(svc[s])
    BY <1>12 DEF Join
  <2>4. cut' = cut \/ observed' # {}
    BY <1>1, <1>12, <2>1, <2>3 DEF Join, JoinReason, Ended
  <2>5. ASSUME NEW x \in Services PROVE svc'[x] = svc[x] \/ svc'[x] = "joined"
    BY <1>1, <1>12 DEF Join
  <2> QED
    BY <1>8, <2>1, <2>2, <2>3, <2>4, <2>5
<1>13. CASE Deadline
  <2>1. /\ serve = "run" /\ UNCHANGED <<sup, serve, entry, reasons, result, until, server, cut>>
        /\ observed \subseteq observed'
    BY <1>13 DEF Deadline
  <2>2. ASSUME NEW s \in Services PROVE svc'[s] = svc[s] \/ observed' # {}
    BY <1>13 DEF Deadline
  <2> QED
    BY <1>8, <2>1, <2>2
<1>14. CASE LoopEnds
  <2>1. sup \in During /\ sup' = sup /\ UNCHANGED <<entry, reasons, cut, server, svc, result>>
    BY <1>1, <1>5, <1>14 DEF LoopEnds
  <2>2. /\ serve' = "denials" /\ observed \subseteq observed'
        /\ until = "over" => observed' # {}
        /\ until = "late" => server = "failed"
    BY <1>1, <1>14 DEF LoopEnds, LoopOver, Listening
  <2> QED
    BY <1>1, <2>1, <2>2 DEF During
<1>15. CASE DrainDenials
  <2>1. /\ sup \in During /\ sup' = sup
        /\ UNCHANGED <<entry, reasons, until, server, svc, result>>
    BY <1>1, <1>5, <1>15 DEF DrainDenials, run
  <2>2. serve' = "store" /\ observed \subseteq observed' /\ (cut' = cut \/ observed' # {})
    BY <1>15 DEF DrainDenials
  <2> QED
    BY <1>1, <2>1, <2>2 DEF During
<1>16. CASE ShutStore
  <2>1. sup \in During /\ sup' = sup /\ UNCHANGED <<entry, reasons, until, server, svc>>
    BY <1>1, <1>5, <1>16 DEF ShutStore, run
  <2>2. observed \subseteq observed' /\ (cut' = cut \/ observed' # {})
    BY <1>16 DEF ShutStore, Shutting
  <2>3. /\ server = "failed" => observed' # {} \/ result' = "error"
        /\ result = "error" => observed' # {} \/ result' = "error"
    BY <1>16 DEF ShutStore
  <2> QED
    BY <1>1, <2>1, <2>2, <2>3 DEF During
<1>17. CASE RequestEnds
  <2>1. server # "off" /\ server # "returned"
    BY <1>1, <1>17 DEF RequestEnds, Listening
  <2>2. cut' = cut \/ server \in {"failed", "cut"}
    BY <1>1, <1>17, <2>1 DEF RequestEnds, Listening
  <2>3. UNCHANGED <<sup, serve, entry, reasons, until, server, svc, result, observed>>
    BY <1>17 DEF RequestEnds, run
  <2> QED
    BY <1>1, <2>2, <2>3 DEF Listening
<1>18. CASE ServeAlone
  BY <1>1, <1>18, NamedSays DEF ServeAlone, run, Listening, During
<1>19. CASE AbsorbServe
  BY <1>1, <1>19, NamedSays DEF AbsorbServe, run, Listening, During
<1>20. CASE GraceExpires
  BY <1>1, <1>20 DEF GraceExpires, Placed
<1>21. CASE GoneUnready \/ GoneServing
  <2>1. /\ reasons' = reasons \cup RauthyReason /\ cut' = cut \cup RauthyCut
        /\ UNCHANGED <<serve, entry, until, server, svc, result, observed>>
        /\ Supervised
        /\ sup' \in After => observed = {} /\ result = "ok"
    BY <1>1, <1>21 DEF GoneUnready, GoneServing, run, Placed, Listening
  <2> QED
    BY <1>1, <2>1, NamedSays
<1>22. CASE StopRauthy
  <2>1. rauthy # "off"
    BY <1>1, <1>22 DEF StopRauthy, Placed, Bare, Before
  <2>2. /\ reasons \subseteq reasons' /\ sup \in After /\ sup' \in After
        /\ UNCHANGED <<serve, entry, until, server, svc, result, observed>>
    BY <1>22 DEF StopRauthy, run
  <2>3. cut' = cut \/ reasons' # {}
    BY <1>22, <2>1 DEF StopRauthy, ServeInv, TypeOK
  <2> QED
    BY <1>1, <2>2, <2>3
<1>23. ASSUME UNCHANGED <<serve, entry, reasons, until, server, svc, result, observed, cut>>,
              (sup' \in After <=> sup \in After) \/ (sup' \in After /\ serve = "none")
       PROVE  CutIsNamed'
  BY <1>1, <1>23 DEF Listening
<1>24. ASSUME NEW from \in Unready, NEW to \in Unready \cup {"serving"}, ReadyStep(from, to)
       PROVE  CutIsNamed'
  <2>1. /\ serve = "none" /\ serve' # "done" /\ observed = {} /\ result = "ok" /\ Supervised
        /\ UNCHANGED <<entry, reasons, until, server, svc, result, observed, cut>>
    BY <1>1, <1>24 DEF ReadyStep, run, Placed, Listening
  <2> QED
    BY <1>1, <2>1
<1>25. CASE Spawn \/ ShutdownUnready
  BY <1>1, <1>23, <1>25 DEF Spawn, ShutdownUnready, run, judged, Placed, Before
<1>26. CASE CustodyRefused \/ Shutdown \/ Finish
  BY <1>23, <1>26 DEF CustodyRefused, Shutdown, Finish, run, judged, Unready
<1>27. CASE UNCHANGED <<sup, serve, entry, reasons, until, server, svc, result, observed, cut>>
  BY <1>23, <1>27
<1> HIDE DEF CutIsNamed, After, Supervised
<1> QED
  BY <1>2, <1>3, <1>4, <1>6, <1>7, <1>9, <1>10, <1>11, <1>12, <1>13, <1>14, <1>15, <1>16, <1>17,
     <1>18, <1>19, <1>20, <1>21, <1>22, <1>24, <1>25, <1>26, <1>27
     DEF Next, ServeStep, SupStep, Environment, record, Unready, judged, world, run,
         WaitHealthy, ReadyAfterHealth, CustodyClient, ReapplyAccess, CustodyAgain,
         RequestBegins, StreamOpens, StreamCloses, Ledgered, StoreFails, Sigterm, RauthyExits,
         Composed


(* How a boot ended is told in the terms of the record.                    *)
LEMMA PastKept ==
    ServeInv /\ Next =>
        past' \in [ended : {"none", "killed", "finished", "quit"}, clean : BOOLEAN,
                   signalled : BOOLEAN]
<1> DEFINE Past == [ended : {"none", "killed", "finished", "quit"}, clean : BOOLEAN,
                    signalled : BOOLEAN]
<1> SUFFICES ASSUME ServeInv, Next PROVE past' \in Past
  OBVIOUS
<1>1. past \in Past /\ NoPast \in Past /\ signal \in BOOLEAN
  BY DEF ServeInv, TypeOK, NoPast
<1>2. ASSUME NEW e \in {"none", "killed", "finished", "quit"}, NEW c \in BOOLEAN, NEW s \in BOOLEAN
      PROVE  [ended |-> e, clean |-> c, signalled |-> s] \in Past
  OBVIOUS
<1> HIDE DEF Past
<1>3. CASE Kill
  <2>1. past' = past \/ past' = [ended |-> "killed", clean |-> FALSE, signalled |-> signal]
    BY <1>3 DEF Kill
  <2> QED
    BY <1>1, <1>2, <2>1, Zenon
<1>4. CASE Finish
  <2> DEFINE kept == cut = {}
  <2>1. kept \in BOOLEAN /\ past' = [ended |-> "finished", clean |-> kept, signalled |-> signal]
    BY <1>4 DEF Finish
  <2> HIDE DEF kept
  <2> QED
    BY <1>1, <1>2, <2>1, Zenon
<1>5. CASE Refuse
  <2>1. past' = [ended |-> "quit", clean |-> TRUE, signalled |-> FALSE]
    BY <1>5 DEF Refuse
  <2> QED
    BY <1>2, <2>1, Zenon
<1>6. past' \in {past, NoPast} \/ Kill \/ Finish \/ Refuse
  BY DEF Next, ServeStep, SupStep, Environment, record,
         Open, Compose, Declare, Listen, StopBegins, StreamsDrain, WindowEnds, ServerReturns,
         BudgetExpires, Deadline, LoopEnds, DrainDenials, ShutStore, Join,
         Begin, Mark, ServeAlone, Spawn, GoneUnready, ReadyStep, WaitHealthy, ReadyAfterHealth,
         CustodyClient, CustodyRefused, ReapplyAccess, CustodyAgain, ShutdownUnready,
         GoneServing, Shutdown, AbsorbServe, GraceExpires, StopRauthy, Exit,
         Boot, Sigterm, RequestBegins, RequestEnds, StreamOpens, StreamCloses,
         Ledgered, StoreFails, RauthyExits, ServerFails, Composed, ServiceEnds, AbortLands
<1> QED
  BY <1>1, <1>3, <1>4, <1>5, <1>6

(* Every variable stays in its type: a boot's bounds are its own, and      *)
(* nothing is in flight when the next one is counted.                      *)
LEMMA TypesKept == ServeInv /\ Next => TypeOK'
<1> SUFFICES ASSUME ServeInv, Next PROVE TypeOK'
  OBVIOUS
<1>1. TypeOK /\ Placed /\ Bare /\ Listening
  BY DEF ServeInv
<1>2. /\ MaxBoots \in Nat /\ MaxKills \in Nat /\ MaxRequests \in [1..MaxBoots -> Nat]
  BY BoundsAssumption
<1> DEFINE Record == [boot : 0..MaxBoots, received : BOOLEAN,
                      outcome : {"none", "confirmed", "unconfirmed"},
                      code : {"none", "zero", "infra", "own"}]
           Past == [ended : {"none", "killed", "finished", "quit"}, clean : BOOLEAN,
                    signalled : BOOLEAN]
           Prev == {"unread", "confirmed", "unconfirmed", "stopped_without_signal",
                    "incomplete_after_sigterm", "no_record"}
           Cuts == {"stream", "request", "service", "denial", "store", "rauthy"}
           Held == {"off", "running", "aborting", "joined"} \cup Ended
<1>3. /\ rec \in Record /\ past \in Past /\ prev \in Prev
      /\ seq \in 0..MaxBoots /\ kills \in 0..MaxKills
  BY <1>1 DEF TypeOK
<1>4. svc \in [Services -> Held]
  BY <1>1 DEF TypeOK
<1>5. observed \subseteq Reason /\ reasons \subseteq Reason /\ cut \subseteq Cuts
  BY <1>1 DEF TypeOK
<1>6. /\ streams \in 0..1 /\ reqs \in Nat /\ owed \in Nat
      /\ reqs > 0 => reqs <= MaxRequests[seq]
      /\ owed > 0 => owed <= MaxRequests[seq]
  BY <1>1 DEF TypeOK
<1> USE DEF Next, ServeStep, SupStep, Environment, record, judged, world, run, Gone,
         Open, Compose, Declare, Listen, StopBegins, StreamsDrain, WindowEnds, ServerReturns,
         BudgetExpires, Deadline, LoopEnds, DrainDenials, ShutStore, Join, FailsBefore,
         Begin, Mark, ServeAlone, Spawn, GoneUnready, ReadyStep, WaitHealthy, ReadyAfterHealth,
         CustodyClient, CustodyRefused, ReapplyAccess, CustodyAgain, ShutdownUnready,
         GoneServing, Shutdown, AbsorbServe, AfterServe, GraceExpires, StopRauthy, Finish, Exit,
         Boot, Sigterm, Kill, Refuse, RequestBegins, RequestEnds, StreamOpens, StreamCloses,
         Ledgered, StoreFails, RauthyExits, ServerFails, Composed, ServiceEnds, AbortLands
<1>7. (entry \in Entries \cup {"none"})' /\ (sup \in Sup)' /\ (serve \in ServeAt)'
  <2>1. entry \in Entries \cup {"none"} /\ sup \in Sup /\ serve \in ServeAt
    BY <1>1 DEF TypeOK
  <2>2. entry' \in Entries \cup {"none"}
    BY <2>1
  <2>3. sup' \in Sup
    BY <2>1 DEF Sup, Unready
  <2>4. serve' \in ServeAt
    BY <2>1 DEF ServeAt
  <2> QED
    BY <2>2, <2>3, <2>4
<1>8. (rec \in Record)' /\ (past \in Past)'
  <2>1. rec' \in Record
    BY <1>2, <1>3 DEF Fresh, ExitCode
  <2>2. past' \in Past
    BY PastKept
  <2> QED
    BY <2>1, <2>2
<1>9. (prev \in Prev)' /\ (kills \in 0..MaxKills)'
  <2>1. prev' \in Prev
    BY <1>3 DEF Classify
  <2>2. kills' \in 0..MaxKills
    BY <1>2, <1>3
  <2> QED
    BY <2>1, <2>2
<1>10. (seq \in 0..MaxBoots)'
  BY <1>1, <1>2, <1>3 DEF Placed
<1>11. (svc \in [Services -> Held])'
  BY <1>4 DEF Ended
<1>12. (observed \subseteq Reason)' /\ (reasons \subseteq Reason)'
  BY <1>5 DEF Reason, JoinReason, Shutting, Named, RauthyReason
<1>13. (cut \subseteq Cuts)'
  BY <1>5 DEF RauthyCut
<1>14. streams' \in 0..1 /\ reqs' \in Nat /\ owed' \in Nat
  BY <1>6
<1>15. /\ reqs' > 0 => reqs' <= MaxRequests'[seq']
       /\ owed' > 0 => owed' <= MaxRequests'[seq']
  <2>0. server # "off" => MaxRequests[seq] \in Nat
    BY <1>1, <1>2, <1>3, ListenerRuns DEF Placed, During, After
  <2> HIDE DEF Next
  <2>1. CASE Begin
    <3>1. reqs = 0 /\ owed = 0
      BY <1>1, <2>1 DEF Placed, Listening, Before
    <3> QED
      BY <2>1, <3>1
  <2>2. CASE RequestEnds
    <3>1. MaxRequests[seq] \in Nat
      BY <1>1, <1>6, <2>0, <2>2 DEF Listening
    <3> QED
      BY <1>6, <2>2, <3>1
  <2>3. ASSUME ~Begin, ~RequestEnds
        PROVE  /\ seq' = seq
               /\ \/ reqs' \in {reqs, 0}
                  \/ server # "off" /\ reqs < MaxRequests[seq] /\ reqs' = reqs + 1
               /\ owed' \in {owed, 0} \/ (server # "off" /\ owed > 0 /\ owed' = owed - 1)
    BY <1>1, <2>3 DEF Next, Accepting, Listening
  <2> QED
    BY <1>6, <2>0, <2>1, <2>2, <2>3
<1>16. (store \in {"shut", "open", "fault", "closed", "stuck"})'
       /\ (rauthy \in {"off", "up", "zero", "nonzero", "killed"})'
       /\ (server \in {"off", "up", "returned", "failed", "cut"})'
       /\ (until \in {"wait", "drain", "window", "late", "done", "over"})'
       /\ (identity \in {"off", "composing", "composed"})'
       /\ (result \in {"ok", "error"})'
  BY <1>1 DEF TypeOK
<1>17. /\ (signal \in BOOLEAN)' /\ (asked \in BOOLEAN)' /\ (cancel \in BOOLEAN)'
       /\ (timedOut \in BOOLEAN)' /\ (wake \in BOOLEAN)' /\ (first \in BOOLEAN)'
       /\ (watched \in BOOLEAN)' /\ (failed \in BOOLEAN)'
  <2>1. /\ signal \in BOOLEAN /\ asked \in BOOLEAN /\ cancel \in BOOLEAN /\ timedOut \in BOOLEAN
        /\ wake \in BOOLEAN /\ first \in BOOLEAN /\ watched \in BOOLEAN /\ failed \in BOOLEAN
    BY <1>1 DEF TypeOK
  <2>2. signal' \in BOOLEAN /\ asked' \in BOOLEAN
    BY <2>1
  <2>3. cancel' \in BOOLEAN /\ timedOut' \in BOOLEAN
    BY <2>1
  <2>4. wake' \in BOOLEAN /\ first' \in BOOLEAN
    BY <2>1
  <2>5. watched' \in BOOLEAN
    BY <2>1
  <2>6. failed' \in BOOLEAN
    BY <2>1
  <2> QED
    BY <2>2, <2>3, <2>4, <2>5, <2>6
<1> QED
  BY <1>7, <1>8, <1>9, <1>10, <1>11, <1>12, <1>13, <1>14, <1>15, <1>16, <1>17 DEF TypeOK


(* A step of the process keeps the invariant, and so does a stutter.       *)
LEMMA ServeInvKept == ServeInv /\ [Next]_vars => ServeInv'
<1>1. ASSUME ServeInv, Next PROVE ServeInv'
  <2>1. TypeOK' /\ Placed' /\ Bare' /\ Listening'
    BY <1>1, TypesKept, PlacedKept, BareKept, ListeningKept
  <2>2. CutIsNamed' /\ Recorded' /\ RecordIsTrue'
    BY <1>1, CutIsNamedKept, RecordKept
  <2> QED
    BY <2>1, <2>2 DEF ServeInv
<1>2. ASSUME ServeInv, UNCHANGED vars PROVE ServeInv'
  <2>1. TypeOK'
    BY <1>2 DEF ServeInv, TypeOK, vars, record, world, run, judged
  <2>2. Placed' /\ Bare' /\ Listening'
    BY <1>2 DEF ServeInv, Placed, Bare, Listening, Supervised, vars, record, world, run, judged
  <2>3. CutIsNamed' /\ Recorded' /\ RecordIsTrue'
    BY <1>2 DEF ServeInv, CutIsNamed, Recorded, RecordIsTrue, Supervised,
                vars, record, world, run, judged
  <2> QED
    BY <2>1, <2>2, <2>3 DEF ServeInv
<1> QED
  BY <1>1, <1>2

(* The order of the stop follows: what is left open is open where the      *)
(* listener says so.                                                       *)
LEMMA InvStopOrder == ServeInv => StopOrder
<1> SUFFICES ASSUME ServeInv PROVE StopOrder
  OBVIOUS
<1>1. /\ Listening /\ Placed /\ streams \in 0..1 /\ reqs \in Nat /\ owed \in Nat
      /\ server \in {"off", "up", "returned", "failed", "cut"}
  BY DEF ServeInv, TypeOK
<1>2. ASSUME serve \in {"denials", "store", "done"}
      PROVE  /\ \A s \in Services : svc[s] \in {"off", "joined"}
             /\ server # "up"
             /\ reqs + streams > 0 => server = "failed" \/ "connection_drain_overrun" \in observed
  BY <1>1, <1>2 DEF Listening
<1>3. ASSUME sup = "rauthy_stop"
      PROVE  /\ serve \in {"none", "done", "dropped"}
             /\ serve = "dropped" => "serve_grace_overrun" \in reasons
  BY <1>1, <1>3 DEF Placed, Listening, After
<1>4. store = "closed" => owed = 0
  BY <1>1 DEF Listening
<1> QED
  BY <1>2, <1>3, <1>4 DEF StopOrder

(* The invariant holds in every state the process reaches.                 *)
LEMMA ServeInvHolds == Spec => []ServeInv
BY InitServeInv, ServeInvKept, PTL DEF Spec

(* Every variable of the process stays in its type, whatever the number of *)
(* services, boots, kills and requests: no boot has more in flight, or     *)
(* owes more denials, than its bound (serve.rs, supervise.rs).             *)
THEOREM ServeTypeCorrect == Spec => []TypeOK
<1>1. ServeInv => TypeOK
  BY DEF ServeInv
<1> QED
  BY <1>1, ServeInvHolds, PTL

(* The stop record is true: a record that says confirmed tells of a stop   *)
(* that lost nothing, exit status 0 is left only with such a record, and   *)
(* the next boot reads of the last one what happened to it, however the    *)
(* process was killed in between (stop.rs begin, finish, classify).        *)
THEOREM ServeSoundHolds == Spec => []ServeSound
<1>1. ServeInv => ServeSound
  BY DEF ServeInv, ServeSound
<1> QED
  BY <1>1, ServeInvHolds, PTL

(* The phases of the stop keep their order whatever came first: no service *)
(* is left running and the listener is over when the denials drain and the *)
(* node is shut, and Rauthy is stopped only after serve or after its       *)
(* overrun is named (serve_observed, supervise_observed).                  *)
THEOREM StopOrderHolds == Spec => []StopOrder
BY InvStopOrder, ServeInvHolds, PTL
=============================================================================
