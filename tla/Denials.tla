------------------------------ MODULE Denials ------------------------------
(***************************************************************************)
(* The denial queue of the kernel (src/crates/rahi-kernel/src/lib.rs): a   *)
(* refused request pushes its decision and answers with its id; one        *)
(* appender task writes the decisions to the chain; the stop drains the    *)
(* queue within a bound and abandons what is left; the end of the runtime  *)
(* drops the appender.                                                     *)
(*                                                                         *)
(* A denial is named by its decision id: next_id gives each denial of one  *)
(* boot a counter value of its own.                                        *)
(***************************************************************************)
EXTENDS Naturals, Sequences

CONSTANTS
    Denial,        \* requests the process refuses
    NoDenial,      \* not a denial
    Capacity,      \* Queue::capacity
    LateRefusals   \* TRUE: a request may still run on a worker thread when
                   \* the runtime has dropped the appender

ASSUME NoDenialAssumption == NoDenial \notin Denial
ASSUME CapacityAssumption == Capacity \in Nat
ASSUME LateRefusalsAssumption == LateRefusals \in BOOLEAN

VARIABLES
    answered,    \* denials whose request was answered with an id
    waiting,     \* Pending::waiting
    appending,   \* Pending::appending
    closed,      \* Pending::closed
    permit,      \* Queue::ready holds the permit of a notify_one
    appender,    \* where append_all is
    writing,     \* the decision append_all holds
    chain,       \* denials on the chain
    late,        \* batches whose append is over and that may still land
    lost,        \* lost[d]: the causes record_loss was told, in order
    stop,        \* where serve's stop is
    owedAtStop   \* history: denials answered when the drain began

vars == <<answered, waiting, appending, closed, permit, appender, writing, chain,
          late, lost, stop, owedAtStop>>

Cause == {"dropped", "failed", "abandoned"}

(* The denials a queue holds.                                              *)
Held(queue) == {queue[i] : i \in 1 .. Len(queue)}

TypeOK ==
    /\ answered \in SUBSET Denial
    /\ waiting \in Seq(Denial) /\ Len(waiting) <= Capacity
    /\ appending \in Denial \cup {NoDenial}
    /\ closed \in BOOLEAN
    /\ permit \in BOOLEAN
    /\ appender \in {"looking", "foundNone", "awaiting", "writing", "written", "failed", "gone"}
    /\ writing \in Denial \cup {NoDenial}
    /\ chain \in SUBSET Denial
    /\ late \in SUBSET Denial
    /\ lost \in [Denial -> Seq(Cause)]
    /\ stop \in {"serving", "draining", "expired", "drained", "shut", "over"}
    /\ owedAtStop \in SUBSET Denial

Init ==
    /\ answered = {}
    /\ waiting = <<>>
    /\ appending = NoDenial
    /\ closed = FALSE
    /\ permit = FALSE
    /\ appender = "looking"
    /\ writing = NoDenial
    /\ chain = {}
    /\ late = {}
    /\ lost = [d \in Denial |-> <<>>]
    /\ stop = "serving"
    /\ owedAtStop = {}

----------------------------------------------------------------------------
(* Statements under the queue's mutex.                                     *)

(* record_loss for each denial of a set.                                   *)
Report(ds, cause) ==
    lost' = [d \in Denial |-> IF d \in ds THEN Append(lost[d], cause) ELSE lost[d]]

(* Mutant of Full: the queue takes one too many.                           *)
FullOneLate == Len(waiting) > Capacity

Full == Len(waiting) >= Capacity

(* Mutant of PermitLeft: only a task that waits already is told.             *)
PermitIfAwaiting == permit \/ appender = "awaiting"

(* notify_one leaves a permit for the next wait.                           *)
PermitLeft == TRUE

(* Mutant of Owed: the decision being written is forgotten.                *)
OwedWaitingOnly == Held(waiting)

(* Queue::owed.                                                            *)
Owed == Held(waiting) \cup ({appending} \ {NoDenial})

(* Mutant of Abandon: the decision being written is not reported.          *)
AbandonWaiting ==
    /\ Report(Held(waiting), "abandoned")
    /\ waiting' = <<>>
    /\ appending' = NoDenial

(* Queue::abandon, and a report for each id it returns.                    *)
Abandon ==
    /\ Report(Owed, "abandoned")
    /\ waiting' = <<>>
    /\ appending' = NoDenial

----------------------------------------------------------------------------
(* Kernel::emit and Kernel::refuse: the request path, which never waits.   *)
Refuse(d) ==
    /\ d \notin answered
    /\ ~closed
    /\ appender = "gone" => LateRefusals
    /\ answered' = answered \cup {d}
    /\ \/ /\ ~Full
          /\ waiting' = Append(waiting, d)
          /\ permit' = PermitLeft
          /\ UNCHANGED lost
       \/ /\ Full
          /\ Report({d}, "dropped")
          /\ UNCHANGED <<waiting, permit>>
    /\ UNCHANGED <<appending, closed, appender, writing, chain, late, stop, owedAtStop>>

----------------------------------------------------------------------------
(* append_all.                                                             *)

(* Queue::next finds a decision.                                           *)
Take ==
    /\ appender = "looking"
    /\ waiting # <<>>
    /\ waiting' = Tail(waiting)
    /\ appending' = Head(waiting)
    /\ writing' = Head(waiting)
    /\ appender' = "writing"
    /\ UNCHANGED <<answered, closed, permit, chain, late, lost, stop, owedAtStop>>

(* It finds none, and goes on to wait, or ends.                            *)
FindNone ==
    /\ appender = "looking"
    /\ waiting = <<>>
    /\ appender' = IF closed THEN "gone" ELSE "foundNone"
    /\ UNCHANGED <<answered, waiting, appending, closed, permit, writing, chain, late,
                   lost, stop, owedAtStop>>

(* It waits for a permit, which may have been left for it already.         *)
Await ==
    /\ appender = "foundNone"
    /\ appender' = "awaiting"
    /\ UNCHANGED <<answered, waiting, appending, closed, permit, writing, chain, late,
                   lost, stop, owedAtStop>>

Wake ==
    /\ appender = "awaiting"
    /\ permit
    /\ permit' = FALSE
    /\ appender' = "looking"
    /\ UNCHANGED <<answered, waiting, appending, closed, writing, chain, late, lost, stop,
                   owedAtStop>>

StoreUp == stop \notin {"shut", "over"}

(* Ledger::append returns the record's hash.                               *)
Appended ==
    /\ appender = "writing"
    /\ StoreUp
    /\ chain' = chain \cup {writing}
    /\ appender' = "written"
    /\ UNCHANGED <<answered, waiting, appending, closed, permit, writing, late, lost, stop,
                   owedAtStop>>

(* It returns an error; the batch may still be on its way.                 *)
AppendFails ==
    /\ appender = "writing"
    /\ late' \in {late, late \cup {writing}}
    /\ appender' = "failed"
    /\ UNCHANGED <<answered, waiting, appending, closed, permit, writing, chain, lost, stop,
                   owedAtStop>>

(* Mutant of StillOwed: a drain that came in between is not noticed.       *)
StillOwedAlways == TRUE

(* What Queue::settle answers.                                             *)
StillOwed == appending = writing

(* Queue::settle, and a failed append is counted unless a drain did it.    *)
Settle ==
    /\ appender \in {"written", "failed"}
    /\ appending' = IF StillOwed THEN NoDenial ELSE appending
    /\ IF StillOwed /\ appender = "failed" THEN Report({writing}, "failed")
                                           ELSE UNCHANGED lost
    /\ writing' = NoDenial
    /\ appender' = "looking"
    /\ UNCHANGED <<answered, waiting, closed, permit, chain, late, stop, owedAtStop>>

(* A batch lands whose append is over.                                     *)
LandsLate(d) ==
    /\ d \in late
    /\ StoreUp
    /\ chain' = chain \cup {d}
    /\ late' = late \ {d}
    /\ UNCHANGED <<answered, waiting, appending, closed, permit, appender, writing, lost,
                   stop, owedAtStop>>

----------------------------------------------------------------------------
(* The end of serve: Kernel::drain, then the store, then the kernel.       *)

BeginDrain ==
    /\ stop = "serving"
    /\ stop' = "draining"
    /\ owedAtStop' = answered
    /\ UNCHANGED <<answered, waiting, appending, closed, permit, appender, writing, chain,
                   late, lost>>

(* Kernel::flush: nothing is owed, or the bound has passed.                *)
Flush ==
    /\ stop = "draining"
    /\ stop' = IF Owed = {} THEN "drained" ELSE "expired"
    /\ UNCHANGED <<answered, waiting, appending, closed, permit, appender, writing, chain,
                   late, lost, owedAtStop>>

DrainAbandons ==
    /\ stop = "expired"
    /\ Abandon
    /\ stop' = "drained"
    /\ UNCHANGED <<answered, closed, permit, appender, writing, chain, late, owedAtStop>>

ShutStore ==
    /\ stop = "drained"
    /\ stop' = "shut"
    /\ UNCHANGED <<answered, waiting, appending, closed, permit, appender, writing, chain,
                   late, lost, owedAtStop>>

(* The last kernel is dropped: Queue::close.                               *)
DropKernel ==
    /\ stop = "shut"
    /\ ~closed
    /\ closed' = TRUE
    /\ permit' = PermitLeft
    /\ UNCHANGED <<answered, waiting, appending, appender, writing, chain, late, lost,
                   stop, owedAtStop>>

(* The runtime ends, after serve or because the supervisor stops waiting   *)
(* for it: the appender is dropped where it is (AbandonOnDrop).            *)
EndRuntime ==
    /\ stop # "over"
    /\ stop' = "over"
    /\ appender' = "gone"
    /\ IF appender = "gone" THEN UNCHANGED <<waiting, appending, lost>> ELSE Abandon
    /\ writing' = NoDenial
    /\ UNCHANGED <<answered, closed, permit, chain, late, owedAtStop>>

----------------------------------------------------------------------------
Appender ==
    Take \/ FindNone \/ Await \/ Wake \/ Appended \/ AppendFails \/ Settle

Next ==
    \/ \E d \in Denial : Refuse(d) \/ LandsLate(d)
    \/ Appender
    \/ BeginDrain \/ Flush \/ DrainAbandons \/ ShutStore \/ DropKernel \/ EndRuntime

(* A woken task is polled, and an append tries a bounded number of times   *)
(* with calls that time out.                                               *)
Fairness == WF_vars(Appender)

Spec == Init /\ [][Next]_vars /\ Fairness

----------------------------------------------------------------------------
Counted(d) == lost[d] # <<>>

(* A denial answered with an id is in the chain, or the appender still owes*)
(* it, or a counter says why not, whatever drain, failure and end of the   *)
(* runtime come between (lib.rs, module doc; specs/035 B-4).               *)
Accounted ==
    \A d \in answered :
        \/ d \in chain
        \/ Counted(d)
        \/ appender # "gone" /\ (d = appending \/ d \in Held(waiting))

(* A denial is counted under one cause, once, although the drain, the      *)
(* appender and its guard may all give up on it; and a refusal of the full *)
(* queue never lands (specs/035 B-3).                                      *)
CountedOnce ==
    \A d \in Denial :
        /\ Len(lost[d]) <= 1
        /\ lost[d] = <<"dropped">> => d \notin chain

(* When the drain has returned, every denial answered before it began is in*)
(* the chain or counted: the store is not shut under one of them           *)
(* (specs/035 B-1).                                                        *)
DrainSettles ==
    stop \in {"drained", "shut"} =>
        \A d \in owedAtStop : d \in chain \/ Counted(d)

(* The denials, whatever the appender, the drain, the stop and the end of  *)
(* the runtime do to each other (lib.rs; specs/035).                       *)
DenialsSound == TypeOK /\ Accounted /\ CountedOnce /\ DrainSettles

(* No answered denial waits for ever: the permit of a push is never missed *)
(* (lib.rs, Queue::next).                                                  *)
EachSettled == \A d \in Denial : d \in answered ~> d \in chain \/ Counted(d)
===========================================================================
