------------------------------- MODULE Intake -------------------------------
(***************************************************************************)
(* Intake: receipts and the work they call for, in the batches that change *)
(* both.  One identity, one processor: a job is a revision of the identity.*)
(*                                                                         *)
(* An accepted revision and its processing row commit in one batch; the    *)
(* sweep compacts an identity whose work is settled; erasure removes all.  *)
(***************************************************************************)
EXTENDS Receipts, Work

ASSUME JobAssumption == Job = Revision

vars == <<head, receipt, delivery, acked,
          proc, attempts, queueFence, worker, commits, retired, orphaned, strays>>

Init == ReceiptsInit /\ WorkInit

----------------------------------------------------------------------------
(* The intake batch: stage_first or stage_revision, with stage_work for the*)
(* new revision or without (the caller may enqueue later).                 *)
IntakeAccept(d) ==
    /\ Accept(d)
    /\ StageWork(delivery[d].rev + 1) \/ UNCHANGED workVars

(* stage_work on its own, for a revision an earlier batch recorded         *)
(* (specs/045 B-12).  The statement has no guard: the caller's batch        *)
(* enqueues accepted revisions only, and none that retention has compacted *)
(* (the row would be pending anew).                                        *)
Enqueue(j) ==
    /\ head.kind = "live"
    /\ receipt[j].disposition = "accepted"
    /\ j \notin retired
    /\ StageWork(j)
    /\ UNCHANGED receiptVars

(* Mutant of Compactable: the retention horizon alone decides.             *)
CompactableUnsettled == TRUE

(* The batch asks again whether all work of the identity is settled.       *)
Compactable == \A j \in Job : Settled(j)

(* The sweep's third phase.                                                *)
Compact ==
    /\ Compactable
    /\ CompactReceipts
    /\ DeleteWork

(* The sweep's fourth phase.                                               *)
DropTombstone == DropReceipts /\ ForgetWork

(* Mutant of Erase: the revisions go, the work stays.                      *)
EraseReceiptsOnly == EraseReceipts /\ UNCHANGED workVars

(* A batch with stage_erasure.                                             *)
Erase == EraseReceipts /\ DeleteWork

Next ==
    \/ \E d \in Delivery :
          \/ IntakeAccept(d)
          \/ /\ \/ \E x \in Digest : ReadHead(d, x)
                \/ ReadDigest(d) \/ Collide(d) \/ EndDelivery(d)
             /\ UNCHANGED workVars
    \/ \E k \in Worker :
          /\ \/ ClaimCandidate(k) \/ Complete(k) \/ Fail(k) \/ Renew(k)
             \/ Abandon(k)
             \/ \E j \in Job : Pick(k, j)
          /\ UNCHANGED receiptVars
    \/ \E j \in Job :
          \/ Enqueue(j)
          \/ /\ SweepExpired(j) \/ SweepSpent(j) \/ Requeue(j)
             /\ UNCHANGED receiptVars
    \/ Compact \/ DropTombstone \/ Erase

Spec == Init /\ [][Next]_vars

----------------------------------------------------------------------------
TypeOK == ReceiptsTypeOK /\ WorkTypeOK

(* Retention never takes work that is not settled: only erasure discards   *)
(* what is still to be done (specs/045 I-3, B-20).                         *)
NoWorkLost ==
    [][\A j \in Job : ~Settled(j) /\ proc'[j].state = "absent"
                         => head'.kind = "erased"]_vars

(* Work belongs to an accepted revision on record: a refused, forgotten or *)
(* erased revision is not worked on (specs/045 B-9, I-7).                  *)
WorkHasReceipt ==
    \A j \in Job : Present(j) => receipt[j].disposition = "accepted"

(* An erased identity is gone for good: no later batch brings it back, and *)
(* no attempt keeps what the erasure had to clear (specs/045 I-7, B-22).   *)
ErasedForGood ==
    /\ [][head.kind = "erased" => head'.kind = "erased"]_vars
    /\ [](head.kind = "erased" => attempts = {})

(* The history of an identity, whatever deliveries, retention and erasure  *)
(* do between each other's reads and batches (receipt.rs).                 *)
IntakeSound ==
    TypeOK /\ HeadAgrees /\ EachContentOnce /\ AckedIsRecorded /\ NoRowsWithoutHead

(* The work of an identity, whatever workers, the sweep and late replies   *)
(* do to it (work.rs).                                                     *)
WorkSound == DoneOnce /\ AttemptHistory /\ HolderIsNewest /\ WorkHasReceipt

(* What is forgotten was settled or erased, and stays forgotten: retention *)
(* and erasure against everything that is on its way (specs/045).          *)
NothingLost == ForgottenAfterCompaction /\ NoWorkLost /\ ErasedForGood
=============================================================================
