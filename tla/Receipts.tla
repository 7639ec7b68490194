------------------------------ MODULE Receipts ------------------------------
(***************************************************************************)
(* The receipts of one identity (src/crates/rahi-store/src/receipt.rs): the*)
(* head row, the revision rows, and callers that classify a delivery in two*)
(* reads, stage the writes the answer calls for, and learn or lose the     *)
(* outcome of their batch.                                                 *)
(*                                                                         *)
(* Classification reads outside the batch; what it read is guarded again   *)
(* inside it.  Time is left out: a comparison with the caller's `now` may  *)
(* come out either way, as callers' clocks disagree (specs/045, B-18).     *)
(***************************************************************************)
EXTENDS Naturals, FiniteSets

CONSTANTS
    Delivery,      \* calls that deliver an item of the identity
    Digest,        \* content digests
    NoDigest,      \* not a digest
    MaxRev,        \* bound: revisions of the identity
    LateDeliveries \* TRUE: a call may outlive the rows it was made for

ASSUME DigestAssumption == NoDigest \notin Digest
ASSUME RevisionAssumption == MaxRev \in Nat
ASSUME LateDeliveriesAssumption == LateDeliveries \in BOOLEAN

VARIABLES
    head,      \* the rahi_receipt_head row
    receipt,   \* receipt[r]: the rahi_receipt row of revision r
    delivery,  \* delivery[d]: how far call d is, and what it has read
    acked      \* history: digests acknowledged to the source

receiptVars == <<head, receipt, delivery, acked>>

Revision == 1 .. MaxRev
NoReceipt == [digest |-> NoDigest, disposition |-> "none", bare |-> FALSE]
NoHead == [kind |-> "none", rev |-> 0, acc |-> 0]
NoDelivery == [pc |-> "idle", digest |-> NoDigest, rev |-> 0]

Recorded(r) == receipt[r] # NoReceipt

ReceiptsTypeOK ==
    /\ head \in [kind : {"none", "live", "tomb", "erased"},
                 rev : 0 .. MaxRev, acc : 0 .. MaxRev]
    /\ receipt \in [Revision -> [digest : Digest \cup {NoDigest},
                                 disposition : {"none", "accepted", "collision"},
                                 bare : BOOLEAN]]
    /\ delivery \in [Delivery -> [pc : {"idle", "headread", "first", "changed"},
                                  digest : Digest \cup {NoDigest},
                                  rev : 0 .. MaxRev]]
    /\ acked \in SUBSET Digest

ReceiptsInit ==
    /\ head = NoHead
    /\ receipt = [r \in Revision |-> NoReceipt]
    /\ delivery = [d \in Delivery |-> NoDelivery]
    /\ acked = {}

----------------------------------------------------------------------------
(* Receipts::classify: two consistent reads, one after the other.          *)

(* SELECT_HEAD.  No row is FirstSeen; an erased head is answered Erased and*)
(* leaves no trace here.                                                   *)
ReadHead(d, x) ==
    /\ delivery[d].pc = "idle"
    /\ head.kind # "erased"
    /\ delivery' = [delivery EXCEPT ![d] =
                      [pc |-> IF head.kind = "none" THEN "first" ELSE "headread",
                       digest |-> x, rev |-> head.rev]]
    /\ UNCHANGED <<head, receipt, acked>>

(* Mutant of ReadDigest: the search passes over compacted revisions.       *)
ReadDigestNotBare(d) ==
    /\ delivery[d].pc = "headread"
    /\ \/ /\ \E r \in Revision : receipt[r].digest = delivery[d].digest /\ ~receipt[r].bare
          /\ acked' = acked \cup {delivery[d].digest}
          /\ delivery' = [delivery EXCEPT ![d] = NoDelivery]
       \/ /\ \A r \in Revision : receipt[r].digest # delivery[d].digest \/ receipt[r].bare
          /\ acked' = acked
          /\ delivery' = [delivery EXCEPT ![d].pc = "changed"]
    /\ UNCHANGED <<head, receipt>>

(* SELECT_REVISION_BY_DIGEST: a redelivery is acknowledged at once, other  *)
(* content is Changed, with the head revision of the first read.           *)
ReadDigest(d) ==
    /\ delivery[d].pc = "headread"
    /\ \/ /\ \E r \in Revision : receipt[r].digest = delivery[d].digest
          /\ acked' = acked \cup {delivery[d].digest}
          /\ delivery' = [delivery EXCEPT ![d] = NoDelivery]
       \/ /\ \A r \in Revision : receipt[r].digest # delivery[d].digest
          /\ acked' = acked
          /\ delivery' = [delivery EXCEPT ![d].pc = "changed"]
    /\ UNCHANGED <<head, receipt>>

----------------------------------------------------------------------------
(* The staging calls, as the batch the caller submits.                     *)

(* SEED_HEAD: only stage_first has it, and it keeps a head it finds.       *)
SeededHead(d) ==
    IF delivery[d].pc = "first" /\ head.kind = "none"
    THEN [kind |-> "live", rev |-> 0, acc |-> 0]
    ELSE head

(* Mutant of HeadGuard: without erased = 0.                                *)
HeadGuardErased(h, expected) == h.kind = "none" \/ h.rev = expected

(* The CASE of GUARD_ACCEPT and GUARD_COLLISION: a mismatch writes NULL to *)
(* a NOT NULL column and aborts the batch.  Without a head row they match  *)
(* nothing and abort nothing.                                              *)
HeadGuard(h, expected) ==
    h.kind = "none" \/ (h.rev = expected /\ h.kind # "erased")

(* Mutant of BatchPasses: no guard, and INSERT OR REPLACE for the revision.*)
BatchReplaces(d) == delivery[d].rev + 1 \in Revision

(* INSERT_REVISION aborts on a revision that exists.                       *)
BatchPasses(d) ==
    LET next == delivery[d].rev + 1
    IN  next \in Revision /\ HeadGuard(SeededHead(d), delivery[d].rev) /\ ~Recorded(next)

Insert(d, disposition) ==
    receipt' = [receipt EXCEPT ![delivery[d].rev + 1] =
                  [digest |-> delivery[d].digest, disposition |-> disposition,
                   bare |-> FALSE]]

(* Mutant of AdvancedHead: a compacted head stays a tombstone.             *)
AdvancedHeadStaysTomb(h, rev, acc) ==
    IF h.kind = "none" THEN h ELSE [kind |-> h.kind, rev |-> rev, acc |-> acc]

(* The head the guards write: live again, also when it was compacted.      *)
AdvancedHead(h, rev, acc) ==
    IF h.kind = "none" THEN h ELSE [kind |-> "live", rev |-> rev, acc |-> acc]

(* The caller learns that its batch committed and acknowledges the source, *)
(* or loses the reply and ends.                                            *)
Answered(d) ==
    /\ delivery' = [delivery EXCEPT ![d] = NoDelivery]
    /\ acked' \in {acked, acked \cup {delivery[d].digest}}

(* stage_first and stage_revision.                                         *)
Accept(d) ==
    /\ delivery[d].pc \in {"first", "changed"}
    /\ BatchPasses(d)
    /\ head' = AdvancedHead(SeededHead(d), delivery[d].rev + 1, delivery[d].rev + 1)
    /\ Insert(d, "accepted")
    /\ Answered(d)

(* Mutant of Collide: a refused revision becomes the accepted head.        *)
CollideAccepts(d) ==
    /\ delivery[d].pc = "changed"
    /\ BatchPasses(d)
    /\ head' = AdvancedHead(head, delivery[d].rev + 1, delivery[d].rev + 1)
    /\ Insert(d, "collision")
    /\ Answered(d)

(* stage_collision.                                                        *)
Collide(d) ==
    /\ delivery[d].pc = "changed"
    /\ BatchPasses(d)
    /\ head' = AdvancedHead(head, delivery[d].rev + 1, head.acc)
    /\ Insert(d, "collision")
    /\ Answered(d)

(* The batch aborts on a guard, or the caller dies before it is submitted. *)
EndDelivery(d) ==
    /\ delivery[d].pc # "idle"
    /\ delivery' = [delivery EXCEPT ![d] = NoDelivery]
    /\ UNCHANGED <<head, receipt, acked>>

----------------------------------------------------------------------------
(* Retention and erasure: what they do to the receipt rows.                *)

(* Compaction to a tombstone (sweep, third phase).                         *)
CompactReceipts ==
    /\ head.kind = "live"
    /\ head' = [head EXCEPT !.kind = "tomb"]
    /\ receipt' = [r \in Revision |->
                     IF Recorded(r) THEN [receipt[r] EXCEPT !.bare = TRUE] ELSE NoReceipt]
    /\ UNCHANGED <<delivery, acked>>

(* Mutant of DropReceipts: the head goes, its revisions stay.              *)
DropHeadOnly ==
    /\ head.kind = "tomb"
    /\ ~LateDeliveries => \A d \in Delivery : delivery[d].pc = "idle"
    /\ head' = NoHead
    /\ acked' = {}
    /\ UNCHANGED <<receipt, delivery>>

(* The tombstone is deleted (sweep, fourth phase): the identity is         *)
(* forgotten.                                                              *)
DropReceipts ==
    /\ head.kind = "tomb"
    /\ ~LateDeliveries => \A d \in Delivery : delivery[d].pc = "idle"
    /\ head' = NoHead
    /\ receipt' = [r \in Revision |-> NoReceipt]
    /\ acked' = {}
    /\ UNCHANGED delivery

(* stage_erasure: SEED_ERASED and erase_by_predicate.  The revision counter*)
(* of the head survives.                                                   *)
EraseReceipts ==
    /\ head' = [kind |-> "erased", rev |-> head.rev, acc |-> 0]
    /\ receipt' = [r \in Revision |-> NoReceipt]
    /\ acked' = {}
    /\ UNCHANGED delivery

----------------------------------------------------------------------------
(* A revision counts once, in order, and the head names the newest revision*)
(* and the newest accepted one: concurrent deliveries conflict, they never *)
(* fork the history of the identity (specs/045 I-1, B-8).                  *)
HeadAgrees ==
    head.kind \in {"live", "tomb"} =>
        /\ \A r \in Revision : Recorded(r) <=> r <= head.rev
        /\ \A r \in Revision : receipt[r].disposition = "accepted" => r <= head.acc
        /\ head.acc # 0 => receipt[head.acc].disposition = "accepted"

(* One content is one revision: a redelivery is never recorded as a new    *)
(* revision, although the two reads of classify and the batch are three    *)
(* separate steps (specs/045 B-5, D-7).                                    *)
EachContentOnce ==
    \A q, r \in Revision :
        Recorded(q) /\ receipt[q].digest = receipt[r].digest => q = r

(* What was acknowledged to the source is on record until the identity is  *)
(* forgotten or erased (specs/045 I-2).                                    *)
AckedIsRecorded == \A x \in acked : \E r \in Revision : receipt[r].digest = x

(* Every revision row belongs to a head, and an erased identity keeps none *)
(* (specs/045 I-7).                                                        *)
NoRowsWithoutHead ==
    head.kind \in {"none", "erased"} => \A r \in Revision : ~Recorded(r)

(* Retention forgets a revision only after compacting it: content that     *)
(* arrives for a tombstone lives through horizons of its own (D-20).       *)
ForgottenAfterCompaction ==
    [][\A r \in Revision :
          Recorded(r) /\ receipt'[r] = NoReceipt /\ head'.kind # "erased"
             => receipt[r].bare]_receiptVars
=============================================================================
