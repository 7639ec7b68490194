-------------------------------- MODULE Work --------------------------------
(***************************************************************************)
(* Work claims (src/crates/rahi-store/src/work.rs): processing rows, the   *)
(* attempts opened for them, and workers that reserve a row under the      *)
(* queue's lease, work on it, and complete, fail or renew it with batches  *)
(* guarded by the claim's token.                                           *)
(*                                                                         *)
(* The queue's lease is what Lease.tla shows it to be: every mint returns a*)
(* new, larger token, and a batch commits under the newest one only.  The  *)
(* mint is therefore one step with the read that follows it: a mint by     *)
(* another call in between would only make the later batch abort.          *)
(*                                                                         *)
(* Time is left out: whether a claim has expired or a retry is due may come*)
(* out either way for each caller (specs/045, B-18).                       *)
(***************************************************************************)
EXTENDS Naturals, FiniteSets

CONSTANTS
    Worker,          \* calls of Work::reserve and what its caller does after
    Job,             \* processing identities
    NoJob,           \* not a job
    WorkerAttempts,  \* max_attempts of the RetryPolicy workers fail with
    SweepAttempts,   \* max_attempts of the RetryPolicy the sweep is given
    MaxToken         \* bound: no token is minted for j after MaxToken[j] of them

ASSUME NoJobAssumption == NoJob \notin Job
ASSUME WorkBoundAssumption ==
    WorkerAttempts \in Nat /\ SweepAttempts \in Nat /\ MaxToken \in [Job -> Nat]

VARIABLES
    proc,        \* proc[j]: the rahi_processing row
    attempts,    \* the rahi_processing_attempt rows
    queueFence,  \* lease_fence.token of the queue
    worker,      \* worker[k]: its candidate or its claim, and its token
    commits,     \* history: how often the domain writes of j committed with its row
    retired,     \* history: jobs whose row was deleted
    orphaned,    \* history: jobs whose row was deleted beneath a claim
    strays       \* history: jobs whose domain writes committed without a row

workVars == <<proc, attempts, queueFence, worker, commits, retired, orphaned, strays>>

NoRow == [state |-> "absent", fence |-> 0, attempt |-> 0]
IdleWorker == [pc |-> "idle", job |-> NoJob, token |-> 0, attempt |-> 0]
Closed == {"expired", "failed", "done", "dead"}
AttemptRow == [job : Job, attempt : Nat, outcome : {"open", "requeued"} \cup Closed]

Present(j) == proc[j].state # "absent"

WorkTypeOK ==
    /\ proc \in [Job -> [state : {"absent", "pending", "claimed", "failed", "done", "dead"},
                         fence : Nat, attempt : Nat]]
    /\ attempts \in SUBSET AttemptRow
    /\ queueFence \in Nat
    /\ worker \in [Worker -> [pc : {"idle", "picked", "claimed"},
                              job : Job \cup {NoJob}, token : Nat, attempt : Nat]]
    /\ commits \in [Job -> Nat]
    /\ retired \in SUBSET Job /\ orphaned \in SUBSET Job /\ strays \in SUBSET Job

WorkInit ==
    /\ proc = [j \in Job |-> NoRow]
    /\ attempts = {}
    /\ queueFence = 0
    /\ worker = [k \in Worker |-> IdleWorker]
    /\ commits = [j \in Job |-> 0]
    /\ retired = {} /\ orphaned = {} /\ strays = {}

----------------------------------------------------------------------------
(* Statements shared by the batches.                                       *)

(* stage_work: ON CONFLICT DO NOTHING.                                     *)
StageWork(j) ==
    /\ proc' = IF Present(j) THEN proc
               ELSE [proc EXCEPT ![j] = [state |-> "pending", fence |-> 0, attempt |-> 0]]
    /\ UNCHANGED <<attempts, queueFence, worker, commits, retired, orphaned, strays>>

(* Close the open attempt n of job j with an outcome.                      *)
Close(rows, j, n, outcome) ==
    LET open == [job |-> j, attempt |-> n, outcome |-> "open"]
    IN  IF open \in rows
        THEN (rows \ {open}) \cup {[open EXCEPT !.outcome = outcome]}
        ELSE rows

(* SELECT_ELIGIBLE; the clock decides about claimed and failed rows.       *)
Eligible(j) == proc[j].state \in {"pending", "claimed", "failed"}

(* GUARD_CLAIM: aborts unless the row is still claimed under the token.  A *)
(* row that is gone matches nothing, and aborts nothing.                   *)
ClaimHeld(k) ==
    LET row == proc[worker[k].job]
    IN  row.state = "absent" \/ (row.state = "claimed" /\ row.fence = worker[k].token)

----------------------------------------------------------------------------
(* Work::reserve, Work::next.                                              *)

(* The queue's lease is taken and a candidate is read; its attempt number  *)
(* is the baseline of the batch.                                           *)
Pick(k, j) ==
    /\ worker[k].pc = "idle"
    /\ Eligible(j)
    /\ queueFence < MaxToken[j]
    /\ queueFence' = queueFence + 1
    /\ worker' = [worker EXCEPT ![k] = [pc |-> "picked", job |-> j, token |-> queueFence + 1,
                                        attempt |-> proc[j].attempt]]
    /\ UNCHANGED <<proc, attempts, commits, retired, orphaned, strays>>

(* Mutant of CandidateUnmoved: the batch  does not ask again whether the   *)
(* row is eligible.                                                        *)
CandidateAnyState(k) == proc[worker[k].job].attempt = worker[k].attempt

(* The WHERE of CLAIM_ROW, the part no clock decides.                      *)
CandidateUnmoved(k) ==
    LET row == proc[worker[k].job]
    IN  row.attempt = worker[k].attempt /\ row.fence <= worker[k].token
        /\ Eligible(worker[k].job)

(* Mutant of OpenedAttempts: the prior attempt stays open.                 *)
OpenedAttemptsNoClose(k) ==
    attempts \cup {[job |-> worker[k].job, attempt |-> worker[k].attempt + 1,
                    outcome |-> "open"]}

(* CLOSE_PRIOR_EXPIRED and OPEN_ATTEMPT.                                   *)
OpenedAttempts(k) ==
    Close(attempts, worker[k].job, worker[k].attempt, "expired")
        \cup {[job |-> worker[k].job, attempt |-> worker[k].attempt + 1,
               outcome |-> "open"]}

(* claim_candidate: one batch behind the lease's guard.  The worker learns *)
(* of its claim or the reply is lost; without the newest token, or when the*)
(* row moved or is not due, nothing commits.                               *)
ClaimCandidate(k) ==
    /\ worker[k].pc = "picked"
    /\ \/ /\ worker[k].token = queueFence
          /\ CandidateUnmoved(k)
          /\ proc' = [proc EXCEPT ![worker[k].job] =
                        [state |-> "claimed", fence |-> worker[k].token,
                         attempt |-> worker[k].attempt + 1]]
          /\ attempts' = OpenedAttempts(k)
          /\ \/ worker' = [worker EXCEPT ![k] = [@ EXCEPT !.pc = "claimed",
                                                          !.attempt = worker[k].attempt + 1]]
             \/ worker' = [worker EXCEPT ![k] = IdleWorker]
       \/ /\ worker' = [worker EXCEPT ![k] = IdleWorker]
          /\ UNCHANGED <<proc, attempts>>
    /\ UNCHANGED <<queueFence, commits, retired, orphaned, strays>>

----------------------------------------------------------------------------
(* A claim is used.  Each batch may have its reply lost: the worker then   *)
(* still has its claim and may submit again.                               *)

Replied(k, next) == worker' \in {[worker EXCEPT ![k] = next], worker}

(* Work::complete, with the caller's domain writes in the batch.           *)
Complete(k) ==
    /\ worker[k].pc = "claimed"
    /\ ClaimHeld(k)
    /\ LET j == worker[k].job
       IN  /\ proc' = IF Present(j) THEN [proc EXCEPT ![j].state = "done"] ELSE proc
           /\ attempts' = Close(attempts, j, worker[k].attempt, "done")
           /\ commits' = IF Present(j) THEN [commits EXCEPT ![j] = @ + 1] ELSE commits
           /\ strays' = IF Present(j) THEN strays ELSE strays \cup {j}
    /\ Replied(k, IdleWorker)
    /\ UNCHANGED <<queueFence, retired, orphaned>>

(* Work::fail: another attempt, or the dead letter once they are spent.    *)
Fail(k) ==
    /\ worker[k].pc = "claimed"
    /\ ClaimHeld(k)
    /\ LET j == worker[k].job
           outcome == IF worker[k].attempt >= WorkerAttempts THEN "dead" ELSE "failed"
       IN  /\ proc' = IF Present(j) THEN [proc EXCEPT ![j].state = outcome] ELSE proc
           /\ attempts' = Close(attempts, j, worker[k].attempt, outcome)
    /\ Replied(k, IdleWorker)
    /\ UNCHANGED <<queueFence, commits, retired, orphaned, strays>>

(* Mutant of Renewable: any claimed row, whoever holds it.                 *)
RenewableByState(k) == proc[worker[k].job].state = "claimed"

(* The WHERE of RENEW_ROW.                                                 *)
Renewable(k) ==
    /\ proc[worker[k].job].state = "claimed"
    /\ proc[worker[k].job].fence = worker[k].token

(* Work::renew: a lease is taken and a fenced batch restamps the row with  *)
(* its token.  A reply that is lost leaves the worker with the token it    *)
(* had; a row that is not renewed leaves everything but the token.         *)
Renew(k) ==
    /\ worker[k].pc = "claimed"
    /\ queueFence < MaxToken[worker[k].job]
    /\ queueFence' = queueFence + 1
    /\ \/ /\ Renewable(k)
          /\ proc' = [proc EXCEPT ![worker[k].job].fence = queueFence + 1]
          /\ worker' \in {worker, [worker EXCEPT ![k].token = queueFence + 1]}
       \/ UNCHANGED <<proc, worker>>
    /\ UNCHANGED <<attempts, commits, retired, orphaned, strays>>

(* The worker gives up: it finds nothing to reserve, its batch aborted on a*)
(* guard, or its process dies.                                             *)
Abandon(k) ==
    /\ worker[k] # IdleWorker
    /\ worker' = [worker EXCEPT ![k] = IdleWorker]
    /\ UNCHANGED <<proc, attempts, queueFence, commits, retired, orphaned, strays>>

----------------------------------------------------------------------------
(* The sweep's first two phases, and the operator's requeue.               *)

(* An expired claim has its attempt closed, and is dead once its attempts  *)
(* are spent; otherwise the row stays claimed until it is reserved again.  *)
SweepExpired(j) ==
    /\ proc[j].state = "claimed"
    /\ proc' = IF proc[j].attempt >= SweepAttempts
               THEN [proc EXCEPT ![j].state = "dead"] ELSE proc
    /\ attempts' = Close(attempts, j, proc[j].attempt, "expired")
    /\ UNCHANGED <<queueFence, worker, commits, retired, orphaned, strays>>

(* A failed row whose attempts the sweep's own policy has spent.           *)
SweepSpent(j) ==
    /\ proc[j].state = "failed"
    /\ proc[j].attempt >= SweepAttempts
    /\ proc' = [proc EXCEPT ![j].state = "dead"]
    /\ UNCHANGED <<attempts, queueFence, worker, commits, retired, orphaned, strays>>

(* Mutant of Requeue: the attempt's outcome lands in the row's state.      *)
RequeueOutcomeAsState(j) ==
    /\ proc[j].state = "dead"
    /\ proc' = [proc EXCEPT ![j].state = "requeued"]
    /\ attempts' = attempts
    /\ UNCHANGED <<queueFence, worker, commits, retired, orphaned, strays>>

(* Work::requeue: the attempt counter is kept.                             *)
Requeue(j) ==
    /\ proc[j].state = "dead"
    /\ proc' = [proc EXCEPT ![j].state = "pending"]
    /\ attempts' = attempts \cup
                     {[job |-> j, attempt |-> proc[j].attempt, outcome |-> "requeued"]}
    /\ UNCHANGED <<queueFence, worker, commits, retired, orphaned, strays>>

----------------------------------------------------------------------------
(* Retention and erasure: what they do to the processing rows.             *)

Settled(j) == proc[j].state \in {"absent", "done", "dead"}

(* All processing rows and attempts of the identity are deleted, whoever   *)
(* has claimed them.                                                       *)
DeleteWork ==
    /\ proc' = [j \in Job |-> NoRow]
    /\ attempts' = {}
    /\ retired' = retired \cup {j \in Job : Present(j)}
    /\ orphaned' = orphaned \cup {j \in Job : \E k \in Worker : worker[k].pc = "claimed"
                                                            /\ worker[k].job = j}
    /\ UNCHANGED <<queueFence, worker, commits, strays>>

(* The identity is forgotten: a later delivery is a new item.  No statement*)
(* touches the processing rows.                                            *)
ForgetWork ==
    /\ commits' = [j \in Job |-> 0]
    /\ retired' = {}
    /\ UNCHANGED <<proc, attempts, queueFence, worker, orphaned, strays>>

----------------------------------------------------------------------------
(* The domain writes of a job commit with its row at most once, and exactly*)
(* when the row turns done, whatever is retried, reclaimed or believed to  *)
(* be held (specs/045 I-4, I-5, B-13); and they commit without it only when*)
(* retention or erasure deleted the row beneath a claim.                   *)
DoneOnce ==
    /\ \A j \in Job : /\ commits[j] <= 1
                      /\ Present(j) => (proc[j].state = "done" <=> commits[j] = 1)
    /\ strays \subseteq orphaned

(* work.rs:447: the guard "aborts the whole batch unless `claim` still     *)
(* holds the row".  It does not when the row is gone.                      *)
GuardAborts == strays = {}

(* The attempt history is the row's attempt counter spelled out: every     *)
(* number has one outcome, and the only open one is the claim's (B-14).    *)
AttemptHistory ==
    \A j \in Job :
        LET history == {a \in attempts : a.job = j /\ a.outcome # "requeued"}
        IN  /\ {a.attempt : a \in history} = 1 .. proc[j].attempt
            /\ Cardinality(history) = proc[j].attempt
            /\ \A a \in history : a.outcome = "open" =>
                  proc[j].state = "claimed" /\ a.attempt = proc[j].attempt

(* A worker whose token the row still bears holds the row's newest attempt:*)
(* a claim that was reclaimed cannot be renewed back to life, and a zombie *)
(* commits nothing (specs/045 I-5).                                        *)
HolderIsNewest ==
    \A k \in Worker :
        LET row == proc[worker[k].job]
        IN  worker[k].pc = "claimed" /\ row.state = "claimed" /\ row.fence = worker[k].token
               => row.attempt = worker[k].attempt
=============================================================================
