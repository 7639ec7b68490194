------------------------------- MODULE Lease -------------------------------
(***************************************************************************)
(* The distributed lease of rahi-store (src/crates/rahi-store/src/lock.rs):*)
(* hiqlite's lock with a ten-second TTL, the fencing token minted in two   *)
(* steps (a bump and a consistent read), and fenced batches.  One lease    *)
(* key: tokens of different keys are never compared.                       *)
(*                                                                         *)
(* A lock expires without its holder noticing, a batch outlives the call   *)
(* that submitted it, a reply is lost, a process dies between two steps.   *)
(***************************************************************************)
EXTENDS Naturals, FiniteSets

CONSTANTS
    Holder,         \* calls of StoreHandle::lease
    Row,            \* rows with a `fence` column guarded by the key
    Nobody,         \* not a holder
    MaxBumps,       \* bound: how often lease_fence is bumped
    MaxInflight,    \* bound: batches submitted and not yet applied
    SlowMint        \* TRUE: the TTL may pass while a token is being minted

ASSUME HolderAssumption == Nobody \notin Holder
ASSUME BoundAssumption == MaxBumps \in Nat /\ MaxInflight \in Nat
ASSUME SlowMintAssumption == SlowMint \in BOOLEAN

VARIABLES
    pc,          \* pc[h]: where the call of h is
    lock,        \* hiqlite's lock: its owner and whether the TTL has passed
    lockUp,      \* hiqlite's lock handler runs (it panics on a foreign release)
    leaseFence,  \* lease_fence.token; 0: no row
    token,       \* token[h]: Lease::token, 0 while h has no lease
    superseded,  \* superseded[h]: Lease::superseded
    inflight,    \* batches on their way to the state machine
    strayBumps,  \* bumps whose caller is gone, on their way too
    rows,        \* rows[r]: the fence column and the holder that wrote it
    author       \* history: author[t] is the call lease() gave token t

leaseVars == <<pc, lock, lockUp, leaseFence, token, superseded, inflight,
               strayBumps, rows, author>>

Token == 0 .. MaxBumps
Minting == {"locked", "bumped"}          \* the lock is granted, no token yet
Leased == {"leased", "writing"}          \* lease() has returned
Batch == [holder : Holder, token : Token, rows : SUBSET Row,
          awaited : BOOLEAN]

LeaseTypeOK ==
    /\ pc \in [Holder -> {"idle", "waiting", "releasing"} \cup Minting \cup Leased]
    /\ lock \in [owner : Holder \cup {Nobody}, expired : BOOLEAN]
    /\ lockUp \in BOOLEAN
    /\ leaseFence \in Token
    /\ token \in [Holder -> Token]
    /\ superseded \in [Holder -> BOOLEAN]
    /\ inflight \in SUBSET Batch
    /\ strayBumps \in Nat
    /\ rows \in [Row -> [fence : Token, writer : Holder \cup {Nobody}]]
    /\ author \in [Token -> Holder \cup {Nobody}]

LeaseInit ==
    /\ pc = [h \in Holder |-> "idle"]
    /\ lock = [owner |-> Nobody, expired |-> FALSE]
    /\ lockUp = TRUE
    /\ leaseFence = 0
    /\ token = [h \in Holder |-> 0]
    /\ superseded = [h \in Holder |-> FALSE]
    /\ inflight = {}
    /\ strayBumps = 0
    /\ rows = [r \in Row |-> [fence |-> 0, writer |-> Nobody]]
    /\ author = [t \in Token |-> Nobody]

----------------------------------------------------------------------------
(* hiqlite's lock, as lock.rs uses it.                                     *)

(* lease() calls client().lock(key).  A request finds the lock free or its *)
(* owner's TTL passed and takes it, or it queues; the TTL is only looked at*)
(* when a request comes in (specs/045, D-22).  A handler that is gone      *)
(* answers nobody.                                                         *)
Obtainable == lockUp /\ (lock.owner = Nobody \/ lock.expired)

RequestLock(h) ==
    /\ pc[h] = "idle"
    /\ \/ /\ Obtainable
          /\ pc' = [pc EXCEPT ![h] = "locked"]
          /\ lock' = [owner |-> h, expired |-> FALSE]
       \/ /\ ~Obtainable
          /\ pc' = [pc EXCEPT ![h] = "waiting"]
          /\ lock' = lock
    /\ UNCHANGED <<lockUp, leaseFence, token, superseded, inflight, strayBumps,
                   rows, author>>

(* A queued request is not woken by the TTL: it times out with an error.   *)
RequestTimesOut(h) ==
    /\ pc[h] = "waiting"
    /\ pc' = [pc EXCEPT ![h] = "idle"]
    /\ UNCHANGED <<lock, lockUp, leaseFence, token, superseded, inflight,
                   strayBumps, rows, author>>

(* The ten seconds pass.  SlowMint says whether that can happen before the *)
(* owner has read its token back.                                          *)
Expire ==
    /\ lock.owner # Nobody
    /\ ~lock.expired
    /\ pc[lock.owner] \in Minting => SlowMint
    /\ lock' = [lock EXCEPT !.expired = TRUE]
    /\ UNCHANGED <<pc, lockUp, leaseFence, token, superseded, inflight,
                   strayBumps, rows, author>>

(* The release a dropped guard sends is handled by a task of its own, and  *)
(* hands the lock to a queued request.  Releasing a lock another holder    *)
(* owns panics the handler.                                                *)
HandleRelease(h) ==
    /\ pc[h] = "releasing"
    /\ LET queued == {g \in Holder : pc[g] = "waiting"}
           idle == [pc EXCEPT ![h] = "idle"]
       IN  \/ /\ lockUp /\ lock.owner = h
              /\ \E g \in queued :
                    /\ pc' = [idle EXCEPT ![g] = "locked"]
                    /\ lock' = [owner |-> g, expired |-> FALSE]
              /\ lockUp' = lockUp
           \/ /\ lockUp /\ lock.owner = h
              /\ queued = {}
              /\ pc' = idle
              /\ lock' = [owner |-> Nobody, expired |-> FALSE]
              /\ lockUp' = lockUp
           \/ /\ ~lockUp \/ lock.owner # h
              /\ pc' = idle
              /\ lock' = lock
              /\ lockUp' = (lockUp /\ lock.owner = Nobody)
    /\ UNCHANGED <<leaseFence, token, superseded, inflight, strayBumps, rows,
                   author>>

----------------------------------------------------------------------------
(* StoreHandle::mint_token.                                                *)

(* Mutant of Bump: an upsert that keeps the row it finds (DO NOTHING).     *)
BumpKeepsRow(h) ==
    /\ pc[h] = "locked"
    /\ leaseFence' = 1
    /\ pc' = [pc EXCEPT ![h] = "bumped"]
    /\ UNCHANGED <<lock, lockUp, token, superseded, inflight, strayBumps, rows,
                   author>>

(* BUMP_SQL commits.                                                       *)
Bump(h) ==
    /\ pc[h] = "locked"
    /\ leaseFence < MaxBumps
    /\ leaseFence' = leaseFence + 1
    /\ pc' = [pc EXCEPT ![h] = "bumped"]
    /\ UNCHANGED <<lock, lockUp, token, superseded, inflight, strayBumps, rows,
                   author>>

(* Mutant of ReadToken: a plain query, answered by a replica that lags.    *)
ReadTokenStale(h) ==
    /\ pc[h] = "bumped"
    /\ \E t \in 1 .. leaseFence :
          /\ token' = [token EXCEPT ![h] = t]
          /\ author' = [author EXCEPT ![t] = h]
    /\ superseded' = [superseded EXCEPT ![h] = FALSE]
    /\ pc' = [pc EXCEPT ![h] = "leased"]
    /\ UNCHANGED <<lock, lockUp, leaseFence, inflight, strayBumps, rows>>

(* READ_SQL answers, and lease() returns.                                  *)
ReadToken(h) ==
    /\ pc[h] = "bumped"
    /\ token' = [token EXCEPT ![h] = leaseFence]
    /\ superseded' = [superseded EXCEPT ![h] = FALSE]
    /\ author' = [author EXCEPT ![leaseFence] = h]
    /\ pc' = [pc EXCEPT ![h] = "leased"]
    /\ UNCHANGED <<lock, lockUp, leaseFence, inflight, strayBumps, rows>>

(* mint_token fails, or the call is dropped: the lock guard goes with it,  *)
(* and a bump already submitted may still commit.                          *)
AbandonMint(h) ==
    /\ pc[h] \in Minting
    /\ pc' = [pc EXCEPT ![h] = "releasing"]
    /\ \/ strayBumps' = strayBumps
       \/ pc[h] = "locked" /\ leaseFence + strayBumps < MaxBumps
          /\ strayBumps' = strayBumps + 1
    /\ UNCHANGED <<lock, lockUp, leaseFence, token, superseded, inflight, rows,
                   author>>

StrayBump ==
    /\ strayBumps > 0
    /\ leaseFence < MaxBumps
    /\ leaseFence' = leaseFence + 1
    /\ strayBumps' = strayBumps - 1
    /\ UNCHANGED <<pc, lock, lockUp, token, superseded, inflight, rows, author>>

----------------------------------------------------------------------------
(* StoreHandle::fenced_txn.                                                *)

(* The batch is built with the lease's token and submitted.                *)
Submit(h, rs) ==
    /\ pc[h] = "leased"
    /\ Cardinality(inflight) < MaxInflight
    /\ inflight' = inflight \cup {[holder |-> h, token |-> token[h], rows |-> rs,
                                   awaited |-> TRUE]}
    /\ pc' = [pc EXCEPT ![h] = "writing"]
    /\ UNCHANGED <<lock, lockUp, leaseFence, token, superseded, strayBumps,
                   rows, author>>

(* Mutant of GuardPasses: a predicate that matches no row aborts nothing.  *)
GuardMatchesNoRow(b) == TRUE

(* GUARD_SQL: the token is still the newest of its key.                    *)
GuardPasses(b) == leaseFence <= b.token

(* Mutant of FencedRow: the predicate is kept, the stamp is lost.          *)
FencedRowNoStamp(b, r) ==
    IF r \in b.rows /\ rows[r].fence <= b.token
    THEN [rows[r] EXCEPT !.writer = b.holder]
    ELSE rows[r]

(* Statement::fenced: AND fence <= token, SET fence = token.               *)
FencedRow(b, r) ==
    IF r \in b.rows /\ rows[r].fence <= b.token
    THEN [fence |-> b.token, writer |-> b.holder]
    ELSE rows[r]

(* Mutant of Apply: without NOT NULL the guard writes its NULL.            *)
ApplyNullFence(b) ==
    /\ b \in inflight
    /\ inflight' = inflight \ {b}
    /\ rows' = [r \in Row |-> FencedRow(b, r)]
    /\ leaseFence' = IF GuardPasses(b) THEN leaseFence ELSE Nobody
    /\ UNCHANGED <<pc, lock, lockUp, superseded, token, strayBumps, author>>

(* The state machine applies the batch, whole or not at all; a caller that *)
(* still waits for it learns whether the guard aborted it.                 *)
Apply(b) ==
    /\ b \in inflight
    /\ inflight' = inflight \ {b}
    /\ rows' = IF GuardPasses(b) THEN [r \in Row |-> FencedRow(b, r)] ELSE rows
    /\ pc' = IF b.awaited THEN [pc EXCEPT ![b.holder] = "leased"] ELSE pc
    /\ superseded' = IF b.awaited /\ ~GuardPasses(b)
                     THEN [superseded EXCEPT ![b.holder] = TRUE]
                     ELSE superseded
    /\ UNCHANGED <<lock, lockUp, leaseFence, token, strayBumps, author>>

(* The caller's wait ends without an answer; the batch stays on its way.   *)
Disown(h) == {[holder |-> b.holder, token |-> b.token, rows |-> b.rows,
               awaited |-> b.awaited /\ b.holder # h] : b \in inflight}

LoseReply(h) ==
    /\ pc[h] = "writing"
    /\ inflight' = Disown(h)
    /\ pc' = [pc EXCEPT ![h] = "leased"]
    /\ UNCHANGED <<lock, lockUp, leaseFence, token, superseded, strayBumps,
                   rows, author>>

(* Lease::release and Drop: hand_back leaks the guard of a lease known to  *)
(* be superseded and drops it otherwise, also while a batch is in flight.  *)
HandBack(h) ==
    /\ pc[h] \in Leased
    /\ pc' = [pc EXCEPT ![h] = IF superseded[h] THEN "idle" ELSE "releasing"]
    /\ inflight' = Disown(h)
    /\ token' = [token EXCEPT ![h] = 0]
    /\ superseded' = [superseded EXCEPT ![h] = FALSE]
    /\ UNCHANGED <<lock, lockUp, leaseFence, strayBumps, rows, author>>

(* The process of h dies: nothing is released, and only the TTL frees the  *)
(* lock.                                                                   *)
Crash(h) ==
    /\ pc[h] # "idle"
    /\ pc' = [pc EXCEPT ![h] = "idle"]
    /\ inflight' = Disown(h)
    /\ token' = [token EXCEPT ![h] = 0]
    /\ superseded' = [superseded EXCEPT ![h] = FALSE]
    /\ UNCHANGED <<lock, lockUp, leaseFence, strayBumps, rows, author>>

----------------------------------------------------------------------------
LeaseNext ==
    \/ Expire
    \/ StrayBump
    \/ \E b \in inflight : Apply(b)
    \/ \E h \in Holder :
          \/ RequestLock(h) \/ RequestTimesOut(h) \/ HandleRelease(h)
          \/ Bump(h) \/ ReadToken(h) \/ AbandonMint(h)
          \/ \E rs \in SUBSET Row \ {{}} : Submit(h, rs)
          \/ LoseReply(h) \/ HandBack(h) \/ Crash(h)

LeaseSpec == LeaseInit /\ [][LeaseNext]_leaseVars

----------------------------------------------------------------------------
(* No token is given to two calls of lease(): lock.rs states that tokens   *)
(* of one key are strictly increasing, and fenced_txn, which compares a    *)
(* token with lease_fence only, is safe for no other reason.               *)
TokenGivenOnce ==
    [][\A h \in Holder : token'[h] # token[h] /\ token'[h] # 0
           => /\ \A t \in Token : author[t] # Nobody => t < token'[h]
              /\ \A b \in inflight : b.token < token'[h]]_leaseVars

(* Two callers that both believe they hold the lease never both pass the   *)
(* fence guard: every caller and every batch still on its way that carries *)
(* the key's newest token belongs to one lease() call (lock.rs, module doc:*)
(* a holder may have lost its lease and still believe it holds one).       *)
NewestCarriers ==
    {h \in Holder : token[h] = leaseFence}
        \cup {b.holder : b \in {c \in inflight : c.token = leaseFence}}

OneNewestHolder ==
    leaseFence # 0 => \A g, h \in NewestCarriers : g = h

(* A row is never stamped beyond the key's token, and its stamp names the  *)
(* lease that wrote it: no superseded holder's write lies over a newer one.*)
StampsAreIssued ==
    \A r \in Row :
        /\ rows[r].fence <= leaseFence
        /\ rows[r].writer = author[rows[r].fence]
        /\ rows[r].fence # 0 => rows[r].writer # Nobody

(* What holders, late batches and expired locks never break (lock.rs).     *)
LeaseSound == LeaseTypeOK /\ OneNewestHolder /\ StampsAreIssued

(* The lease implements the fenced register: the call that was given the   *)
(* key's newest token is the only one whose batches commit, and it loses   *)
(* that right for good when the token is bumped.                           *)
Register == INSTANCE FencedRegister
    WITH writer <- author[leaseFence],
         lastWriter <- [r \in Row |-> rows[r].writer]
ImplementsRegister == Register!FSpec
=============================================================================
