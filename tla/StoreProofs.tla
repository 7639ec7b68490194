----------------------------- MODULE StoreProofs -----------------------------
(***************************************************************************)
(* Theorems about what a cell keeps in its store: the lease (Lease), for   *)
(* every set of callers and rows and every bound; intake (Intake), for any *)
(* deliveries, contents, workers, jobs, caps on attempts and bounds; and   *)
(* the store itself through deploy steps, backups, restores and starts     *)
(* (Deploy, Recovery), for every set of builds and every scene.            *)
(*                                                                         *)
(* The lease's safety theorems assume ~SlowMint: the lock does not expire  *)
(* while its owner mints a token.  Without it two calls may read one       *)
(* token.  What intake needs no assumption on late calls for is proved     *)
(* without it: the type invariant, the attempt history, and what retention *)
(* and erasure may forget.                                                 *)
(***************************************************************************)
EXTENDS Lease, Intake, Recovery, FiniteSetTheorems, TLAPS

(* The lock serialises minting: who mints owns an unexpired lock.          *)
MintOwnsLock ==
    \A h \in Holder : pc[h] \in Minting => lock.owner = h /\ ~lock.expired

(* Tokens above lease_fence have not been given out, and a bump that has   *)
(* not been read back leaves the newest token free.                        *)
FreshTokens ==
    /\ author[0] = Nobody
    /\ \A t \in Token : t > leaseFence => author[t] = Nobody
    /\ \A h \in Holder : pc[h] = "bumped" => leaseFence # 0 /\ author[leaseFence] = Nobody

(* Whoever carries a token was given it.                                   *)
CarriersAreAuthors ==
    /\ \A h \in Holder : IF pc[h] \in Leased
                         THEN token[h] # 0 /\ author[token[h]] = h
                         ELSE token[h] = 0
    /\ \A b \in inflight : b.token # 0 /\ author[b.token] = b.holder

(* A caller that waits for a reply waits for one batch.                    *)
RepliesAreAwaited ==
    \A b \in inflight : b.awaited =>
        /\ pc[b.holder] = "writing"
        /\ \A c \in inflight : c.awaited /\ c.holder = b.holder => c = b

LeaseInv ==
    /\ LeaseTypeOK
    /\ MintOwnsLock
    /\ FreshTokens
    /\ CarriersAreAuthors
    /\ RepliesAreAwaited
    /\ StampsAreIssued

----------------------------------------------------------------------------
(* Disowning h's batches changes no token, holder or rows, and leaves the  *)
(* other callers waiting for what they waited for.                         *)
LEMMA DisownKeepsContents ==
    ASSUME NEW h \in Holder, inflight \in SUBSET Batch
    PROVE  /\ Disown(h) \in SUBSET Batch
           /\ \A c \in Disown(h) :
                 /\ \E b \in inflight : c.holder = b.holder /\ c.token = b.token
                 /\ c.awaited => c \in inflight /\ c.holder # h
<1> SUFFICES ASSUME NEW c \in Disown(h)
             PROVE  /\ c \in Batch
                    /\ \E b \in inflight : c.holder = b.holder /\ c.token = b.token
                    /\ c.awaited => c \in inflight /\ c.holder # h
  OBVIOUS
<1>1. PICK b \in inflight :
        c = [holder |-> b.holder, token |-> b.token, rows |-> b.rows,
             awaited |-> b.awaited /\ b.holder # h]
  BY DEF Disown
<1>2. b \in Batch
  OBVIOUS
<1>3. b.holder \in Holder /\ b.token \in Token /\ b.rows \in SUBSET Row /\ b.awaited \in BOOLEAN
  BY <1>2 DEF Batch
<1>4. c \in Batch
  BY <1>1, <1>3 DEF Batch
<1>5. c.holder = b.holder /\ c.token = b.token
  BY <1>1
<1>6. ASSUME c.awaited PROVE c = b /\ c.holder # h
  <2>1. b.awaited = TRUE /\ b.holder # h
    BY <1>1, <1>3, <1>6
  <2>2. c = [holder |-> b.holder, token |-> b.token, rows |-> b.rows, awaited |-> b.awaited]
    BY <1>1, <2>1
  <2> QED
    BY <1>2, <2>1, <2>2, <1>5 DEF Batch
<1> QED
  BY <1>4, <1>5, <1>6

(* The type invariant holds whether or not the mint outlives the TTL.      *)
THEOREM LeaseTypeCorrect == LeaseSpec => []LeaseTypeOK
<1> USE HolderAssumption, BoundAssumption, SlowMintAssumption
<1>1. LeaseInit => LeaseTypeOK
  BY DEF LeaseInit, LeaseTypeOK, Token, Minting, Leased
<1>2. LeaseTypeOK /\ [LeaseNext]_leaseVars => LeaseTypeOK'
  <2> SUFFICES ASSUME LeaseTypeOK, [LeaseNext]_leaseVars PROVE LeaseTypeOK'
    OBVIOUS
  <2> USE DEF LeaseTypeOK, Token, Minting, Leased
  <2>1. CASE Expire
    BY <2>1 DEF Expire
  <2>2. CASE StrayBump
    BY <2>2 DEF StrayBump
  <2>3. ASSUME NEW b \in inflight, Apply(b) PROVE LeaseTypeOK'
    <3>1. b \in Batch
      OBVIOUS
    <3>2. \A r \in Row : FencedRow(b, r) \in [fence : Token, writer : Holder \cup {Nobody}]
      BY <3>1 DEF FencedRow, Batch
    <3> QED
      BY <2>3, <3>1, <3>2 DEF Apply, Batch
  <2>4. ASSUME NEW h \in Holder, RequestLock(h) PROVE LeaseTypeOK'
    <3>1. CASE pc' = [pc EXCEPT ![h] = "locked"] /\ lock' = [owner |-> h, expired |-> FALSE]
      BY <2>4, <3>1 DEF RequestLock
    <3>2. CASE pc' = [pc EXCEPT ![h] = "waiting"] /\ lock' = lock
      BY <2>4, <3>2 DEF RequestLock
    <3> QED
      BY <2>4, <3>1, <3>2 DEF RequestLock
  <2>5. ASSUME NEW h \in Holder, RequestTimesOut(h) PROVE LeaseTypeOK'
    BY <2>5 DEF RequestTimesOut
  <2>6. ASSUME NEW h \in Holder, HandleRelease(h) PROVE LeaseTypeOK'
    <3>1. ASSUME NEW g \in Holder, pc[g] = "waiting",
                 pc' = [[pc EXCEPT ![h] = "idle"] EXCEPT ![g] = "locked"],
                 lock' = [owner |-> g, expired |-> FALSE], lockUp' = lockUp
          PROVE  LeaseTypeOK'
      <4>1. pc' \in [Holder -> {"idle", "waiting", "releasing"} \cup Minting \cup Leased]
        BY <2>6, <3>1 DEF HandleRelease
      <4>2. lock' \in [owner : Holder \cup {Nobody}, expired : BOOLEAN]
        BY <3>1
      <4> QED
        BY <2>6, <3>1, <4>1, <4>2 DEF HandleRelease
    <3>2. CASE /\ pc' = [pc EXCEPT ![h] = "idle"]
               /\ lock' = [owner |-> Nobody, expired |-> FALSE]
               /\ lockUp' = lockUp
      BY <2>6, <3>2 DEF HandleRelease
    <3>3. CASE /\ pc' = [pc EXCEPT ![h] = "idle"]
               /\ lock' = lock
               /\ lockUp' \in BOOLEAN
      BY <2>6, <3>3 DEF HandleRelease
    <3> QED
      BY <2>6, <3>1, <3>2, <3>3 DEF HandleRelease
  <2>7. ASSUME NEW h \in Holder, Bump(h) PROVE LeaseTypeOK'
    BY <2>7 DEF Bump
  <2>8. ASSUME NEW h \in Holder, ReadToken(h) PROVE LeaseTypeOK'
    BY <2>8 DEF ReadToken
  <2>9. ASSUME NEW h \in Holder, AbandonMint(h) PROVE LeaseTypeOK'
    BY <2>9 DEF AbandonMint
  <2>10. ASSUME NEW h \in Holder, NEW rs \in SUBSET Row \ {{}}, Submit(h, rs)
         PROVE LeaseTypeOK'
    <3>1. [holder |-> h, token |-> token[h], rows |-> rs, awaited |-> TRUE] \in Batch
      BY DEF Batch
    <3> QED
      BY <2>10, <3>1 DEF Submit
  <2>11. ASSUME NEW h \in Holder PROVE Disown(h) \in SUBSET Batch
    BY DisownKeepsContents
  <2>12. ASSUME NEW h \in Holder, LoseReply(h) PROVE LeaseTypeOK'
    BY <2>11, <2>12 DEF LoseReply
  <2>13. ASSUME NEW h \in Holder, HandBack(h) PROVE LeaseTypeOK'
    BY <2>11, <2>13 DEF HandBack
  <2>14. ASSUME NEW h \in Holder, Crash(h) PROVE LeaseTypeOK'
    BY <2>11, <2>14 DEF Crash
  <2>15. CASE UNCHANGED leaseVars
    BY <2>15 DEF leaseVars
  <2> QED
    BY <2>1, <2>2, <2>3, <2>4, <2>5, <2>6, <2>7, <2>8, <2>9, <2>10, <2>12,
       <2>13, <2>14, <2>15 DEF LeaseNext
<1> QED
  BY <1>1, <1>2, PTL DEF LeaseSpec

----------------------------------------------------------------------------
(* LeaseInv is inductive when the mint is done within the TTL.             *)
LEMMA InitLeaseInv == LeaseInit => LeaseInv
  BY HolderAssumption, BoundAssumption
     DEF LeaseInit, LeaseInv, LeaseTypeOK, MintOwnsLock, FreshTokens, CarriersAreAuthors,
         RepliesAreAwaited, StampsAreIssued, Token, Minting, Leased

(* Every step of every call keeps it.                                      *)
LEMMA NextLeaseInv ==
    ASSUME ~SlowMint, LeaseInv, LeaseTypeOK', [LeaseNext]_leaseVars
    PROVE  LeaseInv'
<1> USE HolderAssumption, BoundAssumption
<1>b. ASSUME NEW b \in inflight PROVE b \in Batch
  BY DEF LeaseInv, LeaseTypeOK
<1>d. ASSUME NEW h \in Holder
      PROVE  /\ Disown(h) \in SUBSET Batch
             /\ \A c \in Disown(h) :
                   /\ \E b \in inflight : c.holder = b.holder /\ c.token = b.token
                   /\ c.awaited => c \in inflight /\ c.holder # h
  BY DisownKeepsContents DEF LeaseInv, LeaseTypeOK
<1> DEFINE Inner == MintOwnsLock /\ FreshTokens /\ CarriersAreAuthors
                   /\ RepliesAreAwaited /\ StampsAreIssued
<1> SUFFICES Inner'
  BY DEF LeaseInv
<1> USE DEF LeaseInv, LeaseTypeOK, MintOwnsLock, FreshTokens, CarriersAreAuthors,
            RepliesAreAwaited, StampsAreIssued, Token, Minting, Leased
<1>1. CASE Expire
  BY <1>1 DEF Expire
<1>2. CASE StrayBump
  BY <1>2 DEF StrayBump
<1>3. ASSUME NEW b \in inflight, Apply(b) PROVE Inner'
  <2>1. b \in Batch /\ b.token # 0 /\ author[b.token] = b.holder /\ b.token <= leaseFence
    BY <1>b DEF Batch
  <2>2. MintOwnsLock' /\ FreshTokens'
    BY <1>3, <2>1 DEF Apply, Batch
  <2>3. CarriersAreAuthors'
    BY <1>3, <2>1 DEF Apply, Batch
  <2>5. RepliesAreAwaited'
    BY <1>3, <2>1, <1>b DEF Apply, Batch
  <2>4. StampsAreIssued'
    BY <1>3, <2>1 DEF Apply, Batch, FencedRow, GuardPasses
  <2> QED
    BY <2>2, <2>3, <2>4, <2>5
<1>4. ASSUME NEW h \in Holder, RequestLock(h) PROVE Inner'
  <2>1. CASE Obtainable
    <3>1. pc' = [pc EXCEPT ![h] = "locked"] /\ lock' = [owner |-> h, expired |-> FALSE]
      BY <1>4, <2>1 DEF RequestLock
    <3>2. \A g \in Holder : pc[g] \notin Minting
      BY <2>1, <1>4 DEF Obtainable
    <3> QED
      BY <1>4, <3>1, <3>2 DEF RequestLock
  <2>2. CASE ~Obtainable
    <3>1. pc' = [pc EXCEPT ![h] = "waiting"] /\ lock' = lock
      BY <1>4, <2>2 DEF RequestLock
    <3> QED
      BY <1>4, <3>1 DEF RequestLock
  <2> QED
    BY <2>1, <2>2
<1>5. ASSUME NEW h \in Holder, RequestTimesOut(h) PROVE Inner'
  BY <1>5 DEF RequestTimesOut
<1>6. ASSUME NEW h \in Holder, HandleRelease(h) PROVE Inner'
  <2>1. CASE lockUp /\ lock.owner = h
    <3>1. \A g \in Holder : pc[g] \notin Minting
      BY <1>6, <2>1 DEF HandleRelease
    <3>2. ASSUME NEW g \in Holder, pc[g] = "waiting",
                 pc' = [[pc EXCEPT ![h] = "idle"] EXCEPT ![g] = "locked"],
                 lock' = [owner |-> g, expired |-> FALSE]
          PROVE  Inner'
      <4>0. UNCHANGED <<leaseFence, token, inflight, rows, author>>
        BY <1>6 DEF HandleRelease
      <4>1. \A f \in Holder : pc'[f] \in Minting => f = g
        BY <3>1, <3>2
      <4>2. MintOwnsLock' /\ FreshTokens'
        BY <4>0, <4>1, <3>2
      <4>3. \A f \in Holder : /\ pc'[f] \in Leased <=> pc[f] \in Leased
                              /\ pc'[f] = "writing" <=> pc[f] = "writing"
        BY <1>6, <3>2 DEF HandleRelease
      <4>4. CarriersAreAuthors' /\ StampsAreIssued'
        BY <4>0, <4>3
      <4>5. RepliesAreAwaited'
        BY <4>0, <4>3, <1>b DEF Batch
      <4> QED
        BY <4>2, <4>4, <4>5
    <3>3. ASSUME pc' = [pc EXCEPT ![h] = "idle"]
          PROVE  Inner'
      <4>1. \A g \in Holder : pc'[g] \notin Minting
        BY <3>1, <3>3
      <4>2. CarriersAreAuthors' /\ RepliesAreAwaited' /\ StampsAreIssued'
        BY <1>6, <3>3 DEF HandleRelease
      <4> QED
        BY <1>6, <4>1, <4>2 DEF HandleRelease
    <3> QED
      BY <1>6, <2>1, <3>2, <3>3 DEF HandleRelease
  <2>2. CASE ~(lockUp /\ lock.owner = h)
    <3>1. pc' = [pc EXCEPT ![h] = "idle"] /\ lock' = lock
      BY <1>6, <2>2 DEF HandleRelease
    <3> QED
      BY <1>6, <3>1 DEF HandleRelease
  <2> QED
    BY <2>1, <2>2
<1>7. ASSUME NEW h \in Holder, Bump(h) PROVE Inner'
  <2>1. \A g \in Holder : pc'[g] = "bumped" => g = h
    BY <1>7 DEF Bump
  <2> QED
    BY <1>7, <2>1, <1>b DEF Bump, Batch
<1>8. ASSUME NEW h \in Holder, ReadToken(h) PROVE Inner'
  <2>1. \A g \in Holder : pc[g] = "bumped" => g = h
    BY <1>8 DEF ReadToken
  <2>2. \A t \in Token : t # leaseFence => author'[t] = author[t]
    BY <1>8 DEF ReadToken
  <2>3. \A b \in inflight : b.token # leaseFence
    BY <1>8, <1>b DEF ReadToken, Batch
  <2>4. MintOwnsLock' /\ FreshTokens'
    BY <1>8, <2>1, <2>2 DEF ReadToken
  <2>5. CarriersAreAuthors'
    BY <1>8, <2>2, <2>3, <1>b DEF ReadToken, Batch
  <2>6. StampsAreIssued'
    <3>1. \A r \in Row : rows[r].fence \in Token /\ rows'[r] = rows[r]
      BY <1>8 DEF ReadToken
    <3>2. \A r \in Row : rows[r].fence # 0 => rows[r].writer # Nobody
      BY <3>1
    <3> QED
      BY <1>8, <2>2, <3>1, <3>2 DEF ReadToken
  <2>7. RepliesAreAwaited'
    BY <1>8, <1>b DEF ReadToken, Batch
  <2> QED
    BY <2>4, <2>5, <2>6, <2>7
<1>9. ASSUME NEW h \in Holder, AbandonMint(h) PROVE Inner'
  BY <1>9 DEF AbandonMint
<1>10. ASSUME NEW h \in Holder, NEW rs \in SUBSET Row \ {{}}, Submit(h, rs)
       PROVE  Inner'
  BY <1>10, <1>b DEF Submit, Batch
<1>11. ASSUME NEW h \in Holder, LoseReply(h) PROVE Inner'
  <2>1. MintOwnsLock' /\ FreshTokens' /\ StampsAreIssued'
    BY <1>11 DEF LoseReply
  <2>2. CarriersAreAuthors'
    <3>1. \A g \in Holder : /\ token'[g] = token[g]
                            /\ pc'[g] \in Leased <=> pc[g] \in Leased
      BY <1>11 DEF LoseReply
    <3>2. author' = author /\ inflight' = Disown(h)
      BY <1>11 DEF LoseReply
    <3>3. \A c \in inflight' : c.token # 0 /\ author'[c.token] = c.holder
      BY <3>2, <1>d
    <3>4. \A g \in Holder : IF pc'[g] \in Leased
                             THEN token'[g] # 0 /\ author'[token'[g]] = g
                             ELSE token'[g] = 0
      BY <3>1, <3>2
    <3> QED
      BY <3>3, <3>4
  <2>3. RepliesAreAwaited'
    BY <1>11, <1>d, <1>b DEF LoseReply, Batch
  <2> QED
    BY <2>1, <2>2, <2>3
<1>12. ASSUME NEW h \in Holder, HandBack(h) PROVE Inner'
  <2>1. MintOwnsLock' /\ FreshTokens' /\ StampsAreIssued'
    BY <1>12 DEF HandBack
  <2>2. CarriersAreAuthors'
    BY <1>12, <1>d DEF HandBack
  <2>3. RepliesAreAwaited'
    BY <1>12, <1>d, <1>b DEF HandBack, Batch
  <2> QED
    BY <2>1, <2>2, <2>3
<1>13. ASSUME NEW h \in Holder, Crash(h) PROVE Inner'
  <2>1. MintOwnsLock' /\ FreshTokens' /\ StampsAreIssued'
    BY <1>13 DEF Crash
  <2>2. CarriersAreAuthors'
    BY <1>13, <1>d DEF Crash
  <2>3. RepliesAreAwaited'
    BY <1>13, <1>d, <1>b DEF Crash, Batch
  <2> QED
    BY <2>1, <2>2, <2>3
<1>14. CASE UNCHANGED leaseVars
  BY <1>14 DEF leaseVars
<1> QED
  BY <1>1, <1>2, <1>3, <1>4, <1>5, <1>6, <1>7, <1>8, <1>9, <1>10, <1>11,
     <1>12, <1>13, <1>14 DEF LeaseNext

(* So it holds throughout.                                                 *)
LEMMA LeaseInvHolds == ~SlowMint => (LeaseSpec => []LeaseInv)
<1> SUFFICES ASSUME ~SlowMint PROVE LeaseSpec => []LeaseInv
  OBVIOUS
<1>1. LeaseInv /\ LeaseTypeOK' /\ [LeaseNext]_leaseVars => LeaseInv'
  BY NextLeaseInv
<1> QED
  BY <1>1, InitLeaseInv, LeaseTypeCorrect, PTL DEF LeaseSpec

----------------------------------------------------------------------------
(* At any moment the newest token is carried by one lease() call only.     *)
THEOREM OneNewestHolderHolds == ~SlowMint => (LeaseSpec => []OneNewestHolder)
<1>1. LeaseInv => OneNewestHolder
  BY DEF LeaseInv, LeaseTypeOK, CarriersAreAuthors, OneNewestHolder, NewestCarriers, Batch
<1> QED
  BY <1>1, LeaseInvHolds, PTL

(* Rows are stamped with issued tokens, by the call that was given them.   *)
THEOREM StampsAreIssuedHolds == ~SlowMint => (LeaseSpec => []StampsAreIssued)
<1>1. LeaseInv => StampsAreIssued
  BY DEF LeaseInv
<1> QED
  BY <1>1, LeaseInvHolds, PTL

(* lease() never returns a token that was returned, or is in use, before,  *)
(* and tokens increase in the order they are returned.                     *)
THEOREM TokenGivenOnceHolds == ~SlowMint => (LeaseSpec => TokenGivenOnce)
<1> DEFINE Newer == \A h \in Holder : token'[h] # token[h] /\ token'[h] # 0
           => /\ \A t \in Token : author[t] # Nobody => t < token'[h]
              /\ \A b \in inflight : b.token < token'[h]
<1>1. ASSUME LeaseInv, [LeaseNext]_leaseVars PROVE [Newer]_leaseVars
  <2>1. ASSUME NEW h \in Holder, token'[h] # token[h], token'[h] # 0
        PROVE  ReadToken(h)
    BY <1>1, <2>1 DEF LeaseInv, LeaseTypeOK, LeaseNext, leaseVars, Expire, StrayBump, Apply,
       RequestLock, RequestTimesOut, HandleRelease, Bump, ReadToken, AbandonMint, Submit,
       LoseReply, HandBack, Crash
  <2>2. ASSUME NEW h \in Holder, ReadToken(h)
        PROVE  /\ \A t \in Token : author[t] # Nobody => t < token'[h]
               /\ \A b \in inflight : b.token < token'[h]
    BY <1>1, <2>2, HolderAssumption, BoundAssumption
       DEF ReadToken, LeaseInv, LeaseTypeOK, FreshTokens, CarriersAreAuthors, Token, Batch
  <2> QED
    BY <2>1, <2>2
<1> QED
  BY <1>1, LeaseInvHolds, PTL DEF LeaseSpec, TokenGivenOnce

----------------------------------------------------------------------------
(* The lease implements the fenced register: every commit is a write of    *)
(* the one current writer, and every bump takes the right away.            *)
THEOREM LeaseImplementsRegister == ~SlowMint => (LeaseSpec => ImplementsRegister)
<1> USE DEF Register!fvars
<1>1. LeaseInit => Register!FInit
  BY BoundAssumption DEF LeaseInit, Register!FInit, Token
<1>2. ASSUME LeaseInv, [LeaseNext]_leaseVars
      PROVE  [Register!FNext]_(Register!fvars)
  <2> USE <1>2, HolderAssumption, BoundAssumption
      DEF LeaseInv, LeaseTypeOK, Token
  <2> DEFINE Same == author'[leaseFence'] = author[leaseFence] /\ rows' = rows
  <2>1. Same => [Register!FNext]_(Register!fvars)
    OBVIOUS
  <2>2. CASE StrayBump
    <3>1. author'[leaseFence'] = Nobody /\ rows' = rows
      BY <2>2 DEF StrayBump, FreshTokens
    <3> QED
      BY <3>1 DEF Register!FNext, Register!Lose
  <2>3. ASSUME NEW h \in Holder, Bump(h)
        PROVE  [Register!FNext]_(Register!fvars)
    <3>1. author'[leaseFence'] = Nobody /\ rows' = rows
      BY <2>3 DEF Bump, FreshTokens
    <3> QED
      BY <3>1 DEF Register!FNext, Register!Lose
  <2>4. ASSUME NEW h \in Holder, ReadToken(h)
        PROVE  [Register!FNext]_(Register!fvars)
    <3>1. author[leaseFence] = Nobody /\ author'[leaseFence'] = h /\ rows' = rows
      BY <2>4 DEF ReadToken, FreshTokens
    <3> QED
      BY <3>1 DEF Register!FNext, Register!Take
  <2>5. ASSUME NEW b \in inflight, Apply(b)
        PROVE  [Register!FNext]_(Register!fvars)
    <3>1. b \in Batch
      OBVIOUS
    <3>2. b.token # 0 /\ author[b.token] = b.holder /\ b.token <= leaseFence
      BY <3>1 DEF CarriersAreAuthors, FreshTokens, Batch
    <3>3. CASE ~GuardPasses(b)
      BY <2>1, <2>5, <3>3 DEF Apply
    <3>4. CASE GuardPasses(b)
      <4>1. b.token = leaseFence /\ author[leaseFence] = b.holder
        BY <3>1, <3>2, <3>4 DEF GuardPasses, Batch
      <4>2. author' = author /\ leaseFence' = leaseFence
        BY <2>5 DEF Apply
      <4>3. \A r \in Row : rows'[r] = FencedRow(b, r)
        BY <2>5, <3>4 DEF Apply
      <4>4. \A r \in Row : rows[r].fence <= b.token
        BY <4>1 DEF StampsAreIssued
      <4>5. \A r \in Row : rows'[r].writer = IF r \in b.rows THEN b.holder ELSE rows[r].writer
        BY <4>3, <4>4 DEF FencedRow
      <4>6. [r \in Row |-> rows'[r].writer] =
            [r \in Row |-> IF r \in b.rows THEN b.holder
                           ELSE [s \in Row |-> rows[s].writer][r]]
        BY <4>5
      <4>7. Register!Write(b.holder, b.rows)
        BY <4>1, <4>2, <4>6 DEF Register!Write
      <4>8. b.holder \in Holder /\ b.rows \in SUBSET Row
        BY <3>1 DEF Batch
      <4> QED
        BY <4>7, <4>8 DEF Register!FNext
    <3> QED
      BY <3>3, <3>4
  <2>6. ASSUME NEW h \in Holder,
               \/ RequestLock(h) \/ RequestTimesOut(h) \/ HandleRelease(h) \/ AbandonMint(h)
               \/ (\E rs \in SUBSET Row \ {{}} : Submit(h, rs))
               \/ LoseReply(h) \/ HandBack(h) \/ Crash(h)
        PROVE  Same
    BY <2>6 DEF RequestLock, RequestTimesOut, HandleRelease, AbandonMint, Submit,
                LoseReply, HandBack, Crash
  <2>7. Expire \/ UNCHANGED leaseVars => Same
    BY DEF Expire, leaseVars
  <2> QED
    BY <2>1, <2>2, <2>3, <2>4, <2>5, <2>6, <2>7 DEF LeaseNext
<1> QED
  BY <1>1, <1>2, LeaseInvHolds, PTL DEF LeaseSpec, ImplementsRegister, Register!FSpec

(* What holders, late batches and expired locks never break.               *)
THEOREM LeaseSoundHolds == ~SlowMint => (LeaseSpec => []LeaseSound)
<1>1. LeaseTypeOK /\ OneNewestHolder /\ StampsAreIssued => LeaseSound
  BY DEF LeaseSound
<1> QED
  BY <1>1, LeaseTypeCorrect, OneNewestHolderHolds, StampsAreIssuedHolds, PTL

-----------------------------------------------------------------------------
(* Intake.                                                                 *)

(* A compacted head has compacted revisions only.                          *)
TombIsBare ==
    head.kind = "tomb" => \A r \in Revision : Recorded(r) => receipt[r].bare

(* A delivery under way has content.                                       *)
DeliveryHasContent ==
    \A d \in Delivery : delivery[d].pc # "idle" => delivery[d].digest \in Digest

(* A compacted or an erased identity has no work left.                     *)
NoWorkAtRest ==
    head.kind \in {"tomb", "erased"} => attempts = {} /\ \A j \in Job : ~Present(j)

AbsentIsEmpty == \A j \in Job : ~Present(j) => proc[j] = NoRow

(* A worker that is not idle has a job and a token of its own.             *)
WorkersNumbered ==
    /\ \A k \in Worker : worker[k].pc # "idle" =>
          worker[k].job \in Job /\ worker[k].token \in 1 .. queueFence
    /\ \A k, l \in Worker :
          worker[k].pc # "idle" /\ worker[l].pc # "idle" /\ worker[k].token = worker[l].token
             => k = l

(* The rows of job j have the numbers 1 to n, each once; an open row is the*)
(* newest of a claimed row.                                                *)
Numbered(tries, j, n) ==
    LET history == {a \in tries : a.job = j /\ a.outcome # "requeued"}
    IN  /\ \A a \in history : a.attempt \in 1 .. n
        /\ \A m \in 1 .. n : \E a \in history : a.attempt = m
        /\ \A a, b \in history : a.attempt = b.attempt => a = b
OpenIsNewest(tries, j, row) ==
    \A a \in tries : a.job = j /\ a.outcome = "open" =>
                       row.state = "claimed" /\ a.attempt = row.attempt
HistoryNumbered ==
    \A j \in Job : Numbered(attempts, j, proc[j].attempt) /\ OpenIsNewest(attempts, j, proc[j])

(* What is known of the receipts alone, and of the work alone.             *)
ReceiptPart == ReceiptsTypeOK /\ TombIsBare /\ DeliveryHasContent
RowPart == AbsentIsEmpty /\ WorkersNumbered /\ HolderIsNewest /\ HistoryNumbered

(* What holds whether or not calls outlive the rows they were made for.    *)
IInv ==
    /\ ReceiptPart /\ WorkTypeOK /\ RowPart
    /\ NoWorkAtRest /\ WorkHasReceipt

(* What a delivery has read is never ahead of the head, and the content it *)
(* calls changed is none of the revisions it has read.                     *)
DeliveryKnows ==
    \A d \in Delivery :
        delivery[d].pc # "idle" =>
            /\ delivery[d].rev <= head.rev
            /\ delivery[d].pc = "first" => delivery[d].rev = 0
            /\ delivery[d].pc # "first" => head.kind # "none"
            /\ delivery[d].pc = "changed" =>
                  \A r \in Revision : r <= delivery[d].rev =>
                                         receipt[r].digest # delivery[d].digest

HeadCounts ==
    /\ head.kind = "none" => head = NoHead
    /\ head.kind \in {"live", "tomb"} => head.rev # 0
RowsHaveContent ==
    \A r \in Revision : Recorded(r) => receipt[r].digest \in Digest

(* What holds as long as no delivery outlives the rows it was made for.    *)
RInv ==
    /\ HeadAgrees /\ EachContentOnce /\ AckedIsRecorded /\ NoRowsWithoutHead
    /\ DeliveryKnows /\ HeadCounts /\ RowsHaveContent

(* A job nothing was deleted of has its domain writes only in its row, and *)
(* one without a revision has none.                                        *)
CommitsKept ==
    \A j \in Job :
        /\ ~Present(j) /\ j \notin retired => commits[j] = 0
        /\ head.kind # "erased" /\ ~Recorded(j) => commits[j] = 0 /\ j \notin retired

(* A claim has its row, or had it deleted beneath it.                      *)
ClaimedOrOrphaned ==
    \A k \in Worker :
        worker[k].pc = "claimed" => Present(worker[k].job) \/ worker[k].job \in orphaned

DInv == RInv /\ DoneOnce /\ CommitsKept /\ ClaimedOrOrphaned

----------------------------------------------------------------------------
(* What the statements on attempt rows do.                                 *)

(* Closing an attempt keeps every number of every job.                     *)
LEMMA CloseNumbered ==
    ASSUME NEW tries \in SUBSET AttemptRow, NEW j, NEW i \in Job,
           NEW n, NEW m \in Nat, NEW o \in Closed
    PROVE  /\ Close(tries, j, n, o) \in SUBSET AttemptRow
           /\ Numbered(tries, i, m) => Numbered(Close(tries, j, n, o), i, m)
<1> DEFINE old == [job |-> j, attempt |-> n, outcome |-> "open"]
           new == [job |-> j, attempt |-> n, outcome |-> o]
<1>1. CASE old \notin tries
  BY <1>1 DEF Close
<1>2. CASE old \in tries
  <2>1. Close(tries, j, n, o) = (tries \ {old}) \cup {new}
    BY <1>2 DEF Close
  <2>2. j \in Job /\ n \in Nat /\ new \in AttemptRow /\ o # "requeued" /\ o # "open"
    BY <1>2 DEF AttemptRow, Closed
  <2>3. ASSUME Numbered(tries, i, m) PROVE Numbered((tries \ {old}) \cup {new}, i, m)
    <3> DEFINE before == {a \in tries : a.job = i /\ a.outcome # "requeued"}
               after == {a \in (tries \ {old}) \cup {new} : a.job = i /\ a.outcome # "requeued"}
    <3>1. CASE i # j
      <4>1. after = before
        BY <3>1
      <4> QED
        BY <4>1, <2>3 DEF Numbered
    <3>2. CASE i = j
      <4>1. old \in before /\ after = (before \ {old}) \cup {new}
        BY <1>2, <2>2, <3>2
      <4>2. old.attempt = n /\ new.attempt = n
        OBVIOUS
      <4> HIDE DEF old, new, before, after
      <4>3. /\ \A a \in before : a.attempt \in 1 .. m
            /\ \A q \in 1 .. m : \E a \in before : a.attempt = q
            /\ \A a, b \in before : a.attempt = b.attempt => a = b
        BY <2>3 DEF Numbered, before
      <4>4. \A a \in after : a.attempt \in 1 .. m
        BY <4>1, <4>2, <4>3
      <4>5. \A q \in 1 .. m : \E a \in after : a.attempt = q
        BY <4>1, <4>2, <4>3
      <4>6. \A a, b \in after : a.attempt = b.attempt => a = b
        BY <4>1, <4>2, <4>3
      <4> QED
        BY <4>4, <4>5, <4>6 DEF Numbered, after
    <3> QED
      BY <3>1, <3>2
  <2> QED
    BY <2>1, <2>2, <2>3
<1> QED
  BY <1>1, <1>2

(* Closing the attempt an open row may have leaves none open.              *)
LEMMA CloseLeavesNoneOpen ==
    ASSUME NEW tries \in SUBSET AttemptRow, NEW j \in Job, NEW i \in Job,
           NEW n \in Nat, NEW o \in Closed, NEW row, OpenIsNewest(tries, i, row)
    PROVE  /\ OpenIsNewest(Close(tries, j, n, o), i, row)
           /\ i = j /\ row.attempt = n =>
                 \A a \in Close(tries, j, n, o) : a.job = i => a.outcome # "open"
<1> DEFINE old == [job |-> j, attempt |-> n, outcome |-> "open"]
           new == [job |-> j, attempt |-> n, outcome |-> o]
<1>1. o # "open"
  BY DEF Closed
<1>2. \A a \in Close(tries, j, n, o) : a.outcome = "open" => a \in tries /\ a # old
  BY <1>1 DEF Close
<1>3. \A a \in tries : a.job = j /\ a.attempt = n /\ a.outcome = "open" => a = old
  BY DEF AttemptRow
<1> QED
  BY <1>2, <1>3 DEF OpenIsNewest

(* Opening the next attempt counts one more.                               *)
LEMMA OpenNumbered ==
    ASSUME NEW tries \in SUBSET AttemptRow, NEW j \in Job, NEW n \in Nat,
           Numbered(tries, j, n)
    PROVE  Numbered(tries \cup {[job |-> j, attempt |-> n + 1, outcome |-> "open"]}, j, n + 1)
<1> DEFINE new == [job |-> j, attempt |-> n + 1, outcome |-> "open"]
           before == {a \in tries : a.job = j /\ a.outcome # "requeued"}
           after == {a \in tries \cup {new} : a.job = j /\ a.outcome # "requeued"}
<1>1. after = before \cup {new} /\ new.attempt = n + 1
  OBVIOUS
<1>2. /\ \A a \in before : a.attempt \in 1 .. n
      /\ \A m \in 1 .. n : \E a \in before : a.attempt = m
      /\ \A a, b \in before : a.attempt = b.attempt => a = b
  BY DEF Numbered
<1> HIDE DEF new, before, after
<1>3. \A a \in after : a.attempt \in 1 .. (n + 1)
  BY <1>1, <1>2
<1>4. \A m \in 1 .. (n + 1) : \E a \in after : a.attempt = m
  BY <1>1, <1>2
<1>5. \A a, b \in after : a.attempt = b.attempt => a = b
  BY <1>1, <1>2
<1> QED
  BY <1>3, <1>4, <1>5 DEF Numbered, after, new

----------------------------------------------------------------------------
(* The invariant that needs no assumption.                                 *)

LEMMA InitIInv == Init => IInv
<1> SUFFICES ASSUME Init PROVE IInv
  OBVIOUS
<1> USE DEF Init, ReceiptsInit, WorkInit
<1>1. ReceiptsTypeOK
  BY RevisionAssumption DEF ReceiptsTypeOK, NoReceipt, NoHead, NoDelivery, Revision
<1>2. WorkTypeOK
  BY DEF WorkTypeOK, NoRow, IdleWorker, AttemptRow
<1>3. TombIsBare /\ DeliveryHasContent /\ NoWorkAtRest
  BY DEF TombIsBare, DeliveryHasContent, NoWorkAtRest, NoHead, NoDelivery
<1>4. AbsentIsEmpty /\ WorkHasReceipt
  BY DEF AbsentIsEmpty, WorkHasReceipt, Present, NoRow
<1>5. WorkersNumbered /\ HolderIsNewest
  BY DEF WorkersNumbered, HolderIsNewest, IdleWorker
<1>6. HistoryNumbered
  BY DEF HistoryNumbered, Numbered, OpenIsNewest, NoRow
<1> QED
  BY <1>1, <1>2, <1>3, <1>4, <1>5, <1>6 DEF IInv, ReceiptPart, RowPart

(* Enqueuing a job keeps what is known of the work.                        *)
LEMMA StageWorkKeeps ==
    ASSUME WorkTypeOK, RowPart, NEW j \in Job, StageWork(j)
    PROVE  /\ WorkTypeOK' /\ RowPart'
           /\ \A i \in Job : Present(i)' => Present(i) \/ i = j
<1>1. CASE Present(j)
  <2>1. UNCHANGED workVars
    BY <1>1 DEF StageWork, workVars
  <2> QED
    BY <2>1 DEF workVars, WorkTypeOK, RowPart, AbsentIsEmpty, WorkersNumbered, HolderIsNewest,
           HistoryNumbered, Present
<1>2. CASE ~Present(j)
  <2>1. /\ proc' = [proc EXCEPT ![j] = [state |-> "pending", fence |-> 0, attempt |-> 0]]
        /\ UNCHANGED <<attempts, queueFence, worker, commits, retired, orphaned, strays>>
    BY <1>2 DEF StageWork
  <2>2. proc[j].attempt = 0 /\ proc[j].state = "absent"
    BY <1>2 DEF RowPart, AbsentIsEmpty, NoRow
  <2>3. WorkTypeOK'
    BY <2>1 DEF WorkTypeOK
  <2>4. AbsentIsEmpty' /\ WorkersNumbered'
    BY <2>1 DEF WorkTypeOK, RowPart, AbsentIsEmpty, WorkersNumbered, Present
  <2>5. HolderIsNewest'
    BY <2>1 DEF WorkTypeOK, RowPart, WorkersNumbered, HolderIsNewest
  <2>6. \A i \in Job : /\ proc'[i].attempt = proc[i].attempt
                       /\ i # j => proc'[i] = proc[i]
    BY <2>1, <2>2 DEF WorkTypeOK
  <2>7. HistoryNumbered'
    BY <2>1, <2>2, <2>6 DEF RowPart, HistoryNumbered, OpenIsNewest
  <2> QED
    BY <2>1, <2>3, <2>4, <2>5, <2>7 DEF RowPart, WorkTypeOK, Present
<1> QED
  BY <1>1, <1>2

(* A batch that inserts a revision: the row is new, and the head that comes*)
(* out of it is live or absent.                                            *)
LEMMA InsertKeeps ==
    ASSUME ReceiptPart, NEW d \in Delivery, Accept(d) \/ Collide(d)
    PROVE  /\ ReceiptPart'
           /\ head'.kind \in {"live", "none"}
           /\ delivery[d].rev + 1 \in Revision
           /\ receipt[delivery[d].rev + 1] = NoReceipt
           /\ Accept(d) => receipt'[delivery[d].rev + 1].disposition = "accepted"
           /\ \A r \in Revision : r # delivery[d].rev + 1 => receipt'[r] = receipt[r]
<1> DEFINE n == delivery[d].rev + 1
<1> USE DEF ReceiptPart, ReceiptsTypeOK
<1>1. n \in Revision /\ receipt[n] = NoReceipt
  BY DEF Accept, Collide, BatchPasses, Recorded
<1>2. PICK x \in {"accepted", "collision"} : /\ Insert(d, x)
                                             /\ Accept(d) => x = "accepted"
  BY DEF Accept, Collide
<1>3. SeededHead(d) \in [kind : {"none", "live", "tomb", "erased"},
                         rev : 0 .. MaxRev, acc : 0 .. MaxRev]
  BY RevisionAssumption DEF SeededHead
<1>4. /\ head' \in [kind : {"none", "live", "tomb", "erased"},
                    rev : 0 .. MaxRev, acc : 0 .. MaxRev]
      /\ head'.kind \in {"live", "none"}
  <2>1. PICK h \in {head, SeededHead(d)}, acc \in 0 .. MaxRev :
           head' = AdvancedHead(h, n, acc)
    <3>1. CASE Accept(d)
      BY <1>1, <3>1 DEF Accept, Revision
    <3>2. CASE Collide(d)
      BY <3>2 DEF Collide
    <3> QED
      BY <3>1, <3>2
  <2> QED
    BY <1>1, <1>3, <2>1 DEF AdvancedHead, Revision
<1>5. receipt' = [receipt EXCEPT ![n] = [digest |-> delivery[d].digest, disposition |-> x,
                                         bare |-> FALSE]]
  BY <1>2 DEF Insert
<1>6. /\ receipt' \in [Revision -> [digest : Digest \cup {NoDigest},
                                    disposition : {"none", "accepted", "collision"},
                                    bare : BOOLEAN]]
      /\ \A r \in Revision : r # n => receipt'[r] = receipt[r]
      /\ Accept(d) => receipt'[n].disposition = "accepted"
  BY <1>1, <1>2, <1>5
<1>7. /\ delivery[d].digest \in Digest
      /\ delivery' = [delivery EXCEPT ![d] = NoDelivery]
      /\ acked' \in {acked, acked \cup {delivery[d].digest}}
  BY DEF DeliveryHasContent, Accept, Collide, Answered
<1>8. ReceiptsTypeOK' /\ DeliveryHasContent'
  BY <1>4, <1>6, <1>7, RevisionAssumption DEF NoDelivery, DeliveryHasContent
<1>9. TombIsBare'
  BY <1>4 DEF TombIsBare
<1> QED
  BY <1>1, <1>4, <1>6, <1>8, <1>9

(* Reads and ends keep the receipt part too, and so do retention and       *)
(* erasure.                                                                *)
LEMMA ReceiptStepsKeep ==
    ASSUME ReceiptPart,
           NEW d \in Delivery,
           \/ \E x \in Digest : ReadHead(d, x)
           \/ ReadDigest(d) \/ EndDelivery(d)
    PROVE  ReceiptPart'
<1> USE RevisionAssumption DEF ReceiptPart, ReceiptsTypeOK, TombIsBare, DeliveryHasContent
<1>1. ASSUME NEW x \in Digest, ReadHead(d, x) PROVE ReceiptPart'
  BY <1>1 DEF ReadHead, Recorded
<1>2. CASE ReadDigest(d)
  BY <1>2 DEF ReadDigest, Recorded, NoDelivery
<1>3. CASE EndDelivery(d)
  BY <1>3 DEF EndDelivery, Recorded, NoDelivery
<1> QED
  BY <1>1, <1>2, <1>3

LEMMA RetentionKeeps ==
    ASSUME ReceiptPart, CompactReceipts \/ DropReceipts \/ EraseReceipts
    PROVE  ReceiptPart'
<1> USE RevisionAssumption DEF ReceiptPart, ReceiptsTypeOK, TombIsBare, DeliveryHasContent
<1>1. CASE CompactReceipts
  <2>1. head' \in [kind : {"none", "live", "tomb", "erased"}, rev : 0 .. MaxRev, acc : 0 .. MaxRev]
    BY <1>1 DEF CompactReceipts
  <2>2. ASSUME NEW r \in Revision
        PROVE  /\ receipt'[r] \in [digest : Digest \cup {NoDigest},
                                   disposition : {"none", "accepted", "collision"},
                                   bare : BOOLEAN]
               /\ Recorded(r)' => receipt'[r].bare
    <3>1. receipt'[r] = IF Recorded(r) THEN [receipt[r] EXCEPT !.bare = TRUE] ELSE NoReceipt
      BY <1>1 DEF CompactReceipts
    <3>2. CASE Recorded(r)
      BY <3>1, <3>2
    <3>3. CASE ~Recorded(r)
      BY <3>1, <3>3 DEF Recorded, NoReceipt
    <3> QED
      BY <3>2, <3>3
  <2>3. receipt' \in [Revision -> [digest : Digest \cup {NoDigest},
                                   disposition : {"none", "accepted", "collision"},
                                   bare : BOOLEAN]]
    BY <1>1, <2>2 DEF CompactReceipts
  <2>4. UNCHANGED <<delivery, acked>>
    BY <1>1 DEF CompactReceipts
  <2> QED
    BY <2>1, <2>2, <2>3, <2>4
<1>2. CASE DropReceipts
  BY <1>2 DEF DropReceipts, NoReceipt, NoHead
<1>3. CASE EraseReceipts
  BY <1>3 DEF EraseReceipts, NoReceipt
<1> QED
  BY <1>1, <1>2, <1>3

(* The steps of a worker keep the row part, and make no row of their own.  *)
LEMMA WorkerStepsKeep ==
    ASSUME WorkTypeOK, RowPart, NEW k \in Worker,
           \/ \E j \in Job : Pick(k, j)
           \/ ClaimCandidate(k) \/ Complete(k) \/ Fail(k) \/ Renew(k) \/ Abandon(k)
    PROVE  /\ WorkTypeOK' /\ RowPart'
           /\ \A j \in Job : Present(j)' <=> Present(j)
           /\ (\A j \in Job : ~Present(j)) /\ attempts = {} => attempts' = {}
<1> USE DEF RowPart, AbsentIsEmpty
<1>1. ASSUME NEW j \in Job, Pick(k, j) PROVE WorkTypeOK' /\ RowPart' /\ UNCHANGED <<proc, attempts>>
  <2>1. WorkTypeOK' /\ UNCHANGED <<proc, attempts>>
    BY <1>1 DEF Pick, WorkTypeOK
  <2>2. WorkersNumbered'
    BY <1>1 DEF Pick, WorkTypeOK, WorkersNumbered
  <2>3. HolderIsNewest'
    BY <1>1 DEF Pick, WorkTypeOK, HolderIsNewest
  <2>4. AbsentIsEmpty' /\ HistoryNumbered'
    BY <2>1 DEF Present, HistoryNumbered
  <2> QED
    BY <2>1, <2>2, <2>3, <2>4
<1>2. CASE ClaimCandidate(k)
  <2> DEFINE j == worker[k].job
             n == worker[k].attempt
  <2>1. j \in Job /\ n \in Nat /\ worker[k].token \in 1 .. queueFence
    BY <1>2 DEF ClaimCandidate, WorkTypeOK, WorkersNumbered
  <2>2. CASE UNCHANGED <<proc, attempts>> /\ worker' = [worker EXCEPT ![k] = IdleWorker]
    BY <1>2, <2>2 DEF ClaimCandidate, IdleWorker, WorkTypeOK, WorkersNumbered, HolderIsNewest,
                      HistoryNumbered, Present
  <2>3. CASE /\ CandidateUnmoved(k)
             /\ proc' = [proc EXCEPT ![j] = [state |-> "claimed", fence |-> worker[k].token,
                                             attempt |-> n + 1]]
             /\ attempts' = OpenedAttempts(k)
             /\ \/ worker' = [worker EXCEPT ![k] = [@ EXCEPT !.pc = "claimed", !.attempt = n + 1]]
                \/ worker' = [worker EXCEPT ![k] = IdleWorker]
    <3>1. proc[j].attempt = n /\ Present(j)
      BY <2>3 DEF CandidateUnmoved, Eligible, Present
    <3> DEFINE closed == Close(attempts, j, n, "expired")
               new == [job |-> j, attempt |-> n + 1, outcome |-> "open"]
    <3>2. attempts \in SUBSET AttemptRow /\ "expired" \in Closed /\ attempts' = closed \cup {new}
      BY <2>3 DEF OpenedAttempts, WorkTypeOK, Closed
    <3>3. /\ closed \in SUBSET AttemptRow
          /\ \A i \in Job : \A m \in Nat : Numbered(attempts, i, m) => Numbered(closed, i, m)
      BY <2>1, <3>2, CloseNumbered
    <3>4. \A a \in closed : a.job = j => a.outcome # "open"
      BY <2>1, <3>1, <3>2, CloseLeavesNoneOpen DEF HistoryNumbered
    <3>5. \A i \in Job : OpenIsNewest(closed, i, proc[i])
      BY <2>1, <3>2, CloseLeavesNoneOpen DEF HistoryNumbered
    <3>6. /\ WorkTypeOK'
          /\ \A i \in Job : i # j => proc'[i] = proc[i]
          /\ proc'[j].attempt = n + 1 /\ proc'[j].state = "claimed"
      <4>1. /\ proc' \in [Job -> [state : {"absent", "pending", "claimed", "failed", "done",
                                           "dead"},
                                  fence : Nat, attempt : Nat]]
            /\ \A i \in Job : i # j => proc'[i] = proc[i]
            /\ proc'[j].attempt = n + 1 /\ proc'[j].state = "claimed"
        BY <2>1, <2>3 DEF WorkTypeOK
      <4>2. new \in AttemptRow
        BY <2>1 DEF AttemptRow
      <4>3. attempts' \in SUBSET AttemptRow
        BY <3>2, <3>3, <4>2
      <4>4. worker' \in [Worker -> [pc : {"idle", "picked", "claimed"},
                                    job : Job \cup {NoJob}, token : Nat, attempt : Nat]]
        <5> DEFINE Slot == [pc : {"idle", "picked", "claimed"}, job : Job \cup {NoJob},
                            token : Nat, attempt : Nat]
        <5>1. worker \in [Worker -> Slot] /\ IdleWorker \in Slot /\ worker[k] \in Slot
          BY DEF WorkTypeOK, IdleWorker
        <5>2. ASSUME NEW w \in Slot, NEW m \in Nat
              PROVE  [w EXCEPT !.pc = "claimed", !.attempt = m] \in Slot
          OBVIOUS
        <5>3. n + 1 \in Nat
          BY <2>1
        <5>4. [worker[k] EXCEPT !.pc = "claimed", !.attempt = n + 1] \in Slot
          BY <5>1, <5>2, <5>3
        <5> HIDE DEF Slot
        <5>5. worker' \in [Worker -> Slot]
          BY <2>3, <5>1, <5>4
        <5> QED
          BY <5>5 DEF Slot
      <4>5. UNCHANGED <<queueFence, commits, retired, orphaned, strays>>
        BY <1>2 DEF ClaimCandidate
      <4> QED
        BY <4>1, <4>3, <4>4, <4>5 DEF WorkTypeOK
    <3>7. AbsentIsEmpty'
      BY <3>6 DEF Present
    <3>8. WorkersNumbered'
      <4>1. /\ queueFence' = queueFence
            /\ \A l \in Worker : /\ worker'[l].pc # "idle" => worker[l].pc # "idle"
                                 /\ worker'[l].pc # "idle" => worker'[l].job = worker[l].job
                                 /\ worker'[l].pc # "idle" => worker'[l].token = worker[l].token
        <5>1. CASE worker' = [worker EXCEPT ![k] = [@ EXCEPT !.pc = "claimed", !.attempt = n + 1]]
          BY <1>2, <5>1 DEF ClaimCandidate, WorkTypeOK
        <5>2. CASE worker' = [worker EXCEPT ![k] = IdleWorker]
          BY <1>2, <5>2 DEF ClaimCandidate, WorkTypeOK, IdleWorker
        <5> QED
          BY <2>3, <5>1, <5>2
      <4> QED
        BY <4>1 DEF WorkersNumbered
    <3>9. HolderIsNewest'
      <4>1. ASSUME NEW l \in Worker, worker'[l].pc = "claimed"
            PROVE  \/ l = k /\ worker'[l].job = j /\ worker'[l].token = worker[k].token
                            /\ worker'[l].attempt = n + 1
                   \/ l # k /\ worker'[l] = worker[l]
        <5>1. CASE worker' = [worker EXCEPT ![k] = [@ EXCEPT !.pc = "claimed", !.attempt = n + 1]]
          BY <5>1 DEF WorkTypeOK
        <5>2. CASE worker' = [worker EXCEPT ![k] = IdleWorker]
          BY <4>1, <5>2 DEF WorkTypeOK, IdleWorker
        <5> QED
          BY <2>3, <5>1, <5>2
      <4> QED
        BY <1>2, <2>1, <2>3, <4>1 DEF ClaimCandidate, WorkTypeOK, WorkersNumbered, HolderIsNewest
    <3>10. ASSUME NEW i \in Job
           PROVE  Numbered(attempts', i, proc'[i].attempt) /\ OpenIsNewest(attempts', i, proc'[i])
      <4>1. Numbered(closed, i, proc[i].attempt)
        BY <3>3 DEF HistoryNumbered, WorkTypeOK
      <4>2. CASE i = j
        <5>1. Numbered(closed \cup {new}, j, n + 1)
          BY <2>1, <3>1, <3>3, <4>1, <4>2, OpenNumbered
        <5>2. OpenIsNewest(closed \cup {new}, j, proc'[j])
          BY <3>4, <3>6 DEF OpenIsNewest
        <5> QED
          BY <3>2, <3>6, <4>2, <5>1, <5>2
      <4>3. CASE i # j
        <5>1. {a \in attempts' : a.job = i /\ a.outcome # "requeued"}
                = {a \in closed : a.job = i /\ a.outcome # "requeued"}
          BY <3>2, <4>3
        <5>2. OpenIsNewest(attempts', i, proc[i])
          BY <3>2, <3>5, <4>3 DEF OpenIsNewest
        <5> QED
          BY <3>6, <4>1, <4>3, <5>1, <5>2 DEF Numbered
      <4> QED
        BY <4>2, <4>3
    <3> QED
      BY <2>1, <3>1, <3>6, <3>7, <3>8, <3>9, <3>10 DEF HistoryNumbered, Present
  <2> QED
    BY <1>2, <2>2, <2>3 DEF ClaimCandidate
<1>3. ASSUME NEW j \in Job, NEW n \in Nat, NEW o \in Closed, NEW state,
             Complete(k) \/ Fail(k), j = worker[k].job, n = worker[k].attempt,
             ClaimHeld(k),
             state \in {"failed", "done", "dead"},
             proc' = IF Present(j) THEN [proc EXCEPT ![j].state = state] ELSE proc,
             attempts' = Close(attempts, j, n, o),
             worker' \in {[worker EXCEPT ![k] = IdleWorker], worker},
             queueFence' = queueFence,
             WorkTypeOK'
      PROVE  /\ RowPart'
             /\ \A i \in Job : Present(i)' <=> Present(i)
             /\ attempts = {} => attempts' = {}
  <2>1. attempts \in SUBSET AttemptRow /\ worker[k].pc = "claimed"
    BY <1>3 DEF WorkTypeOK, Complete, Fail
  <2>2. \A i \in Job : /\ proc'[i].attempt = proc[i].attempt
                       /\ i # j => proc'[i] = proc[i]
                       /\ ~Present(i) => proc'[i] = proc[i]
                       /\ Present(i)' <=> Present(i)
    BY <1>3 DEF WorkTypeOK, Present
  <2>3. WorkersNumbered'
    <3>1. worker' \in {[worker EXCEPT ![k] = IdleWorker], worker} /\ queueFence' = queueFence
      BY <1>3
    <3>2. worker \in [Worker -> [pc : {"idle", "picked", "claimed"},
                                 job : Job \cup {NoJob}, token : Nat, attempt : Nat]]
      BY DEF WorkTypeOK
    <3> QED
      BY <3>1, <3>2 DEF WorkersNumbered, IdleWorker
  <2>4. HolderIsNewest'
    BY <1>3 DEF WorkTypeOK, WorkersNumbered, HolderIsNewest, IdleWorker
  <2>5. ASSUME NEW i \in Job
        PROVE  Numbered(attempts', i, proc'[i].attempt) /\ OpenIsNewest(attempts', i, proc'[i])
    <3>1. Numbered(attempts', i, proc'[i].attempt)
      BY <1>3, <2>1, <2>2, CloseNumbered DEF HistoryNumbered, WorkTypeOK
    <3>2. OpenIsNewest(attempts', i, proc[i])
      BY <1>3, <2>1, CloseLeavesNoneOpen DEF HistoryNumbered
    <3>3. CASE i = j /\ Present(j)
      <4>1. proc[j].attempt = n
        BY <1>3, <2>1, <3>3 DEF ClaimHeld, Present, HolderIsNewest
      <4>2. \A a \in attempts' : a.job = i => a.outcome # "open"
        BY <1>3, <2>1, <3>3, <4>1, CloseLeavesNoneOpen DEF HistoryNumbered
      <4> QED
        BY <3>1, <4>2 DEF OpenIsNewest
    <3>4. CASE i # j \/ ~Present(j)
      BY <2>2, <3>1, <3>2, <3>4
    <3> QED
      BY <3>3, <3>4
  <2> QED
    BY <1>3, <2>2, <2>3, <2>4, <2>5 DEF HistoryNumbered, Close
<1>4. CASE Complete(k)
  <2>1. worker[k].job \in Job /\ worker[k].attempt \in Nat
    BY <1>4 DEF Complete, WorkTypeOK, WorkersNumbered
  <2>2. WorkTypeOK'
    <3>1. attempts' \in SUBSET AttemptRow
      BY <1>4, <2>1, CloseNumbered DEF Complete, WorkTypeOK, Closed
    <3> QED
      BY <1>4, <2>1, <3>1 DEF Complete, Replied, WorkTypeOK, IdleWorker
  <2> QED
    BY <1>3, <1>4, <2>1, <2>2 DEF Complete, Replied, Closed
<1>5. CASE Fail(k)
  <2> DEFINE outcome == IF worker[k].attempt >= WorkerAttempts THEN "dead" ELSE "failed"
  <2>1. worker[k].job \in Job /\ worker[k].attempt \in Nat
    BY <1>5 DEF Fail, WorkTypeOK, WorkersNumbered
  <2>2. WorkTypeOK'
    <3>1. attempts' \in SUBSET AttemptRow
      BY <1>5, <2>1, CloseNumbered DEF Fail, WorkTypeOK, Closed
    <3> QED
      <4>1. proc' = IF Present(worker[k].job)
                      THEN [proc EXCEPT ![worker[k].job].state = outcome] ELSE proc
        BY <1>5 DEF Fail
      <4>2. proc' \in [Job -> [state : {"absent", "pending", "claimed", "failed", "done", "dead"},
                               fence : Nat, attempt : Nat]]
        BY <2>1, <4>1 DEF WorkTypeOK
      <4> QED
        BY <1>5, <3>1, <4>2 DEF Fail, Replied, WorkTypeOK, IdleWorker
  <2>3. outcome \in Closed /\ outcome \in {"failed", "done", "dead"}
    BY DEF Closed
  <2> QED
    BY <1>3, <1>5, <2>1, <2>2, <2>3 DEF Fail, Replied
<1>6. CASE Renew(k)
  <2>1. worker[k].job \in Job /\ worker[k].pc = "claimed"
    BY <1>6 DEF Renew, WorkersNumbered
  <2>2. CASE UNCHANGED <<proc, worker>>
    BY <1>6, <2>2 DEF Renew, WorkTypeOK, WorkersNumbered, HolderIsNewest, HistoryNumbered, Present
  <2>3. CASE /\ Renewable(k)
             /\ proc' = [proc EXCEPT ![worker[k].job].fence = queueFence + 1]
             /\ worker' \in {worker, [worker EXCEPT ![k].token = queueFence + 1]}
    <3>1. WorkTypeOK'
      <4>1. queueFence' = queueFence + 1 /\ queueFence \in Nat
        BY <1>6 DEF Renew, WorkTypeOK
      <4>2. proc' \in [Job -> [state : {"absent", "pending", "claimed", "failed", "done", "dead"},
                               fence : Nat, attempt : Nat]]
        BY <2>1, <2>3, <4>1 DEF WorkTypeOK
      <4>3. worker' \in [Worker -> [pc : {"idle", "picked", "claimed"},
                                    job : Job \cup {NoJob}, token : Nat, attempt : Nat]]
        <5>1. queueFence + 1 \in Nat
          BY <4>1
        <5>2. worker \in [Worker -> [pc : {"idle", "picked", "claimed"},
                                     job : Job \cup {NoJob}, token : Nat, attempt : Nat]]
          BY DEF WorkTypeOK
        <5> QED
          BY <2>3, <5>1, <5>2
      <4>4. UNCHANGED <<attempts, commits, retired, orphaned, strays>>
        BY <1>6 DEF Renew
      <4> QED
        BY <4>1, <4>2, <4>3, <4>4 DEF WorkTypeOK
    <3>2. \A i \in Job : /\ proc'[i].attempt = proc[i].attempt
                         /\ proc'[i].state = proc[i].state
                         /\ ~Present(i) => proc'[i] = proc[i]
      BY <2>1, <2>3 DEF WorkTypeOK, Renewable, Present
    <3>3. WorkersNumbered'
      <4>1. queueFence' = queueFence + 1 /\ queueFence \in Nat
        BY <1>6 DEF Renew, WorkTypeOK
      <4>2. CASE worker' = worker
        BY <4>1, <4>2 DEF WorkersNumbered
      <4>3. CASE worker' = [worker EXCEPT ![k].token = queueFence + 1]
        <5>1. \A l \in Worker : /\ worker'[l].pc = worker[l].pc
                               /\ worker'[l].job = worker[l].job
                               /\ worker'[l].token = IF l = k THEN queueFence + 1
                                                      ELSE worker[l].token
          BY <4>3 DEF WorkTypeOK
        <5> QED
          BY <4>1, <5>1 DEF WorkersNumbered
      <4> QED
        BY <2>3, <4>2, <4>3
    <3>4. HolderIsNewest'
      BY <1>6, <2>1, <2>3 DEF Renew, Renewable, WorkTypeOK, WorkersNumbered, HolderIsNewest
    <3>5. HistoryNumbered' /\ UNCHANGED attempts
      BY <1>6, <3>2 DEF Renew, HistoryNumbered, Numbered, OpenIsNewest
    <3> QED
      BY <3>1, <3>2, <3>3, <3>4, <3>5 DEF Present
  <2> QED
    BY <1>6, <2>2, <2>3 DEF Renew
<1>7. CASE Abandon(k)
  BY <1>7 DEF Abandon, IdleWorker, WorkTypeOK, WorkersNumbered, HolderIsNewest, HistoryNumbered,
              Present
<1> QED
  BY <1>1, <1>2, <1>4, <1>5, <1>6, <1>7 DEF Present

(* So do the sweep's first two phases and the operator's requeue.          *)
LEMMA SweepStepsKeep ==
    ASSUME WorkTypeOK, RowPart, NEW j \in Job, SweepExpired(j) \/ SweepSpent(j) \/ Requeue(j)
    PROVE  /\ WorkTypeOK' /\ RowPart'
           /\ \A i \in Job : Present(i)' <=> Present(i)
           /\ Present(j)
<1> USE DEF RowPart, AbsentIsEmpty
<1>1. /\ \A i \in Job : /\ proc'[i].attempt = proc[i].attempt /\ proc'[i].fence = proc[i].fence
                        /\ i # j => proc'[i] = proc[i]
                        /\ Present(i)' <=> Present(i)
      /\ Present(j)
      /\ proc' \in [Job -> [state : {"absent", "pending", "claimed", "failed", "done", "dead"},
                            fence : Nat, attempt : Nat]]
      /\ UNCHANGED <<queueFence, worker, commits, retired, orphaned, strays>>
      /\ proc'[j].state = "claimed" => proc[j].state = "claimed"
  BY DEF SweepExpired, SweepSpent, Requeue, WorkTypeOK, Present
<1>2. AbsentIsEmpty' /\ WorkersNumbered'
  BY <1>1 DEF WorkersNumbered, Present
<1>3. HolderIsNewest'
  BY <1>1 DEF WorkersNumbered, HolderIsNewest
<1>4. attempts' \in SUBSET AttemptRow /\ HistoryNumbered'
  <2>1. CASE SweepExpired(j)
    <3>1. /\ attempts' = Close(attempts, j, proc[j].attempt, "expired")
          /\ "expired" \in Closed /\ proc[j].attempt \in Nat /\ attempts \in SUBSET AttemptRow
      BY <2>1 DEF SweepExpired, Closed, WorkTypeOK
    <3>2. \A i \in Job : /\ Numbered(attempts', i, proc[i].attempt)
                         /\ OpenIsNewest(attempts', i, proc[i])
      BY <3>1, CloseNumbered, CloseLeavesNoneOpen DEF HistoryNumbered, WorkTypeOK
    <3>3. \A a \in attempts' : a.job = j => a.outcome # "open"
      BY <3>1, CloseLeavesNoneOpen DEF HistoryNumbered
    <3>4. attempts' \in SUBSET AttemptRow
      BY <3>1, CloseNumbered
    <3> QED
      BY <1>1, <3>2, <3>3, <3>4 DEF HistoryNumbered, OpenIsNewest
  <2>2. CASE SweepSpent(j)
    <3>1. attempts' = attempts /\ proc[j].state = "failed"
      BY <2>2 DEF SweepSpent
    <3> QED
      BY <1>1, <3>1 DEF HistoryNumbered, OpenIsNewest, WorkTypeOK
  <2>3. CASE Requeue(j)
    <3> DEFINE new == [job |-> j, attempt |-> proc[j].attempt, outcome |-> "requeued"]
    <3>1. attempts' = attempts \cup {new} /\ proc[j].state = "dead" /\ new \in AttemptRow
      BY <2>3 DEF Requeue, AttemptRow, WorkTypeOK
    <3>2. \A i \in Job : {a \in attempts' : a.job = i /\ a.outcome # "requeued"}
                            = {a \in attempts : a.job = i /\ a.outcome # "requeued"}
      BY <3>1
    <3>3. \A i \in Job : Numbered(attempts', i, proc'[i].attempt)
      BY <1>1, <3>2 DEF HistoryNumbered, Numbered
    <3>4. \A i \in Job : OpenIsNewest(attempts', i, proc'[i])
      BY <1>1, <3>1 DEF HistoryNumbered, OpenIsNewest
    <3>5. attempts' \in SUBSET AttemptRow
      BY <3>1 DEF WorkTypeOK
    <3> QED
      BY <3>3, <3>4, <3>5 DEF HistoryNumbered
  <2> QED
    BY <2>1, <2>2, <2>3
<1> QED
  BY <1>1, <1>2, <1>3, <1>4 DEF WorkTypeOK

(* Deletion leaves neither rows nor attempts, and no claim to use on them. *)
LEMMA DeletionKeeps ==
    ASSUME WorkTypeOK, RowPart, DeleteWork
    PROVE  WorkTypeOK' /\ RowPart' /\ attempts' = {} /\ \A j \in Job : ~Present(j)'
<1> USE DEF DeleteWork, NoRow
<1>1. WorkTypeOK' /\ attempts' = {} /\ (\A j \in Job : ~Present(j)')
  BY DEF WorkTypeOK, Present
<1>2. AbsentIsEmpty' /\ WorkersNumbered' /\ HolderIsNewest'
  BY DEF RowPart, AbsentIsEmpty, WorkersNumbered, HolderIsNewest
<1>3. HistoryNumbered'
  BY DEF HistoryNumbered, Numbered, OpenIsNewest
<1> QED
  BY <1>1, <1>2, <1>3 DEF RowPart

LEMMA ForgettingKeeps ==
    ASSUME WorkTypeOK, RowPart, ForgetWork
    PROVE  WorkTypeOK' /\ RowPart' /\ UNCHANGED <<proc, attempts>>
BY DEF ForgetWork, WorkTypeOK, RowPart, AbsentIsEmpty, WorkersNumbered, HolderIsNewest,
       HistoryNumbered, Present

LEMMA UnchangedWorkKeeps ==
    ASSUME WorkTypeOK, RowPart, UNCHANGED workVars
    PROVE  WorkTypeOK' /\ RowPart' /\ UNCHANGED <<proc, attempts>>
BY DEF workVars, WorkTypeOK, RowPart, AbsentIsEmpty, WorkersNumbered, HolderIsNewest,
       HistoryNumbered, Present

LEMMA UnchangedReceiptsKeep ==
    ASSUME ReceiptPart, UNCHANGED receiptVars
    PROVE  ReceiptPart' /\ UNCHANGED <<head, receipt>>
BY DEF receiptVars, ReceiptPart, ReceiptsTypeOK, TombIsBare, DeliveryHasContent, Recorded

LEMMA NextIInv ==
    ASSUME IInv, [Next]_vars
    PROVE  IInv'
<1> USE JobAssumption DEF IInv
<1>1. ASSUME NEW d \in Delivery, IntakeAccept(d) PROVE IInv'
  <2> DEFINE n == delivery[d].rev + 1
  <2>1. Accept(d) /\ (StageWork(n) \/ UNCHANGED workVars)
    BY <1>1 DEF IntakeAccept
  <2>2. /\ ReceiptPart' /\ head'.kind \in {"live", "none"} /\ n \in Revision
        /\ receipt[n] = NoReceipt /\ receipt'[n].disposition = "accepted"
        /\ \A r \in Revision : r # n => receipt'[r] = receipt[r]
    BY <2>1, InsertKeeps
  <2>3. /\ WorkTypeOK' /\ RowPart'
        /\ \A i \in Job : Present(i)' => Present(i) \/ i = n
    BY <2>1, <2>2, StageWorkKeeps, UnchangedWorkKeeps DEF Present
  <2> QED
    BY <2>2, <2>3 DEF NoWorkAtRest, WorkHasReceipt
<1>2. ASSUME NEW d \in Delivery,
             (\E x \in Digest : ReadHead(d, x)) \/ ReadDigest(d) \/ EndDelivery(d),
             UNCHANGED workVars
      PROVE  IInv'
  <2>1. ReceiptPart' /\ WorkTypeOK' /\ RowPart' /\ UNCHANGED <<proc, attempts>>
    BY <1>2, ReceiptStepsKeep, UnchangedWorkKeeps
  <2>2. UNCHANGED <<head, receipt>>
    BY <1>2 DEF ReadHead, ReadDigest, EndDelivery
  <2> QED
    BY <2>1, <2>2 DEF NoWorkAtRest, WorkHasReceipt, Present
<1>3. ASSUME NEW d \in Delivery, Collide(d), UNCHANGED workVars PROVE IInv'
  <2> DEFINE n == delivery[d].rev + 1
  <2>1. /\ ReceiptPart' /\ head'.kind \in {"live", "none"} /\ n \in Revision
        /\ receipt[n] = NoReceipt
        /\ \A r \in Revision : r # n => receipt'[r] = receipt[r]
    BY <1>3, InsertKeeps
  <2>2. WorkTypeOK' /\ RowPart' /\ UNCHANGED <<proc, attempts>>
    BY <1>3, UnchangedWorkKeeps
  <2> QED
    BY <2>1, <2>2 DEF NoWorkAtRest, WorkHasReceipt, Present, NoReceipt
<1>4. ASSUME NEW k \in Worker,
             \/ \E j \in Job : Pick(k, j)
             \/ ClaimCandidate(k) \/ Complete(k) \/ Fail(k) \/ Renew(k) \/ Abandon(k),
             UNCHANGED receiptVars
      PROVE  IInv'
  <2>1. /\ WorkTypeOK' /\ RowPart' /\ (\A j \in Job : Present(j)' <=> Present(j))
        /\ (\A j \in Job : ~Present(j)) /\ attempts = {} => attempts' = {}
    BY <1>4, WorkerStepsKeep
  <2>2. ReceiptPart' /\ UNCHANGED <<head, receipt>>
    BY <1>4, UnchangedReceiptsKeep
  <2> QED
    BY <2>1, <2>2 DEF NoWorkAtRest, WorkHasReceipt
<1>5. ASSUME NEW j \in Job, Enqueue(j) PROVE IInv'
  <2>1. /\ WorkTypeOK' /\ RowPart'
        /\ \A i \in Job : Present(i)' => Present(i) \/ i = j
    BY <1>5, StageWorkKeeps DEF Enqueue
  <2>2. ReceiptPart' /\ UNCHANGED <<head, receipt>>
    BY <1>5, UnchangedReceiptsKeep DEF Enqueue
  <2>3. head.kind = "live" /\ receipt[j].disposition = "accepted"
    BY <1>5 DEF Enqueue
  <2> QED
    BY <2>1, <2>2, <2>3 DEF NoWorkAtRest, WorkHasReceipt
<1>6. ASSUME NEW j \in Job, SweepExpired(j) \/ SweepSpent(j) \/ Requeue(j),
             UNCHANGED receiptVars
      PROVE  IInv'
  <2>1. /\ WorkTypeOK' /\ RowPart' /\ Present(j)
        /\ \A i \in Job : Present(i)' <=> Present(i)
    BY <1>6, SweepStepsKeep
  <2>2. ReceiptPart' /\ UNCHANGED <<head, receipt>>
    BY <1>6, UnchangedReceiptsKeep
  <2> QED
    BY <2>1, <2>2 DEF NoWorkAtRest, WorkHasReceipt
<1>7. ASSUME Compact \/ Erase PROVE IInv'
  <2>1. WorkTypeOK' /\ RowPart' /\ attempts' = {} /\ (\A j \in Job : ~Present(j)')
    BY <1>7, DeletionKeeps DEF Compact, Erase
  <2>2. ReceiptPart'
    BY <1>7, RetentionKeeps DEF Compact, Erase
  <2> QED
    BY <2>1, <2>2 DEF NoWorkAtRest, WorkHasReceipt
<1>8. CASE DropTombstone
  <2>1. WorkTypeOK' /\ RowPart' /\ UNCHANGED <<proc, attempts>>
    BY <1>8, ForgettingKeeps DEF DropTombstone
  <2>2. ReceiptPart'
    BY <1>8, RetentionKeeps DEF DropTombstone
  <2>3. head.kind = "tomb" /\ head'.kind = "none"
    BY <1>8 DEF DropTombstone, DropReceipts, NoHead
  <2> QED
    BY <2>1, <2>2, <2>3 DEF NoWorkAtRest, WorkHasReceipt, Present
<1>9. CASE UNCHANGED vars
  <2>1. UNCHANGED receiptVars /\ UNCHANGED workVars
    BY <1>9 DEF vars, receiptVars, workVars
  <2>2. ReceiptPart' /\ UNCHANGED <<head, receipt>>
    BY <2>1, UnchangedReceiptsKeep
  <2>3. WorkTypeOK' /\ RowPart' /\ UNCHANGED <<proc, attempts>>
    BY <2>1, UnchangedWorkKeeps
  <2> QED
    BY <2>2, <2>3 DEF NoWorkAtRest, WorkHasReceipt, Present
<1> QED
  BY <1>1, <1>2, <1>3, <1>4, <1>5, <1>6, <1>7, <1>8, <1>9 DEF Next

LEMMA IInvHolds == Spec => []IInv
BY InitIInv, NextIInv, PTL DEF Spec

----------------------------------------------------------------------------
(* What no late call can break.                                            *)

(* Every variable of the receipts and of the work keeps its type.          *)
THEOREM IntakeTypeCorrect == Spec => []TypeOK
<1>1. IInv => TypeOK
  BY DEF IInv, ReceiptPart, TypeOK
<1> QED
  BY <1>1, IInvHolds, PTL

(* A worker whose token the row still bears holds its newest attempt: the  *)
(* guards of complete, fail and renew let no zombie through (work.rs).     *)
THEOREM HolderIsNewestHolds == Spec => []HolderIsNewest
<1>1. IInv => HolderIsNewest
  BY DEF IInv, RowPart
<1> QED
  BY <1>1, IInvHolds, PTL

(* Nothing works on a revision that was refused, forgotten or erased.      *)
THEOREM WorkHasReceiptHolds == Spec => []WorkHasReceipt
<1>1. IInv => WorkHasReceipt
  BY DEF IInv
<1> QED
  BY <1>1, IInvHolds, PTL

(* The numbers of a job's attempts, each once, are as many as its counter. *)
LEMMA NumberedCounts ==
    ASSUME NEW tries \in SUBSET AttemptRow, NEW j \in Job, NEW n \in Nat, Numbered(tries, j, n)
    PROVE  LET history == {a \in tries : a.job = j /\ a.outcome # "requeued"}
           IN  {a.attempt : a \in history} = 1 .. n /\ Cardinality(history) = n
<1> DEFINE history == {a \in tries : a.job = j /\ a.outcome # "requeued"}
           number == [a \in history |-> a.attempt]
<1>1. /\ \A a \in history : a.attempt \in 1 .. n
      /\ \A m \in 1 .. n : \E a \in history : a.attempt = m
      /\ \A a, b \in history : a.attempt = b.attempt => a = b
  BY DEF Numbered
<1> HIDE DEF history
<1>2. number \in Bijection(history, 1 .. n)
  <2>1. number \in [history -> 1 .. n]
    BY <1>1
  <2>2. \A m \in 1 .. n : \E a \in history : number[a] = m
    BY <1>1
  <2>3. \A a, b \in history : number[a] = number[b] => a = b
    BY <1>1
  <2> HIDE DEF number
  <2> QED
    BY <2>1, <2>2, <2>3 DEF Bijection, Injection, Surjection, IsInjective
<1>3. Cardinality(history) = n
  <2>1. ExistsBijection(1 .. n, history)
    <3>1. number \in Surjection(history, 1 .. n) /\ number \in Injection(history, 1 .. n)
      BY <1>2 DEF Bijection
    <3> DEFINE back == [m \in 1 .. n |-> CHOOSE a \in history : a.attempt = m]
    <3>2. \A m \in 1 .. n : back[m] \in history /\ back[m].attempt = m
      BY <1>1
    <3>3. back \in [1 .. n -> history]
      BY <3>2
    <3>4. \A a \in history : \E m \in 1 .. n : back[m] = a
      BY <1>1, <3>2
    <3>5. \A l, m \in 1 .. n : back[l] = back[m] => l = m
      BY <3>2
    <3> HIDE DEF back
    <3>6. back \in Bijection(1 .. n, history)
      BY <3>3, <3>4, <3>5 DEF Bijection, Injection, Surjection, IsInjective
    <3> QED
      BY <3>6 DEF ExistsBijection
  <2> QED
    BY <2>1, FS_CountingElements
<1>4. {a.attempt : a \in history} = 1 .. n
  BY <1>1
<1> QED
  BY <1>3, <1>4 DEF history

(* The attempt history spells out the row's counter: every number has one  *)
(* outcome, and the only open one is the claim's (work.rs, CLOSE_PRIOR_    *)
(* EXPIRED and OPEN_ATTEMPT in one batch).                                 *)
THEOREM AttemptHistoryHolds == Spec => []AttemptHistory
<1>1. ASSUME IInv PROVE AttemptHistory
  <2>1. ASSUME NEW j \in Job
        PROVE  LET history == {a \in attempts : a.job = j /\ a.outcome # "requeued"}
               IN  /\ {a.attempt : a \in history} = 1 .. proc[j].attempt
                   /\ Cardinality(history) = proc[j].attempt
                   /\ \A a \in history : a.outcome = "open" =>
                         proc[j].state = "claimed" /\ a.attempt = proc[j].attempt
    <3>1. /\ attempts \in SUBSET AttemptRow /\ proc[j].attempt \in Nat
          /\ Numbered(attempts, j, proc[j].attempt) /\ OpenIsNewest(attempts, j, proc[j])
      BY <1>1 DEF IInv, RowPart, WorkTypeOK, HistoryNumbered
    <3>2. /\ {a.attempt : a \in {b \in attempts : b.job = j /\ b.outcome # "requeued"}}
                = 1 .. proc[j].attempt
          /\ Cardinality({b \in attempts : b.job = j /\ b.outcome # "requeued"})
                = proc[j].attempt
      BY <3>1, NumberedCounts
    <3> QED
      BY <3>1, <3>2 DEF OpenIsNewest
  <2> QED
    BY <2>1 DEF AttemptHistory
<1> QED
  BY <1>1, IInvHolds, PTL

(* What a step may forget: compacted revisions, settled work, and all of   *)
(* an identity that is erased and stays so.                                *)
Forgets ==
    /\ head.kind = "erased" => head'.kind = "erased"
    /\ \A r \in Revision :
          Recorded(r) /\ receipt'[r] = NoReceipt /\ head'.kind # "erased" => receipt[r].bare
    /\ \A j \in Job : ~Settled(j) /\ proc'[j].state = "absent" => head'.kind = "erased"

LEMMA StepForgets ==
    ASSUME IInv, [Next]_vars
    PROVE  Forgets
<1>1. ASSUME UNCHANGED <<head, receipt>>, \A j \in Job : Present(j) => Present(j)'
      PROVE  Forgets
  BY <1>1 DEF Forgets, Recorded, Settled, Present
<1>2. ASSUME NEW j \in Job, StageWork(j) PROVE \A i \in Job : Present(i) => Present(i)'
  BY <1>2 DEF StageWork, Present, IInv, WorkTypeOK
<1>3. ASSUME NEW d \in Delivery, Accept(d) \/ Collide(d),
             \A j \in Job : Present(j) => Present(j)'
      PROVE  Forgets
  <2>1. head.kind # "erased"
    BY <1>3 DEF Accept, Collide, BatchPasses, HeadGuard, SeededHead
  <2>2. \A r \in Revision : Recorded(r) => receipt'[r] = receipt[r]
    BY <1>3, InsertKeeps DEF IInv, Recorded
  <2> QED
    BY <1>3, <2>1, <2>2 DEF Forgets, Recorded, Settled, Present
<1>4. ASSUME NEW d \in Delivery, IntakeAccept(d) PROVE Forgets
  <2>1. delivery[d].rev + 1 \in Job
    BY <1>4, JobAssumption DEF IntakeAccept, Accept, BatchPasses
  <2>2. \A j \in Job : Present(j) => Present(j)'
    BY <1>2, <1>4, <2>1 DEF IntakeAccept, workVars, Present
  <2> QED
    BY <1>3, <1>4, <2>2 DEF IntakeAccept
<1>5. ASSUME NEW d \in Delivery,
             (\E x \in Digest : ReadHead(d, x)) \/ ReadDigest(d) \/ Collide(d) \/ EndDelivery(d),
             UNCHANGED workVars
      PROVE  Forgets
  <2>1. \A j \in Job : Present(j) => Present(j)'
    BY <1>5 DEF workVars, Present
  <2> QED
    BY <1>1, <1>3, <1>5, <2>1 DEF ReadHead, ReadDigest, EndDelivery
<1>6. ASSUME NEW k \in Worker,
             \/ \E j \in Job : Pick(k, j)
             \/ ClaimCandidate(k) \/ Complete(k) \/ Fail(k) \/ Renew(k) \/ Abandon(k),
             UNCHANGED receiptVars
      PROVE  Forgets
  <2>1. \A j \in Job : Present(j)' <=> Present(j)
    BY <1>6, WorkerStepsKeep DEF IInv
  <2> QED
    BY <1>1, <1>6, <2>1 DEF receiptVars
<1>7. ASSUME NEW j \in Job, Enqueue(j) PROVE Forgets
  BY <1>1, <1>2, <1>7 DEF Enqueue, receiptVars
<1>8. ASSUME NEW j \in Job, SweepExpired(j) \/ SweepSpent(j) \/ Requeue(j),
             UNCHANGED receiptVars
      PROVE  Forgets
  <2>1. \A i \in Job : Present(i)' <=> Present(i)
    BY <1>8, SweepStepsKeep DEF IInv
  <2> QED
    BY <1>1, <1>8, <2>1 DEF receiptVars
<1>9. CASE Compact
  <2>1. \A r \in Revision : Recorded(r) => receipt'[r].bare
    BY <1>9 DEF Compact, CompactReceipts, IInv, ReceiptPart, ReceiptsTypeOK
  <2>2. \A r \in Revision : Recorded(r) => receipt'[r] # NoReceipt
    BY <2>1 DEF NoReceipt
  <2>3. head.kind = "live" /\ \A j \in Job : Settled(j)
    BY <1>9 DEF Compact, Compactable, CompactReceipts
  <2> QED
    BY <2>2, <2>3 DEF Forgets
<1>10. CASE DropTombstone
  <2>1. head.kind = "tomb" /\ UNCHANGED proc
    BY <1>10 DEF DropTombstone, DropReceipts, ForgetWork
  <2> QED
    BY <2>1 DEF Forgets, IInv, ReceiptPart, TombIsBare, Settled
<1>11. CASE Erase
  BY <1>11 DEF Erase, EraseReceipts, Forgets
<1>12. CASE UNCHANGED vars
  BY <1>1, <1>12 DEF vars, Present
<1> QED
  BY <1>4, <1>5, <1>6, <1>7, <1>8, <1>9, <1>10, <1>11, <1>12 DEF Next

(* Retention compacts before it forgets, takes no work that is not settled,*)
(* and an erased identity never comes back (receipt.rs, work.rs: sweep and *)
(* stage_erasure against every call that is on its way).                   *)
THEOREM NothingLostHolds == Spec => NothingLost
<1>1. ASSUME IInv, [Next]_vars
      PROVE  /\ [\A r \in Revision :
                    Recorded(r) /\ receipt'[r] = NoReceipt /\ head'.kind # "erased"
                       => receipt[r].bare]_receiptVars
             /\ [\A j \in Job : ~Settled(j) /\ proc'[j].state = "absent"
                                   => head'.kind = "erased"]_vars
             /\ [head.kind = "erased" => head'.kind = "erased"]_vars
  BY <1>1, StepForgets DEF Forgets
<1>2. IInv => (head.kind = "erased" => attempts = {})
  BY DEF IInv, NoWorkAtRest
<1> QED
  BY <1>1, <1>2, IInvHolds, PTL
     DEF Spec, NothingLost, ForgottenAfterCompaction, NoWorkLost, ErasedForGood

----------------------------------------------------------------------------
(* What no delivery breaks that ends before the rows it was made for do.   *)

LEMMA InitRInv == Init => RInv
<1> SUFFICES ASSUME Init PROVE RInv
  OBVIOUS
<1> USE DEF Init, ReceiptsInit, NoHead, NoReceipt, NoDelivery
<1>1. HeadAgrees /\ EachContentOnce /\ AckedIsRecorded /\ NoRowsWithoutHead
  BY DEF HeadAgrees, EachContentOnce, AckedIsRecorded, NoRowsWithoutHead, Recorded
<1>2. DeliveryKnows /\ HeadCounts /\ RowsHaveContent
  BY DEF DeliveryKnows, HeadCounts, RowsHaveContent, Recorded
<1> QED
  BY <1>1, <1>2 DEF RInv

(* A batch inserts the next revision of a head its caller has read, and new*)
(* content.                                                                *)
LEMMA InsertsNext ==
    ASSUME ReceiptPart, RInv, NEW d \in Delivery, Accept(d) \/ Collide(d)
    PROVE  /\ \A r \in Revision : Recorded(r) <=> r <= delivery[d].rev
           /\ \A r \in Revision : receipt[r].digest # delivery[d].digest
           /\ head'.kind = "live" /\ head'.rev = delivery[d].rev + 1
           /\ Accept(d) => head'.acc = delivery[d].rev + 1
           /\ ~Accept(d) => head'.acc = head.acc /\ head.kind \in {"live", "tomb"}
           /\ head.rev = delivery[d].rev
           /\ head.kind \in {"none", "live", "tomb"}
<1> USE DEF ReceiptPart, ReceiptsTypeOK
<1>1. /\ delivery[d].pc \in {"first", "changed"}
      /\ Collide(d) => delivery[d].pc = "changed"
      /\ HeadGuard(SeededHead(d), delivery[d].rev)
  BY DEF Accept, Collide, BatchPasses
<1>2. CASE delivery[d].pc = "first" /\ head.kind = "none"
  <2>1. head = NoHead /\ delivery[d].rev = 0 /\ \A r \in Revision : ~Recorded(r)
    BY <1>2 DEF RInv, HeadCounts, DeliveryKnows, NoRowsWithoutHead
  <2>2. Accept(d) /\ SeededHead(d) = [kind |-> "live", rev |-> 0, acc |-> 0]
    BY <1>1, <1>2 DEF SeededHead
  <2>3. head' = [kind |-> "live", rev |-> 1, acc |-> 1]
    BY <2>1, <2>2 DEF Accept, AdvancedHead
  <2>4. delivery[d].digest \in Digest
    BY <1>2 DEF DeliveryHasContent
  <2>5. \A r \in Revision : receipt[r].digest = NoDigest
    BY <2>1 DEF Recorded, NoReceipt
  <2> QED
    BY <1>2, <2>1, <2>2, <2>3, <2>4, <2>5, DigestAssumption DEF NoHead, Revision
<1>3. CASE ~(delivery[d].pc = "first" /\ head.kind = "none")
  <2>1. SeededHead(d) = head
    BY <1>3 DEF SeededHead
  <2>2. head.kind \in {"live", "tomb"} /\ head.rev = delivery[d].rev
    BY <1>1, <1>3, <2>1 DEF HeadGuard, RInv, DeliveryKnows
  <2>3. delivery[d].pc = "changed"
    BY <1>1, <2>2 DEF RInv, DeliveryKnows, HeadCounts
  <2>4. head' = [kind |-> "live", rev |-> delivery[d].rev + 1,
                 acc |-> IF Accept(d) THEN delivery[d].rev + 1 ELSE head.acc]
    <3>1. CASE Accept(d)
      BY <2>1, <2>2, <3>1 DEF Accept, AdvancedHead
    <3>2. CASE ~Accept(d)
      BY <2>2, <3>2 DEF Collide, AdvancedHead
    <3> QED
      BY <3>1, <3>2
  <2>5. \A r \in Revision : Recorded(r) <=> r <= delivery[d].rev
    BY <2>2 DEF RInv, HeadAgrees
  <2>6. \A r \in Revision : receipt[r].digest # delivery[d].digest
    <3>1. \A r \in Revision : r <= delivery[d].rev => receipt[r].digest # delivery[d].digest
      BY <2>3 DEF RInv, DeliveryKnows
    <3>2. \A r \in Revision : ~Recorded(r) => receipt[r].digest = NoDigest
      BY DEF Recorded, NoReceipt
    <3>3. delivery[d].digest \in Digest
      BY <2>3 DEF DeliveryHasContent
    <3> QED
      BY <2>5, <3>1, <3>2, <3>3, DigestAssumption
  <2> QED
    BY <2>2, <2>4, <2>5, <2>6
<1> QED
  BY <1>2, <1>3

LEMMA InsertKeepsRInv ==
    ASSUME ReceiptPart, RInv, NEW d \in Delivery, Accept(d) \/ Collide(d)
    PROVE  RInv'
<1> DEFINE n == delivery[d].rev + 1
<1> USE DEF ReceiptPart, ReceiptsTypeOK
<1>1. PICK x \in {"accepted", "collision"} :
         /\ receipt' = [receipt EXCEPT ![n] = [digest |-> delivery[d].digest,
                                               disposition |-> x, bare |-> FALSE]]
         /\ x = "accepted" <=> Accept(d)
  <2>1. CASE Accept(d)
    BY <2>1 DEF Accept, Insert
  <2>2. CASE ~Accept(d)
    BY <2>2 DEF Collide, Insert
  <2> QED
    BY <2>1, <2>2
<1>2. /\ n \in Revision /\ receipt[n] = NoReceipt
      /\ \A r \in Revision : r # n => receipt'[r] = receipt[r]
  BY InsertKeeps
<1>3. receipt'[n] = [digest |-> delivery[d].digest, disposition |-> x, bare |-> FALSE]
  BY <1>1, <1>2
<1>4. /\ delivery[d].digest \in Digest
      /\ delivery' = [delivery EXCEPT ![d] = NoDelivery]
      /\ acked' \in {acked, acked \cup {delivery[d].digest}}
  BY DEF DeliveryHasContent, Accept, Collide, Answered
<1>5. /\ \A r \in Revision : Recorded(r) <=> r <= delivery[d].rev
      /\ \A r \in Revision : receipt[r].digest # delivery[d].digest
      /\ head'.kind = "live" /\ head'.rev = n
      /\ Accept(d) => head'.acc = n
      /\ ~Accept(d) => head'.acc = head.acc /\ head.kind \in {"live", "tomb"}
      /\ head.rev = delivery[d].rev
  BY InsertsNext
<1>6. \A r \in Revision : Recorded(r)' <=> Recorded(r) \/ r = n
  BY <1>2, <1>3, <1>4, DigestAssumption DEF Recorded, NoReceipt
<1>7. HeadAgrees'
  <2>1. \A r \in Revision : Recorded(r)' <=> r <= head'.rev
    BY <1>2, <1>5, <1>6 DEF Revision
  <2>2. \A r \in Revision : receipt'[r].disposition = "accepted" => r <= head'.acc
    <3>1. ASSUME NEW r \in Revision, receipt'[r].disposition = "accepted", Accept(d)
          PROVE  r <= head'.acc
      <4>1. Recorded(r)'
        BY <3>1 DEF Recorded, NoReceipt
      <4> QED
        BY <1>5, <2>1, <3>1, <4>1
    <3>2. ASSUME NEW r \in Revision, receipt'[r].disposition = "accepted", ~Accept(d)
          PROVE  r <= head'.acc
      BY <1>1, <1>2, <1>3, <1>5, <3>2 DEF RInv, HeadAgrees
    <3> QED
      BY <3>1, <3>2
  <2>3. head'.acc # 0 => receipt'[head'.acc].disposition = "accepted"
    <3>1. CASE Accept(d)
      BY <1>1, <1>3, <1>5, <3>1
    <3>2. CASE ~Accept(d) /\ head.acc # 0
      <4>1. receipt[head.acc].disposition = "accepted" /\ head.acc \in Revision
        BY <1>5, <3>2, RevisionAssumption DEF RInv, HeadAgrees, Revision
      <4>2. head.acc # n
        BY <1>2, <4>1 DEF NoReceipt
      <4> QED
        BY <1>2, <1>5, <3>2, <4>1, <4>2
    <3> QED
      BY <1>5, <3>1, <3>2
  <2> QED
    BY <2>1, <2>2, <2>3 DEF HeadAgrees
<1>8. EachContentOnce'
  BY <1>2, <1>3, <1>5, <1>6 DEF RInv, EachContentOnce
<1>9. AckedIsRecorded'
  BY <1>2, <1>3, <1>4, <1>5, DigestAssumption DEF RInv, AckedIsRecorded, NoReceipt
<1>10. NoRowsWithoutHead' /\ HeadCounts'
  BY <1>2, <1>5 DEF NoRowsWithoutHead, HeadCounts, Revision
<1>11. DeliveryKnows'
  <2>1. ASSUME NEW e \in Delivery, delivery'[e].pc # "idle"
        PROVE  /\ delivery'[e].rev <= head'.rev
               /\ delivery'[e].pc = "first" => delivery'[e].rev = 0
               /\ delivery'[e].pc = "changed" =>
                     \A r \in Revision : r <= delivery'[e].rev =>
                                            receipt'[r].digest # delivery'[e].digest
    <3>1. delivery'[e] = delivery[e] /\ delivery[e].pc # "idle"
      BY <1>4, <2>1 DEF NoDelivery
    <3>2. /\ delivery[e].rev <= head.rev
          /\ delivery[e].pc = "first" => delivery[e].rev = 0
          /\ delivery[e].pc = "changed" =>
                     \A r \in Revision : r <= delivery[e].rev =>
                                            receipt[r].digest # delivery[e].digest
      BY <3>1 DEF RInv, DeliveryKnows
    <3>3. delivery[e].rev \in Nat /\ head.rev \in Nat /\ delivery[e].rev < n
      BY <1>5, <3>2, RevisionAssumption
    <3> QED
      BY <1>2, <1>5, <3>1, <3>2, <3>3
  <2> QED
    BY <1>5, <2>1 DEF DeliveryKnows
<1>12. RowsHaveContent'
  BY <1>2, <1>3, <1>4, <1>6 DEF RInv, RowsHaveContent
<1> QED
  BY <1>7, <1>8, <1>9, <1>10, <1>11, <1>12 DEF RInv

LEMMA NextRInv ==
    ASSUME ~LateDeliveries, ReceiptPart, RInv, [Next]_vars
    PROVE  RInv'
<1> USE DEF ReceiptPart, ReceiptsTypeOK
<1> DEFINE shape == HeadAgrees /\ EachContentOnce /\ NoRowsWithoutHead /\ HeadCounts
                    /\ RowsHaveContent
<1>1. ASSUME UNCHANGED <<head, receipt>> PROVE shape'
  BY <1>1 DEF RInv, HeadAgrees, EachContentOnce, NoRowsWithoutHead, HeadCounts, RowsHaveContent,
              Recorded
<1>2. ASSUME UNCHANGED receiptVars PROVE RInv'
  BY <1>1, <1>2 DEF receiptVars, RInv, AckedIsRecorded, DeliveryKnows
<1>3. ASSUME NEW d \in Delivery, IntakeAccept(d) \/ Collide(d) PROVE RInv'
  BY <1>3, InsertKeepsRInv DEF IntakeAccept
<1>4. ASSUME NEW d \in Delivery, NEW x \in Digest, ReadHead(d, x) PROVE RInv'
  <2>1. UNCHANGED <<head, receipt, acked>>
    BY <1>4 DEF ReadHead
  <2>2. AckedIsRecorded'
    BY <2>1 DEF RInv, AckedIsRecorded
  <2>3. DeliveryKnows'
    BY <1>4, <2>1 DEF ReadHead, RInv, DeliveryKnows, HeadCounts, NoHead
  <2> QED
    BY <1>1, <2>1, <2>2, <2>3 DEF RInv
<1>5. ASSUME NEW d \in Delivery, ReadDigest(d) PROVE RInv'
  <2>1. UNCHANGED <<head, receipt>>
    BY <1>5 DEF ReadDigest
  <2>2. AckedIsRecorded'
    BY <1>5, <2>1 DEF ReadDigest, RInv, AckedIsRecorded
  <2>3. DeliveryKnows'
    <3>1. CASE delivery' = [delivery EXCEPT ![d] = NoDelivery]
      BY <2>1, <3>1 DEF RInv, DeliveryKnows, NoDelivery
    <3>2. CASE /\ \A r \in Revision : receipt[r].digest # delivery[d].digest
               /\ delivery' = [delivery EXCEPT ![d].pc = "changed"]
      <4>1. delivery[d].pc = "headread"
        BY <1>5 DEF ReadDigest
      <4>2. /\ delivery'[d].pc = "changed" /\ delivery'[d].rev = delivery[d].rev
            /\ delivery'[d].digest = delivery[d].digest
            /\ \A e \in Delivery : e # d => delivery'[e] = delivery[e]
        BY <3>2
      <4> QED
        BY <2>1, <3>2, <4>1, <4>2 DEF RInv, DeliveryKnows
    <3> QED
      BY <1>5, <3>1, <3>2 DEF ReadDigest
  <2> QED
    BY <1>1, <2>1, <2>2, <2>3 DEF RInv
<1>6. ASSUME NEW d \in Delivery, EndDelivery(d) PROVE RInv'
  BY <1>1, <1>6 DEF EndDelivery, RInv, AckedIsRecorded, DeliveryKnows, NoDelivery
<1>7. CASE Compact
  <2>1. /\ head.kind = "live" /\ head'.kind = "tomb"
        /\ head'.rev = head.rev /\ head'.acc = head.acc
        /\ UNCHANGED <<delivery, acked>>
    BY <1>7 DEF Compact, CompactReceipts
  <2>2. \A r \in Revision : /\ Recorded(r)' <=> Recorded(r)
                            /\ receipt'[r].digest = receipt[r].digest
                            /\ receipt'[r].disposition = receipt[r].disposition
    BY <1>7 DEF Compact, CompactReceipts, Recorded, NoReceipt
  <2>3. HeadAgrees'
    <3>1. head.acc # 0 => head.acc \in Revision
      BY RevisionAssumption DEF Revision
    <3> QED
      BY <2>1, <2>2, <3>1 DEF RInv, HeadAgrees
  <2>4. EachContentOnce' /\ AckedIsRecorded' /\ NoRowsWithoutHead'
    BY <2>1, <2>2 DEF RInv, EachContentOnce, AckedIsRecorded, NoRowsWithoutHead
  <2>5. DeliveryKnows' /\ HeadCounts' /\ RowsHaveContent'
    BY <2>1, <2>2 DEF RInv, DeliveryKnows, HeadCounts, RowsHaveContent
  <2> QED
    BY <2>3, <2>4, <2>5 DEF RInv
<1>8. CASE DropTombstone
  <2>1. /\ head' = NoHead /\ receipt' = [r \in Revision |-> NoReceipt] /\ acked' = {}
        /\ delivery' = delivery /\ \A d \in Delivery : delivery[d].pc = "idle"
    BY <1>8 DEF DropTombstone, DropReceipts
  <2> QED
    BY <2>1 DEF RInv, HeadAgrees, EachContentOnce, AckedIsRecorded, NoRowsWithoutHead,
                DeliveryKnows, HeadCounts, RowsHaveContent, Recorded, NoHead
<1>9. CASE Erase
  <2>1. /\ head' = [kind |-> "erased", rev |-> head.rev, acc |-> 0]
        /\ receipt' = [r \in Revision |-> NoReceipt] /\ acked' = {} /\ delivery' = delivery
    BY <1>9 DEF Erase, EraseReceipts
  <2>2. HeadAgrees' /\ EachContentOnce' /\ AckedIsRecorded' /\ NoRowsWithoutHead'
    BY <2>1 DEF HeadAgrees, EachContentOnce, AckedIsRecorded, NoRowsWithoutHead, Recorded
  <2>3. DeliveryKnows'
    BY <2>1, DigestAssumption DEF RInv, DeliveryKnows, DeliveryHasContent, NoReceipt
  <2>4. HeadCounts' /\ RowsHaveContent'
    BY <2>1 DEF HeadCounts, RowsHaveContent, Recorded
  <2> QED
    BY <2>2, <2>3, <2>4 DEF RInv
<1>10. CASE UNCHANGED vars
  BY <1>2, <1>10 DEF vars, receiptVars
<1> QED
  <2>1. ASSUME NEW j \in Job, Enqueue(j) PROVE RInv'
    BY <1>2, <2>1 DEF Enqueue
  <2> QED
    BY <1>2, <1>3, <1>4, <1>5, <1>6, <1>7, <1>8, <1>9, <1>10, <2>1 DEF Next

LEMMA RInvHolds == ~LateDeliveries => (Spec => []RInv)
<1> SUFFICES ASSUME ~LateDeliveries PROVE Spec => []RInv
  OBVIOUS
<1>1. IInv /\ RInv /\ [Next]_vars => RInv'
  BY NextRInv DEF IInv
<1> QED
  BY <1>1, InitRInv, IInvHolds, PTL DEF Spec

(* The history of an identity: the head names the newest revision and the  *)
(* newest accepted one, one content is one revision although it is searched*)
(* for and recorded in separate steps, and what was acknowledged is on     *)
(* record (receipt.rs).                                                    *)
THEOREM IntakeSoundHolds == ~LateDeliveries => (Spec => []IntakeSound)
<1>1. IInv /\ RInv => IntakeSound
  BY DEF IInv, ReceiptPart, RInv, TypeOK, IntakeSound
<1> QED
  BY <1>1, IInvHolds, RInvHolds, PTL

----------------------------------------------------------------------------
(* What no claim breaks, whether or not its row is still there.            *)

LEMMA InitDInv == Init => DInv
<1> SUFFICES ASSUME Init PROVE DInv
  OBVIOUS
<1>1. RInv
  BY InitRInv
<1>2. DoneOnce /\ CommitsKept /\ ClaimedOrOrphaned
  BY DEF Init, WorkInit, DoneOnce, CommitsKept, ClaimedOrOrphaned, Present, NoRow, IdleWorker
<1> QED
  BY <1>1, <1>2 DEF DInv

(* The work's part of the invariant, on rows that keep their revisions.    *)
LEMMA WorkerStepsKeepDone ==
    ASSUME WorkTypeOK, RowPart, DoneOnce, ClaimedOrOrphaned, NEW k \in Worker,
           \/ \E j \in Job : Pick(k, j)
           \/ ClaimCandidate(k) \/ Complete(k) \/ Fail(k) \/ Renew(k) \/ Abandon(k)
    PROVE  /\ DoneOnce' /\ ClaimedOrOrphaned' /\ retired' = retired
           /\ \A j \in Job : Present(j)' <=> Present(j)
           /\ \A j \in Job : ~Present(j) => commits'[j] = commits[j]
<1> USE DEF WorkTypeOK
<1>1. /\ \A j \in Job : Present(j)' <=> Present(j)
      /\ WorkTypeOK'
      /\ worker[k].pc # "idle" => worker[k].job \in Job
  BY WorkerStepsKeep DEF RowPart, WorkersNumbered
<1>2. UNCHANGED <<retired, orphaned>>
  BY DEF Pick, ClaimCandidate, Complete, Fail, Renew, Abandon
<1>3. ClaimedOrOrphaned'
  <2>1. ASSUME NEW l \in Worker, worker'[l].pc = "claimed"
        PROVE  Present(worker[l].job)' \/ worker'[l].job \in orphaned
    <3>1. CASE worker'[l].job = worker[l].job /\ worker[l].pc = "claimed"
      <4>1. worker[l].job \in Job
        BY <3>1 DEF RowPart, WorkersNumbered
      <4> QED
        BY <1>1, <3>1, <4>1 DEF ClaimedOrOrphaned, Present
    <3>2. CASE ClaimCandidate(k) /\ l = k
      <4>1. Present(worker[k].job) /\ worker'[k].job = worker[k].job
        <5>1. worker' # [worker EXCEPT ![k] = IdleWorker]
          BY <2>1, <3>2 DEF IdleWorker
        <5>2. /\ CandidateUnmoved(k)
              /\ worker' = [worker EXCEPT ![k] = [@ EXCEPT !.pc = "claimed",
                                                           !.attempt = worker[k].attempt + 1]]
          BY <3>2, <5>1 DEF ClaimCandidate
        <5> QED
          BY <5>2 DEF CandidateUnmoved, Eligible, Present
      <4>2. worker[k].job \in Job
        BY <1>1, <3>2 DEF ClaimCandidate
      <4> QED
        BY <1>1, <3>2, <4>1, <4>2 DEF Present
    <3> QED
      BY <2>1, <3>1, <3>2 DEF Pick, ClaimCandidate, Complete, Fail, Renew, Abandon, Replied,
                              IdleWorker
  <2> QED
    BY <1>2, <2>1 DEF ClaimedOrOrphaned
<1>4. ASSUME Complete(k)
      PROVE  DoneOnce' /\ \A j \in Job : ~Present(j) => commits'[j] = commits[j]
  <2> DEFINE j == worker[k].job
  <2>1. j \in Job
    BY <1>1, <1>4 DEF Complete
  <2>2. CASE Present(j)
    <3>1. proc[j].state = "claimed"
      BY <1>4, <2>2 DEF Complete, ClaimHeld, Present
    <3>2. commits[j] = 0
      <4>1. commits[j] \in Nat /\ commits[j] <= 1
        BY <2>1 DEF DoneOnce
      <4>2. commits[j] # 1
        BY <2>1, <2>2, <3>1 DEF DoneOnce
      <4>3. \A n \in Nat : n <= 1 /\ n # 1 => n = 0
        OBVIOUS
      <4> QED
        BY <4>1, <4>2, <4>3
    <3>3. /\ proc' = [proc EXCEPT ![j].state = "done"]
          /\ commits' = [commits EXCEPT ![j] = @ + 1]
          /\ UNCHANGED <<strays, orphaned>>
      BY <1>4, <2>2 DEF Complete
    <3> QED
      BY <2>1, <2>2, <3>2, <3>3 DEF DoneOnce, Present
  <2>3. CASE ~Present(j)
    <3>1. UNCHANGED <<proc, commits, orphaned>> /\ strays' = strays \cup {j}
      BY <1>4, <2>3 DEF Complete
    <3>2. j \in orphaned
      BY <1>4, <2>3 DEF Complete, ClaimedOrOrphaned
    <3> QED
      BY <3>1, <3>2 DEF DoneOnce, Present
  <2> QED
    BY <2>2, <2>3
<1>5. ASSUME ~Complete(k)
      PROVE  DoneOnce' /\ \A j \in Job : ~Present(j) => commits'[j] = commits[j]
  <2>1. UNCHANGED <<commits, strays, orphaned>>
    BY <1>5 DEF Pick, ClaimCandidate, Fail, Renew, Abandon
  <2>2. ASSUME NEW j \in Job PROVE proc'[j].state = "done" <=> proc[j].state = "done"
    <3>1. CASE ClaimCandidate(k)
      BY <1>1, <3>1 DEF ClaimCandidate, CandidateUnmoved, Eligible
    <3>2. CASE Fail(k)
      <4>1. Present(worker[k].job) => proc[worker[k].job].state = "claimed"
        BY <3>2 DEF Fail, ClaimHeld, Present
      <4> QED
        BY <1>1, <3>2, <4>1 DEF Fail
    <3> QED
      BY <1>1, <1>5, <3>1, <3>2 DEF Pick, Renew, Renewable, Abandon
  <2> QED
    BY <1>1, <2>1, <2>2 DEF DoneOnce
<1> QED
  BY <1>1, <1>2, <1>3, <1>4, <1>5

(* A row that is made anew finds no writes committed for it.               *)
LEMMA StageWorkKeepsDone ==
    ASSUME WorkTypeOK, DoneOnce, ClaimedOrOrphaned, WorkersNumbered, NEW j \in Job, StageWork(j),
           ~Present(j) => commits[j] = 0
    PROVE  /\ DoneOnce' /\ ClaimedOrOrphaned' /\ UNCHANGED <<commits, retired>>
           /\ \A i \in Job : Present(i) => Present(i)'
<1>1. UNCHANGED <<worker, commits, retired, orphaned, strays>>
  BY DEF StageWork
<1>2. ASSUME NEW i \in Job
      PROVE  /\ Present(i) => proc'[i] = proc[i]
             /\ ~Present(i) => \/ proc'[i] = proc[i]
                               \/ i = j /\ proc'[i].state = "pending"
  BY DEF StageWork, WorkTypeOK, Present
<1>3. DoneOnce'
  BY <1>1, <1>2 DEF DoneOnce, Present
<1>4. ClaimedOrOrphaned'
  BY <1>1, <1>2 DEF ClaimedOrOrphaned, WorkersNumbered, Present
<1> QED
  BY <1>1, <1>2, <1>3, <1>4 DEF Present

LEMMA NextDInv ==
    ASSUME ~LateDeliveries, IInv, DInv, [Next]_vars
    PROVE  DInv'
<1> USE JobAssumption
<1>1. RInv'
  BY NextRInv DEF IInv, DInv
<1>2. /\ ReceiptPart /\ WorkTypeOK /\ RowPart /\ NoWorkAtRest /\ WorkHasReceipt
      /\ RInv /\ DoneOnce /\ CommitsKept /\ ClaimedOrOrphaned /\ WorkersNumbered
  BY DEF IInv, RowPart, DInv
<1>3. \A j \in Job : ~Recorded(j) => ~Present(j)
  BY <1>2 DEF WorkHasReceipt, Recorded, NoReceipt
<1>4. ASSUME UNCHANGED <<head, receipt>>, UNCHANGED workVars PROVE DInv'
  BY <1>1, <1>2, <1>4 DEF workVars, DInv, DoneOnce, CommitsKept, ClaimedOrOrphaned, Recorded, Present
<1>5. ASSUME NEW d \in Delivery, IntakeAccept(d) \/ (Collide(d) /\ UNCHANGED workVars)
      PROVE  DInv'
  <2> DEFINE n == delivery[d].rev + 1
  <2>1. Accept(d) \/ Collide(d)
    BY <1>5 DEF IntakeAccept
  <2>2. /\ n \in Revision /\ receipt[n] = NoReceipt
        /\ \A r \in Revision : r # n => receipt'[r] = receipt[r]
        /\ head.kind # "erased"
    BY <1>2, <2>1, InsertKeeps, InsertsNext
  <2>3. commits[n] = 0
    BY <1>2, <2>2 DEF CommitsKept, Recorded
  <2>4. /\ DoneOnce' /\ ClaimedOrOrphaned' /\ UNCHANGED <<commits, retired>>
        /\ \A i \in Job : Present(i) => Present(i)'
    <3>1. CASE StageWork(n)
      BY <1>2, <2>2, <2>3, <3>1, StageWorkKeepsDone
    <3>2. CASE UNCHANGED workVars
      BY <1>2, <3>2 DEF workVars, DoneOnce, ClaimedOrOrphaned, Present
    <3> QED
      BY <1>5, <3>1, <3>2 DEF IntakeAccept
  <2>5. \A r \in Revision : ~Recorded(r)' => ~Recorded(r)
    BY <2>2 DEF Recorded
  <2>6. CommitsKept'
    BY <1>2, <2>2, <2>4, <2>5 DEF CommitsKept
  <2> QED
    BY <1>1, <2>4, <2>6 DEF DInv
<1>6. ASSUME NEW d \in Delivery,
             (\E x \in Digest : ReadHead(d, x)) \/ ReadDigest(d) \/ EndDelivery(d),
             UNCHANGED workVars
      PROVE  DInv'
  BY <1>4, <1>6 DEF ReadHead, ReadDigest, EndDelivery
<1>7. ASSUME NEW k \in Worker,
             \/ \E j \in Job : Pick(k, j)
             \/ ClaimCandidate(k) \/ Complete(k) \/ Fail(k) \/ Renew(k) \/ Abandon(k),
             UNCHANGED receiptVars
      PROVE  DInv'
  <2>1. /\ DoneOnce' /\ ClaimedOrOrphaned' /\ retired' = retired
        /\ \A j \in Job : Present(j)' <=> Present(j)
        /\ \A j \in Job : ~Present(j) => commits'[j] = commits[j]
    BY <1>2, <1>7, WorkerStepsKeepDone
  <2>2. UNCHANGED <<head, receipt>>
    BY <1>7 DEF receiptVars
  <2>3. CommitsKept'
    BY <1>2, <1>3, <2>1, <2>2 DEF CommitsKept, Recorded
  <2> QED
    BY <1>1, <2>1, <2>3 DEF DInv
<1>8. ASSUME NEW j \in Job, Enqueue(j) PROVE DInv'
  <2>1. ~Present(j) => commits[j] = 0
    BY <1>2, <1>8 DEF Enqueue, CommitsKept
  <2>2. /\ DoneOnce' /\ ClaimedOrOrphaned' /\ UNCHANGED <<commits, retired>>
        /\ \A i \in Job : Present(i) => Present(i)'
    BY <1>2, <1>8, <2>1, StageWorkKeepsDone DEF Enqueue
  <2>3. UNCHANGED <<head, receipt>>
    BY <1>8 DEF Enqueue, receiptVars
  <2>4. CommitsKept'
    BY <1>2, <2>2, <2>3 DEF CommitsKept, Recorded
  <2> QED
    BY <1>1, <2>2, <2>4 DEF DInv
<1>9. ASSUME NEW j \in Job, SweepExpired(j) \/ SweepSpent(j) \/ Requeue(j),
             UNCHANGED receiptVars
      PROVE  DInv'
  <2>1. /\ \A i \in Job : Present(i)' <=> Present(i)
        /\ UNCHANGED <<head, receipt, worker, commits, retired, orphaned, strays>>
    BY <1>2, <1>9, SweepStepsKeep DEF receiptVars, SweepExpired, SweepSpent, Requeue
  <2>2. \A i \in Job : proc'[i].state = "done" <=> proc[i].state = "done"
    BY <1>2, <1>9 DEF SweepExpired, SweepSpent, Requeue, WorkTypeOK
  <2>3. DoneOnce' /\ CommitsKept'
    BY <1>2, <2>1, <2>2 DEF DoneOnce, CommitsKept, Recorded
  <2>4. ClaimedOrOrphaned'
    BY <1>2, <2>1 DEF ClaimedOrOrphaned, WorkersNumbered, Present
  <2> QED
    BY <1>1, <2>3, <2>4 DEF DInv
<1>10. CASE Compact \/ Erase
  <2>0. /\ proc' = [j \in Job |-> NoRow]
        /\ orphaned' = orphaned \cup {j \in Job : \E k \in Worker : worker[k].pc = "claimed"
                                                               /\ worker[k].job = j}
        /\ UNCHANGED <<worker, strays, commits>>
        /\ retired' = retired \cup {j \in Job : Present(j)}
    BY <1>10 DEF Compact, Erase, DeleteWork
  <2>9. \A k \in Worker : worker[k].pc = "claimed" => worker[k].job \in orphaned'
    BY <1>2, <2>0 DEF WorkersNumbered
  <2>1. /\ \A j \in Job : ~Present(j)'
        /\ \A k \in Worker : worker[k].pc = "claimed" => worker[k].job \in orphaned'
        /\ orphaned \subseteq orphaned' /\ UNCHANGED <<worker, strays>>
        /\ retired' = retired \cup {j \in Job : Present(j)}
        /\ commits' = commits
    BY <2>0, <2>9 DEF NoRow, Present
  <2>2. DoneOnce' /\ ClaimedOrOrphaned'
    BY <1>2, <2>1 DEF DoneOnce, ClaimedOrOrphaned
  <2>3. \A r \in Revision : head'.kind # "erased" => (Recorded(r)' <=> Recorded(r))
    <3>1. CASE Compact
      <4>1. \A r \in Revision : receipt'[r] = IF Recorded(r) THEN [receipt[r] EXCEPT !.bare = TRUE]
                                            ELSE NoReceipt
        BY <3>1 DEF Compact, CompactReceipts
      <4>2. \A r \in Revision : Recorded(r) => receipt'[r].bare
        BY <1>2, <4>1 DEF ReceiptPart, ReceiptsTypeOK
      <4>3. ~NoReceipt.bare
        BY DEF NoReceipt
      <4>4. \A r \in Revision : Recorded(r) => receipt'[r] # NoReceipt
        BY <4>2, <4>3
      <4>5. \A r \in Revision : ~Recorded(r) => receipt'[r] = NoReceipt
        BY <4>1
      <4> QED
        BY <4>4, <4>5 DEF Recorded
    <3>2. CASE Erase
      BY <3>2 DEF Erase, EraseReceipts
    <3> QED
      BY <1>10, <3>1, <3>2
  <2>4. head'.kind # "erased" => head.kind # "erased"
    BY <1>10 DEF Compact, CompactReceipts, Erase, EraseReceipts
  <2>5. CommitsKept'
    BY <1>2, <1>3, <2>1, <2>3, <2>4 DEF CommitsKept
  <2> QED
    BY <1>1, <2>2, <2>5 DEF DInv
<1>11. CASE DropTombstone
  <2>1. /\ commits' = [j \in Job |-> 0] /\ retired' = {}
        /\ UNCHANGED <<proc, worker, orphaned, strays>> /\ head.kind = "tomb"
    BY <1>11 DEF DropTombstone, ForgetWork, DropReceipts
  <2>2. \A j \in Job : ~Present(j) /\ ~Present(j)'
    BY <1>2, <2>1 DEF NoWorkAtRest, Present
  <2>3. DoneOnce' /\ CommitsKept'
    BY <1>2, <2>1, <2>2 DEF DoneOnce, CommitsKept
  <2>4. ClaimedOrOrphaned'
    BY <1>2, <2>1, <2>2 DEF ClaimedOrOrphaned, Present
  <2> QED
    BY <1>1, <2>3, <2>4 DEF DInv
<1>12. CASE UNCHANGED vars
  BY <1>4, <1>12 DEF vars, workVars
<1> QED
  BY <1>5, <1>6, <1>7, <1>8, <1>9, <1>10, <1>11, <1>12 DEF Next

LEMMA DInvHolds == ~LateDeliveries => (Spec => []DInv)
<1> SUFFICES ASSUME ~LateDeliveries PROVE Spec => []DInv
  OBVIOUS
<1>1. IInv /\ DInv /\ [Next]_vars => DInv'
  BY NextDInv
<1> QED
  BY <1>1, InitDInv, IInvHolds, PTL DEF Spec

(* The domain writes of a job commit with its row at most once, and exactly*)
(* when the row turns done, whatever workers, the sweep, retention, erasure*)
(* and lost replies do (work.rs, GUARD_CLAIM); and without the row only for*)
(* a claim it was deleted beneath.                                         *)
THEOREM DoneOnceHolds == ~LateDeliveries => (Spec => []DoneOnce)
<1>1. DInv => DoneOnce
  BY DEF DInv
<1> QED
  BY <1>1, DInvHolds, PTL

(* All that the work of an identity has to keep (work.rs).                 *)
THEOREM WorkSoundHolds == ~LateDeliveries => (Spec => []WorkSound)
<1> QED
  BY DoneOnceHolds, AttemptHistoryHolds, HolderIsNewestHolds, WorkHasReceiptHolds, PTL
     DEF WorkSound

-----------------------------------------------------------------------------
(* Deploy steps, backups, restores and starts: the invariant.              *)

DeployPc == {"idle", "plan", "apply", "append", "epoch", "record", "done", "refused", "failed",
             "ended"}
BackupPc == {"idle", "list", "wait", "trigger", "poll", "rauthy", "deliver", "done", "ended"}
RestorePc == {"idle", "keys", "reset", "place", "clear", "rauthy", "mark", "done", "already"}
CellPc == {"down", "ready", "open", "check", "boot", "serving", "stop"}
MarkerRec == [archive : Archive, applied : BOOLEAN, owed : Nat]

(* The scene is one of the scenes, but for what it counts down.            *)
Staged ==
    /\ DOMAIN scene = SceneField
    /\ \E s \in Scenes :
          /\ scene.deploys = s.deploys /\ scene.bin = s.bin /\ scene.adopts = s.adopts
          /\ scene.bins = s.bins /\ scene.serves = s.serves /\ scene.binary = s.binary
          /\ scene.until = s.until /\ scene.writes = s.writes

Shaped ==
    /\ marker \in MarkerRec \cup {None, Unreadable}
    /\ clock \in 0..scene.until
    /\ \A a \in archives : a.name \in Archive /\ a.rauthy.data \in Nat
    /\ DOMAIN deploy = Step
    /\ \A d \in Step : /\ DOMAIN deploy[d] = DOMAIN Idle /\ deploy[d].pc \in DeployPc
                       /\ deploy[d].owns \in BOOLEAN
                       /\ deploy[d].pc # "idle" => d \in scene.deploys
    /\ DOMAIN hiq = DOMAIN Fresh /\ \A f \in hiq.files : f.at \in 0..scene.until
    /\ DOMAIN backup = DOMAIN NoBackup /\ backup.pc \in BackupPc /\ backup.owns \in BOOLEAN
    /\ backup.pc = "deliver" => backup.rauthy.data \in Nat
    /\ DOMAIN restore = DOMAIN NoRestore /\ restore.pc \in RestorePc
    /\ restore.at \in 0..scene.until + 1
    /\ restore.pc # "idle" => restore.of \in {a.name : a \in archives}
    /\ torn \in Archive \cup {None}
    /\ rdir # None => rdir \in {a.name : a \in archives}
    /\ DOMAIN rauthy = {"up", "src", "data", "under"} /\ rauthy.data \in Nat
    /\ DOMAIN cell = DOMAIN Down /\ cell.pc \in CellPc /\ cell.met \in BOOLEAN
    /\ cell.pc # "down" => cell.bin \in Binary

(* Every store there is, live, snapshot or archived.                       *)
Stores ==
    /\ Left(scene, db)
    /\ \A f \in hiq.files : Left(scene, f.snap)
    /\ backup.pc \in {"rauthy", "deliver"} => Left(scene, backup.snap)
    /\ \A a \in archives :
          /\ Left(scene, a.snap)
          /\ \A b \in Binary : Restorable(a.rows, b) => Restorable(Checksummed(a.snap), b)

Busy == {"keys", "reset", "place", "clear", "rauthy", "mark"}

(* Who may be at work beside whom.                                         *)
Holders ==
    /\ owner \in Step \cup {NoOne, "cell", "backup", "restore"}
    /\ lockFile \in {"none", "held", "left"}
    /\ lockFile = "held" => owner \notin {NoOne, "restore"}
    /\ cell.pc # "down" <=> owner = "cell"
    /\ restore.pc \in Busy <=> owner = "restore"
    /\ \A d \in Step : deploy[d].owns <=> owner = d
    /\ \A d \in Step : ~Running(d) => ~deploy[d].owns
    /\ backup.owns <=> owner = "backup"
    /\ backup.pc = "idle" => ~backup.owns
    /\ \A a, b \in archives : a.name = b.name => a = b
    /\ owner = "restore" => backup.pc \in {"idle", "ended"} /\ \A d \in Step : ~Running(d)
    /\ marker = Unreadable => owner = NoOne /\ torn # None

(* The records a build's migrations leave.                                 *)
BuildRows(b) == UNION {{RowOf(s, m) : m \in Sets[b][s]} : s \in Carried(b)}

(* What each step of a plan needs is there or comes before it.             *)
InOrder(p, b, hist) ==
    \A i \in 1..Len(p) : \E s \in Carried(b) : \E m \in Sets[b][s] :
        /\ p[i] = RowOf(s, m)
        /\ \A q \in RequirementsOf(b, s, m) :
              Top(hist \cup {p[j] : j \in 1..i - 1}, q.set) >= q.min
InPlan ==
    \A d \in Step : deploy[d].pc = "apply" =>
        /\ deploy[d].plan \in Seq(BuildRows(scene.bin[d]))
        /\ InOrder(deploy[d].plan, scene.bin[d], db.rows)

(* An epoch that was judged: nobody's number, or the next one.             *)
JudgedAs(e, chain, now, m) ==
    LET named == {i \in Places(chain, "epoch") : chain[i].n = e.n}
    IN /\ e.kind = "epoch" /\ m # Unreadable
       /\ e.restore # None => m # None /\ e.restore = m.archive
       /\ named = {} =>
             /\ e.n = now.n + 1 /\ e.previous = now.hash
             /\ e.restore # None => now.restore # e.restore
       /\ (e.restore = None /\ m # None) => now.restore = m.archive
       /\ \A i \in named : chain[i].restore # None => m # None /\ now.restore = m.archive
Judged ==
    \A d \in Step : deploy[d].pc = "record" =>
        JudgedAs(deploy[d].epoch, db.chain, CurrentEpoch(db), marker)

(* What a restore left, until the next one takes it apart.                 *)
Restored ==
    /\ Owed \in 0 .. scene.until + 1
    /\ (torn = None /\ marker # None /\ restore.pc \notin {"place", "clear", "rauthy", "mark"}) =>
          db.src = marker.archive /\ db.since = marker.owed
    /\ restore.pc \in {"clear", "rauthy", "mark"} => db.src = restore.of /\ db.since = restore.at

(* What a start has made sure of so far.                                   *)
Started ==
    /\ marker \in MarkerRec /\ marker.applied => rauthy.src = marker.archive
    /\ cell.pc = "ready" => cell.source = IF Owing THEN marker ELSE None
    /\ cell.pc = "ready" /\ Owing => rauthy.src = marker.archive
    /\ cell.pc \in {"open", "check", "boot", "serving"} => ~Owing
    /\ cell.pc \in {"check", "boot", "serving"} => db.floor >= Owed
    /\ cell.pc = "serving" => db.key = keys["ledger"] /\ db.first # None
    /\ rauthy.under # None => rauthy.under \in MarkerRec /\ rauthy.under.applied

(* What a backup may take: it holds what it was asked for, and the rows of *)
(* it are in the store still.                                              *)
Holds(snap) == snap.data >= backup.asked /\ Checksummed(snap) \subseteq db.rows
Backed ==
    /\ backup.pc \notin {"rauthy", "deliver", "done"} => backup.snap = None
    /\ backup.pc \in {"wait", "trigger", "poll"} =>
          /\ backup.asked \in Nat /\ db.data >= backup.asked
          /\ \A f \in hiq.files : f.at \notin backup.existing => Holds(f.snap)
    /\ backup.pc \in {"rauthy", "deliver"} => Holds(backup.snap)
    /\ backup.pc = "done" => backup.snap.data >= backup.asked

RecoveryInv ==
    /\ Staged /\ Shaped /\ Stores /\ Holders /\ InPlan /\ Judged /\ EpochsLinked
    /\ ServedFits /\ Restored /\ Started /\ Backed

-----------------------------------------------------------------------------
(* Numbers.                                                                *)

(* A set of natural numbers that is not empty has a least element.         *)
LEMMA LeastOf ==
    ASSUME NEW T \in SUBSET Nat, T # {}
    PROVE  \E t \in T : \A s \in T : t <= s
<1> DEFINE Less == OpToRel(<, Nat)
<1>1. IsWellFoundedOn(OpToRel(<, Nat), Nat)
  BY NatLessThanWellFounded
<1>2. \A t, s \in Nat : s < t => <<s, t>> \in Less
  BY DEF OpToRel
<1> HIDE DEF Less
<1>3. PICK t \in T : \A s \in T : ~(<<s, t>> \in Less)
  BY <1>1, WFMin DEF Less
<1>4. ASSUME NEW s \in T PROVE ~(s < t)
  BY <1>2, <1>3
<1> QED
  BY <1>3, <1>4

(* A finite set of natural numbers lies below one of them.                 *)
LEMMA FiniteBound ==
    ASSUME NEW T \in SUBSET Nat, IsFiniteSet(T)
    PROVE  \E u \in Nat : \A t \in T : t <= u
<1>1. PICK n \in Nat : ExistsSurjection(1 .. n, T)
  BY FS_NatSurjection
<1>2. PICK f \in [1 .. n -> T] : \A t \in T : \E i \in 1 .. n : f[i] = t
  BY <1>1 DEF ExistsSurjection, Surjection
<1> DEFINE Below(k) == \E u \in Nat : \A i \in 1 .. k : f[i] <= u
           U == {k \in 0 .. n : ~Below(k)}
<1>3. SUFFICES ASSUME U # {} PROVE FALSE
  <2>1. n \notin U
    BY <1>3
  <2>2. Below(n)
    BY <2>1
  <2> QED
    BY <1>2, <2>2
<1>4. U \in SUBSET Nat
  OBVIOUS
<1>5. PICK k \in U : \A j \in U : k <= j
  <2> HIDE DEF U
  <2> QED
    BY <1>3, <1>4, LeastOf
<1>6. k \in 1 .. n /\ k - 1 \in 0 .. n /\ k - 1 \notin U
  <2>1. Below(0)
    OBVIOUS
  <2>2. k \in 0 .. n /\ ~Below(k)
    BY <1>5
  <2> HIDE DEF Below
  <2>3. k # 0
    BY <2>1, <2>2
  <2> QED
    BY <1>5, <2>2, <2>3
<1>7. PICK u \in Nat : \A i \in 1 .. k - 1 : f[i] <= u
  BY <1>6
<1>8. \A i \in 1 .. k : i \in 1 .. n /\ (i = k \/ i \in 1 .. k - 1)
  BY <1>6
<1>9. \A i \in 1 .. n : f[i] \in T
  BY <1>2
<1>10. f[k] \in Nat /\ \A i \in 1 .. k : f[i] \in Nat
  BY <1>6, <1>8, <1>9
<1>11. Below(k)
  <2>1. CASE f[k] <= u
    BY <1>7, <1>8, <1>10, <2>1
  <2>2. CASE u <= f[k]
    <3>1. \A i \in 1 .. k : f[i] <= f[k]
      BY <1>7, <1>8, <1>10, <2>2
    <3> QED
      BY <1>10, <3>1
  <2> QED
    BY <1>10, <2>1, <2>2
<1> QED
  BY <1>5, <1>11

(* Max is the greatest of a finite set of natural numbers.                 *)
LEMMA MaxIsGreatest ==
    ASSUME NEW T \in SUBSET Nat, IsFiniteSet(T), T # {}
    PROVE  Max(T) \in T /\ \A t \in T : t <= Max(T)
<1>1. PICK u \in Nat : \A t \in T : t <= u
  BY FiniteBound
<1> DEFINE U == {w \in Nat : \A t \in T : t <= w}
<1>2. PICK w \in U : \A x \in U : w <= x
  BY <1>1, LeastOf
<1>3. w \in T
  <2>1. SUFFICES ASSUME w \notin T PROVE FALSE
    OBVIOUS
  <2>2. \A t \in T : t <= w - 1
    BY <1>2, <2>1
  <2>3. PICK t \in T : TRUE
    OBVIOUS
  <2>4. w - 1 \in U
    BY <1>2, <2>2, <2>3
  <2> QED
    BY <1>2, <2>4
<1>4. \E x \in T : \A y \in T : x >= y
  BY <1>2, <1>3
<1>5. Max(T) = CHOOSE x \in T : \A y \in T : x >= y
  BY DEF Max
<1> QED
  BY <1>4, <1>5

(* What is above the rest of the set is its greatest.                      *)
LEMMA MaxIs ==
    ASSUME NEW T \in SUBSET Nat, IsFiniteSet(T), NEW w \in T, \A t \in T : t <= w
    PROVE  Max(T) = w
<1>1. Max(T) \in T /\ \A t \in T : t <= Max(T)
  BY MaxIsGreatest
<1>2. w <= Max(T) /\ Max(T) <= w /\ w \in Nat /\ Max(T) \in Nat
  BY <1>1
<1> QED
  BY <1>2

-----------------------------------------------------------------------------
(* Histories of migrations.                                                *)

(* A finite set has finitely many values.                                  *)
LEMMA FiniteImage ==
    ASSUME NEW S, IsFiniteSet(S), NEW f
    PROVE  IsFiniteSet({f[x] : x \in S})
<1> DEFINE g == [x \in S |-> f[x]]
           T == {f[x] : x \in S}
<1>1. g \in Surjection(S, T)
  BY DEF Surjection
<1> HIDE DEF g, T
<1> QED
  BY <1>1, FS_Surjection DEF T

Rows(hist) == IsFiniteSet(hist) /\ \A r \in hist : r.v \in Nat

(* The last version of a set a history records.                            *)
LEMMA TopIs ==
    ASSUME NEW hist, Rows(hist), NEW s
    PROVE  /\ Top(hist, s) \in Nat
           /\ \A r \in hist : r.set = s => r.v <= Top(hist, s)
           /\ Top(hist, s) = 0 \/ \E r \in hist : r.set = s /\ r.v = Top(hist, s)
<1> DEFINE of == {q \in hist : q.set = s}
           versions == {r.v : r \in of}
           T == {0} \cup versions
<1>1. IsFiniteSet(hist) /\ \A r \in hist : r.v \in Nat
  BY DEF Rows
<1>2. IsFiniteSet(of)
  BY <1>1, FS_Subset
<1>3. IsFiniteSet(versions)
  <2> DEFINE v == [r \in of |-> r.v]
  <2>1. versions = {v[r] : r \in of}
    OBVIOUS
  <2> HIDE DEF v, versions, of
  <2> QED
    BY <1>2, <2>1, FiniteImage
<1>4. IsFiniteSet({0})
  BY FS_Singleton
<1>5. IsFiniteSet(T)
  BY <1>3, <1>4, FS_Union
<1>6. T \in SUBSET Nat /\ 0 \in T
  BY <1>1
<1>7. Max(T) \in T /\ \A t \in T : t <= Max(T)
  <2> HIDE DEF T
  <2> QED
    BY <1>5, <1>6, MaxIsGreatest
<1>8. Top(hist, s) = Max(T)
  BY DEF Top
<1>9. \A r \in hist : r.set = s => r.v \in T
  OBVIOUS
<1> HIDE DEF T
<1>10. \A r \in hist : r.set = s => r.v <= Max(T)
  BY <1>7, <1>9
<1>11. Max(T) = 0 \/ \E r \in hist : r.set = s /\ r.v = Max(T)
  BY <1>7 DEF T
<1> QED
  BY <1>6, <1>7, <1>8, <1>10, <1>11

(* What it is at least: what some record says.                             *)
LEMMA TopAtLeast ==
    ASSUME NEW hist, Rows(hist), NEW s, NEW n \in Nat
    PROVE  Top(hist, s) >= n <=> n = 0 \/ \E r \in hist : r.set = s /\ r.v >= n
<1>1. Top(hist, s) \in Nat /\ \A r \in hist : r.v \in Nat
  BY TopIs DEF Rows
<1> DEFINE top == Top(hist, s)
<1>2. /\ \A r \in hist : r.set = s => r.v <= top
      /\ top = 0 \/ \E r \in hist : r.set = s /\ r.v = top
  BY TopIs
<1>3. top \in Nat
  BY <1>1
<1> HIDE DEF top
<1>4. top >= n <=> n = 0 \/ \E r \in hist : r.set = s /\ r.v >= n
  BY <1>1, <1>2, <1>3
<1> QED
  BY <1>4 DEF top

(* A history that records every version another does.                      *)
Covers(more, hist) == \A r \in hist : \E q \in more : q.set = r.set /\ q.v = r.v

(* It has the last version no lower.                                       *)
LEMMA TopGrows ==
    ASSUME NEW hist, Rows(hist), NEW more, Rows(more), Covers(more, hist), NEW s,
           NEW n \in Nat, Top(hist, s) >= n
    PROVE  Top(more, s) >= n
<1>1. n = 0 \/ \E r \in hist : r.set = s /\ r.v >= n
  BY TopAtLeast
<1>2. n = 0 \/ \E r \in more : r.set = s /\ r.v >= n
  BY <1>1 DEF Covers
<1> QED
  BY <1>2, TopAtLeast

(* Two that cover each other have the same one.                            *)
LEMMA TopAlike ==
    ASSUME NEW hist, Rows(hist), NEW others, Rows(others), Covers(others, hist),
           Covers(hist, others), NEW s
    PROVE  Top(hist, s) = Top(others, s)
<1>1. Top(hist, s) \in Nat /\ Top(others, s) \in Nat
  BY TopIs
<1>2. \A n \in Nat : Top(hist, s) >= n <=> Top(others, s) >= n
  BY TopGrows
<1> QED
  BY <1>1, <1>2

-----------------------------------------------------------------------------
(* The plan.                                                               *)

(* What a build carries.                                                   *)
LEMMA CarriedIs ==
    ASSUME NEW b \in Binary, NEW s \in Carried(b)
    PROVE  /\ IsFiniteSet(Carried(b)) /\ s \in DOMAIN Rank /\ Rank[s] \in Nat
           /\ IsFiniteSet(Sets[b][s])
           /\ \A m \in Sets[b][s] :
                 /\ m.v \in Nat \ {0} /\ m.add \in BOOLEAN /\ m.sum # NoSum
                 /\ \A q \in RequirementsOf(b, s, m) : q.min \in Nat
<1>1. /\ IsFiniteSet(Carried(b)) /\ s \in DOMAIN Rank /\ Rank[s] \in Nat
      /\ IsFiniteSet(Sets[b][s])
  BY BinaryAssumption, ListAssumption DEF Carried
<1>2. \A m \in Sets[b][s] : /\ m.v \in Nat \ {0} /\ m.add \in BOOLEAN /\ m.sum # NoSum
                            /\ \A q \in Needs[b][s] \cup m.req : q.min \in Nat
  BY BinaryAssumption, ListAssumption DEF Carried
<1>3. ASSUME NEW m \in Sets[b][s], NEW q \in RequirementsOf(b, s, m)
      PROVE  q.min \in Nat
  <2>1. q \in Needs[b][s] \/ \E n \in Sets[b][s] : q \in n.req
    BY <1>3 DEF RequirementsOf
  <2> QED
    BY <1>2, <1>3, <2>1
<1> QED
  BY <1>1, <1>2, <1>3

(* The first of a set's pending migrations is one of them.                 *)
LEMMA HeadIs ==
    ASSUME NEW b \in Binary, NEW s \in Carried(b), NEW hist, Pending(hist, b, s) # {}
    PROVE  HeadOf(hist, b, s) \in Pending(hist, b, s)
<1> DEFINE P == Pending(hist, b, s)
           T == {m.v : m \in P}
<1>1. \A m \in P : m.v \in Nat
  BY CarriedIs DEF Pending
<1>2. T \in SUBSET Nat /\ T # {}
  BY <1>1
<1>3. PICK t \in T : \A u \in T : t <= u
  <2> HIDE DEF T
  <2> QED
    BY <1>2, LeastOf
<1>4. \E m \in P : \A n \in P : m.v <= n.v
  BY <1>3
<1> QED
  BY <1>4 DEF HeadOf

(* The foremost of the sets that are ready is one of them.                 *)
LEMMA ForemostIs ==
    ASSUME NEW b \in Binary, NEW ready \in SUBSET Carried(b), ready # {}
    PROVE  Foremost(ready) \in ready
<1> DEFINE T == {Rank[s] : s \in ready}
<1>1. \A s \in ready : Rank[s] \in Nat
  BY CarriedIs
<1>2. T \in SUBSET Nat /\ T # {}
  BY <1>1
<1>3. PICK t \in T : \A u \in T : t <= u
  <2> HIDE DEF T
  <2> QED
    BY <1>2, LeastOf
<1>4. \E s \in ready : \A u \in ready : Rank[s] <= Rank[u]
  BY <1>3
<1> QED
  BY <1>4 DEF Foremost

(* One more step of a plan, while one is ready.                            *)
Planning(p, b) ==
    LET s == Foremost(Ready(p.rows, b))
        row == RowOf(s, HeadOf(p.rows, b, s))
    IN IF Ready(p.rows, b) = {} THEN p
       ELSE [steps |-> Append(p.steps, row), rows |-> p.rows \cup {row}]

(* The plan's steps one by one.                                            *)
StepByStep(f, hist, b, k) ==
    f = [n \in 0 .. k |-> IF n = 0 THEN [steps |-> << >>, rows |-> hist]
                          ELSE Planning(f[n - 1], b)]

(* They can be taken as often as one likes.                                *)
LEMMA PlanIsDefined ==
    ASSUME NEW hist, NEW b, NEW k \in Nat
    PROVE  \E f : StepByStep(f, hist, b, k)
<1> DEFINE Has(n) == \E f : StepByStep(f, hist, b, n)
           U == {n \in Nat : ~Has(n)}
<1>1. SUFFICES ASSUME U # {} PROVE FALSE
  OBVIOUS
<1>2. U \in SUBSET Nat
  OBVIOUS
<1>3. PICK n \in U : \A j \in U : n <= j
  <2> HIDE DEF U
  <2> QED
    BY <1>1, <1>2, LeastOf
<1>4. Has(0)
  <2> DEFINE start == [steps |-> << >>, rows |-> hist]
             f == [j \in 0 .. 0 |-> start]
  <2>1. f = [j \in 0 .. 0 |-> IF j = 0 THEN start ELSE Planning(f[j - 1], b)]
    <3> HIDE DEF start
    <3> QED
      OBVIOUS
  <2>2. StepByStep(f, hist, b, 0)
    BY <2>1 DEF StepByStep
  <2> QED
    BY <2>2
<1>5. n \in Nat /\ n # 0 /\ n - 1 \in Nat /\ Has(n - 1)
  <2>1. n \in Nat /\ ~Has(n)
    BY <1>3
  <2>2. n # 0
    BY <1>4, <2>1
  <2>3. n - 1 \in Nat
    BY <2>1, <2>2
  <2>4. n - 1 \notin U
    BY <1>3, <2>3
  <2> QED
    BY <2>1, <2>2, <2>3, <2>4
<1>6. PICK f : StepByStep(f, hist, b, n - 1)
  BY <1>5
<1> DEFINE last == Planning(f[n - 1], b)
           start == [steps |-> << >>, rows |-> hist]
           g == [j \in 0 .. n |-> IF j = n THEN last ELSE f[j]]
<1>7. f = [j \in 0 .. n - 1 |-> IF j = 0 THEN start ELSE Planning(f[j - 1], b)]
  BY <1>6 DEF StepByStep
<1>8. \A j \in 0 .. n : g[j] = IF j = 0 THEN start ELSE Planning(g[j - 1], b)
  <2> TAKE j \in 0 .. n
  <2> HIDE DEF start
  <2>1. CASE j = n
    <3>1. g[j] = last /\ j # 0 /\ g[j - 1] = f[j - 1]
      BY <1>5, <2>1
    <3> QED
      BY <2>1, <3>1
  <2>2. CASE j # n
    <3>1. j \in 0 .. n - 1 /\ g[j] = f[j]
      BY <1>5, <2>2
    <3>2. j # 0 => j - 1 \in 0 .. n - 1 /\ g[j - 1] = f[j - 1]
      BY <1>5, <3>1
    <3>3. f[j] = IF j = 0 THEN start ELSE Planning(f[j - 1], b)
      BY <1>7, <3>1
    <3> QED
      BY <3>1, <3>2, <3>3
  <2> QED
    BY <2>1, <2>2
<1>9. g = [j \in 0 .. n |-> IF j = 0 THEN start ELSE Planning(g[j - 1], b)]
  <2>1. DOMAIN g = 0 .. n
    OBVIOUS
  <2>2. g = [j \in 0 .. n |-> g[j]]
    OBVIOUS
  <2> HIDE DEF g, start
  <2> QED
    BY <1>8, <2>2
<1>10. StepByStep(g, hist, b, n)
  BY <1>9 DEF StepByStep
<1> QED
  BY <1>3, <1>10

(* The plan is where they lead when there are as many as are pending.      *)
LEMMA PlanIs ==
    ASSUME NEW b \in Binary, NEW hist
    PROVE  \E k \in Nat : \E f : StepByStep(f, hist, b, k) /\ Plan(hist, b) = f[k]
<1> DEFINE pending == [s \in Carried(b) |-> {s} \X Pending(hist, b, s)]
           all == UNION {pending[s] : s \in Carried(b)}
           total == Cardinality(all)
<1>1. total \in Nat
  <2>1. \A s \in Carried(b) : IsFiniteSet(Pending(hist, b, s))
    BY CarriedIs, FS_Subset DEF Pending
  <2>2. \A s \in Carried(b) : IsFiniteSet({s} \X Pending(hist, b, s))
    BY <2>1, FS_Singleton, FS_Product
  <2>3. IsFiniteSet(Carried(b))
    BY BinaryAssumption DEF Carried
  <2>4. \A s \in Carried(b) : IsFiniteSet(pending[s])
    BY <2>2
  <2> HIDE DEF pending
  <2>5. IsFiniteSet({pending[s] : s \in Carried(b)})
    BY <2>3, FiniteImage
  <2>6. IsFiniteSet(all)
    BY <2>4, <2>5, FS_UNION
  <2> QED
    BY <2>6, FS_CardinalityType
<1> DEFINE run == CHOOSE f : StepByStep(f, hist, b, total)
<1>2. StepByStep(run, hist, b, total)
  <2> HIDE DEF total
  <2> QED
    BY <1>1, PlanIsDefined
<1>3. Plan(hist, b) = run[total]
  <2>1. all = UNION {{s} \X Pending(hist, b, s) : s \in Carried(b)}
    OBVIOUS
  <2>2. total = Cardinality(UNION {{s} \X Pending(hist, b, s) : s \in Carried(b)})
    BY <2>1
  <2> HIDE DEF total
  <2> QED
    BY <2>2 DEF Plan, StepByStep, Planning
<1> QED
  BY <1>1, <1>2, <1>3

(* A plan so far: its steps in order, and the history they lead to.        *)
PlanSoFar(p, b, hist) ==
    /\ p.steps \in Seq(BuildRows(b))
    /\ p.rows = hist \cup {p.steps[j] : j \in 1 .. Len(p.steps)}
    /\ InOrder(p.steps, b, hist)

(* One more step of planning keeps the plan in order.                      *)
LEMMA PlanningKeeps ==
    ASSUME NEW b \in Binary, NEW hist, NEW p, PlanSoFar(p, b, hist)
    PROVE  PlanSoFar(Planning(p, b), b, hist)
<1> DEFINE s == Foremost(Ready(p.rows, b))
           m == HeadOf(p.rows, b, s)
           row == RowOf(s, m)
           steps == p.steps
           more == Append(steps, row)
           n == Len(steps)
<1>1. CASE Ready(p.rows, b) = {}
  BY <1>1 DEF Planning
<1>2. CASE Ready(p.rows, b) # {}
  <2>1. Ready(p.rows, b) \in SUBSET Carried(b)
    BY DEF Ready
  <2>2. s \in Ready(p.rows, b)
    BY <1>2, <2>1, ForemostIs
  <2>3. /\ s \in Carried(b) /\ Pending(p.rows, b, s) # {}
        /\ \A q \in RequirementsOf(b, s, m) : Top(p.rows, q.set) >= q.min
    BY <2>2 DEF Ready
  <2>4. m \in Sets[b][s]
    BY <2>3, HeadIs DEF Pending
  <2>5. Planning(p, b) = [steps |-> more, rows |-> p.rows \cup {row}]
    BY <1>2 DEF Planning
  <2>6. row \in BuildRows(b)
    BY <2>3, <2>4 DEF BuildRows
  <2>7. /\ steps \in Seq(BuildRows(b)) /\ n \in Nat
        /\ p.rows = hist \cup {steps[j] : j \in 1 .. n}
        /\ InOrder(steps, b, hist)
    BY DEF PlanSoFar
  <2> HIDE DEF s, m, row, steps
  <2>8. /\ more \in Seq(BuildRows(b)) /\ Len(more) = n + 1 /\ more[n + 1] = row
        /\ \A j \in 1 .. n : more[j] = steps[j]
    BY <2>6, <2>7
  <2> HIDE DEF more, n
  <2>9. p.rows = hist \cup {more[j] : j \in 1 .. n}
    BY <2>7, <2>8
  <2>10. p.rows \cup {row} = hist \cup {more[j] : j \in 1 .. Len(more)}
    <3>1. 1 .. Len(more) = 1 .. n \cup {n + 1}
      BY <2>7, <2>8
    <3> QED
      BY <2>8, <2>9, <3>1
  <2>11. ASSUME NEW i \in 1 .. Len(more)
         PROVE  \E t \in Carried(b) : \E k \in Sets[b][t] :
                    /\ more[i] = RowOf(t, k)
                    /\ \A q \in RequirementsOf(b, t, k) :
                          Top(hist \cup {more[j] : j \in 1 .. i - 1}, q.set) >= q.min
    <3>1. CASE i = n + 1
      <4>1. hist \cup {more[j] : j \in 1 .. i - 1} = p.rows
        BY <2>7, <2>9, <3>1
      <4>2. more[i] = RowOf(s, m)
        BY <2>8, <3>1 DEF row
      <4> QED
        BY <2>3, <2>4, <4>1, <4>2
    <3>2. CASE i # n + 1
      <4>1. i \in 1 .. n /\ more[i] = steps[i] /\ \A j \in 1 .. i - 1 : more[j] = steps[j]
        BY <2>7, <2>8, <3>2
      <4>2. \E t \in Carried(b) : \E k \in Sets[b][t] :
                /\ steps[i] = RowOf(t, k)
                /\ \A q \in RequirementsOf(b, t, k) :
                      Top(hist \cup {steps[j] : j \in 1 .. i - 1}, q.set) >= q.min
        BY <2>7, <4>1 DEF InOrder, n
      <4>3. {steps[j] : j \in 1 .. i - 1} = {more[j] : j \in 1 .. i - 1}
        BY <4>1
      <4> QED
        BY <4>1, <4>2, <4>3
    <3> QED
      BY <3>1, <3>2
  <2>12. InOrder(more, b, hist)
    BY <2>11 DEF InOrder
  <2> QED
    BY <2>5, <2>8, <2>10, <2>12 DEF PlanSoFar
<1> QED
  BY <1>1, <1>2

(* A whole plan takes its steps in order.                                  *)
LEMMA PlanIsInOrder ==
    ASSUME NEW b \in Binary, NEW hist
    PROVE  /\ Plan(hist, b).steps \in Seq(BuildRows(b))
           /\ InOrder(Plan(hist, b).steps, b, hist)
<1>12. PICK k \in Nat : \E f : StepByStep(f, hist, b, k) /\ Plan(hist, b) = f[k]
  BY PlanIs
<1>1. PICK f : StepByStep(f, hist, b, k) /\ Plan(hist, b) = f[k]
  BY <1>12
<1> DEFINE start == [steps |-> << >>, rows |-> hist]
           U == {n \in 0 .. k : ~PlanSoFar(f[n], b, hist)}
<1>2. \A n \in 0 .. k : f[n] = IF n = 0 THEN start ELSE Planning(f[n - 1], b)
  <2>1. f = [n \in 0 .. k |-> IF n = 0 THEN start ELSE Planning(f[n - 1], b)]
    BY <1>1 DEF StepByStep
  <2> HIDE DEF start
  <2> QED
    BY <2>1
<1>3. PlanSoFar(start, b, hist)
  BY DEF PlanSoFar, InOrder
<1>4. SUFFICES ASSUME U # {} PROVE FALSE
  <2>1. PlanSoFar(f[k], b, hist)
    BY <1>1, <1>4
  <2> QED
    BY <1>1, <2>1 DEF PlanSoFar
<1>5. U \in SUBSET Nat
  OBVIOUS
<1>6. PICK n \in U : \A j \in U : n <= j
  <2> HIDE DEF U
  <2> QED
    BY <1>4, <1>5, LeastOf
<1>7. n \in 0 .. k /\ ~PlanSoFar(f[n], b, hist)
  BY <1>6
<1>8. n # 0
  <2> HIDE DEF start
  <2> QED
    BY <1>1, <1>2, <1>3, <1>7
<1>9. n - 1 \in 0 .. k /\ n - 1 \notin U
  BY <1>6, <1>7, <1>8
<1>10. PlanSoFar(f[n - 1], b, hist)
  BY <1>9
<1>11. f[n] = Planning(f[n - 1], b)
  <2> HIDE DEF start
  <2> QED
    BY <1>2, <1>7, <1>8
<1> QED
  BY <1>7, <1>10, <1>11, PlanningKeeps

-----------------------------------------------------------------------------
(* The chain.                                                              *)

IsSequence(chain) == chain \in Seq({chain[i] : i \in DOMAIN chain})

(* A record of another kind leaves the epochs as they are.                 *)
LEMMA PlacesAppend ==
    ASSUME NEW chain, IsSequence(chain), NEW r, NEW kind
    PROVE  LET n == Len(chain) + 1
               more == Append(chain, r)
           IN /\ IsSequence(more) /\ n \in Nat
              /\ Places(chain, kind) \in SUBSET (1 .. n - 1)
              /\ r.kind = kind => Places(more, kind) = Places(chain, kind) \cup {n}
              /\ r.kind # kind => Places(more, kind) = Places(chain, kind)
              /\ \A i \in Places(chain, kind) : more[i] = chain[i]
              /\ more[n] = r
<1> DEFINE S == {chain[i] : i \in DOMAIN chain}
           n == Len(chain) + 1
           more == Append(chain, r)
<1>1. chain \in Seq(S)
  BY DEF IsSequence
<1>2. n - 1 \in Nat /\ DOMAIN chain = 1 .. n - 1 /\ DOMAIN more = 1 .. n
  <2> HIDE DEF S
  <2> QED
    BY <1>1
<1>3. more[n] = r /\ \A i \in 1 .. n - 1 : more[i] = chain[i]
  <2> HIDE DEF S
  <2> QED
    BY <1>1
<1>4. IsSequence(more)
  <2>1. more \in Seq(S \cup {r})
    <3> HIDE DEF S
    <3> QED
      BY <1>1
  <2>2. S \cup {r} = {more[i] : i \in DOMAIN more}
    <3>1. 1 .. n = 1 .. n - 1 \cup {n}
      BY <1>2
    <3> HIDE DEF more, n
    <3> QED
      BY <1>2, <1>3, <3>1
  <2> HIDE DEF S, more
  <2> QED
    BY <2>1, <2>2 DEF IsSequence
<1>5. Places(chain, kind) \in SUBSET (1 .. n - 1)
  BY <1>2 DEF Places
<1>6. /\ r.kind = kind => Places(more, kind) = Places(chain, kind) \cup {n}
      /\ r.kind # kind => Places(more, kind) = Places(chain, kind)
  <2>1. 1 .. n = 1 .. n - 1 \cup {n}
    BY <1>2
  <2> HIDE DEF more, n
  <2> QED
    BY <1>2, <1>3, <2>1 DEF Places
<1> HIDE DEF more, n
<1> QED
  BY <1>2, <1>3, <1>4, <1>5, <1>6 DEF more, n

(* A record of another kind keeps the epochs linked.                       *)
LEMMA LinkedBeside ==
    ASSUME NEW chain, IsSequence(chain), Linked(chain), NEW r, r.kind # "epoch"
    PROVE  Linked(Append(chain, r))
<1> DEFINE more == Append(chain, r)
<1>1. Places(more, "epoch") = Places(chain, "epoch")
  BY PlacesAppend
<1>2. \A i \in Places(chain, "epoch") : more[i] = chain[i]
  BY PlacesAppend
<1> HIDE DEF more
<1> QED
  BY <1>1, <1>2 DEF Linked, more

(* The places of a kind are finitely many.                                 *)
LEMMA PlacesAre ==
    ASSUME NEW chain, IsSequence(chain), NEW at \in SUBSET Places(chain, "epoch")
    PROVE  /\ Len(chain) \in Nat /\ at \in SUBSET (1 .. Len(chain)) /\ at \in SUBSET Nat
           /\ IsFiniteSet(at) /\ Cardinality(at) \in Nat
           /\ at # {} => Max(at) \in at /\ \A i \in at : i <= Max(at)
<1> DEFINE S == {chain[i] : i \in DOMAIN chain}
<1>1. Len(chain) \in Nat /\ DOMAIN chain = 1 .. Len(chain)
  <2>1. chain \in Seq(S)
    BY DEF IsSequence
  <2> HIDE DEF S
  <2> QED
    BY <2>1
<1>2. at \in SUBSET (1 .. Len(chain))
  BY <1>1 DEF Places
<1>3. at \in SUBSET Nat
  BY <1>1, <1>2
<1>4. IsFiniteSet(1 .. Len(chain))
  BY <1>1, FS_Interval
<1>5. IsFiniteSet(at)
  BY <1>2, <1>4, FS_Subset
<1>6. Cardinality(at) \in Nat
  BY <1>5, FS_CardinalityType
<1>7. at # {} => Max(at) \in at /\ \A i \in at : i <= Max(at)
  BY <1>3, <1>5, MaxIsGreatest
<1> QED
  BY <1>1, <1>2, <1>3, <1>5, <1>6, <1>7

RestoresIn(chain) == {i \in Places(chain, "epoch") : chain[i].restore # None}

(* The current epoch counts the epochs and names the last.                 *)
LEMMA EpochIs ==
    ASSUME NEW d, IsSequence(d.chain), Linked(d.chain)
    PROVE  LET now == CurrentEpoch(d)
               at == Places(d.chain, "epoch")
               restores == RestoresIn(d.chain)
           IN /\ now.n = Cardinality(at) /\ now.n \in Nat
              /\ now.hash = Max({0} \cup at)
              /\ \A i \in at : d.chain[i].n # now.n + 1
              /\ now.restore = IF restores = {} THEN None ELSE d.chain[Max(restores)].restore
<1> DEFINE now == CurrentEpoch(d)
           at == Places(d.chain, "epoch")
           restores == RestoresIn(d.chain)
           before(i) == {j \in at : j < i}
<1>1. \A i \in at : d.chain[i].n = Cardinality(before(i)) + 1
  BY DEF Linked
<1>2. /\ at \in SUBSET Nat /\ IsFiniteSet(at) /\ Cardinality(at) \in Nat
      /\ at # {} => Max(at) \in at /\ \A i \in at : i <= Max(at)
  BY PlacesAre
<1>3. CASE at = {}
  <2>1. now = Genesis /\ restores = {}
    BY <1>3 DEF CurrentEpoch, RestoresIn
  <2>2. Cardinality(at) = 0
    BY <1>3, FS_EmptySet
  <2>3. Max({0} \cup at) = 0
    <3>1. {0} \cup at = {0} /\ IsFiniteSet({0})
      BY <1>3, FS_Singleton
    <3> QED
      BY <3>1, MaxIs
  <2> QED
    BY <1>3, <2>1, <2>2, <2>3 DEF Genesis
<1>4. CASE at # {}
  <2>1. Max(at) \in at /\ \A i \in at : i <= Max(at)
    BY <1>2, <1>4
  <2>2. /\ now.n = d.chain[Max(at)].n /\ now.hash = Max(at)
        /\ now.restore = IF restores = {} THEN None ELSE d.chain[Max(restores)].restore
    BY <1>4 DEF CurrentEpoch, RestoresIn
  <2>3. before(Max(at)) = at \ {Max(at)}
    BY <1>2, <2>1
  <2>4. Cardinality(at \ {Max(at)}) = Cardinality(at) - 1
    <3> HIDE DEF at
    <3> QED
      BY <1>2, <2>1, FS_RemoveElement
  <2>5. now.n = Cardinality(at)
    <3>1. d.chain[Max(at)].n = Cardinality(before(Max(at))) + 1
      BY <1>1, <2>1
    <3> HIDE DEF at, before, now
    <3> QED
      BY <1>2, <2>2, <2>3, <2>4, <3>1
  <2>6. Max({0} \cup at) = Max(at)
    <3>1. IsFiniteSet({0} \cup at)
      BY <1>2, FS_Singleton, FS_Union
    <3>2. \A i \in {0} \cup at : i <= Max(at)
      BY <1>2, <2>1
    <3> QED
      BY <1>2, <2>1, <3>1, <3>2, MaxIs
  <2>7. \A i \in at : d.chain[i].n # now.n + 1
    <3> TAKE i \in at
    <3>1. before(i) \in SUBSET at /\ i \notin before(i)
      BY <1>2
    <3>2. Cardinality(before(i)) <= Cardinality(at) /\ Cardinality(before(i)) \in Nat
      BY <1>2, <3>1, FS_Subset, FS_CardinalityType
    <3>3. Cardinality(before(i)) # Cardinality(at)
      BY <1>2, <3>1, FS_Subset
    <3> QED
      BY <1>1, <1>2, <2>5, <3>2, <3>3
  <2> QED
    BY <1>2, <2>2, <2>5, <2>6, <2>7
<1> QED
  BY <1>3, <1>4

(* An epoch numbered after the last, naming it, and recording no restore   *)
(* the last recorded one is, keeps the epochs linked.                      *)
LEMMA LinkedEpoch ==
    ASSUME NEW d, IsSequence(d.chain), Linked(d.chain), NEW e, e.kind = "epoch",
           e.n = CurrentEpoch(d).n + 1, e.previous = CurrentEpoch(d).hash,
           e.restore # None => CurrentEpoch(d).restore # e.restore
    PROVE  /\ Linked(Append(d.chain, e))
           /\ \A f : f.chain = Append(d.chain, e) =>
                 CurrentEpoch(f).restore = IF e.restore # None THEN e.restore
                                           ELSE CurrentEpoch(d).restore
<1> DEFINE now == CurrentEpoch(d)
           chain == d.chain
           at == Places(chain, "epoch")
           restores == RestoresIn(chain)
           n == Len(chain) + 1
           more == Append(chain, e)
           after == Places(more, "epoch")
           since == RestoresIn(more)
<1>1. /\ now.n = Cardinality(at) /\ now.n \in Nat /\ now.hash = Max({0} \cup at)
      /\ now.restore = IF restores = {} THEN None ELSE chain[Max(restores)].restore
  BY EpochIs
<1>2. /\ IsSequence(more) /\ n \in Nat
      /\ \A i \in at : more[i] = chain[i]
      /\ more[n] = e
  <2>1. IsSequence(more) /\ n \in Nat /\ more[n] = e
    BY PlacesAppend
  <2>2. \A i \in at : more[i] = chain[i]
    BY PlacesAppend
  <2> QED
    BY <2>1, <2>2
<1>3. after = at \cup {n} /\ \A i \in at : i \in Nat /\ i < n
  <2>1. after = at \cup {n}
    BY PlacesAppend
  <2>2. at \in SUBSET (1 .. n - 1)
    BY PlacesAppend
  <2> QED
    BY <1>2, <2>1, <2>2
<1>4. since = restores \cup (IF e.restore # None THEN {n} ELSE {})
  BY <1>2, <1>3 DEF RestoresIn
<1>5. restores \in SUBSET at
  BY DEF RestoresIn
<1>6. restores # {} => Max(restores) \in restores /\ \A i \in restores : i <= Max(restores)
  BY <1>5, PlacesAre
<1>7. /\ \A i \in at : /\ chain[i].n = Cardinality({j \in at : j < i}) + 1
                       /\ chain[i].previous = Max({0} \cup {j \in at : j < i})
      /\ \A i, j \in restores : (i < j /\ chain[i].restore = chain[j].restore) =>
            \E k \in restores : i < k /\ k < j
  BY DEF Linked, RestoresIn
<1> HIDE DEF chain, at, restores, n, more, after, since
<1>8. ASSUME NEW i \in after
      PROVE  /\ more[i].n = Cardinality({j \in after : j < i}) + 1
             /\ more[i].previous = Max({0} \cup {j \in after : j < i})
  <2>1. CASE i \in at
    <3>1. {j \in after : j < i} = {j \in at : j < i}
      BY <1>2, <1>3, <2>1
    <3> QED
      BY <1>2, <1>7, <2>1, <3>1
  <2>2. CASE i \notin at
    <3>1. i = n
      BY <1>3, <2>2
    <3>2. \A j \in after : j < n <=> j \in at
      BY <1>2, <1>3
    <3>3. {j \in after : j < i} = at
      BY <1>3, <3>1, <3>2
    <3> QED
      BY <1>1, <1>2, <3>1, <3>3
  <2> QED
    BY <2>1, <2>2
<1>9. ASSUME NEW i \in since, NEW j \in since, i < j, more[i].restore = more[j].restore
      PROVE  \E k \in since : i < k /\ k < j
  <2>1. i \in restores
    BY <1>2, <1>3, <1>4, <1>5, <1>9
  <2>2. CASE j \in restores
    BY <1>2, <1>4, <1>5, <1>7, <1>9, <2>1, <2>2
  <2>3. CASE j \notin restores
    <3>1. j = n /\ e.restore # None
      BY <1>4, <2>3
    <3>2. chain[i].restore = e.restore
      BY <1>2, <1>5, <1>9, <2>1, <3>1
    <3>3. Max(restores) \in restores /\ i <= Max(restores) /\ Max(restores) # i
      BY <1>1, <1>6, <2>1, <3>1, <3>2
    <3>4. i \in at /\ Max(restores) \in at /\ Max(restores) \in since
      BY <1>4, <1>5, <2>1, <3>3
    <3>5. i < Max(restores) /\ Max(restores) < n
      BY <1>2, <1>3, <3>3, <3>4
    <3> QED
      BY <3>1, <3>4, <3>5
  <2> QED
    BY <2>2, <2>3
<1>10. Linked(more)
  BY <1>8, <1>9 DEF Linked, after, since, RestoresIn
<1>11. ASSUME NEW f, f.chain = more
       PROVE  CurrentEpoch(f).restore = IF e.restore # None THEN e.restore ELSE now.restore
  <2>1. CurrentEpoch(f).restore = IF since = {} THEN None ELSE more[Max(since)].restore
    BY <1>2, <1>10, <1>11, EpochIs DEF since
  <2>2. CASE e.restore = None
    <3>1. since = restores
      BY <1>4, <2>2
    <3> QED
      BY <1>1, <1>2, <1>5, <1>6, <2>1, <2>2, <3>1
  <2>3. CASE e.restore # None
    <3>1. since = restores \cup {n}
      BY <1>4, <2>3
    <3>2. since \in SUBSET after
      BY DEF since, after, RestoresIn
    <3>3. IsFiniteSet(since) /\ since \in SUBSET Nat
      BY <1>2, <3>2, PlacesAre DEF after
    <3>4. \A i \in since : i <= n
      BY <1>2, <1>3, <1>5, <3>1
    <3>5. Max(since) = n
      BY <3>1, <3>3, <3>4, MaxIs
    <3> QED
      BY <1>2, <2>1, <2>3, <3>1, <3>5
  <2> QED
    BY <2>2, <2>3
<1> QED
  BY <1>10, <1>11 DEF more, chain

-----------------------------------------------------------------------------
(* Stores.                                                                 *)

(* The rows and the chain of a store that is left.                         *)
LEMMA LeftRows ==
    ASSUME NEW s, NEW d, Left(s, d)
    PROVE  /\ Rows(d.rows) /\ IsSequence(d.chain) /\ Linked(d.chain)
           /\ \A r \in d.rows : r.v \in Nat \ {0} /\ r.add \in BOOLEAN /\ r.set \in DOMAIN Rank
           /\ \A r, q \in d.rows : r.set = q.set /\ r.v = q.v => r = q
  BY DEF Left, StoreOK, Rows, IsSequence

(* What is asked of a store is asked of its rows, its chain and three      *)
(* fields.                                                                 *)
LEMMA LeftAlike ==
    ASSUME NEW s, NEW d, Left(s, d), NEW e, DOMAIN e = DOMAIN EMPTY, e.rows = d.rows,
           e.chain = d.chain, e.floor \in 0 .. s.until + 1, e.data \in 0 .. s.writes,
           e.src \in Archive \cup {None}
    PROVE  Left(s, e)
<1>1. StoreOK(s, e)
  BY DEF Left, StoreOK
<1>2. IsSequence(d.chain) /\ Linked(d.chain)
  BY LeftRows
<1> QED
  BY <1>1, <1>2 DEF Left, IsSequence

(* It is left so under every scene of the same builds and bounds.          *)
LEMMA LeftScene ==
    ASSUME NEW s, NEW t, s.bins = t.bins, s.until = t.until, s.writes = t.writes, NEW d,
           Left(s, d)
    PROVE  Left(t, d)
  BY DEF Left, StoreOK

(* A record that keeps the epochs linked may be appended.                  *)
LEMMA LeftAppend ==
    ASSUME NEW s, NEW d, Left(s, d), NEW r, Linked(Append(d.chain, r))
    PROVE  Left(s, [d EXCEPT !.chain = Append(@, r)])
<1> DEFINE e == [d EXCEPT !.chain = Append(@, r)]
<1>1. DOMAIN d = DOMAIN EMPTY
  BY DEF Left, StoreOK
<1>2. /\ e.rows = d.rows /\ e.chain = Append(d.chain, r) /\ DOMAIN e = DOMAIN EMPTY
      /\ e.floor = d.floor /\ e.data = d.data /\ e.src = d.src
  BY <1>1 DEF EMPTY
<1> HIDE DEF e
<1>3. StoreOK(s, e)
  BY <1>2 DEF Left, StoreOK
<1>4. IsSequence(d.chain)
  BY LeftRows
<1>5. IsSequence(e.chain)
  <2>1. IsSequence(Append(d.chain, r))
    BY <1>4, PlacesAppend
  <2> QED
    BY <1>2, <2>1
<1>6. Left(s, e)
  BY <1>2, <1>3, <1>5 DEF Left, IsSequence
<1> QED
  BY <1>6 DEF e

(* A migration may be recorded once what it requires is.                   *)
LEMMA LeftRecord ==
    ASSUME NEW s, s.bins \subseteq Binary, NEW d, Left(s, d), NEW b \in Binary,
           \A c \in s.bins : Agree(c, b), NEW t \in Carried(b), NEW m \in Sets[b][t],
           \A q \in RequirementsOf(b, t, m) : Top(d.rows, q.set) >= q.min,
           ~ \E r \in d.rows : r.set = t /\ r.v = m.v
    PROVE  Left(s, [d EXCEPT !.rows = @ \cup {RowOf(t, m)}])
<1> DEFINE row == RowOf(t, m)
           hist == d.rows
           more == hist \cup {row}
           e == [d EXCEPT !.rows = more]
<1>1. DOMAIN d = DOMAIN EMPTY
  BY DEF Left, StoreOK
<1>2. /\ e.rows = more /\ e.chain = d.chain /\ DOMAIN e = DOMAIN EMPTY
      /\ e.floor = d.floor /\ e.data = d.data /\ e.src = d.src
  BY <1>1 DEF EMPTY
<1>3. /\ row.set = t /\ row.v = m.v /\ row.sum = m.sum /\ row.add = m.add
      /\ t \in DOMAIN Rank /\ m.v \in Nat \ {0} /\ m.add \in BOOLEAN /\ m.sum # NoSum
  BY CarriedIs DEF RowOf
<1>4. Rows(hist)
  BY LeftRows
<1>5. IsFiniteSet(more)
  BY <1>4, FS_AddElement DEF Rows
<1>6. Rows(more) /\ Covers(more, hist)
  BY <1>3, <1>4, <1>5 DEF Rows, Covers
<1> HIDE DEF row, hist, e
<1>7. StoreOK(s, e)
  <2>1. StoreOK(s, d) /\ d.rows = hist
    BY DEF Left, hist
  <2>2. \A r \in more : /\ r.set \in DOMAIN Rank /\ r.v \in Nat \ {0} /\ r.add \in BOOLEAN
                        /\ r.sum = NoSum => r.set = "app"
    BY <1>3, <2>1 DEF StoreOK
  <2>3. \A r, q \in more : r.set = q.set /\ r.v = q.v => r = q
    BY <1>3, <2>1 DEF StoreOK
  <2> QED
    BY <1>2, <1>5, <2>1, <2>2, <2>3 DEF StoreOK
<1>8. ASSUME NEW c \in s.bins PROVE Met(more, c)
  <2>1. ASSUME NEW r \in more, r.set \in Carried(c), NEW n \in Sets[c][r.set], n.v = r.v,
               n.sum = r.sum, NEW q \in RequirementsOf(c, r.set, n)
        PROVE  Top(more, q.set) >= q.min
    <3>1. q.min \in Nat
      BY <2>1, CarriedIs
    <3>2. Top(hist, q.set) >= q.min
      <4>1. CASE r \in hist
        BY <2>1, <4>1 DEF Left, Met, hist
      <4>2. CASE r = row
        <5>1. t \in Carried(c) /\ n \in Sets[c][t] /\ n.v = m.v /\ n.sum = m.sum
          BY <1>3, <2>1, <4>2
        <5>2. RequirementsOf(c, t, n) = RequirementsOf(b, t, m)
          BY <5>1 DEF Agree
        <5> QED
          BY <1>3, <2>1, <4>2, <5>2 DEF hist
      <4> QED
        BY <2>1, <4>1, <4>2
    <3> QED
      BY <1>4, <1>6, <3>1, <3>2, TopGrows
  <2> QED
    BY <2>1 DEF Met
<1>9. \A r \in more, c \in s.bins : r.sum = NoSum =>
          \A k \in Sets[c]["app"] : k.v = r.v => RequirementsOf(c, "app", k) = {}
  BY <1>3 DEF Left, hist
<1>10. IsSequence(d.chain) /\ Linked(d.chain)
  BY LeftRows
<1>11. Left(s, e)
  BY <1>2, <1>7, <1>8, <1>9, <1>10 DEF Left, IsSequence
<1> QED
  BY <1>11 DEF e, row, hist

(* Marks take the place of the rows they mark.                             *)
LEMMA LeftMarked ==
    ASSUME NEW s, s.bins \subseteq Binary, NEW d, Left(s, d), NEW b \in Binary
    PROVE  /\ Left(s, [d EXCEPT !.rows = Backfilled(d.rows, b)])
           /\ Covers(Backfilled(d.rows, b), d.rows) /\ Covers(d.rows, Backfilled(d.rows, b))
<1> DEFINE hist == d.rows
           marks == Marks(hist, b)
           kept == {r \in hist : \A m \in marks : r.set # "app" \/ r.v # m.v}
           now == kept \cup marks
           e == [d EXCEPT !.rows = now]
<1>1. DOMAIN d = DOMAIN EMPTY
  BY DEF Left, StoreOK
<1>2. /\ e.rows = now /\ e.chain = d.chain /\ DOMAIN e = DOMAIN EMPTY
      /\ e.floor = d.floor /\ e.data = d.data /\ e.src = d.src
  BY <1>1 DEF EMPTY
<1>3. "app" \in Carried(b)
  BY BinaryAssumption DEF Carried
<1>4. now = Backfilled(d.rows, b)
  BY DEF Backfilled
<1>5. \A k \in marks : \E m \in Sets[b]["app"] : \E r \in hist :
          /\ k.set = "app" /\ k.v = m.v /\ k.sum = m.sum /\ k.add = m.add
          /\ r.set = "app" /\ r.v = m.v /\ r.sum = NoSum
  BY DEF Marks, RowOf
<1>6. \A m \in Sets[b]["app"] :
          (\E r \in hist : r.set = "app" /\ r.v = m.v /\ r.sum = NoSum) =>
              RowOf("app", m) \in marks
  BY DEF Marks
<1>7. \A m \in Sets[b]["app"] : /\ m.v \in Nat \ {0} /\ m.add \in BOOLEAN /\ m.sum # NoSum
                                /\ "app" \in DOMAIN Rank
  BY <1>3, CarriedIs
<1>8. Rows(hist) /\ StoreOK(s, d)
  BY LeftRows DEF Left
<1>9. IsFiniteSet(now)
  <2> DEFINE those == {k \in Sets[b]["app"] :
                          \E r \in hist : r.set = "app" /\ r.v = k.v /\ r.sum = NoSum}
             f == [m \in those |-> RowOf("app", m)]
  <2>1. marks = {f[m] : m \in those}
    BY DEF Marks
  <2>2. IsFiniteSet(those)
    BY <1>3, CarriedIs, FS_Subset
  <2>3. IsFiniteSet(marks)
    <3> HIDE DEF marks, those, f
    <3> QED
      BY <2>1, <2>2, FiniteImage
  <2>4. IsFiniteSet(kept)
    BY <1>8, FS_Subset DEF Rows
  <2> HIDE DEF marks, kept
  <2> QED
    BY <2>3, <2>4, FS_Union
<1>10. \A k \in kept : k \in hist
  OBVIOUS
<1>11. \A k \in kept, m \in marks : k.set # "app" \/ k.v # m.v
  OBVIOUS
<1>12. \A r \in hist : r \in kept \/ \E m \in marks : r.set = "app" /\ r.v = m.v
  OBVIOUS
<1> HIDE DEF marks, kept, hist, e
<1>13. \A k \in marks : /\ k.set = "app" /\ k.set \in DOMAIN Rank /\ k.v \in Nat \ {0}
                        /\ k.add \in BOOLEAN /\ k.sum # NoSum
                        /\ \E m \in Sets[b]["app"] : \E r \in hist :
                              /\ k = RowOf("app", m) /\ k.v = m.v /\ k.sum = m.sum
                              /\ r.set = "app" /\ r.v = m.v /\ r.sum = NoSum
  <2> TAKE k \in marks
  <2>1. PICK m \in Sets[b]["app"] : \E r \in hist :
          /\ k = RowOf("app", m)
          /\ r.set = "app" /\ r.v = m.v /\ r.sum = NoSum
    BY DEF marks, Marks
  <2>2. k.set = "app" /\ k.v = m.v /\ k.sum = m.sum /\ k.add = m.add
    BY <2>1 DEF RowOf
  <2> QED
    BY <1>7, <2>1, <2>2
<1>14. Covers(now, hist)
  BY <1>12, <1>13 DEF Covers
<1>15. Covers(hist, now)
  BY <1>10, <1>13 DEF Covers
<1>16. Rows(now)
  BY <1>8, <1>9, <1>10, <1>13 DEF Rows
<1>17. StoreOK(s, e)
  <2>1. \A r \in now : /\ r.set \in DOMAIN Rank /\ r.v \in Nat \ {0} /\ r.add \in BOOLEAN
                       /\ r.sum = NoSum => r.set = "app"
    BY <1>8, <1>10, <1>13 DEF StoreOK, hist
  <2>2. ASSUME NEW r \in now, NEW q \in now, r.set = q.set, r.v = q.v PROVE r = q
    <3>1. CASE r \in kept /\ q \in kept
      BY <1>8, <1>10, <2>2, <3>1 DEF StoreOK, hist
    <3>2. CASE r \in marks /\ q \in marks
      <4>1. PICK m \in Sets[b]["app"] : r = RowOf("app", m) /\ r.v = m.v
        BY <1>13, <3>2
      <4>2. PICK n \in Sets[b]["app"] : q = RowOf("app", n) /\ q.v = n.v
        BY <1>13, <3>2
      <4>3. m = n
        BY <1>3, <2>2, <4>1, <4>2, ListAssumption DEF Carried
      <4> QED
        BY <4>1, <4>2, <4>3
    <3>3. CASE ~(r \in kept /\ q \in kept) /\ ~(r \in marks /\ q \in marks)
      BY <1>11, <1>13, <2>2, <3>3
    <3> QED
      BY <3>1, <3>2, <3>3
  <2>3. \A r, q \in now : r.set = q.set /\ r.v = q.v => r = q
    BY <2>2
  <2> QED
    BY <1>2, <1>8, <1>9, <2>1, <2>3 DEF StoreOK
<1>18. ASSUME NEW c \in s.bins PROVE Met(now, c)
  <2>1. ASSUME NEW r \in now, r.set \in Carried(c), NEW n \in Sets[c][r.set], n.v = r.v,
               n.sum = r.sum, NEW q \in RequirementsOf(c, r.set, n)
        PROVE  Top(now, q.set) >= q.min
    <3>1. q.min \in Nat
      BY <2>1, CarriedIs
    <3>2. r \in hist
      <4>1. SUFFICES ASSUME r \in marks PROVE FALSE
        BY <1>10
      <4>2. PICK k \in hist : k.set = "app" /\ k.v = r.v /\ k.sum = NoSum
        BY <1>13, <4>1
      <4>3. r.set = "app"
        BY <1>13, <4>1
      <4>4. RequirementsOf(c, "app", n) = {}
        BY <2>1, <4>2, <4>3 DEF Left, hist
      <4> QED
        BY <2>1, <4>3, <4>4
    <3>3. Top(hist, q.set) >= q.min
      BY <2>1, <3>2 DEF Left, Met, hist
    <3> QED
      BY <1>8, <1>14, <1>16, <3>1, <3>3, TopGrows
  <2> QED
    BY <2>1 DEF Met
<1>19. \A r \in now, c \in s.bins : r.sum = NoSum =>
          \A k \in Sets[c]["app"] : k.v = r.v => RequirementsOf(c, "app", k) = {}
  BY <1>10, <1>13 DEF Left, hist
<1>20. IsSequence(d.chain) /\ Linked(d.chain)
  BY LeftRows
<1>21. Left(s, e)
  BY <1>2, <1>17, <1>18, <1>19, <1>20 DEF Left, IsSequence
<1> QED
  BY <1>4, <1>14, <1>15, <1>21 DEF e, hist, kept, marks

-----------------------------------------------------------------------------
(* The steps.                                                              *)

(* No step changes what the scene allows, but for what it counts down.     *)
LEMMA SceneKept ==
    ASSUME RecoveryNext
    PROVE  \/ scene' = scene
           \/ scene' = [scene EXCEPT !.rollback = FALSE]
           \/ scene' = [scene EXCEPT !.restores = @ - 1]
<1>1. CASE DeployBeside
  BY <1>1 DEF DeployBeside, DeployNext, DeployOpen, DeployPlan, DeployApply, DeployReread,
       DeployAppend, DeployJudge, DeployRecord, DeployEnd, DeployAgain, DeployCrash, DeployLost
<1>2. CASE \/ OutsideRequest \/ Tick \/ ClockBack \/ \E t \in 0..scene.until : Vacuum(t)
           \/ BackupOpen \/ BackupList \/ BackupWaited \/ BackupTrigger \/ BackupPoll
           \/ BackupRauthy \/ BackupDeliver \/ BackupEnd
  BY <1>2 DEF OutsideRequest, Tick, ClockBack, Vacuum, BackupOpen, BackupList, BackupWaited,
       BackupTrigger, BackupPoll, BackupRauthy, BackupDeliver, BackupEnd, deployed
<1>3. CASE \/ \E a \in Archive : RestoreStart(a)
           \/ \E f \in KeyFile : RestoreKey(f)
           \/ RestoreReset \/ RestorePlace \/ RestoreClear \/ RestoreRauthy
           \/ RestoreMark \/ RestoreEnd \/ RestoreCrash \/ ClearLock
  BY <1>3 DEF RestoreStart, RestoreKey, RestoreReset, RestorePlace, RestoreClear, RestoreRauthy,
       RestoreMark, RestoreEnd, RestoreCrash, ClearLock, deployed
<1>4. CASE \/ \E b \in Binary : CellPrepare(b)
           \/ CellHealthy \/ CellOpen \/ CellCheck \/ CellBoot \/ CellWrite \/ RauthyWrite
           \/ CellStop \/ CellCrash
  BY <1>4 DEF CellPrepare, CellHealthy, CellOpen, CellCheck, CellBoot, CellWrite, RauthyWrite,
       CellStop, CellCrash, deployed
<1> QED
  BY <1>1, <1>2, <1>3, <1>4 DEF RecoveryNext

(* Nor what the scene is.                                                  *)
LEMMA StagedNext ==
    ASSUME Staged, [RecoveryNext]_recoveryVars
    PROVE  /\ Staged'
           /\ \A f \in SceneField \ {"rollback", "restores"} : scene'[f] = scene[f]
           /\ scene'.bins = scene.bins /\ scene'.until = scene.until
           /\ scene'.writes = scene.writes /\ scene'.bin = scene.bin
           /\ scene'.deploys = scene.deploys /\ scene'.adopts = scene.adopts
           /\ scene'.serves = scene.serves /\ scene'.binary = scene.binary
<1>1. \/ scene' = scene
      \/ scene' = [scene EXCEPT !.rollback = FALSE]
      \/ scene' = [scene EXCEPT !.restores = @ - 1]
  BY SceneKept DEF recoveryVars, deployed
<1>2. DOMAIN scene = SceneField
  BY DEF Staged
<1>3. \A f \in SceneField \ {"rollback", "restores"} : scene'[f] = scene[f]
  BY <1>1, <1>2
<1>4. DOMAIN scene' = SceneField
  BY <1>1, <1>2
<1>5. /\ scene'.bins = scene.bins /\ scene'.until = scene.until
      /\ scene'.writes = scene.writes /\ scene'.bin = scene.bin
      /\ scene'.deploys = scene.deploys /\ scene'.adopts = scene.adopts
      /\ scene'.serves = scene.serves /\ scene'.binary = scene.binary
  BY <1>1, <1>2 DEF SceneField
<1> QED
  BY <1>3, <1>4, <1>5 DEF Staged

(* What the scenes promise of the scene.                                   *)
LEMMA SceneIs ==
    ASSUME Staged
    PROVE  /\ scene.deploys \subseteq Step /\ scene.bin \in [Step -> Binary]
           /\ scene.bins \subseteq Binary /\ scene.serves \subseteq Binary
           /\ scene.binary \in Binary
           /\ \A b \in scene.bins, d \in scene.deploys : Agree(b, scene.bin[d])
           /\ scene.until \in Nat /\ scene.writes \in Nat
  BY ScenesAssumption DEF Staged

(* Who is at work beside whom stays so.                                    *)
LEMMA HoldersNext ==
    ASSUME Staged, Shaped, Holders, [RecoveryNext]_recoveryVars
    PROVE  Holders'
<1> USE DEF Holders, Shaped, DeployBeside, Idle, DeployAt, Running, CanOpen, NodeUp, Busy,
        deployed, world, NoBackup, BackupAt, RestoreAt, CellAt, NoRestore, Down
<1> USE StepAssumption, NoneAssumption
<1>1. ASSUME NEW d \in Step, DeployOpen(d), DeployBeside PROVE Holders'
  <2>1. /\ DOMAIN deploy' = Step /\ \A e \in Step \ {d} : deploy'[e] = deploy[e]
        /\ deploy'[d].owns <=> owner = NoOne
        /\ deploy'[d].pc \in {"refused", "plan"}
    BY <1>1 DEF DeployOpen
  <2>2. /\ owner' = IF owner = NoOne THEN d ELSE owner
        /\ lockFile' = "held" /\ deploy[d].pc = "idle" /\ CanOpen
        /\ marker' = marker /\ cell'.pc = cell.pc
        /\ UNCHANGED <<archives, backup, restore, torn>>
    BY <1>1 DEF DeployOpen
  <2>3. \A e \in Step : deploy'[e].owns <=> owner' = e
    BY <2>1, <2>2
  <2>4. /\ owner # "restore" /\ owner' # "restore" /\ owner' # NoOne
        /\ owner' \in Step \cup {"cell", "backup"}
    BY <2>2
  <2>5. (cell'.pc # "down" <=> owner' = "cell") /\ (backup'.owns <=> owner' = "backup")
    BY <2>2
  <2>6. (restore'.pc \in Busy <=> owner' = "restore") /\ (backup'.pc = "idle" => ~backup'.owns)
    BY <2>2, <2>4
  <2>7. \A e \in Step : ~Running(e)' => ~deploy'[e].owns
    BY <2>1
  <2>8. marker' # Unreadable
    BY <2>2
  <2> QED
    BY <2>2, <2>3, <2>4, <2>5, <2>6, <2>7, <2>8
<1>2. ASSUME NEW d \in Step, DeployPlan(d), DeployBeside PROVE Holders'
  BY <1>2 DEF DeployPlan
<1>3. ASSUME NEW d \in Step, DeployApply(d), DeployBeside PROVE Holders'
  BY <1>3 DEF DeployApply
<1>4. ASSUME NEW d \in Step, DeployReread(d), DeployBeside PROVE Holders'
  BY <1>4 DEF DeployReread
<1>5. ASSUME NEW d \in Step, DeployAppend(d), DeployBeside PROVE Holders'
  BY <1>5 DEF DeployAppend
<1>6. ASSUME NEW d \in Step, DeployJudge(d), DeployBeside PROVE Holders'
  BY <1>6 DEF DeployJudge
<1>7. ASSUME NEW d \in Step, DeployRecord(d), DeployBeside PROVE Holders'
  BY <1>7 DEF DeployRecord
<1>8. ASSUME NEW d \in Step, DeployEnd(d), DeployBeside PROVE Holders'
  BY <1>8 DEF DeployEnd
<1>9. ASSUME NEW d \in Step, DeployAgain(d), DeployBeside PROVE Holders'
  BY <1>9 DEF DeployAgain
<1>10. ASSUME NEW d \in Step, DeployCrash(d), DeployBeside PROVE Holders'
  BY <1>10 DEF DeployCrash
<1>11. ASSUME NEW d \in Step, DeployLost(d), DeployBeside PROVE Holders'
  BY <1>11 DEF DeployLost
<1>12. ASSUME OutsideRequest PROVE Holders'
  BY <1>12 DEF OutsideRequest
<1>13. ASSUME Tick PROVE Holders'
  BY <1>13 DEF Tick
<1>14. ASSUME ClockBack PROVE Holders'
  BY <1>14 DEF ClockBack
<1>15. ASSUME NEW t \in 0 .. scene.until, Vacuum(t) PROVE Holders'
  BY <1>15 DEF Vacuum
<1>16. ASSUME BackupOpen PROVE Holders'
  BY <1>16 DEF BackupOpen
<1>17. ASSUME BackupList PROVE Holders'
  BY <1>17 DEF BackupList
<1>18. ASSUME BackupWaited PROVE Holders'
  BY <1>18 DEF BackupWaited
<1>19. ASSUME BackupTrigger PROVE Holders'
  BY <1>19 DEF BackupTrigger
<1>20. ASSUME BackupPoll PROVE Holders'
  BY <1>20 DEF BackupPoll
<1>21. ASSUME BackupRauthy PROVE Holders'
  BY <1>21 DEF BackupRauthy
<1>22. ASSUME BackupDeliver PROVE Holders'
  <2>1. PICK a \in Archive \ {x.name : x \in archives} : archives' = archives \cup {Sealed(a)}
    BY <1>22 DEF BackupDeliver
  <2>2. Sealed(a).name = a
    BY DEF Sealed
  <2>3. \A x, y \in archives' : x.name = y.name => x = y
    BY <2>1, <2>2
  <2> QED
    BY <1>22, <2>3 DEF BackupDeliver
<1>23. ASSUME BackupEnd PROVE Holders'
  BY <1>23 DEF BackupEnd
<1>24. ASSUME NEW a \in Archive, RestoreStart(a) PROVE Holders'
  BY <1>24 DEF RestoreStart
<1>25. ASSUME NEW f \in KeyFile, RestoreKey(f) PROVE Holders'
  BY <1>25 DEF RestoreKey
<1>26. ASSUME RestoreReset PROVE Holders'
  BY <1>26 DEF RestoreReset
<1>27. ASSUME RestorePlace PROVE Holders'
  BY <1>27 DEF RestorePlace
<1>28. ASSUME RestoreClear PROVE Holders'
  BY <1>28 DEF RestoreClear
<1>29. ASSUME RestoreRauthy PROVE Holders'
  BY <1>29 DEF RestoreRauthy
<1>30. ASSUME RestoreMark PROVE Holders'
  <2>1. restore.pc = "mark" /\ marker' = Marker(restore)
    BY <1>30 DEF RestoreMark
  <2>2. restore.of \in Archive /\ restore.at \in Nat
    BY <2>1, SceneIs
  <2>3. Marker(restore) \in MarkerRec
    BY <2>2 DEF Marker, MarkerRec
  <2>4. marker' # Unreadable
    BY <2>1, <2>3 DEF MarkerRec
  <2> QED
    BY <1>30, <2>4 DEF RestoreMark
<1>31. ASSUME RestoreEnd PROVE Holders'
  BY <1>31 DEF RestoreEnd
<1>32. ASSUME RestoreCrash PROVE Holders'
  <2>1. restore.pc \in Busy /\ owner = "restore" /\ marker # Unreadable
    BY <1>32 DEF RestoreCrash, RestorePc
  <2>2. restore.of # None
    BY <2>1
  <2>3. marker' = Unreadable => torn' # None /\ owner' = NoOne
    BY <1>32, <2>1, <2>2 DEF RestoreCrash
  <2> QED
    BY <1>32, <2>1, <2>3 DEF RestoreCrash
<1>33. ASSUME ClearLock PROVE Holders'
  BY <1>33 DEF ClearLock
<1>34. ASSUME NEW b \in Binary, CellPrepare(b) PROVE Holders'
  BY <1>34 DEF CellPrepare
<1>35. ASSUME CellHealthy PROVE Holders'
  <2>1. owner = "cell" /\ marker # Unreadable
    BY <1>35 DEF CellHealthy
  <2>2. marker' # marker => marker # None /\ marker' = Certified(marker)
    BY <1>35 DEF CellHealthy
  <2>3. marker \in MarkerRec => Certified(marker) \in MarkerRec
    BY DEF Certified, MarkerRec
  <2>4. marker' # Unreadable
    BY <2>1, <2>2, <2>3 DEF MarkerRec
  <2> QED
    BY <1>35, <2>4 DEF CellHealthy
<1>36. ASSUME CellOpen PROVE Holders'
  BY <1>36 DEF CellOpen
<1>37. ASSUME CellCheck PROVE Holders'
  BY <1>37 DEF CellCheck
<1>38. ASSUME CellBoot PROVE Holders'
  BY <1>38 DEF CellBoot
<1>39. ASSUME CellWrite PROVE Holders'
  BY <1>39 DEF CellWrite
<1>40. ASSUME RauthyWrite PROVE Holders'
  BY <1>40 DEF RauthyWrite
<1>41. ASSUME CellStop PROVE Holders'
  BY <1>41 DEF CellStop
<1>42. ASSUME CellCrash PROVE Holders'
  BY <1>42 DEF CellCrash
<1>43. CASE UNCHANGED recoveryVars
  BY <1>43 DEF recoveryVars
<1> QED
  BY <1>1, <1>2, <1>3, <1>4, <1>5, <1>6, <1>7, <1>8, <1>9, <1>10, <1>11, <1>12, <1>13, <1>14,
     <1>15, <1>16, <1>17, <1>18, <1>19, <1>20, <1>21, <1>22, <1>23, <1>24, <1>25, <1>26, <1>27,
     <1>28, <1>29, <1>30, <1>31, <1>32, <1>33, <1>34, <1>35, <1>36, <1>37, <1>38, <1>39, <1>40,
     <1>41, <1>42, <1>43 DEF RecoveryNext, DeployNext

(* The archive of a name that is given is one of the archives.             *)
LEMMA OfIs ==
    ASSUME NEW a \in {x.name : x \in archives}
    PROVE  Of(a) \in archives /\ Of(a).name = a
  BY DEF Of

(* The snapshot files outlive a node.                                      *)
LEMMA FilesStay ==
    ASSUME DOMAIN hiq = DOMAIN Fresh
    PROVE  HiqAfter.files = hiq.files /\ DOMAIN HiqAfter = DOMAIN Fresh
  BY DEF HiqAfter, Fresh

(* Every field keeps its kind.                                             *)
LEMMA ShapedNext ==
    ASSUME Staged, Shaped, Holders, [RecoveryNext]_recoveryVars
    PROVE  Shaped'
<1> USE DEF Shaped, DeployBeside, Idle, DeployAt, Running, CanOpen, NodeUp, Busy, deployed,
        world, NoBackup, BackupAt, RestoreAt, CellAt, NoRestore, Down, DeployPc, BackupPc,
        RestorePc, CellPc, HiqAfter, Fresh
<1> USE StepAssumption, NoneAssumption
<1> scene'.until = scene.until /\ scene'.deploys = scene.deploys /\ scene.until \in Nat
  BY StagedNext, SceneIs
<1>1. ASSUME NEW d \in Step, DeployOpen(d), DeployBeside PROVE Shaped'
  <2>1. /\ DOMAIN deploy' = Step /\ \A e \in Step \ {d} : deploy'[e] = deploy[e]
        /\ deploy'[d].owns \in BOOLEAN /\ deploy'[d].pc \in {"refused", "plan"}
        /\ DOMAIN deploy'[d] = DOMAIN deploy[d]
    BY <1>1 DEF DeployOpen
  <2>2. d \in scene.deploys /\ marker' = marker
    BY <1>1 DEF DeployOpen
  <2>3. /\ cell'.pc = cell.pc /\ cell'.bin = cell.bin /\ DOMAIN cell' = DOMAIN cell
        /\ cell'.met \in BOOLEAN /\ hiq'.files = hiq.files /\ DOMAIN hiq' = DOMAIN Fresh
        /\ UNCHANGED <<archives, clock, rdir, rauthy, backup, restore, torn>>
    BY <1>1, FilesStay
  <2>4. /\ DOMAIN deploy' = Step
        /\ \A e \in Step : /\ DOMAIN deploy'[e] = DOMAIN Idle /\ deploy'[e].pc \in DeployPc
                           /\ deploy'[e].owns \in BOOLEAN
                           /\ deploy'[e].pc # "idle" => e \in scene'.deploys
    BY <2>1, <2>2
  <2> QED
    BY <2>2, <2>3, <2>4
<1>2. ASSUME NEW d \in Step, DeployPlan(d), DeployBeside PROVE Shaped'
  BY <1>2 DEF DeployPlan
<1>3. ASSUME NEW d \in Step, DeployApply(d), DeployBeside PROVE Shaped'
  BY <1>3 DEF DeployApply
<1>4. ASSUME NEW d \in Step, DeployReread(d), DeployBeside PROVE Shaped'
  BY <1>4 DEF DeployReread
<1>5. ASSUME NEW d \in Step, DeployAppend(d), DeployBeside PROVE Shaped'
  BY <1>5 DEF DeployAppend
<1>6. ASSUME NEW d \in Step, DeployJudge(d), DeployBeside PROVE Shaped'
  BY <1>6 DEF DeployJudge
<1>7. ASSUME NEW d \in Step, DeployRecord(d), DeployBeside PROVE Shaped'
  BY <1>7 DEF DeployRecord
<1>8. ASSUME NEW d \in Step, DeployEnd(d), DeployBeside PROVE Shaped'
  <2> DEFINE over == [Idle EXCEPT !.pc = "ended"]
  <2>1. DOMAIN over = DOMAIN Idle /\ over.pc = "ended" /\ over.owns = FALSE
    OBVIOUS
  <2>2. d \in scene.deploys /\ deploy' = [deploy EXCEPT ![d] = over]
    BY <1>8 DEF DeployEnd
  <2> HIDE DEF over
  <2>3. \A e \in Step : /\ DOMAIN deploy'[e] = DOMAIN Idle /\ deploy'[e].pc \in DeployPc
                        /\ deploy'[e].owns \in BOOLEAN
                        /\ deploy'[e].pc # "idle" => e \in scene.deploys
    BY <2>1, <2>2
  <2>4. DOMAIN deploy' = Step
    BY <2>2
  <2>5. hiq'.files = hiq.files /\ DOMAIN hiq' = DOMAIN Fresh
    BY <1>8, FilesStay
  <2> HIDE DEF Fresh, Idle, HiqAfter
  <2> QED
    BY <1>8, <2>3, <2>4, <2>5 DEF DeployEnd
<1>9. ASSUME NEW d \in Step, DeployAgain(d), DeployBeside PROVE Shaped'
  BY <1>9 DEF DeployAgain
<1>10. ASSUME NEW d \in Step, DeployCrash(d), DeployBeside PROVE Shaped'
  <2> DEFINE over == [Idle EXCEPT !.pc = "ended"]
  <2>1. DOMAIN over = DOMAIN Idle /\ over.pc = "ended" /\ over.owns = FALSE
    OBVIOUS
  <2>2. d \in scene.deploys /\ deploy' = [deploy EXCEPT ![d] = over]
    BY <1>10 DEF DeployCrash
  <2> HIDE DEF over
  <2>3. \A e \in Step : /\ DOMAIN deploy'[e] = DOMAIN Idle /\ deploy'[e].pc \in DeployPc
                        /\ deploy'[e].owns \in BOOLEAN
                        /\ deploy'[e].pc # "idle" => e \in scene.deploys
    BY <2>1, <2>2
  <2>4. DOMAIN deploy' = Step
    BY <2>2
  <2>5. hiq'.files = hiq.files /\ DOMAIN hiq' = DOMAIN Fresh
    BY <1>10, FilesStay
  <2> HIDE DEF Fresh, Idle, HiqAfter
  <2> QED
    BY <1>10, <2>3, <2>4, <2>5 DEF DeployCrash
<1>11. ASSUME NEW d \in Step, DeployLost(d), DeployBeside PROVE Shaped'
  BY <1>11 DEF DeployLost
<1>12. ASSUME OutsideRequest PROVE Shaped'
  <2>1. hiq'.files = hiq.files /\ DOMAIN hiq' = DOMAIN Fresh
    BY <1>12 DEF OutsideRequest, AfterRequest, Accepts
  <2> HIDE DEF Fresh
  <2> QED
    BY <1>12, <2>1 DEF OutsideRequest
<1>13. ASSUME Tick PROVE Shaped'
  BY <1>13 DEF Tick
<1>14. ASSUME ClockBack PROVE Shaped'
  BY <1>14 DEF ClockBack
<1>15. ASSUME NEW t \in 0 .. scene.until, Vacuum(t) PROVE Shaped'
  BY <1>15 DEF Vacuum
<1>16. ASSUME BackupOpen PROVE Shaped'
  BY <1>16 DEF BackupOpen
<1>17. ASSUME BackupList PROVE Shaped'
  BY <1>17 DEF BackupList
<1>18. ASSUME BackupWaited PROVE Shaped'
  BY <1>18 DEF BackupWaited
<1>19. ASSUME BackupTrigger PROVE Shaped'
  <2>1. hiq'.files = hiq.files /\ DOMAIN hiq' = DOMAIN Fresh
    BY <1>19 DEF BackupTrigger, AfterRequest, Accepts
  <2> HIDE DEF Fresh
  <2> QED
    BY <1>19, <2>1 DEF BackupTrigger
<1>20. ASSUME BackupPoll PROVE Shaped'
  BY <1>20 DEF BackupPoll
<1>21. ASSUME BackupRauthy PROVE Shaped'
  BY <1>21 DEF BackupRauthy
<1>22. ASSUME BackupDeliver PROVE Shaped'
  <2>1. PICK a \in Archive : archives' = archives \cup {Sealed(a)}
    BY <1>22 DEF BackupDeliver
  <2>2. Sealed(a).name = a /\ Sealed(a).rauthy = backup.rauthy /\ backup.rauthy.data \in Nat
    BY <1>22 DEF Sealed, BackupDeliver
  <2> QED
    BY <1>22, <2>1, <2>2 DEF BackupDeliver
<1>23. ASSUME BackupEnd PROVE Shaped'
  BY <1>23 DEF BackupEnd
<1>24. ASSUME NEW a \in Archive, RestoreStart(a) PROVE Shaped'
  BY <1>24 DEF RestoreStart
<1>25. ASSUME NEW f \in KeyFile, RestoreKey(f) PROVE Shaped'
  BY <1>25 DEF RestoreKey
<1>26. ASSUME RestoreReset PROVE Shaped'
  BY <1>26 DEF RestoreReset
<1>27. ASSUME RestorePlace PROVE Shaped'
  BY <1>27 DEF RestorePlace
<1>28. ASSUME RestoreClear PROVE Shaped'
  BY <1>28 DEF RestoreClear
<1>29. ASSUME RestoreRauthy PROVE Shaped'
  BY <1>29 DEF RestoreRauthy
<1>30. ASSUME RestoreMark PROVE Shaped'
  <2>1. restore.pc = "mark" /\ marker' = Marker(restore)
    BY <1>30 DEF RestoreMark
  <2>2. restore.of \in Archive /\ restore.at \in Nat
    BY <2>1
  <2>3. Marker(restore) \in MarkerRec
    BY <2>2 DEF Marker, MarkerRec
  <2> QED
    BY <1>30, <2>1, <2>3 DEF RestoreMark
<1>31. ASSUME RestoreEnd PROVE Shaped'
  BY <1>31 DEF RestoreEnd
<1>32. ASSUME RestoreCrash PROVE Shaped'
  BY <1>32 DEF RestoreCrash
<1>33. ASSUME ClearLock PROVE Shaped'
  BY <1>33 DEF ClearLock
<1>34. ASSUME NEW b \in Binary, CellPrepare(b) PROVE Shaped'
  <2>1. b \in Binary
    BY <1>34
  <2>2. Owing => Of(rdir).rauthy.data \in Nat
    <3>1. Owing => marker \in MarkerRec /\ rdir = marker.archive
      BY <1>34 DEF CellPrepare, Owing
    <3>2. Owing => rdir # None
      BY <3>1 DEF MarkerRec
    <3> QED
      BY <3>2, OfIs
  <2> HIDE DEF Owing
  <2> QED
    BY <1>34, <2>1, <2>2 DEF CellPrepare
<1>35. ASSUME CellHealthy PROVE Shaped'
  <2>1. marker' # marker => marker # None /\ marker' = Certified(marker)
    BY <1>35 DEF CellHealthy
  <2>2. marker \in MarkerRec => Certified(marker) \in MarkerRec
    BY DEF Certified, MarkerRec
  <2>3. marker # Unreadable
    BY <1>35 DEF CellHealthy, Holders
  <2> QED
    BY <1>35, <2>1, <2>2, <2>3 DEF CellHealthy
<1>36. ASSUME CellOpen PROVE Shaped'
  BY <1>36 DEF CellOpen
<1>37. ASSUME CellCheck PROVE Shaped'
  BY <1>37 DEF CellCheck
<1>38. ASSUME CellBoot PROVE Shaped'
  BY <1>38 DEF CellBoot
<1>39. ASSUME CellWrite PROVE Shaped'
  BY <1>39 DEF CellWrite
<1>40. ASSUME RauthyWrite PROVE Shaped'
  BY <1>40 DEF RauthyWrite
<1>41. ASSUME CellStop PROVE Shaped'
  BY <1>41 DEF CellStop
<1>42. ASSUME CellCrash PROVE Shaped'
  BY <1>42 DEF CellCrash
<1>43. CASE UNCHANGED recoveryVars
  BY <1>43 DEF recoveryVars
<1> QED
  BY <1>1, <1>2, <1>3, <1>4, <1>5, <1>6, <1>7, <1>8, <1>9, <1>10, <1>11, <1>12, <1>13, <1>14,
     <1>15, <1>16, <1>17, <1>18, <1>19, <1>20, <1>21, <1>22, <1>23, <1>24, <1>25, <1>26, <1>27,
     <1>28, <1>29, <1>30, <1>31, <1>32, <1>33, <1>34, <1>35, <1>36, <1>37, <1>38, <1>39, <1>40,
     <1>41, <1>42, <1>43 DEF RecoveryNext, DeployNext

-----------------------------------------------------------------------------
(* The live store.                                                         *)

(* What a process that opens, attaches to or writes the store does to it.  *)
StoreKept(d) ==
    /\ DOMAIN d = DOMAIN EMPTY
    /\ d.rows = db.rows /\ d.chain = db.chain /\ d.src = db.src /\ d.since = db.since
    /\ d.floor \in 0 .. scene.until + 1 /\ d.floor >= db.floor
    /\ d.data \in 0 .. scene.writes /\ d.data >= db.data
    /\ db.first # None => d.first = db.first /\ d.key = db.key

(* Raising the floor keeps the store, and the floor is what is owed.       *)
LEMMA FloorIs ==
    ASSUME Staged, Stores, Restored
    PROVE  /\ FloorRaised(db).floor >= Owed
           /\ StoreKept(FloorRaised(db)) /\ FloorRaised(db).key = db.key
           /\ FloorRaised(db).first = db.first /\ FloorRaised(db).data = db.data
<1> DEFINE top == Max({db.floor, Owed})
<1>1. /\ DOMAIN db = DOMAIN EMPTY /\ scene.until \in Nat /\ scene.writes \in Nat
      /\ db.floor \in 0 .. scene.until + 1 /\ db.data \in 0 .. scene.writes
      /\ Owed \in 0 .. scene.until + 1
  BY SceneIs DEF Stores, Left, StoreOK, Restored
<1>2. top \in {db.floor, Owed} /\ top >= db.floor /\ top >= Owed
  <2>1. {db.floor, Owed} \in SUBSET Nat /\ {db.floor, Owed} # {}
    BY <1>1
  <2>2. IsFiniteSet({db.floor, Owed})
    <3>1. {db.floor, Owed} = {db.floor} \cup {Owed}
      OBVIOUS
    <3>2. IsFiniteSet({db.floor})
      BY FS_Singleton
    <3> QED
      BY <3>1, <3>2, FS_AddElement
  <2> QED
    BY <1>1, <2>1, <2>2, MaxIsGreatest
<1>3. FloorRaised(db) = [db EXCEPT !.floor = top]
  BY DEF FloorRaised
<1> HIDE DEF top
<1>4. /\ DOMAIN FloorRaised(db) = DOMAIN EMPTY /\ FloorRaised(db).floor = top
      /\ FloorRaised(db).rows = db.rows /\ FloorRaised(db).chain = db.chain
      /\ FloorRaised(db).src = db.src /\ FloorRaised(db).since = db.since
      /\ FloorRaised(db).data = db.data /\ FloorRaised(db).first = db.first
      /\ FloorRaised(db).key = db.key
  BY <1>1, <1>3 DEF EMPTY
<1> QED
  BY <1>1, <1>2, <1>4 DEF StoreKept

(* A store kept is as it was left.                                         *)
LEMMA KeptIsLeft ==
    ASSUME Staged, Stores, NEW d, StoreKept(d)
    PROVE  Left(scene, d)
<1>1. Left(scene, db) /\ db.src \in Archive \cup {None}
  BY DEF Stores, Left, StoreOK
<1> QED
  BY <1>1, LeftAlike DEF StoreKept

(* Writing a genesis record keeps the store.                               *)
LEMMA GenesisKeeps ==
    ASSUME Staged, Stores, NEW d, StoreKept(d), NEW b \in Binary
    PROVE  /\ StoreKept(WithGenesis(d, b)) /\ WithGenesis(d, b).first # None
           /\ WithGenesis(d, b).floor = d.floor
           /\ d.first = None => WithGenesis(d, b).key = keys["ledger"]
           /\ d.first # None => WithGenesis(d, b) = d
<1>1. Ceiling[b] # None
  BY BinaryAssumption
<1> QED
  BY <1>1 DEF WithGenesis, StoreKept, EMPTY

(* Opening the store keeps it.                                             *)
LEMMA OpenedIs ==
    ASSUME Staged, Stores, Restored
    PROVE  StoreKept(db) /\ StoreKept(Opened)
<1>1. StoreKept(db)
  <2>1. DOMAIN db = DOMAIN EMPTY /\ db.floor \in 0 .. scene.until + 1
        /\ db.data \in 0 .. scene.writes /\ scene.until \in Nat /\ scene.writes \in Nat
    BY SceneIs DEF Stores, Left, StoreOK
  <2> QED
    BY <2>1 DEF StoreKept
<1> QED
  BY <1>1, FloorIs DEF Opened

(* An open, an attach and a write keep the store.                          *)
LEMMA OpenKeeps ==
    ASSUME Staged, Shaped, Stores, Restored
    PROVE  /\ \A d \in Step : DeployOpen(d) => StoreKept(db')
           /\ BackupOpen => StoreKept(db')
           /\ CellOpen => /\ StoreKept(db') /\ db'.key = db.key
                          /\ cell'.pc = "check" => db'.floor >= Owed
           /\ CellBoot => StoreKept(db') /\ db'.floor = db.floor
           /\ CellWrite => StoreKept(db') /\ db'.floor = db.floor
<1>1. StoreKept(db) /\ StoreKept(Opened)
  BY OpenedIs
<1>2. ASSUME NEW d \in Step, DeployOpen(d) PROVE StoreKept(db')
  <2>1. scene.bin[d] \in Binary
    BY SceneIs
  <2>2. StoreKept(WithGenesis(Opened, scene.bin[d]))
    BY <1>1, <2>1, GenesisKeeps
  <2> HIDE DEF StoreKept
  <2> QED
    BY <1>1, <1>2, <2>2 DEF DeployOpen
<1>3. ASSUME BackupOpen PROVE StoreKept(db')
  BY <1>1, <1>3, SceneIs, GenesisKeeps DEF BackupOpen
<1>4. ASSUME CellOpen
      PROVE  /\ StoreKept(db') /\ db'.key = db.key
             /\ cell'.pc = "check" => db'.floor >= Owed
  <2>1. CASE keys["secrets"] = Unreadable
    <3>1. db' = db /\ cell' = CellAt("stop")
      BY <1>4, <2>1 DEF CellOpen
    <3>2. cell'.pc # "check"
      BY <3>1 DEF CellAt, Shaped, Down
    <3> QED
      BY <1>1, <3>1, <3>2
  <2>2. CASE keys["secrets"] # Unreadable
    BY <1>4, <2>2, FloorIs DEF CellOpen
  <2> QED
    BY <2>1, <2>2
<1>5. ASSUME CellBoot PROVE StoreKept(db') /\ db'.floor = db.floor
  <2>1. cell.bin \in Binary
    BY <1>5 DEF CellBoot, Shaped
  <2>2. /\ StoreKept(WithGenesis(db, cell.bin))
        /\ WithGenesis(db, cell.bin).floor = db.floor
    BY <1>1, <2>1, GenesisKeeps
  <2> QED
    BY <1>1, <1>5, <2>2 DEF CellBoot
<1>6. ASSUME CellWrite PROVE StoreKept(db') /\ db'.floor = db.floor
  <2>1. /\ db' = [db EXCEPT !.data = @ + 1] /\ db.data < scene.writes
        /\ scene.writes \in Nat /\ scene.until \in Nat
    BY <1>6, SceneIs DEF CellWrite
  <2> QED
    BY <1>1, <2>1 DEF StoreKept, EMPTY
<1> QED
  BY <1>2, <1>3, <1>4, <1>5, <1>6

(* A restored volume stays the archive it was restored from.              *)
LEMMA RestoredNext ==
    ASSUME Staged, Shaped, Stores, Holders, Restored, [RecoveryNext]_recoveryVars
    PROVE  Restored'
<1> USE DEF Shaped, Holders, Restored, DeployBeside, DeployAt, Running, CanOpen, NodeUp, Busy,
        deployed, world, BackupAt, RestoreAt, CellAt, NoRestore, Owed, RestorePc
<1> USE StepAssumption, NoneAssumption
<1> DOMAIN db = DOMAIN EMPTY
  BY DEF Stores, Left, StoreOK
<1>1. ASSUME NEW d \in Step, DeployOpen(d), DeployBeside PROVE Restored'
  <2>1. db'.src = db.src /\ db'.since = db.since
    BY <1>1, OpenKeeps DEF StoreKept
  <2> QED
    BY <1>1, <2>1 DEF DeployOpen
<1>2. ASSUME NEW d \in Step, DeployPlan(d), DeployBeside PROVE Restored'
  BY <1>2 DEF DeployPlan
<1>3. ASSUME NEW d \in Step, DeployApply(d), DeployBeside PROVE Restored'
  <2>1. db'.src = db.src /\ db'.since = db.since
    BY <1>3 DEF DeployApply, EMPTY
  <2> QED
    BY <1>3, <2>1 DEF DeployApply
<1>4. ASSUME NEW d \in Step, DeployReread(d), DeployBeside PROVE Restored'
  BY <1>4 DEF DeployReread
<1>5. ASSUME NEW d \in Step, DeployAppend(d), DeployBeside PROVE Restored'
  <2>1. db'.src = db.src /\ db'.since = db.since
    BY <1>5 DEF DeployAppend, EMPTY
  <2> QED
    BY <1>5, <2>1 DEF DeployAppend
<1>6. ASSUME NEW d \in Step, DeployJudge(d), DeployBeside PROVE Restored'
  BY <1>6 DEF DeployJudge
<1>7. ASSUME NEW d \in Step, DeployRecord(d), DeployBeside PROVE Restored'
  <2>1. db'.src = db.src /\ db'.since = db.since
    BY <1>7 DEF DeployRecord, EMPTY
  <2> QED
    BY <1>7, <2>1 DEF DeployRecord
<1>8. ASSUME NEW d \in Step, DeployEnd(d), DeployBeside PROVE Restored'
  BY <1>8 DEF DeployEnd
<1>9. ASSUME NEW d \in Step, DeployAgain(d), DeployBeside PROVE Restored'
  BY <1>9 DEF DeployAgain
<1>10. ASSUME NEW d \in Step, DeployCrash(d), DeployBeside PROVE Restored'
  BY <1>10 DEF DeployCrash
<1>11. ASSUME NEW d \in Step, DeployLost(d), DeployBeside PROVE Restored'
  BY <1>11 DEF DeployLost
<1>12. ASSUME OutsideRequest PROVE Restored'
  BY <1>12 DEF OutsideRequest
<1>13. ASSUME Tick PROVE Restored'
  BY <1>13 DEF Tick
<1>14. ASSUME ClockBack PROVE Restored'
  BY <1>14 DEF ClockBack
<1>15. ASSUME NEW t \in 0 .. scene.until, Vacuum(t) PROVE Restored'
  BY <1>15 DEF Vacuum
<1>16. ASSUME BackupOpen PROVE Restored'
  <2>1. db'.src = db.src /\ db'.since = db.since
    BY <1>16, OpenKeeps DEF StoreKept
  <2> QED
    BY <1>16, <2>1 DEF BackupOpen
<1>17. ASSUME BackupList PROVE Restored'
  BY <1>17 DEF BackupList
<1>18. ASSUME BackupWaited PROVE Restored'
  BY <1>18 DEF BackupWaited
<1>19. ASSUME BackupTrigger PROVE Restored'
  BY <1>19 DEF BackupTrigger
<1>20. ASSUME BackupPoll PROVE Restored'
  BY <1>20 DEF BackupPoll
<1>21. ASSUME BackupRauthy PROVE Restored'
  BY <1>21 DEF BackupRauthy
<1>22. ASSUME BackupDeliver PROVE Restored'
  BY <1>22 DEF BackupDeliver
<1>23. ASSUME BackupEnd PROVE Restored'
  BY <1>23 DEF BackupEnd
<1>24. ASSUME NEW a \in Archive, RestoreStart(a) PROVE Restored'
  BY <1>24 DEF RestoreStart
<1>25. ASSUME NEW f \in KeyFile, RestoreKey(f) PROVE Restored'
  BY <1>25 DEF RestoreKey
<1>26. ASSUME RestoreReset PROVE Restored'
  BY <1>26 DEF RestoreReset
<1>27. ASSUME RestorePlace PROVE Restored'
  BY <1>27 DEF RestorePlace
<1>28. ASSUME RestoreClear PROVE Restored'
  BY <1>28 DEF RestoreClear
<1>29. ASSUME RestoreRauthy PROVE Restored'
  BY <1>29 DEF RestoreRauthy
<1>30. ASSUME RestoreMark PROVE Restored'
  <2>1. restore.pc = "mark" /\ marker' = Marker(restore) /\ restore'.pc = "done"
    BY <1>30 DEF RestoreMark
  <2>2. /\ Marker(restore).archive = restore.of /\ Marker(restore).owed = restore.at
        /\ restore.at \in 0 .. scene.until + 1
    BY DEF Marker
  <2> QED
    BY <1>30, <2>1, <2>2, SceneIs DEF RestoreMark
<1>31. ASSUME RestoreEnd PROVE Restored'
  BY <1>31 DEF RestoreEnd
<1>32. ASSUME RestoreCrash PROVE Restored'
  <2>1. restore.pc \in Busy /\ restore.of # None /\ marker # Unreadable
    BY <1>32 DEF RestoreCrash
  <2>2. /\ restore' = NoRestore /\ UNCHANGED <<scene, db>>
        /\ restore.pc # "keys" => torn' # None
        /\ restore.pc = "keys" => torn' \in {torn, restore.of} /\ marker' = marker
        /\ marker' # marker => marker' = Unreadable
    BY <1>32, <2>1 DEF RestoreCrash
  <2> QED
    BY <2>1, <2>2, SceneIs
<1>33. ASSUME ClearLock PROVE Restored'
  BY <1>33 DEF ClearLock
<1>34. ASSUME NEW b \in Binary, CellPrepare(b) PROVE Restored'
  BY <1>34 DEF CellPrepare
<1>35. ASSUME CellHealthy PROVE Restored'
  <2>1. marker' # marker => marker # None /\ marker # Unreadable /\ marker' = Certified(marker)
    BY <1>35 DEF CellHealthy
  <2>2. marker \in MarkerRec => /\ Certified(marker) \in MarkerRec
                                /\ Certified(marker).archive = marker.archive
                                /\ Certified(marker).owed = marker.owed
    BY DEF Certified, MarkerRec
  <2>3. \A m \in MarkerRec : m # None /\ m # Unreadable
    BY DEF MarkerRec
  <2> QED
    BY <1>35, <2>1, <2>2, <2>3 DEF CellHealthy
<1>36. ASSUME CellOpen PROVE Restored'
  <2>1. db'.src = db.src /\ db'.since = db.since
    BY <1>36, OpenKeeps DEF StoreKept
  <2> QED
    BY <1>36, <2>1 DEF CellOpen
<1>37. ASSUME CellCheck PROVE Restored'
  BY <1>37 DEF CellCheck
<1>38. ASSUME CellBoot PROVE Restored'
  <2>1. db'.src = db.src /\ db'.since = db.since
    BY <1>38, OpenKeeps DEF StoreKept
  <2> QED
    BY <1>38, <2>1 DEF CellBoot
<1>39. ASSUME CellWrite PROVE Restored'
  BY <1>39 DEF CellWrite
<1>40. ASSUME RauthyWrite PROVE Restored'
  BY <1>40 DEF RauthyWrite
<1>41. ASSUME CellStop PROVE Restored'
  BY <1>41 DEF CellStop
<1>42. ASSUME CellCrash PROVE Restored'
  BY <1>42 DEF CellCrash
<1>43. CASE UNCHANGED recoveryVars
  BY <1>43 DEF recoveryVars
<1> QED
  BY <1>1, <1>2, <1>3, <1>4, <1>5, <1>6, <1>7, <1>8, <1>9, <1>10, <1>11, <1>12, <1>13, <1>14,
     <1>15, <1>16, <1>17, <1>18, <1>19, <1>20, <1>21, <1>22, <1>23, <1>24, <1>25, <1>26, <1>27,
     <1>28, <1>29, <1>30, <1>31, <1>32, <1>33, <1>34, <1>35, <1>36, <1>37, <1>38, <1>39, <1>40,
     <1>41, <1>42, <1>43 DEF RecoveryNext, DeployNext

(* A start has made sure of what it has come to.                           *)
LEMMA StartedNext ==
    ASSUME Staged, Shaped, Stores, Holders, Restored, Started, [RecoveryNext]_recoveryVars
    PROVE  Started'
<1> USE DEF Shaped, Holders, Started, DeployBeside, DeployAt, Running, CanOpen, NodeUp, Busy,
        deployed, world, BackupAt, RestoreAt, CellAt, NoRestore, Owed, Owing, RestorePc, Down
<1> DOMAIN db = DOMAIN EMPTY
  BY DEF Stores, Left, StoreOK
<1> db.floor \in Nat /\ Owed \in Nat
  <2> HIDE DEF Owed
  <2> QED
    BY SceneIs DEF Stores, Left, StoreOK, Restored
<1> USE StepAssumption, NoneAssumption
<1>1. ASSUME NEW d \in Step, DeployOpen(d), DeployBeside PROVE Started'
  <2>1. /\ db'.floor \in Nat /\ db'.floor >= db.floor
        /\ db.first # None => db'.first = db.first /\ db'.key = db.key
    BY <1>1, OpenKeeps, SceneIs DEF StoreKept
  <2> QED
    BY <1>1, <2>1 DEF DeployOpen
<1>2. ASSUME NEW d \in Step, DeployPlan(d), DeployBeside PROVE Started'
  BY <1>2 DEF DeployPlan
<1>3. ASSUME NEW d \in Step, DeployApply(d), DeployBeside PROVE Started'
  <2>1. db'.floor = db.floor /\ db'.first = db.first /\ db'.key = db.key
    BY <1>3 DEF DeployApply, EMPTY
  <2> QED
    BY <1>3, <2>1 DEF DeployApply
<1>4. ASSUME NEW d \in Step, DeployReread(d), DeployBeside PROVE Started'
  BY <1>4 DEF DeployReread
<1>5. ASSUME NEW d \in Step, DeployAppend(d), DeployBeside PROVE Started'
  <2>1. db'.floor = db.floor /\ db'.first = db.first /\ db'.key = db.key
    BY <1>5 DEF DeployAppend, EMPTY
  <2> QED
    BY <1>5, <2>1 DEF DeployAppend
<1>6. ASSUME NEW d \in Step, DeployJudge(d), DeployBeside PROVE Started'
  BY <1>6 DEF DeployJudge
<1>7. ASSUME NEW d \in Step, DeployRecord(d), DeployBeside PROVE Started'
  <2>1. db'.floor = db.floor /\ db'.first = db.first /\ db'.key = db.key
    BY <1>7 DEF DeployRecord, EMPTY
  <2> QED
    BY <1>7, <2>1 DEF DeployRecord
<1>8. ASSUME NEW d \in Step, DeployEnd(d), DeployBeside PROVE Started'
  BY <1>8 DEF DeployEnd
<1>9. ASSUME NEW d \in Step, DeployAgain(d), DeployBeside PROVE Started'
  BY <1>9 DEF DeployAgain
<1>10. ASSUME NEW d \in Step, DeployCrash(d), DeployBeside PROVE Started'
  BY <1>10 DEF DeployCrash
<1>11. ASSUME NEW d \in Step, DeployLost(d), DeployBeside PROVE Started'
  BY <1>11 DEF DeployLost
<1>12. ASSUME OutsideRequest PROVE Started'
  BY <1>12 DEF OutsideRequest
<1>13. ASSUME Tick PROVE Started'
  BY <1>13 DEF Tick
<1>14. ASSUME ClockBack PROVE Started'
  BY <1>14 DEF ClockBack
<1>15. ASSUME NEW t \in 0 .. scene.until, Vacuum(t) PROVE Started'
  BY <1>15 DEF Vacuum
<1>16. ASSUME BackupOpen PROVE Started'
  <2>1. /\ db'.floor \in Nat /\ db'.floor >= db.floor
        /\ db.first # None => db'.first = db.first /\ db'.key = db.key
    BY <1>16, OpenKeeps, SceneIs DEF StoreKept
  <2> QED
    BY <1>16, <2>1 DEF BackupOpen
<1>17. ASSUME BackupList PROVE Started'
  BY <1>17 DEF BackupList
<1>18. ASSUME BackupWaited PROVE Started'
  BY <1>18 DEF BackupWaited
<1>19. ASSUME BackupTrigger PROVE Started'
  BY <1>19 DEF BackupTrigger
<1>20. ASSUME BackupPoll PROVE Started'
  BY <1>20 DEF BackupPoll
<1>21. ASSUME BackupRauthy PROVE Started'
  BY <1>21 DEF BackupRauthy
<1>22. ASSUME BackupDeliver PROVE Started'
  BY <1>22 DEF BackupDeliver
<1>23. ASSUME BackupEnd PROVE Started'
  BY <1>23 DEF BackupEnd
<1>24. ASSUME NEW a \in Archive, RestoreStart(a) PROVE Started'
  BY <1>24 DEF RestoreStart
<1>25. ASSUME NEW f \in KeyFile, RestoreKey(f) PROVE Started'
  BY <1>25 DEF RestoreKey
<1>26. ASSUME RestoreReset PROVE Started'
  BY <1>26 DEF RestoreReset
<1>27. ASSUME RestorePlace PROVE Started'
  BY <1>27 DEF RestorePlace
<1>28. ASSUME RestoreClear PROVE Started'
  BY <1>28 DEF RestoreClear
<1>29. ASSUME RestoreRauthy PROVE Started'
  BY <1>29 DEF RestoreRauthy
<1>30. ASSUME RestoreMark PROVE Started'
  <2>1. cell.pc = "down" /\ cell' = cell /\ rauthy' = rauthy
    BY <1>30 DEF RestoreMark
  <2>2. marker'.applied = FALSE
    BY <1>30 DEF RestoreMark, Marker
  <2> QED
    BY <2>1, <2>2
<1>31. ASSUME RestoreEnd PROVE Started'
  BY <1>31 DEF RestoreEnd
<1>32. ASSUME RestoreCrash PROVE Started'
  <2>1. cell.pc = "down" /\ cell' = cell /\ rauthy' = rauthy
    BY <1>32 DEF RestoreCrash
  <2>2. marker' \in {marker, Unreadable} /\ Unreadable \notin MarkerRec
    BY <1>32 DEF RestoreCrash, MarkerRec
  <2> QED
    BY <2>1, <2>2
<1>33. ASSUME ClearLock PROVE Started'
  BY <1>33 DEF ClearLock
<1>34. ASSUME NEW b \in Binary, CellPrepare(b) PROVE Started'
  BY <1>34 DEF CellPrepare
<1>35. ASSUME CellHealthy PROVE Started'
  <2>1. cell.pc = "ready" /\ marker # Unreadable /\ cell.source = IF Owing THEN marker ELSE None
    BY <1>35 DEF CellHealthy
  <2>2. CASE cell.source = None
    <3>1. ~Owing /\ marker' = marker
      BY <1>35, <2>1, <2>2 DEF CellHealthy
    <3> QED
      BY <1>35, <2>1, <2>2, <3>1 DEF CellHealthy
  <2>3. CASE cell.source # None
    <3>1. Owing /\ marker = cell.source /\ marker \in MarkerRec /\ rauthy.src = marker.archive
      BY <2>1, <2>3
    <3>2. marker' = Certified(marker) /\ cell'.pc = "open"
      BY <1>35, <2>3, <3>1 DEF CellHealthy
    <3>3. /\ Certified(marker).archive = marker.archive /\ Certified(marker).applied = TRUE
          /\ Certified(marker) \in MarkerRec
      BY <3>1 DEF Certified, MarkerRec
    <3> QED
      BY <1>35, <3>1, <3>2, <3>3 DEF CellHealthy
  <2> QED
    BY <2>2, <2>3
<1>36. ASSUME CellOpen PROVE Started'
  <2>1. /\ cell'.pc \in {"check", "stop"} /\ UNCHANGED <<marker, rauthy>> /\ ~Owing
        /\ cell'.pc = "check" => db'.floor >= Owed
    BY <1>36, OpenKeeps DEF CellOpen
  <2> QED
    BY <2>1
<1>37. ASSUME CellCheck PROVE Started'
  BY <1>37 DEF CellCheck
<1>38. ASSUME CellBoot PROVE Started'
  <2>1. /\ db'.floor = db.floor /\ UNCHANGED <<marker, rauthy, keys>>
        /\ cell'.pc \in {"serving", "stop"}
    BY <1>38, OpenKeeps DEF CellBoot
  <2>2. cell'.pc = "serving" => db'.key = keys["ledger"] /\ db'.first # None
    <3>1. SUFFICES ASSUME cell'.pc = "serving"
                   PROVE  db'.key = keys["ledger"] /\ db'.first # None
      OBVIOUS
    <3>2. ChainVerifies(db) /\ db' = WithGenesis(db, cell.bin)
      BY <1>38, <3>1 DEF CellBoot
    <3>3. StoreKept(db) /\ cell.bin \in Binary
      BY <1>38, OpenedIs DEF CellBoot
    <3> QED
      BY <3>2, <3>3, GenesisKeeps DEF ChainVerifies
  <2> QED
    BY <1>38, <2>1, <2>2 DEF CellBoot
<1>39. ASSUME CellWrite PROVE Started'
  BY <1>39 DEF CellWrite
<1>40. ASSUME RauthyWrite PROVE Started'
  BY <1>40 DEF RauthyWrite
<1>41. ASSUME CellStop PROVE Started'
  BY <1>41 DEF CellStop
<1>42. ASSUME CellCrash PROVE Started'
  BY <1>42 DEF CellCrash
<1>43. CASE UNCHANGED recoveryVars
  BY <1>43 DEF recoveryVars
<1> QED
  BY <1>1, <1>2, <1>3, <1>4, <1>5, <1>6, <1>7, <1>8, <1>9, <1>10, <1>11, <1>12, <1>13, <1>14,
     <1>15, <1>16, <1>17, <1>18, <1>19, <1>20, <1>21, <1>22, <1>23, <1>24, <1>25, <1>26, <1>27,
     <1>28, <1>29, <1>30, <1>31, <1>32, <1>33, <1>34, <1>35, <1>36, <1>37, <1>38, <1>39, <1>40,
     <1>41, <1>42, <1>43 DEF RecoveryNext, DeployNext

-----------------------------------------------------------------------------
(* Backups.                                                                *)

(* The mark on a row takes the place of no row that has a checksum.        *)
LEMMA MarksKeepChecksummed ==
    ASSUME NEW s, NEW d, Left(s, d), NEW b, NEW r \in d.rows, r.sum # NoSum
    PROVE  r \in Backfilled(d.rows, b)
<1>1. \A q \in d.rows : r.set = q.set /\ r.v = q.v => r = q
  BY LeftRows
<1>2. ASSUME NEW m \in Marks(d.rows, b), r.set = "app", r.v = m.v PROVE FALSE
  <2>1. PICK k \in Sets[b]["app"] :
            m = RowOf("app", k) /\ \E q \in d.rows : q.set = "app" /\ q.v = k.v /\ q.sum = NoSum
    BY <1>2 DEF Marks
  <2>2. m.v = k.v
    BY <2>1 DEF RowOf
  <2> QED
    BY <1>1, <1>2, <2>1, <2>2
<1> QED
  BY <1>2 DEF Backfilled

(* The file a backup takes is one that came since it asked.                *)
LEMMA SinceIs ==
    ASSUME Staged, Shaped, SnapshotSince # {}
    PROVE  \E f \in hiq.files : /\ f.at \notin backup.existing
                                /\ f.snap = (CHOOSE g \in SnapshotSince :
                                     \A h \in SnapshotSince : h.at <= g.at).snap
<1> DEFINE F == SnapshotSince
           T == {f.at : f \in F}
<1>1. \A f \in F : f \in hiq.files /\ f.at \in 0 .. scene.until /\ f.at \notin backup.existing
  BY DEF SnapshotSince, Shaped
<1>2. scene.until \in Nat
  BY SceneIs
<1>3. T \in SUBSET Nat /\ T # {} /\ \A t \in T : t <= scene.until
  BY <1>1, <1>2
<1>4. Max(T) \in T /\ \A t \in T : t <= Max(T)
  <2> HIDE DEF T
  <2> QED
    BY <1>2, <1>3, FS_BoundedSetOfNaturals, MaxIsGreatest
<1>5. \E g \in F : \A h \in F : h.at <= g.at
  BY <1>4
<1> QED
  BY <1>1, <1>5

(* The live store has lost nothing a snapshot of it could hold.            *)
Grown ==
    /\ db.data \in Nat /\ db'.data \in Nat /\ db'.data >= db.data
    /\ Checksummed(db) \subseteq db'.rows

(* A step that neither snapshots nor backs up leaves a backup sound.       *)
LEMMA BackedBeside ==
    ASSUME Backed, Grown, hiq'.files = hiq.files, backup' = backup
    PROVE  Backed'
<1>1. \A snap : Checksummed(snap) \subseteq db.rows => Checksummed(snap) \subseteq db'.rows
  BY DEF Checksummed, Grown
<1> QED
  BY <1>1 DEF Backed, Holds, Grown

(* A store kept has lost nothing.                                          *)
LEMMA KeptIsGrown ==
    ASSUME Stores, Staged, StoreKept(db')
    PROVE  Grown
<1>1. scene.until \in Nat /\ scene.writes \in Nat /\ db.data \in Nat
  BY SceneIs DEF Stores, Left, StoreOK
<1> QED
  BY <1>1 DEF StoreKept, Grown, Checksummed

(* What a backup has in hand stays what it asked for.                      *)
LEMMA BackedNext ==
    ASSUME Staged, Shaped, Stores, Holders, Restored, Backed, [RecoveryNext]_recoveryVars
    PROVE  Backed'
<1> USE DEF Shaped, Holders, Backed, Holds, DeployBeside, DeployAt, Running, CanOpen, NodeUp,
        Busy, deployed, world, BackupAt, RestoreAt, CellAt, NoRestore, RestorePc, BackupPc,
        NoBackup, Fresh
<1> DOMAIN db = DOMAIN EMPTY /\ db.data \in Nat
  BY SceneIs DEF Stores, Left, StoreOK
<1> USE StepAssumption, NoneAssumption
<1>1. ASSUME NEW d \in Step, DeployOpen(d), DeployBeside PROVE Backed'
  <2>1. Grown
    BY <1>1, OpenKeeps, KeptIsGrown
  <2>2. hiq'.files = hiq.files /\ backup' = backup
    BY <1>1, FilesStay DEF DeployOpen
  <2> QED
    BY <2>1, <2>2, BackedBeside
<1>2. ASSUME NEW d \in Step, DeployPlan(d), DeployBeside PROVE Backed'
  <2>1. db'.data = db.data /\ db'.rows \in {db.rows, Backfilled(db.rows, scene.bin[d])}
    BY <1>2 DEF DeployPlan, EMPTY
  <2>2. Checksummed(db) \subseteq db'.rows
    BY <2>1, MarksKeepChecksummed DEF Checksummed, Stores
  <2>3. backup' = backup /\ hiq'.files = hiq.files
    BY <1>2, FilesStay DEF DeployPlan
  <2> QED
    BY <2>1, <2>2, <2>3, BackedBeside DEF Grown
<1>3. ASSUME NEW d \in Step, DeployApply(d), DeployBeside PROVE Backed'
  <2>1. db'.data = db.data /\ db.rows \subseteq db'.rows
    BY <1>3 DEF DeployApply, EMPTY
  <2>2. backup' = backup /\ hiq'.files = hiq.files
    BY <1>3, FilesStay DEF DeployApply
  <2> QED
    BY <2>1, <2>2, BackedBeside DEF Grown, Checksummed
<1>4. ASSUME NEW d \in Step, DeployReread(d), DeployBeside PROVE Backed'
  <2>1. db' = db /\ backup' = backup /\ hiq'.files = hiq.files
    BY <1>4, FilesStay DEF DeployReread
  <2> QED
    BY <2>1, BackedBeside DEF Grown, Checksummed
<1>5. ASSUME NEW d \in Step, DeployAppend(d), DeployBeside PROVE Backed'
  <2>1. db'.data = db.data /\ db.rows \subseteq db'.rows
    BY <1>5 DEF DeployAppend, EMPTY
  <2>2. backup' = backup /\ hiq'.files = hiq.files
    BY <1>5, FilesStay DEF DeployAppend
  <2> QED
    BY <2>1, <2>2, BackedBeside DEF Grown, Checksummed
<1>6. ASSUME NEW d \in Step, DeployJudge(d), DeployBeside PROVE Backed'
  <2>1. db' = db /\ backup' = backup /\ hiq'.files = hiq.files
    BY <1>6, FilesStay DEF DeployJudge
  <2> QED
    BY <2>1, BackedBeside DEF Grown, Checksummed
<1>7. ASSUME NEW d \in Step, DeployRecord(d), DeployBeside PROVE Backed'
  <2>1. db'.data = db.data /\ db.rows \subseteq db'.rows
    BY <1>7 DEF DeployRecord, EMPTY
  <2>2. backup' = backup /\ hiq'.files = hiq.files
    BY <1>7, FilesStay DEF DeployRecord
  <2> QED
    BY <2>1, <2>2, BackedBeside DEF Grown, Checksummed
<1>8. ASSUME NEW d \in Step, DeployEnd(d), DeployBeside PROVE Backed'
  <2>1. db' = db /\ backup' = backup /\ hiq'.files = hiq.files
    BY <1>8, FilesStay DEF DeployEnd
  <2> QED
    BY <2>1, BackedBeside DEF Grown, Checksummed
<1>9. ASSUME NEW d \in Step, DeployAgain(d), DeployBeside PROVE Backed'
  <2>1. db' = db /\ backup' = backup /\ hiq'.files = hiq.files
    BY <1>9, FilesStay DEF DeployAgain
  <2> QED
    BY <2>1, BackedBeside DEF Grown, Checksummed
<1>10. ASSUME NEW d \in Step, DeployCrash(d), DeployBeside PROVE Backed'
  <2>1. db' = db /\ backup' = backup /\ hiq'.files = hiq.files
    BY <1>10, FilesStay DEF DeployCrash
  <2> QED
    BY <2>1, BackedBeside DEF Grown, Checksummed
<1>11. ASSUME NEW d \in Step, DeployLost(d), DeployBeside PROVE Backed'
  <2>1. db' = db /\ backup' = backup /\ hiq'.files = hiq.files
    BY <1>11, FilesStay DEF DeployLost
  <2> QED
    BY <2>1, BackedBeside DEF Grown, Checksummed
<1>12. ASSUME OutsideRequest PROVE Backed'
  <2>1. db' = db /\ backup' = backup /\ hiq'.files = hiq.files
    BY <1>12 DEF OutsideRequest, AfterRequest, Accepts
  <2> QED
    BY <2>1, BackedBeside DEF Grown, Checksummed
<1>13. ASSUME Tick PROVE Backed'
  BY <1>13 DEF Tick
<1>14. ASSUME ClockBack PROVE Backed'
  BY <1>14 DEF ClockBack
<1>15. ASSUME NEW t \in 0 .. scene.until, Vacuum(t) PROVE Backed'
  <2>1. db' = db /\ backup' = backup
    BY <1>15 DEF Vacuum
  <2>2. hiq'.files \subseteq hiq.files \cup {[at |-> t, snap |-> db]}
    BY <1>15 DEF Vacuum
  <2>3. backup.pc \in {"wait", "trigger", "poll"} => Holds([at |-> t, snap |-> db].snap)
    BY DEF Checksummed
  <2> QED
    BY <2>1, <2>2, <2>3
<1>16. ASSUME BackupOpen PROVE Backed'
  BY <1>16 DEF BackupOpen
<1>17. ASSUME BackupList PROVE Backed'
  <2>1. /\ db' = db /\ hiq' = hiq /\ backup.pc = "list" /\ backup'.pc = "wait"
        /\ backup'.asked = db.data /\ backup'.existing = {g.at : g \in hiq.files}
        /\ backup'.snap = backup.snap
    BY <1>17 DEF BackupList
  <2> QED
    BY <2>1
<1>18. ASSUME BackupWaited PROVE Backed'
  BY <1>18 DEF BackupWaited
<1>19. ASSUME BackupTrigger PROVE Backed'
  <2>1. db' = db /\ hiq'.files = hiq.files
    BY <1>19 DEF BackupTrigger, AfterRequest, Accepts
  <2>2. /\ backup.pc = "trigger" /\ backup'.pc = "poll" /\ backup'.asked = backup.asked
        /\ backup'.existing = backup.existing /\ backup'.snap = backup.snap
    BY <1>19 DEF BackupTrigger
  <2> QED
    BY <2>1, <2>2
<1>20. ASSUME BackupPoll PROVE Backed'
  <2>1. db' = db /\ hiq' = hiq /\ backup.pc = "poll" /\ backup'.asked = backup.asked
    BY <1>20 DEF BackupPoll
  <2>2. CASE SnapshotSince = {}
    BY <1>20, <2>1, <2>2 DEF BackupPoll
  <2>3. CASE SnapshotSince # {}
    <3> DEFINE file == CHOOSE g \in SnapshotSince : \A h \in SnapshotSince : h.at <= g.at
    <3>1. backup'.pc = "rauthy" /\ backup'.snap = file.snap
      BY <1>20, <2>3 DEF BackupPoll
    <3>2. \E g \in hiq.files : g.at \notin backup.existing /\ g.snap = file.snap
      BY <2>3, SinceIs
    <3> HIDE DEF file
    <3>3. Holds(backup'.snap)
      BY <2>1, <3>1, <3>2
    <3> QED
      BY <2>1, <3>1, <3>3
  <2> QED
    BY <2>2, <2>3
<1>21. ASSUME BackupRauthy PROVE Backed'
  BY <1>21 DEF BackupRauthy
<1>22. ASSUME BackupDeliver PROVE Backed'
  BY <1>22 DEF BackupDeliver
<1>23. ASSUME BackupEnd PROVE Backed'
  BY <1>23 DEF BackupEnd
<1>24. ASSUME NEW a \in Archive, RestoreStart(a) PROVE Backed'
  BY <1>24 DEF RestoreStart
<1>25. ASSUME NEW f \in KeyFile, RestoreKey(f) PROVE Backed'
  BY <1>25 DEF RestoreKey
<1>26. ASSUME RestoreReset PROVE Backed'
  BY <1>26 DEF RestoreReset
<1>27. ASSUME RestorePlace PROVE Backed'
  BY <1>27 DEF RestorePlace
<1>28. ASSUME RestoreClear PROVE Backed'
  BY <1>28 DEF RestoreClear
<1>29. ASSUME RestoreRauthy PROVE Backed'
  BY <1>29 DEF RestoreRauthy
<1>30. ASSUME RestoreMark PROVE Backed'
  BY <1>30 DEF RestoreMark
<1>31. ASSUME RestoreEnd PROVE Backed'
  BY <1>31 DEF RestoreEnd
<1>32. ASSUME RestoreCrash PROVE Backed'
  BY <1>32 DEF RestoreCrash
<1>33. ASSUME ClearLock PROVE Backed'
  BY <1>33 DEF ClearLock
<1>34. ASSUME NEW b \in Binary, CellPrepare(b) PROVE Backed'
  BY <1>34 DEF CellPrepare
<1>35. ASSUME CellHealthy PROVE Backed'
  BY <1>35 DEF CellHealthy
<1>36. ASSUME CellOpen PROVE Backed'
  <2>1. Grown
    BY <1>36, OpenKeeps, KeptIsGrown
  <2>2. hiq'.files = hiq.files /\ backup' = backup
    BY <1>36, FilesStay DEF CellOpen
  <2> QED
    BY <2>1, <2>2, BackedBeside
<1>37. ASSUME CellCheck PROVE Backed'
  BY <1>37 DEF CellCheck
<1>38. ASSUME CellBoot PROVE Backed'
  <2>1. Grown
    BY <1>38, OpenKeeps, KeptIsGrown
  <2>2. hiq'.files = hiq.files /\ backup' = backup
    BY <1>38, FilesStay DEF CellBoot
  <2> QED
    BY <2>1, <2>2, BackedBeside
<1>39. ASSUME CellWrite PROVE Backed'
  <2>1. Grown
    BY <1>39, OpenKeeps, KeptIsGrown
  <2>2. hiq'.files = hiq.files /\ backup' = backup
    BY <1>39, FilesStay DEF CellWrite
  <2> QED
    BY <2>1, <2>2, BackedBeside
<1>40. ASSUME RauthyWrite PROVE Backed'
  BY <1>40 DEF RauthyWrite
<1>41. ASSUME CellStop PROVE Backed'
  <2>1. db' = db /\ backup' = backup /\ hiq'.files = hiq.files
    BY <1>41, FilesStay DEF CellStop
  <2> QED
    BY <2>1, BackedBeside DEF Grown, Checksummed
<1>42. ASSUME CellCrash PROVE Backed'
  <2>1. db' = db /\ backup' = backup /\ hiq'.files = hiq.files
    BY <1>42, FilesStay DEF CellCrash
  <2> QED
    BY <2>1, BackedBeside DEF Grown, Checksummed
<1>43. CASE UNCHANGED recoveryVars
  BY <1>43 DEF recoveryVars
<1> QED
  BY <1>1, <1>2, <1>3, <1>4, <1>5, <1>6, <1>7, <1>8, <1>9, <1>10, <1>11, <1>12, <1>13, <1>14,
     <1>15, <1>16, <1>17, <1>18, <1>19, <1>20, <1>21, <1>22, <1>23, <1>24, <1>25, <1>26, <1>27,
     <1>28, <1>29, <1>30, <1>31, <1>32, <1>33, <1>34, <1>35, <1>36, <1>37, <1>38, <1>39, <1>40,
     <1>41, <1>42, <1>43 DEF RecoveryNext, DeployNext

-----------------------------------------------------------------------------
(* Plans.                                                                  *)

(* A record of a build's migration has a version.                          *)
LEMMA BuildRowIs ==
    ASSUME NEW b \in Binary, NEW r \in BuildRows(b)
    PROVE  r.v \in Nat
<1>1. PICK s \in Carried(b) : \E m \in Sets[b][s] : r = RowOf(s, m)
  BY DEF BuildRows
<1>2. PICK m \in Sets[b][s] : r = RowOf(s, m)
  BY <1>1
<1>3. m.v \in Nat
  BY CarriedIs
<1> QED
  BY <1>2, <1>3 DEF RowOf

(* What comes before a step of a plan is a history.                        *)
LEMMA PrefixIs ==
    ASSUME NEW b \in Binary, NEW p \in Seq(BuildRows(b)), NEW i \in 1 .. Len(p), NEW hist,
           Rows(hist)
    PROVE  Rows(hist \cup {p[j] : j \in 1 .. i - 1})
<1> DEFINE before == {p[j] : j \in 1 .. i - 1}
<1>1. IsFiniteSet(1 .. i - 1)
  BY FS_Interval
<1>2. IsFiniteSet(before)
  BY <1>1, FiniteImage
<1>3. \A j \in 1 .. i - 1 : p[j] \in BuildRows(b)
  OBVIOUS
<1>4. \A r \in before : r.v \in Nat
  BY <1>3, BuildRowIs
<1>5. IsFiniteSet(hist) /\ \A r \in hist : r.v \in Nat
  BY DEF Rows
<1> HIDE DEF before
<1>6. IsFiniteSet(hist \cup before)
  BY <1>2, <1>5, FS_Union
<1>7. Rows(hist \cup before)
  BY <1>4, <1>5, <1>6 DEF Rows
<1> QED
  BY <1>7 DEF before

(* A plan stays in order over a longer history.                            *)
LEMMA InOrderGrows ==
    ASSUME NEW b \in Binary, NEW p \in Seq(BuildRows(b)), NEW hist, Rows(hist), NEW more,
           Rows(more), Covers(more, hist), InOrder(p, b, hist)
    PROVE  InOrder(p, b, more)
<1>1. ASSUME NEW i \in 1 .. Len(p)
      PROVE  \E s \in Carried(b) : \E m \in Sets[b][s] :
                 /\ p[i] = RowOf(s, m)
                 /\ \A q \in RequirementsOf(b, s, m) :
                       Top(more \cup {p[j] : j \in 1 .. i - 1}, q.set) >= q.min
  <2> DEFINE before == {p[j] : j \in 1 .. i - 1}
  <2>1. PICK s \in Carried(b) : \E m \in Sets[b][s] :
            /\ p[i] = RowOf(s, m)
            /\ \A q \in RequirementsOf(b, s, m) : Top(hist \cup before, q.set) >= q.min
    BY DEF InOrder
  <2>2. PICK m \in Sets[b][s] :
            /\ p[i] = RowOf(s, m)
            /\ \A q \in RequirementsOf(b, s, m) : Top(hist \cup before, q.set) >= q.min
    BY <2>1
  <2>3. Rows(hist \cup before) /\ Rows(more \cup before)
    BY PrefixIs
  <2> HIDE DEF before
  <2>4. Covers(more \cup before, hist \cup before)
    BY DEF Covers
  <2>5. \A q \in RequirementsOf(b, s, m) : q.min \in Nat
    BY CarriedIs
  <2>6. \A q \in RequirementsOf(b, s, m) : Top(more \cup before, q.set) >= q.min
    BY <2>2, <2>3, <2>4, <2>5, TopGrows
  <2> QED
    BY <2>2, <2>6 DEF before
<1> QED
  BY <1>1 DEF InOrder

(* What is left of a plan is in order once its first step is taken.        *)
LEMMA InOrderTail ==
    ASSUME NEW b \in Binary, NEW p \in Seq(BuildRows(b)), p # << >>, NEW hist,
           InOrder(p, b, hist)
    PROVE  /\ Tail(p) \in Seq(BuildRows(b)) /\ Head(p) \in BuildRows(b)
           /\ InOrder(Tail(p), b, hist \cup {Head(p)})
           /\ \E s \in Carried(b) : \E m \in Sets[b][s] :
                 /\ Head(p) = RowOf(s, m)
                 /\ \A q \in RequirementsOf(b, s, m) : Top(hist, q.set) >= q.min
<1> DEFINE rest == Tail(p)
<1>1. /\ rest \in Seq(BuildRows(b)) /\ Head(p) = p[1] /\ p[1] \in BuildRows(b)
      /\ Len(p) \in Nat /\ Len(p) >= 1 /\ Len(rest) = Len(p) - 1
      /\ \A i \in 1 .. Len(rest) : rest[i] = p[i + 1]
  OBVIOUS
<1>2. \A i \in 1 .. Len(p) : \E s \in Carried(b) : \E m \in Sets[b][s] :
          /\ p[i] = RowOf(s, m)
          /\ \A q \in RequirementsOf(b, s, m) :
                Top(hist \cup {p[j] : j \in 1 .. i - 1}, q.set) >= q.min
  BY DEF InOrder
<1>3. \E s \in Carried(b) : \E m \in Sets[b][s] :
          /\ Head(p) = RowOf(s, m)
          /\ \A q \in RequirementsOf(b, s, m) : Top(hist, q.set) >= q.min
  <2>1. hist \cup {p[j] : j \in 1 .. 1 - 1} = hist
    OBVIOUS
  <2>2. \E s \in Carried(b) : \E m \in Sets[b][s] :
            /\ p[1] = RowOf(s, m)
            /\ \A q \in RequirementsOf(b, s, m) :
                  Top(hist \cup {p[j] : j \in 1 .. 1 - 1}, q.set) >= q.min
    <3>1. 1 \in 1 .. Len(p)
      BY <1>1
    <3> QED
      BY <1>2, <3>1
  <2> QED
    BY <1>1, <2>1, <2>2
<1> HIDE DEF rest
<1>4. ASSUME NEW i \in 1 .. Len(rest)
      PROVE  \E s \in Carried(b) : \E m \in Sets[b][s] :
                 /\ rest[i] = RowOf(s, m)
                 /\ \A q \in RequirementsOf(b, s, m) :
                       Top((hist \cup {p[1]}) \cup {rest[j] : j \in 1 .. i - 1}, q.set) >= q.min
  <2>1. i + 1 \in 1 .. Len(p) /\ rest[i] = p[i + 1]
    BY <1>1
  <2>2. {p[j] : j \in 1 .. (i + 1) - 1} = {p[1]} \cup {rest[j] : j \in 1 .. i - 1}
    <3>1. \A j \in 1 .. (i + 1) - 1 : j = 1 \/ (j - 1 \in 1 .. i - 1 /\ p[j] = rest[j - 1])
      BY <1>1
    <3>2. \A j \in 1 .. i - 1 : j + 1 \in 1 .. (i + 1) - 1 /\ rest[j] = p[j + 1]
      BY <1>1
    <3>3. 1 \in 1 .. (i + 1) - 1
      BY <1>1
    <3>4. {p[j] : j \in 1 .. (i + 1) - 1} \subseteq {p[1]} \cup {rest[j] : j \in 1 .. i - 1}
      <4>1. ASSUME NEW j \in 1 .. (i + 1) - 1
            PROVE  p[j] \in {p[1]} \cup {rest[k] : k \in 1 .. i - 1}
        <5>1. j = 1 \/ (j - 1 \in 1 .. i - 1 /\ p[j] = rest[j - 1])
          BY <3>1
        <5> QED
          BY <5>1
      <4> QED
        BY <4>1
    <3>5. {rest[j] : j \in 1 .. i - 1} \subseteq {p[j] : j \in 1 .. (i + 1) - 1}
      BY <3>2
    <3>6. p[1] \in {p[j] : j \in 1 .. (i + 1) - 1}
      BY <3>3
    <3> QED
      BY <3>4, <3>5, <3>6
  <2>3. hist \cup {p[j] : j \in 1 .. (i + 1) - 1}
            = (hist \cup {p[1]}) \cup {rest[j] : j \in 1 .. i - 1}
    BY <2>2
  <2> QED
    BY <1>2, <2>1, <2>3
<1>5. InOrder(rest, b, hist \cup {p[1]})
  BY <1>4 DEF InOrder
<1> QED
  BY <1>1, <1>3, <1>5 DEF rest

-----------------------------------------------------------------------------
(* What each step does to the store.                                       *)

(* The steps of RecoveryNext that no deploy step takes.                    *)
LEMMA OtherSteps ==
    ASSUME [RecoveryNext]_recoveryVars, ~DeployBeside
    PROVE  /\ deploy' = deploy
           /\ \/ db' = db \/ BackupOpen \/ CellOpen \/ CellBoot \/ CellWrite
              \/ RestoreReset \/ RestorePlace
<1> USE DEF deployed, world
<1>1. CASE \/ OutsideRequest \/ Tick \/ ClockBack \/ \E t \in 0..scene.until : Vacuum(t)
           \/ UNCHANGED recoveryVars
  BY <1>1 DEF OutsideRequest, Tick, ClockBack, Vacuum, recoveryVars
<1>2. CASE \/ BackupOpen \/ BackupList \/ BackupWaited \/ BackupTrigger \/ BackupPoll
           \/ BackupRauthy \/ BackupDeliver \/ BackupEnd
  BY <1>2 DEF BackupOpen, BackupList, BackupWaited, BackupTrigger, BackupPoll, BackupRauthy,
              BackupDeliver, BackupEnd
<1>3. CASE \/ \E a \in Archive : RestoreStart(a)
           \/ \E f \in KeyFile : RestoreKey(f)
           \/ RestoreReset \/ RestorePlace \/ RestoreClear \/ RestoreRauthy
           \/ RestoreMark \/ RestoreEnd \/ RestoreCrash \/ ClearLock
  BY <1>3 DEF RestoreStart, RestoreKey, RestoreReset, RestorePlace, RestoreClear, RestoreRauthy,
              RestoreMark, RestoreEnd, RestoreCrash, ClearLock
<1>4. CASE \/ \E b \in Binary : CellPrepare(b)
           \/ CellHealthy \/ CellOpen \/ CellCheck \/ CellBoot \/ CellWrite \/ RauthyWrite
           \/ CellStop \/ CellCrash
  BY <1>4 DEF CellPrepare, CellHealthy, CellOpen, CellCheck, CellBoot, CellWrite, RauthyWrite,
              CellStop, CellCrash
<1> QED
  BY <1>1, <1>2, <1>3, <1>4 DEF RecoveryNext

(* A step of one deploy step leaves the others as they are.                *)
LEMMA OneDeploy ==
    ASSUME Shaped, DeployBeside
    PROVE  \E d \in Step :
              /\ \/ DeployOpen(d) \/ DeployPlan(d) \/ DeployApply(d) \/ DeployReread(d)
                 \/ DeployAppend(d) \/ DeployJudge(d) \/ DeployRecord(d) \/ DeployEnd(d)
                 \/ DeployAgain(d) \/ DeployCrash(d) \/ DeployLost(d)
              /\ \A e \in Step \ {d} : deploy'[e] = deploy[e]
              /\ DOMAIN deploy' = Step
<1> USE DEF Shaped, DeployAt
<1>1. PICK d \in Step :
              \/ DeployOpen(d) \/ DeployPlan(d) \/ DeployApply(d) \/ DeployReread(d)
              \/ DeployAppend(d) \/ DeployJudge(d) \/ DeployRecord(d) \/ DeployEnd(d)
              \/ DeployAgain(d) \/ DeployCrash(d) \/ DeployLost(d)
  BY DEF DeployBeside, DeployNext
<1> DEFINE others == (\A e \in Step \ {d} : deploy'[e] = deploy[e]) /\ DOMAIN deploy' = Step
<1>2. CASE DeployOpen(d) \/ DeployApply(d)
  BY <1>2 DEF DeployOpen, DeployApply
<1>3. ASSUME DeployPlan(d) PROVE others
  BY <1>3 DEF DeployPlan
<1>5. ASSUME DeployReread(d) PROVE others
  BY <1>5 DEF DeployReread
<1>6. ASSUME DeployAppend(d) PROVE others
  BY <1>6 DEF DeployAppend
<1>7. ASSUME DeployJudge(d) PROVE others
  BY <1>7 DEF DeployJudge
<1>8. ASSUME DeployRecord(d) PROVE others
  BY <1>8 DEF DeployRecord
<1>4. CASE DeployEnd(d) \/ DeployAgain(d) \/ DeployCrash(d) \/ DeployLost(d)
  BY <1>4 DEF DeployEnd, DeployAgain, DeployCrash, DeployLost
<1> QED
  BY <1>1, <1>2, <1>3, <1>4, <1>5, <1>6, <1>7, <1>8

(* And what a deploy step does to the store.                               *)
LEMMA DeploySteps ==
    ASSUME Shaped, DOMAIN db = DOMAIN EMPTY, NEW d \in Step,
           \/ DeployOpen(d) \/ DeployPlan(d) \/ DeployApply(d) \/ DeployReread(d)
           \/ DeployAppend(d) \/ DeployJudge(d) \/ DeployRecord(d) \/ DeployEnd(d)
           \/ DeployAgain(d) \/ DeployCrash(d) \/ DeployLost(d)
    PROVE  \/ db' = db \/ db' = [db EXCEPT !.rows = db.rows]
           \/ DeployOpen(d)
           \/ DeployPlan(d) /\ db' = [db EXCEPT !.rows = Backfilled(db.rows, scene.bin[d])]
           \/ /\ deploy[d].pc = "apply" /\ deploy[d].plan # << >>
              /\ ~Registered(Head(deploy[d].plan))
              /\ db' = [db EXCEPT !.rows = @ \cup {Head(deploy[d].plan)}]
              /\ deploy'[d].pc = "apply" /\ deploy'[d].plan = Tail(deploy[d].plan)
           \/ /\ db' = [db EXCEPT !.chain = Append(@, TransitionOf(d))]
              /\ deploy[d].pc = "append" /\ deploy'[d].pc = "epoch"
           \/ /\ db' = [db EXCEPT !.chain = Append(@, deploy[d].epoch)]
              /\ deploy[d].pc = "record" /\ NamedBy(deploy[d].epoch) = {}
              /\ deploy'[d].pc = "done"
<1> USE DEF Shaped, DeployAt, Idle
<1>2. CASE DeployPlan(d)
  BY <1>2 DEF DeployPlan
<1>3. CASE DeployApply(d)
  BY <1>3 DEF DeployApply
<1>4. CASE DeployAppend(d)
  BY <1>4 DEF DeployAppend
<1>5. CASE DeployRecord(d)
  BY <1>5 DEF DeployRecord
<1>6. CASE DeployReread(d) \/ DeployJudge(d)
  BY <1>6 DEF DeployReread, DeployJudge
<1>7. CASE DeployEnd(d) \/ DeployAgain(d) \/ DeployCrash(d) \/ DeployLost(d)
  BY <1>7 DEF DeployEnd, DeployAgain, DeployCrash, DeployLost
<1> QED
  BY <1>2, <1>3, <1>4, <1>5, <1>6, <1>7

(* A store that holds nothing yet.                                         *)
LEMMA LeftEmpty ==
    ASSUME NEW s, s.until \in Nat, s.writes \in Nat, s.bins \subseteq Binary
    PROVE  Left(s, EMPTY)
<1>1. StoreOK(s, EMPTY)
  BY FS_EmptySet DEF StoreOK, EMPTY
<1>2. EMPTY.chain \in Seq({EMPTY.chain[i] : i \in DOMAIN EMPTY.chain})
  BY DEF EMPTY
<1>3. Places(EMPTY.chain, "epoch") = {}
  BY DEF EMPTY, Places
<1>4. Linked(EMPTY.chain)
  BY <1>3 DEF Linked
<1> QED
  BY <1>1, <1>2, <1>4 DEF Left, Met, EMPTY

(* No step takes the store apart, and none but a restore takes a record    *)
(* out of it.                                                              *)
LEMMA StoreNext ==
    ASSUME Staged, Shaped, Stores, Restored, InPlan, Judged, [RecoveryNext]_recoveryVars
    PROVE  /\ Left(scene, db')
           /\ Covers(db'.rows, db.rows) \/ RestoreReset \/ RestorePlace
<1>1. /\ Left(scene, db) /\ DOMAIN db = DOMAIN EMPTY /\ Covers(db.rows, db.rows)
      /\ db.floor \in 0 .. scene.until + 1 /\ db.data \in 0 .. scene.writes
      /\ db.src \in Archive \cup {None}
  BY DEF Stores, Left, StoreOK, Covers
<1>2. ASSUME StoreKept(db') PROVE Left(scene, db') /\ Covers(db'.rows, db.rows)
  BY <1>1, <1>2, KeptIsLeft DEF StoreKept
<1>3. CASE DeployBeside
  <2>1. PICK d \in Step :
              \/ DeployOpen(d) \/ DeployPlan(d) \/ DeployApply(d) \/ DeployReread(d)
              \/ DeployAppend(d) \/ DeployJudge(d) \/ DeployRecord(d) \/ DeployEnd(d)
              \/ DeployAgain(d) \/ DeployCrash(d) \/ DeployLost(d)
    BY <1>3, OneDeploy
  <2> DEFINE b == scene.bin[d]
  <2>2. /\ b \in Binary /\ scene.bins \subseteq Binary
        /\ d \in scene.deploys => \A c \in scene.bins : Agree(c, b)
    BY SceneIs
  <2>3. CASE db' = db \/ db' = [db EXCEPT !.rows = db.rows]
    <3>1. DOMAIN db' = DOMAIN EMPTY /\ db'.rows = db.rows /\ db'.chain = db.chain
          /\ db'.floor = db.floor /\ db'.data = db.data /\ db'.src = db.src
      BY <1>1, <2>3 DEF EMPTY
    <3> QED
      BY <1>1, <3>1, LeftAlike
  <2>4. CASE DeployOpen(d)
    BY <1>2, <2>4, OpenKeeps
  <2>5. CASE db' = [db EXCEPT !.rows = Backfilled(db.rows, b)]
    <3>1. db'.rows = Backfilled(db.rows, b)
      BY <1>1, <2>5 DEF EMPTY
    <3> QED
      BY <1>1, <2>2, <2>5, <3>1, LeftMarked
  <2>6. CASE /\ deploy[d].pc = "apply" /\ deploy[d].plan # << >>
             /\ ~Registered(Head(deploy[d].plan))
             /\ db' = [db EXCEPT !.rows = @ \cup {Head(deploy[d].plan)}]
    <3> DEFINE row == Head(deploy[d].plan)
    <3>1. deploy[d].plan \in Seq(BuildRows(b)) /\ InOrder(deploy[d].plan, b, db.rows)
      BY <2>6 DEF InPlan
    <3> HIDE DEF row, b
    <3>8. PICK t \in Carried(b) : \E m \in Sets[b][t] :
              /\ row = RowOf(t, m)
              /\ \A q \in RequirementsOf(b, t, m) : Top(db.rows, q.set) >= q.min
      BY <2>2, <2>6, <3>1, InOrderTail DEF row
    <3>2. PICK m \in Sets[b][t] :
              /\ row = RowOf(t, m)
              /\ \A q \in RequirementsOf(b, t, m) : Top(db.rows, q.set) >= q.min
      BY <3>8
    <3>3. ~ \E r \in db.rows : r.set = t /\ r.v = m.v
      BY <2>6, <3>2 DEF Registered, RowOf, row
    <3>4. \A c \in scene.bins : Agree(c, b)
      BY <2>2, <2>6 DEF Shaped
    <3>5. db' = [db EXCEPT !.rows = @ \cup {RowOf(t, m)}]
      BY <2>6, <3>2 DEF row
    <3>6. Left(scene, db')
      BY <1>1, <2>2, <3>2, <3>3, <3>4, <3>5, LeftRecord
    <3>7. db'.rows = db.rows \cup {RowOf(t, m)}
      BY <1>1, <3>5 DEF EMPTY
    <3> QED
      BY <3>6, <3>7 DEF Covers
  <2>7. CASE \E e : Linked(Append(db.chain, e)) /\ db' = [db EXCEPT !.chain = Append(@, e)]
    <3>1. PICK e : Linked(Append(db.chain, e)) /\ db' = [db EXCEPT !.chain = Append(@, e)]
      BY <2>7
    <3>2. db'.rows = db.rows
      BY <1>1, <3>1 DEF EMPTY
    <3> QED
      BY <1>1, <3>1, <3>2, LeftAppend
  <2>8. IsSequence(db.chain) /\ Linked(db.chain)
    BY <1>1, LeftRows
  <2>9. Linked(Append(db.chain, TransitionOf(d)))
    BY <2>8, LinkedBeside DEF TransitionOf
  <2>10. ASSUME deploy[d].pc = "record", NamedBy(deploy[d].epoch) = {}
         PROVE  Linked(Append(db.chain, deploy[d].epoch))
    <3>1. LET e == deploy[d].epoch
          IN /\ e.kind = "epoch" /\ e.n = CurrentEpoch(db).n + 1
             /\ e.previous = CurrentEpoch(db).hash
             /\ e.restore # None => CurrentEpoch(db).restore # e.restore
      BY <2>10 DEF Judged, JudgedAs, NamedBy
    <3> QED
      BY <2>8, <3>1, LinkedEpoch
  <2> HIDE DEF b
  <2> QED
    BY <1>1, <2>1, <2>3, <2>4, <2>5, <2>6, <2>7, <2>9, <2>10, DeploySteps DEF b
<1>4. CASE db' = db
  BY <1>1, <1>4
<1>5. CASE BackupOpen \/ CellOpen \/ CellBoot \/ CellWrite
  BY <1>2, <1>5, OpenKeeps
<1>6. CASE RestoreReset
  BY <1>6, LeftEmpty, SceneIs DEF RestoreReset
<1>7. CASE RestorePlace
  <2>1. Restoring \in archives /\ restore.of \in Archive
    BY <1>7, OfIs DEF Shaped, RestorePlace, Restoring
  <2>2. Left(scene, Restoring.snap)
    BY <2>1 DEF Stores
  <2>3. /\ DOMAIN db' = DOMAIN EMPTY /\ db'.rows = Restoring.snap.rows
        /\ db'.chain = Restoring.snap.chain /\ db'.floor = Restoring.snap.floor
        /\ db'.data = Restoring.snap.data /\ db'.src = restore.of
        /\ Restoring.snap.floor \in 0 .. scene.until + 1
        /\ Restoring.snap.data \in 0 .. scene.writes
    BY <1>7, <2>2 DEF RestorePlace, Left, StoreOK, EMPTY
  <2> QED
    BY <1>7, <2>1, <2>2, <2>3, LeftAlike
<1> QED
  BY <1>2, <1>3, <1>4, <1>5, <1>6, <1>7, OtherSteps

(* A step is under a plan for as long as it applies it, and only its own   *)
(* steps change it.                                                        *)
LEMMA InPlanNext ==
    ASSUME Staged, Shaped, Stores, Holders, Restored, InPlan, Judged,
           [RecoveryNext]_recoveryVars
    PROVE  InPlan'
<1>1. /\ scene'.bin = scene.bin /\ DOMAIN db = DOMAIN EMPTY /\ DOMAIN deploy = Step
      /\ \A d \in Step : scene.bin[d] \in Binary
      /\ Rows(db.rows) /\ \A d \in Step : {"pc", "plan"} \subseteq DOMAIN deploy[d]
  BY StagedNext, SceneIs, LeftRows DEF Stores, Left, StoreOK, Shaped, Idle
<1>2. CASE RestoreReset \/ RestorePlace
  <2>1. deploy' = deploy /\ owner = "restore"
    BY <1>2 DEF RestoreReset, RestorePlace, Holders, Busy
  <2>2. \A d \in Step : deploy[d].pc # "apply"
    BY <2>1 DEF Holders, Running
  <2> QED
    BY <1>1, <2>1, <2>2 DEF InPlan
<1>3. CASE ~(RestoreReset \/ RestorePlace)
  <2>1. Rows(db'.rows) /\ Covers(db'.rows, db.rows)
    BY <1>3, StoreNext, LeftRows
  <2>2. ASSUME NEW e \in Step, deploy'[e].pc = "apply", deploy'[e] = deploy[e]
        PROVE  /\ deploy'[e].plan \in Seq(BuildRows(scene.bin[e]))
               /\ InOrder(deploy'[e].plan, scene.bin[e], db'.rows)
    <3>1. /\ deploy[e].plan \in Seq(BuildRows(scene.bin[e]))
          /\ InOrder(deploy[e].plan, scene.bin[e], db.rows)
      BY <2>2 DEF InPlan
    <3> QED
      BY <1>1, <2>1, <2>2, <3>1, InOrderGrows
  <2>3. CASE deploy' = deploy
    BY <1>1, <2>2, <2>3 DEF InPlan
  <2>4. CASE DeployBeside
    <3>1. PICK d \in Step :
              /\ \/ DeployOpen(d) \/ DeployPlan(d) \/ DeployApply(d) \/ DeployReread(d)
                 \/ DeployAppend(d) \/ DeployJudge(d) \/ DeployRecord(d) \/ DeployEnd(d)
                 \/ DeployAgain(d) \/ DeployCrash(d) \/ DeployLost(d)
              /\ \A e \in Step \ {d} : deploy'[e] = deploy[e]
              /\ DOMAIN deploy' = Step
      BY <2>4, OneDeploy, <1>1 DEF Shaped
    <3> DEFINE b == scene.bin[d]
               Fine == /\ deploy'[d].plan \in Seq(BuildRows(b))
                       /\ InOrder(deploy'[d].plan, b, db'.rows)
    <3>2. SUFFICES ASSUME deploy'[d].pc = "apply" PROVE Fine
      BY <1>1, <2>2, <3>1 DEF InPlan
    <3>3. CASE DeployPlan(d)
      <4>1. deploy'[d].plan = Plan(db.rows, b).steps
        BY <1>1, <3>2, <3>3 DEF DeployPlan, DeployAt
      <4>2. /\ Plan(db.rows, b).steps \in Seq(BuildRows(b))
            /\ InOrder(Plan(db.rows, b).steps, b, db.rows)
        BY <1>1, PlanIsInOrder
      <4> QED
        BY <1>1, <2>1, <4>1, <4>2, InOrderGrows
    <3>4. CASE DeployApply(d)
      <4> DEFINE p == deploy[d].plan
      <4>1. /\ deploy[d].pc = "apply" /\ p # << >> /\ deploy'[d].plan = Tail(p)
            /\ db' = [db EXCEPT !.rows = @ \cup {Head(p)}]
        BY <1>1, <3>2, <3>4 DEF DeployApply, DeployAt
      <4>2. p \in Seq(BuildRows(b)) /\ InOrder(p, b, db.rows)
        BY <4>1 DEF InPlan
      <4>3. Tail(p) \in Seq(BuildRows(b)) /\ InOrder(Tail(p), b, db.rows \cup {Head(p)})
        BY <1>1, <4>1, <4>2, InOrderTail
      <4>4. db'.rows = db.rows \cup {Head(p)}
        BY <1>1, <4>1 DEF EMPTY
      <4> QED
        BY <4>1, <4>3, <4>4
    <3>5. CASE DeployOpen(d)
      BY <1>1, <3>2, <3>5 DEF DeployOpen
    <3>6. CASE DeployReread(d)
      BY <1>1, <3>2, <3>6 DEF DeployReread, DeployAt
    <3>7. CASE DeployAppend(d)
      BY <1>1, <3>2, <3>7 DEF DeployAppend, DeployAt
    <3>8. CASE DeployJudge(d)
      BY <1>1, <3>2, <3>8 DEF DeployJudge, DeployAt
    <3>9. CASE DeployRecord(d)
      BY <1>1, <3>2, <3>9 DEF DeployRecord, DeployAt
    <3>10. CASE DeployEnd(d) \/ DeployAgain(d) \/ DeployCrash(d) \/ DeployLost(d)
      BY <1>1, <3>2, <3>10 DEF DeployEnd, DeployAgain, DeployCrash, DeployLost, DeployAt, Idle
    <3> QED
      BY <3>1, <3>3, <3>4, <3>5, <3>6, <3>7, <3>8, <3>9, <3>10
  <2> QED
    BY <2>3, <2>4, OtherSteps
<1> QED
  BY <1>2, <1>3

-----------------------------------------------------------------------------
(* The epochs.                                                             *)

(* The marker changes by a restore, or by a start that certifies it.       *)
LEMMA MarkerSteps ==
    ASSUME Shaped, Holders, Started, [RecoveryNext]_recoveryVars
    PROVE  \/ marker' = marker
           \/ owner = "restore"
           \/ /\ marker \in MarkerRec /\ marker' = Certified(marker)
              /\ marker' \in MarkerRec /\ marker'.archive = marker.archive
<1> USE DEF deployed, world
<1>1. CASE CellHealthy
  <2>1. marker' = marker \/ (marker' = Certified(marker) /\ cell.source # None
                             /\ marker = cell.source /\ cell.pc = "ready")
    BY <1>1 DEF CellHealthy
  <2>2. ASSUME marker' = Certified(marker), cell.source # None, cell.pc = "ready"
        PROVE  marker \in MarkerRec
    BY <2>2, StepAssumption DEF Started, Owing, Shaped, Holders
  <2>3. ASSUME marker \in MarkerRec, marker' = Certified(marker)
        PROVE  marker' \in MarkerRec /\ marker'.archive = marker.archive
    BY <2>3 DEF MarkerRec, Certified
  <2> QED
    BY <2>1, <2>2, <2>3
<1>2. CASE RestoreMark \/ RestoreCrash
  BY <1>2 DEF RestoreMark, RestoreCrash, Holders, Busy, Shaped, RestorePc
<1>3. CASE DeployBeside
  BY <1>3 DEF DeployBeside, DeployNext, DeployOpen, DeployPlan, DeployApply, DeployReread,
              DeployAppend, DeployJudge, DeployRecord, DeployEnd, DeployAgain, DeployCrash,
              DeployLost
<1>4. CASE \/ OutsideRequest \/ Tick \/ ClockBack \/ \E t \in 0..scene.until : Vacuum(t)
           \/ UNCHANGED recoveryVars
  BY <1>4 DEF OutsideRequest, Tick, ClockBack, Vacuum, recoveryVars
<1>5. CASE \/ BackupOpen \/ BackupList \/ BackupWaited \/ BackupTrigger \/ BackupPoll
           \/ BackupRauthy \/ BackupDeliver \/ BackupEnd
  BY <1>5 DEF BackupOpen, BackupList, BackupWaited, BackupTrigger, BackupPoll, BackupRauthy,
              BackupDeliver, BackupEnd
<1>6. CASE \/ \E a \in Archive : RestoreStart(a)
           \/ \E f \in KeyFile : RestoreKey(f)
           \/ RestoreReset \/ RestorePlace \/ RestoreClear \/ RestoreRauthy
           \/ RestoreEnd \/ ClearLock
  BY <1>6 DEF RestoreStart, RestoreKey, RestoreReset, RestorePlace, RestoreClear, RestoreRauthy,
              RestoreEnd, ClearLock
<1>7. CASE \/ \E b \in Binary : CellPrepare(b)
           \/ CellOpen \/ CellCheck \/ CellBoot \/ CellWrite \/ RauthyWrite
           \/ CellStop \/ CellCrash
  BY <1>7 DEF CellPrepare, CellOpen, CellCheck, CellBoot, CellWrite, RauthyWrite,
              CellStop, CellCrash
<1> QED
  BY <1>1, <1>2, <1>3, <1>4, <1>5, <1>6, <1>7 DEF RecoveryNext

(* A record appended leaves the epochs before it where they are.           *)
LEMMA EpochsStay ==
    ASSUME NEW chain, IsSequence(chain), NEW r
    PROVE  \A i \in Places(chain, "epoch") : Append(chain, r)[i] = chain[i]
  BY PlacesAppend

(* A record of another kind is no epoch.                                   *)
LEMMA PlacesBeside ==
    ASSUME NEW chain, IsSequence(chain), NEW r, r.kind # "epoch"
    PROVE  Places(Append(chain, r), "epoch") = Places(chain, "epoch")
  BY PlacesAppend

(* An epoch is one more.                                                   *)
LEMMA PlacesWith ==
    ASSUME NEW chain, IsSequence(chain), NEW r, r.kind = "epoch"
    PROVE  /\ Places(Append(chain, r), "epoch") = Places(chain, "epoch") \cup {Len(chain) + 1}
           /\ Append(chain, r)[Len(chain) + 1] = r
<1>1. Places(Append(chain, r), "epoch") = Places(chain, "epoch") \cup {Len(chain) + 1}
  BY PlacesAppend
<1>2. Append(chain, r)[Len(chain) + 1] = r
  BY PlacesAppend
<1> QED
  BY <1>1, <1>2

(* And it leaves the epoch in force as it was.                             *)
LEMMA EpochBeside ==
    ASSUME NEW d, IsSequence(d.chain), NEW r, r.kind # "epoch", NEW f,
           f.chain = Append(d.chain, r)
    PROVE  CurrentEpoch(f) = CurrentEpoch(d)
<1> DEFINE chain == d.chain
           at == Places(chain, "epoch")
<1>1. Places(f.chain, "epoch") = at
  BY PlacesBeside
<1>2. \A i \in at : f.chain[i] = chain[i]
  <2>1. \A i \in Places(chain, "epoch") : Append(chain, r)[i] = chain[i]
    BY EpochsStay
  <2> QED
    BY <2>1
<1>3. at # {} => Max(at) \in at
  BY PlacesAre
<1> DEFINE restores == {i \in at : chain[i].restore # None}
<1>4. restores # {} => Max(restores) \in restores
  BY PlacesAre
<1>7. {i \in at : f.chain[i].restore # None} = restores
  BY <1>2
<1>5. CASE at = {}
  BY <1>1, <1>5 DEF CurrentEpoch
<1>6. CASE at # {}
  <2>1. f.chain[Max(at)] = chain[Max(at)]
    BY <1>2, <1>3, <1>6
  <2>2. restores # {} => f.chain[Max(restores)] = chain[Max(restores)]
    BY <1>2, <1>4
  <2> HIDE DEF at, restores
  <2> QED
    BY <1>1, <1>7, <1>6, <2>1, <2>2 DEF CurrentEpoch, at, restores
<1> QED
  BY <1>5, <1>6

(* What the steps that are no restore's do to the epochs: nothing, or one  *)
(* deploy step records the epoch it judged.                                *)
SameEpochs ==
    /\ CurrentEpoch(db)' = CurrentEpoch(db)
    /\ Places(db.chain, "epoch")' = Places(db.chain, "epoch")
    /\ \A i \in Places(db.chain, "epoch") : db'.chain[i] = db.chain[i]
Records(d) ==
    LET e == deploy[d].epoch
        n == Len(db.chain) + 1
    IN /\ deploy[d].pc = "record" /\ NamedBy(e) = {} /\ deploy'[d].pc = "done"
       /\ Places(db.chain, "epoch")' = Places(db.chain, "epoch") \cup {n}
       /\ db'.chain[n] = e
       /\ \A i \in Places(db.chain, "epoch") : db'.chain[i] = db.chain[i]
       /\ CurrentEpoch(db)'.restore = IF e.restore # None THEN e.restore
                                      ELSE CurrentEpoch(db).restore

(* A step that is no restore's leaves the epochs, or records a judged one. *)
LEMMA EpochSteps ==
    ASSUME Staged, Shaped, Stores, Holders, Restored, Judged, [RecoveryNext]_recoveryVars,
           owner # "restore"
    PROVE  SameEpochs \/ \E d \in Step : DeployRecord(d) /\ Records(d)
<1>1. /\ DOMAIN db = DOMAIN EMPTY /\ IsSequence(db.chain) /\ Linked(db.chain)
      /\ DOMAIN deploy = Step /\ \A d \in Step : "pc" \in DOMAIN deploy[d]
  BY LeftRows DEF Stores, Left, StoreOK, Shaped, Idle
<1>2. ASSUME db'.chain = db.chain PROVE SameEpochs
  BY <1>2 DEF SameEpochs, CurrentEpoch, Places
<1>3. ASSUME StoreKept(db') PROVE SameEpochs
  BY <1>2, <1>3 DEF StoreKept
<1>4. CASE DeployBeside
  <2>1. PICK d \in Step :
              \/ DeployOpen(d) \/ DeployPlan(d) \/ DeployApply(d) \/ DeployReread(d)
              \/ DeployAppend(d) \/ DeployJudge(d) \/ DeployRecord(d) \/ DeployEnd(d)
              \/ DeployAgain(d) \/ DeployCrash(d) \/ DeployLost(d)
    BY <1>4, OneDeploy
  <2>2. CASE \/ db' = db \/ \E hist : db' = [db EXCEPT !.rows = hist]
    BY <1>1, <1>2, <2>2 DEF EMPTY
  <2>3. CASE DeployOpen(d)
    BY <1>3, <2>3, OpenKeeps
  <2>4. CASE db' = [db EXCEPT !.chain = Append(@, TransitionOf(d))]
    <3>1. TransitionOf(d).kind # "epoch"
      BY DEF TransitionOf
    <3>2. db'.chain = Append(db.chain, TransitionOf(d))
      BY <1>1, <2>4 DEF EMPTY
    <3>3. CurrentEpoch(db') = CurrentEpoch(db)
      BY <1>1, <3>1, <3>2, EpochBeside
    <3>4. Places(db'.chain, "epoch") = Places(db.chain, "epoch")
      BY <1>1, <3>1, <3>2, PlacesBeside
    <3>6. \A i \in Places(db.chain, "epoch") : Append(db.chain, TransitionOf(d))[i] = db.chain[i]
      BY <1>1, EpochsStay
    <3>5. \A i \in Places(db.chain, "epoch") : db'.chain[i] = db.chain[i]
      BY <3>2, <3>6
    <3> QED
      BY <3>3, <3>4, <3>5 DEF SameEpochs, CurrentEpoch, Places
  <2>5. CASE /\ db' = [db EXCEPT !.chain = Append(@, deploy[d].epoch)]
             /\ deploy[d].pc = "record" /\ NamedBy(deploy[d].epoch) = {}
             /\ deploy'[d].pc = "done"
    <3> DEFINE e == deploy[d].epoch
    <3>1. /\ e.kind = "epoch" /\ e.n = CurrentEpoch(db).n + 1
          /\ e.previous = CurrentEpoch(db).hash
          /\ e.restore # None => CurrentEpoch(db).restore # e.restore
      BY <2>5 DEF Judged, JudgedAs, NamedBy
    <3>2. db'.chain = Append(db.chain, e)
      BY <1>1, <2>5 DEF EMPTY
    <3> HIDE DEF e
    <3>3. CurrentEpoch(db').restore = IF e.restore # None THEN e.restore
                                      ELSE CurrentEpoch(db).restore
      BY <1>1, <3>1, <3>2, LinkedEpoch
    <3>4. /\ Places(db'.chain, "epoch") = Places(db.chain, "epoch") \cup {Len(db.chain) + 1}
          /\ \A i \in Places(db.chain, "epoch") : db'.chain[i] = db.chain[i]
          /\ db'.chain[Len(db.chain) + 1] = e
      <4>1. Places(Append(db.chain, e), "epoch")
                = Places(db.chain, "epoch") \cup {Len(db.chain) + 1}
        BY <1>1, <3>1, PlacesWith
      <4>2. Append(db.chain, e)[Len(db.chain) + 1] = e
        BY <1>1, <3>1, PlacesWith
      <4>3. \A i \in Places(db.chain, "epoch") : Append(db.chain, e)[i] = db.chain[i]
        BY <1>1, EpochsStay
      <4> QED
        BY <3>2, <4>1, <4>2, <4>3
    <3>7. ~DeployAppend(d) /\ ~DeployJudge(d) /\ ~DeployReread(d)
      BY <2>5 DEF DeployAppend, DeployJudge, DeployReread
    <3>8. ~DeployOpen(d) /\ ~DeployPlan(d) /\ ~DeployApply(d)
      BY <2>5 DEF DeployOpen, DeployPlan, DeployApply
    <3>9. ~DeployEnd(d) /\ ~DeployAgain(d)
      BY <2>5 DEF DeployEnd, DeployAgain
    <3>10. ~DeployCrash(d) /\ ~DeployLost(d)
      BY <1>1, <2>5 DEF DeployCrash, DeployLost, DeployAt, Idle
    <3>5. DeployRecord(d)
      BY <2>1, <3>7, <3>8, <3>9, <3>10
    <3> QED
      BY <2>5, <3>3, <3>4, <3>5 DEF Records, CurrentEpoch, Places, e
  <2> QED
    BY <1>1, <2>1, <2>2, <2>3, <2>4, <2>5, DeploySteps
<1>5. CASE db' = db
  BY <1>2, <1>5
<1>6. CASE BackupOpen \/ CellOpen \/ CellBoot \/ CellWrite
  BY <1>3, <1>6, OpenKeeps
<1> QED
  BY <1>4, <1>5, <1>6, OtherSteps DEF RestoreReset, RestorePlace, Holders, Busy

(* Only judging makes a step one that records.                             *)
LEMMA RecordSteps ==
    ASSUME Shaped, [RecoveryNext]_recoveryVars, NEW d \in Step, deploy'[d].pc = "record"
    PROVE  deploy'[d] = deploy[d] \/ DeployJudge(d)
<1> USE DEF DeployAt, Idle, Shaped
<1>1. CASE deploy' = deploy
  BY <1>1
<1>2. CASE DeployBeside
  <2>1. PICK c \in Step :
              /\ \/ DeployOpen(c) \/ DeployPlan(c) \/ DeployApply(c) \/ DeployReread(c)
                 \/ DeployAppend(c) \/ DeployJudge(c) \/ DeployRecord(c) \/ DeployEnd(c)
                 \/ DeployAgain(c) \/ DeployCrash(c) \/ DeployLost(c)
              /\ \A e \in Step \ {c} : deploy'[e] = deploy[e]
    BY <1>2, OneDeploy
  <2>2. SUFFICES ASSUME d = c PROVE DeployJudge(d)
    BY <2>1
  <2> DOMAIN deploy = Step /\ {"pc", "owns", "from", "head"} \subseteq DOMAIN deploy[d]
    OBVIOUS
  <2>3. ~DeployOpen(d)
    <3>1. SUFFICES ASSUME DeployOpen(d) PROVE deploy'[d].pc \in {"refused", "plan"}
      BY <1>1
    <3> QED
      BY <3>1 DEF DeployOpen
  <2>10. ~DeployPlan(d)
    <3>1. SUFFICES ASSUME DeployPlan(d) PROVE deploy'[d].pc \in {"refused", "apply"}
      BY <1>1
    <3> "plan" \in DOMAIN deploy[d]
      OBVIOUS
    <3>2. \/ deploy' = DeployAt(d, "refused")
          \/ \E p : deploy' = [deploy EXCEPT ![d] = [@ EXCEPT !.pc = "apply", !.plan = p]]
      BY <3>1 DEF DeployPlan
    <3> QED
      BY <3>2
  <2>4. ~DeployApply(d)
    BY DEF DeployApply
  <2>5. ~DeployReread(d)
    <3>1. SUFFICES ASSUME DeployReread(d) PROVE deploy'[d].pc \in {"done", "epoch", "append"}
      BY <1>1
    <3> QED
      BY <3>1 DEF DeployReread
  <2>6. ~DeployAppend(d)
    BY DEF DeployAppend
  <2>7. ~DeployRecord(d)
    BY DEF DeployRecord
  <2>8. ~DeployEnd(d) /\ ~DeployAgain(d)
    BY DEF DeployEnd, DeployAgain
  <2>9. ~DeployCrash(d) /\ ~DeployLost(d)
    BY DEF DeployCrash, DeployLost
  <2> QED
    BY <2>1, <2>2, <2>3, <2>4, <2>5, <2>6, <2>7, <2>8, <2>9, <2>10
<1> QED
  BY <1>1, <1>2, OtherSteps

(* What a marker says stays said while nothing is being restored.          *)
SameMarker ==
    /\ marker # Unreadable => marker' # Unreadable
    /\ marker' = None <=> marker = None
    /\ marker \notin {None, Unreadable} => marker'.archive = marker.archive

(* A start and a certificate leave it said.                                *)
LEMMA MarkerStays ==
    ASSUME Shaped, Holders, Started, [RecoveryNext]_recoveryVars, owner # "restore"
    PROVE  SameMarker
<1>1. None \notin MarkerRec /\ Unreadable \notin MarkerRec
  BY NoneAssumption DEF MarkerRec
<1> QED
  BY <1>1, MarkerSteps DEF SameMarker

(* What was judged stays judged while no epoch is recorded.                *)
LEMMA JudgedStays ==
    ASSUME SameEpochs, SameMarker, NEW e, JudgedAs(e, db.chain, CurrentEpoch(db), marker)
    PROVE  JudgedAs(e, db'.chain, CurrentEpoch(db)', marker')
<1> DEFINE now == CurrentEpoch(db)
           now2 == CurrentEpoch(db)'
           at == Places(db.chain, "epoch")
           at2 == Places(db.chain, "epoch")'
<1>1. now2 = now /\ at2 = at /\ \A i \in at : db'.chain[i] = db.chain[i]
  BY DEF SameEpochs
<1>2. at2 = Places(db'.chain, "epoch")
  BY DEF Places
<1> HIDE DEF now, now2, at, at2
<1>3. {i \in at : db'.chain[i].n = e.n} = {i \in at : db.chain[i].n = e.n}
  BY <1>1
<1> QED
  BY <1>1, <1>2, <1>3 DEF JudgedAs, SameMarker, now, now2, at

(* And while another step records the epoch it judged.                     *)
LEMMA JudgedBeside ==
    ASSUME SameMarker, NEW c \in Step, Records(c), NEW e,
           JudgedAs(e, db.chain, CurrentEpoch(db), marker),
           JudgedAs(deploy[c].epoch, db.chain, CurrentEpoch(db), marker)
    PROVE  JudgedAs(e, db'.chain, CurrentEpoch(db)', marker')
<1> DEFINE now == CurrentEpoch(db)
           now2 == CurrentEpoch(db)'
           at == Places(db.chain, "epoch")
           at2 == Places(db.chain, "epoch")'
           e0 == deploy[c].epoch
           n == Len(db.chain) + 1
           named == {i \in at : db.chain[i].n = e.n}
           named2 == {i \in at2 : db'.chain[i].n = e.n}
<1>1. /\ at2 = at \cup {n} /\ db'.chain[n] = e0 /\ \A i \in at : db'.chain[i] = db.chain[i]
      /\ now2.restore = IF e0.restore # None THEN e0.restore ELSE now.restore
      /\ {i \in at : db.chain[i].n = e0.n} = {}
  BY DEF Records, NamedBy
<1>2. at2 = Places(db'.chain, "epoch")
  BY DEF Places
<1>3. /\ e.kind = "epoch" /\ marker # Unreadable
      /\ e.restore # None => marker # None /\ e.restore = marker.archive
      /\ named = {} => e.n = now.n + 1
      /\ (e.restore = None /\ marker # None) => now.restore = marker.archive
      /\ \A i \in named : db.chain[i].restore # None =>
            marker # None /\ now.restore = marker.archive
  BY DEF JudgedAs
<1>4. /\ e0.restore # None => marker # None /\ e0.restore = marker.archive
      /\ e0.n = now.n + 1
  BY <1>1 DEF JudgedAs
<1> HIDE DEF now, now2, at, at2, e0, n
<1>5. named2 # {}
  BY <1>1, <1>3, <1>4
<1>6. marker' # Unreadable /\ (marker # None => marker' # None /\ marker'.archive = marker.archive)
      /\ (marker' # None => marker # None)
  BY <1>3 DEF SameMarker
<1>7. \A i \in named2 : db'.chain[i].restore # None =>
            marker' # None /\ now2.restore = marker'.archive
  BY <1>1, <1>3, <1>4, <1>6
<1>8. (e.restore = None /\ marker' # None) => now2.restore = marker'.archive
  BY <1>1, <1>3, <1>4, <1>6
<1>9. e.restore # None => marker' # None /\ e.restore = marker'.archive
  BY <1>3, <1>6
<1> HIDE DEF named2, named
<1> QED
  BY <1>2, <1>3, <1>5, <1>6, <1>7, <1>8, <1>9 DEF JudgedAs, named2, now2

(* A step that records holds an epoch that was judged, and the chain has   *)
(* moved on at most by a record of that number.                            *)
LEMMA JudgedNext ==
    ASSUME Staged, Shaped, Stores, Holders, Restored, Started, Judged,
           [RecoveryNext]_recoveryVars
    PROVE  Judged'
<1>1. SUFFICES ASSUME NEW d \in Step, deploy'[d].pc = "record"
               PROVE  JudgedAs(deploy'[d].epoch, db'.chain, CurrentEpoch(db)', marker')
  BY DEF Judged
<1>2. IsSequence(db.chain) /\ Linked(db.chain) /\ "epoch" \in DOMAIN deploy[d]
      /\ "pc" \in DOMAIN deploy[d] /\ DOMAIN deploy = Step
  BY LeftRows DEF Stores, Shaped, Idle
<1>3. CASE DeployJudge(d)
  <2> DEFINE now == CurrentEpoch(db)
             restore0 == IF marker = None THEN None ELSE marker.archive
             restored == restore0 # None /\ now.restore # restore0
             fp == Fingerprint(scene.bin[d])
             e == EpochAfter(now, fp, IF restored THEN restore0 ELSE None)
  <2>1. /\ deploy'[d].epoch = e /\ db' = db /\ marker' = marker /\ marker # Unreadable
    BY <1>1, <1>2, <1>3 DEF DeployJudge, DeployAt
  <2>2. \A i \in Places(db.chain, "epoch") : db.chain[i].n # now.n + 1
    BY <1>2, EpochIs
  <2>3. marker # None => restore0 # None
    BY <2>1, NoneAssumption DEF Shaped, MarkerRec
  <2> HIDE DEF now, fp
  <2>4. /\ e.kind = "epoch" /\ e.n = now.n + 1 /\ e.previous = now.hash
        /\ e.restore = IF restored THEN restore0 ELSE None
    BY DEF EpochAfter
  <2>5. {i \in Places(db.chain, "epoch") : db.chain[i].n = e.n} = {}
    BY <2>2, <2>4
  <2> HIDE DEF e
  <2>6. JudgedAs(e, db.chain, now, marker)
    BY <2>1, <2>3, <2>4, <2>5 DEF JudgedAs
  <2>7. CurrentEpoch(db)' = now
    BY <2>1 DEF now
  <2> QED
    BY <2>1, <2>6, <2>7
<1>4. CASE deploy'[d] = deploy[d]
  <2>1. JudgedAs(deploy[d].epoch, db.chain, CurrentEpoch(db), marker)
    BY <1>1, <1>4 DEF Judged
  <2>2. owner # "restore"
    BY <1>1, <1>4 DEF Holders, Running
  <2>3. SameMarker
    BY <2>2, MarkerStays
  <2>4. ASSUME SameEpochs
        PROVE  JudgedAs(deploy[d].epoch, db'.chain, CurrentEpoch(db)', marker')
    BY <2>1, <2>3, <2>4, JudgedStays
  <2>5. ASSUME NEW c \in Step, Records(c)
        PROVE  JudgedAs(deploy[d].epoch, db'.chain, CurrentEpoch(db)', marker')
    <3>1. JudgedAs(deploy[c].epoch, db.chain, CurrentEpoch(db), marker)
      BY <2>5 DEF Judged, Records
    <3> QED
      BY <2>1, <2>3, <2>5, <3>1, JudgedBeside
  <2> QED
    BY <1>4, <2>2, <2>4, <2>5, EpochSteps
<1> QED
  BY <1>1, <1>3, <1>4, RecordSteps

(* A step is done by ending its work, on the node it works on.             *)
LEMMA DoneSteps ==
    ASSUME Shaped, [RecoveryNext]_recoveryVars, NEW d \in Step, deploy'[d].pc = "done"
    PROVE  /\ deploy'[d].owns = deploy[d].owns /\ Running(d)
           /\ \/ deploy'[d] = deploy[d]
              \/ DeployReread(d) /\ ~scene.adopts[d]
              \/ DeployJudge(d)
              \/ DeployRecord(d)
<1> USE DEF DeployAt, Idle, Shaped, Running
<1>1. CASE deploy' = deploy
  BY <1>1
<1>2. CASE DeployBeside
  <2>1. PICK c \in Step :
              /\ \/ DeployOpen(c) \/ DeployPlan(c) \/ DeployApply(c) \/ DeployReread(c)
                 \/ DeployAppend(c) \/ DeployJudge(c) \/ DeployRecord(c) \/ DeployEnd(c)
                 \/ DeployAgain(c) \/ DeployCrash(c) \/ DeployLost(c)
              /\ \A e \in Step \ {c} : deploy'[e] = deploy[e]
    BY <1>2, OneDeploy
  <2> /\ DOMAIN deploy = Step
      /\ {"pc", "owns", "from", "head", "plan", "epoch"} \subseteq DOMAIN deploy[d]
    OBVIOUS
  <2>2. CASE d # c
    BY <2>1, <2>2
  <2>3. CASE d = c
    <3>1. ~DeployOpen(d)
      <4>1. SUFFICES ASSUME DeployOpen(d) PROVE deploy'[d].pc \in {"refused", "plan"}
        BY <1>2
      <4> QED
        BY <4>1 DEF DeployOpen
    <3>2. ~DeployPlan(d)
      <4>1. SUFFICES ASSUME DeployPlan(d) PROVE deploy'[d].pc \in {"refused", "apply"}
        BY <1>2
      <4>2. \/ deploy' = DeployAt(d, "refused")
            \/ \E p : deploy' = [deploy EXCEPT ![d] = [@ EXCEPT !.pc = "apply", !.plan = p]]
        BY <4>1 DEF DeployPlan
      <4> QED
        BY <4>2
    <3>3. ~DeployApply(d)
      BY DEF DeployApply
    <3>4. ASSUME DeployReread(d)
          PROVE  deploy'[d].owns = deploy[d].owns /\ Running(d) /\ ~scene.adopts[d]
      <4>1. deploy' = DeployAt(d, "done") /\ ~scene.adopts[d]
        <5>1. ASSUME scene.adopts[d] PROVE deploy'[d].pc \in {"epoch", "append"}
          BY <3>4, <5>1 DEF DeployReread
        <5>2. ~scene.adopts[d]
          BY <5>1
        <5> QED
          BY <3>4, <5>2 DEF DeployReread
      <4> QED
        BY <3>4, <4>1 DEF DeployReread
    <3>5. ~DeployAppend(d)
      BY DEF DeployAppend
    <3>6. ASSUME DeployJudge(d) PROVE deploy'[d].owns = deploy[d].owns /\ Running(d)
      <4>1. deploy[d].pc = "epoch" /\ deploy' = DeployAt(d, "done")
        <5>1. \/ \E how \in {"failed", "done"} : deploy' = DeployAt(d, how)
              \/ \E e : deploy' = [deploy EXCEPT ![d] = [@ EXCEPT !.pc = "record", !.epoch = e]]
          BY <3>6 DEF DeployJudge
        <5> QED
          BY <3>6, <5>1 DEF DeployJudge
      <4> QED
        BY <4>1
    <3>7. ASSUME DeployRecord(d) PROVE deploy'[d].owns = deploy[d].owns /\ Running(d)
      BY <3>7 DEF DeployRecord
    <3>8. ~DeployEnd(d) /\ ~DeployAgain(d)
      BY DEF DeployEnd, DeployAgain
    <3>9. ~DeployCrash(d) /\ ~DeployLost(d)
      BY DEF DeployCrash, DeployLost
    <3> QED
      BY <2>1, <2>3, <3>1, <3>2, <3>3, <3>4, <3>5, <3>6, <3>7, <3>8, <3>9
  <2> QED
    BY <2>2, <2>3
<1> QED
  BY <1>1, <1>2, OtherSteps

(* Once a judged epoch is recorded, the restore in force is.               *)
LEMMA RestoreIsRecorded ==
    ASSUME NEW c \in Step, Records(c), marker # None,
           JudgedAs(deploy[c].epoch, db.chain, CurrentEpoch(db), marker)
    PROVE  CurrentEpoch(db)'.restore = marker.archive
<1> DEFINE now == CurrentEpoch(db)
           now2 == CurrentEpoch(db)'
<1>1. now2.restore = IF deploy[c].epoch.restore # None THEN deploy[c].epoch.restore
                     ELSE now.restore
  BY DEF Records
<1>2. /\ deploy[c].epoch.restore # None => deploy[c].epoch.restore = marker.archive
      /\ deploy[c].epoch.restore = None => now.restore = marker.archive
  BY DEF JudgedAs
<1> HIDE DEF now, now2
<1>3. now2.restore = marker.archive
  BY <1>1, <1>2
<1> QED
  BY <1>3 DEF now2

(* Epochs stay linked, and a restore recorded stays so while the step that *)
(* recorded it is at the node.                                             *)
LEMMA EpochsLinkedNext ==
    ASSUME Staged, Shaped, Stores, Holders, Restored, Started, InPlan, Judged, EpochsLinked,
           [RecoveryNext]_recoveryVars
    PROVE  EpochsLinked'
<1>1. Linked(db'.chain)
  BY StoreNext, LeftRows
<1>2. SUFFICES ASSUME NEW d \in Step, deploy'[d].pc = "done", deploy'[d].owns, scene'.adopts[d],
                      marker' # None
               PROVE  CurrentEpoch(db)'.restore = marker'.archive
  BY <1>1 DEF EpochsLinked
<1>3. /\ deploy[d].owns /\ scene.adopts[d]
      /\ deploy'[d] = deploy[d] \/ DeployJudge(d) \/ DeployRecord(d)
  BY <1>2, DoneSteps, StagedNext
<1>4. owner = d /\ owner # "restore" /\ marker # Unreadable
  BY <1>3, StepAssumption DEF Holders
<1>5. marker # None /\ marker # Unreadable /\ marker'.archive = marker.archive
  BY <1>2, <1>4, MarkerStays DEF SameMarker
<1>6. CASE \E c \in Step : Records(c)
  <2>1. PICK c \in Step : Records(c)
    BY <1>6
  <2>2. JudgedAs(deploy[c].epoch, db.chain, CurrentEpoch(db), marker)
    BY <2>1 DEF Judged, Records
  <2>3. CurrentEpoch(db)'.restore = marker.archive
    BY <1>5, <2>1, <2>2, RestoreIsRecorded
  <2> QED
    BY <1>5, <2>3
<1>7. CASE SameEpochs
  <2>1. SUFFICES CurrentEpoch(db).restore = marker.archive
    BY <1>5, <1>7 DEF SameEpochs
  <2>2. CASE deploy'[d] = deploy[d]
    BY <1>2, <1>3, <1>5, <2>2 DEF EpochsLinked
  <2>3. CASE DeployJudge(d)
    <3> DEFINE restore0 == IF marker = None THEN None ELSE marker.archive
               restored == restore0 # None /\ CurrentEpoch(db).restore # restore0
    <3>1. restore0 = marker.archive /\ restore0 # None
      BY <1>5, NoneAssumption DEF Shaped, MarkerRec
    <3>2. ~restored
      <4>1. SUFFICES ASSUME restored PROVE FALSE
        OBVIOUS
      <4>2. \E e : deploy' = [deploy EXCEPT ![d] = [@ EXCEPT !.pc = "record", !.epoch = e]]
        BY <1>5, <2>3, <4>1 DEF DeployJudge
      <4> QED
        BY <1>2, <4>2 DEF Shaped, Idle
    <3> QED
      BY <3>1, <3>2
  <2>4. CASE DeployRecord(d)
    <3> DEFINE e == deploy[d].epoch
               now == CurrentEpoch(db)
    <3>1. deploy[d].pc = "record" /\ DOMAIN deploy = Step /\ "pc" \in DOMAIN deploy[d]
      BY <2>4 DEF DeployRecord, Shaped, Idle
    <3>2. /\ e.kind = "epoch"
          /\ (e.restore = None /\ marker # None) => now.restore = marker.archive
          /\ \A i \in NamedBy(e) : db.chain[i].restore # None => now.restore = marker.archive
      BY <3>1 DEF Judged, JudgedAs, NamedBy
    <3>3. IsSequence(db.chain) /\ "chain" \in DOMAIN db
      BY LeftRows DEF Stores, Left, StoreOK, EMPTY
    <3> HIDE DEF e, now
    <3>4. CASE NamedBy(e) = {} /\ db' = [db EXCEPT !.chain = Append(@, e)]
      <4>1. db'.chain = Append(db.chain, e)
        BY <3>3, <3>4
      <4>2. Len(db.chain) + 1 \in Places(db'.chain, "epoch")
        BY <3>2, <3>3, <4>1, PlacesWith
      <4>3. Places(db.chain, "epoch")' = Places(db'.chain, "epoch")
        BY DEF Places
      <4>4. Len(db.chain) + 1 \in Places(db.chain, "epoch")
        BY <1>7, <4>2, <4>3 DEF SameEpochs
      <4>5. Places(db.chain, "epoch") \in SUBSET (1 .. Len(db.chain)) /\ Len(db.chain) \in Nat
        BY <3>3, PlacesAre
      <4> QED
        BY <4>4, <4>5
    <3>5. CASE NamedBy(e) # {} /\ \A i \in NamedBy(e) : db.chain[i] = e
      BY <1>5, <3>2, <3>5 DEF now
    <3>6. CASE deploy' = DeployAt(d, "failed")
      BY <1>2, <3>1, <3>6 DEF DeployAt
    <3> QED
      BY <2>4, <3>4, <3>5, <3>6 DEF DeployRecord, e
  <2> QED
    BY <1>3, <2>2, <2>3, <2>4
<1> QED
  BY <1>4, <1>6, <1>7, EpochSteps

-----------------------------------------------------------------------------
(* Every store there is.                                                   *)

(* A new snapshot file holds the store as it is.                           *)
LEMMA FilesNext ==
    ASSUME Shaped, [RecoveryNext]_recoveryVars
    PROVE  \A f \in hiq'.files : f \in hiq.files \/ f.snap = db
<1> USE DEF deployed, world
<1>1. DOMAIN hiq = DOMAIN Fresh /\ HiqAfter.files = hiq.files
  BY FilesStay DEF Shaped
<1>2. \A h \in AfterRequest : h.files = hiq.files
  BY <1>1 DEF AfterRequest, Accepts, Fresh
<1>3. CASE OutsideRequest \/ BackupTrigger
  BY <1>2, <1>3 DEF OutsideRequest, BackupTrigger
<1>4. CASE DeployBeside \/ BackupEnd \/ CellStop \/ CellCrash
  BY <1>1, <1>4 DEF DeployBeside, BackupEnd, CellStop, CellCrash
<1>5. ASSUME NEW t, Vacuum(t) PROVE \A f \in hiq'.files : f \in hiq.files \/ f.snap = db
  <2>1. "files" \in DOMAIN hiq
    BY <1>1 DEF Fresh
  <2>2. hiq'.files = hiq.files \/ hiq'.files = hiq.files \cup {[at |-> t, snap |-> db]}
    BY <1>5, <2>1 DEF Vacuum
  <2> QED
    BY <2>2
<1>6. CASE Tick \/ ClockBack \/ UNCHANGED recoveryVars
  BY <1>6 DEF Tick, ClockBack, recoveryVars
<1>7. CASE \/ BackupOpen \/ BackupList \/ BackupWaited \/ BackupPoll \/ BackupRauthy
           \/ BackupDeliver
  BY <1>7 DEF BackupOpen, BackupList, BackupWaited, BackupPoll, BackupRauthy, BackupDeliver
<1>8. CASE \/ \E a \in Archive : RestoreStart(a)
           \/ \E f \in KeyFile : RestoreKey(f)
           \/ RestoreReset \/ RestorePlace \/ RestoreClear \/ RestoreRauthy
           \/ RestoreMark \/ RestoreEnd \/ RestoreCrash \/ ClearLock
  BY <1>8 DEF RestoreStart, RestoreKey, RestoreReset, RestorePlace, RestoreClear, RestoreRauthy,
              RestoreMark, RestoreEnd, RestoreCrash, ClearLock
<1>9. CASE \/ \E b \in Binary : CellPrepare(b)
           \/ CellHealthy \/ CellOpen \/ CellCheck \/ CellBoot \/ CellWrite \/ RauthyWrite
  BY <1>9 DEF CellPrepare, CellHealthy, CellOpen, CellCheck, CellBoot, CellWrite, RauthyWrite
<1> QED
  BY <1>3, <1>4, <1>5, <1>6, <1>7, <1>8, <1>9 DEF RecoveryNext

(* A backup takes its snapshot in one step, and an archive appears in one. *)
LEMMA TakenNext ==
    ASSUME Shaped, [RecoveryNext]_recoveryVars
    PROVE  /\ archives' = archives \/ BackupDeliver
           /\ backup'.pc \in {"rauthy", "deliver"} =>
                 \/ backup.pc \in {"rauthy", "deliver"} /\ backup'.snap = backup.snap
                 \/ BackupPoll /\ SnapshotSince # {}
<1> USE DEF deployed, world, NoBackup, BackupAt, Shaped
<1>1. CASE OutsideRequest \/ DeployBeside \/ \E t \in 0..scene.until : Vacuum(t)
  BY <1>1 DEF OutsideRequest, DeployBeside, Vacuum
<1>2. CASE BackupList \/ BackupWaited \/ BackupTrigger
  BY <1>2 DEF BackupList, BackupWaited, BackupTrigger
<1>7. CASE BackupOpen
  <2>1. archives' = archives /\ backup'.pc = "list"
    BY <1>7 DEF BackupOpen
  <2> QED
    BY <2>1
<1>3. CASE BackupPoll
  BY <1>3 DEF BackupPoll
<1>4. CASE BackupRauthy
  BY <1>4 DEF BackupRauthy
<1>5. CASE BackupDeliver \/ BackupEnd
  BY <1>5 DEF BackupDeliver, BackupEnd
<1>6. CASE Tick \/ ClockBack \/ UNCHANGED recoveryVars
  BY <1>6 DEF Tick, ClockBack, recoveryVars
<1>8. CASE \/ \E a \in Archive : RestoreStart(a)
           \/ \E f \in KeyFile : RestoreKey(f)
           \/ RestoreReset \/ RestorePlace \/ RestoreClear \/ RestoreRauthy
           \/ RestoreMark \/ RestoreEnd \/ RestoreCrash \/ ClearLock
  BY <1>8 DEF RestoreStart, RestoreKey, RestoreReset, RestorePlace, RestoreClear, RestoreRauthy,
              RestoreMark, RestoreEnd, RestoreCrash, ClearLock
<1>9. CASE \/ \E b \in Binary : CellPrepare(b)
           \/ CellHealthy \/ CellOpen \/ CellCheck \/ CellBoot \/ CellWrite \/ RauthyWrite
           \/ CellStop \/ CellCrash
  BY <1>9 DEF CellPrepare, CellHealthy, CellOpen, CellCheck, CellBoot, CellWrite, RauthyWrite,
              CellStop, CellCrash
<1> QED
  BY <1>1, <1>2, <1>3, <1>4, <1>5, <1>6, <1>7, <1>8, <1>9 DEF RecoveryNext

(* What is restorable is so with records taken out of it.                  *)
LEMMA RestorableLess ==
    ASSUME NEW hist, NEW less \in SUBSET hist, NEW b, Restorable(hist, b)
    PROVE  Restorable(less, b)
<1>1. Edited(less, b, Carried(b) \ {"app"}) => Edited(hist, b, Carried(b) \ {"app"})
  BY DEF Edited
<1>2. Ahead(less, b) => Ahead(hist, b)
  BY DEF Ahead
<1> QED
  BY <1>1, <1>2 DEF Restorable

(* Live, snapshot or archived, a store stays one.                          *)
LEMMA StoresNext ==
    ASSUME Staged, Shaped, Stores, Restored, InPlan, Judged, Backed,
           [RecoveryNext]_recoveryVars
    PROVE  Stores'
<1>1. ASSUME NEW d, Left(scene, d) PROVE Left(scene', d)
  BY <1>1, StagedNext, LeftScene
<1>2. Left(scene', db')
  BY <1>1, StoreNext
<1>3. ASSUME NEW f \in hiq'.files PROVE Left(scene', f.snap)
  BY <1>1, FilesNext DEF Stores
<1>4. ASSUME backup'.pc \in {"rauthy", "deliver"} PROVE Left(scene', backup'.snap)
  <2>1. CASE backup.pc \in {"rauthy", "deliver"} /\ backup'.snap = backup.snap
    BY <1>1, <2>1 DEF Stores
  <2>2. CASE BackupPoll /\ SnapshotSince # {}
    <3>1. backup'.snap = (CHOOSE g \in SnapshotSince :
                              \A h \in SnapshotSince : h.at <= g.at).snap
      BY <2>2 DEF BackupPoll, Shaped, NoBackup
    <3>2. PICK f \in hiq.files : f.snap = backup'.snap
      BY <2>2, <3>1, SinceIs
    <3> QED
      BY <1>1, <3>2 DEF Stores
  <2> QED
    BY <1>4, <2>1, <2>2, TakenNext
<1>5. ASSUME NEW a \in archives'
      PROVE  /\ Left(scene', a.snap)
             /\ \A b \in Binary : Restorable(a.rows, b) => Restorable(Checksummed(a.snap), b)
  <2>1. CASE a \in archives
    BY <1>1, <2>1 DEF Stores
  <2>2. CASE a \notin archives
    <3>1. BackupDeliver
      BY <1>5, <2>2, TakenNext
    <3>2. backup.pc = "deliver" /\ a.snap = backup.snap /\ a.rows = db.rows
      BY <1>5, <2>2, <3>1 DEF BackupDeliver, Sealed
    <3>3. Left(scene, backup.snap) /\ Checksummed(backup.snap) \in SUBSET db.rows
      BY <3>2 DEF Stores, Backed, Holds
    <3> QED
      BY <1>1, <3>2, <3>3, RestorableLess
  <2> QED
    BY <2>1, <2>2
<1> QED
  BY <1>2, <1>3, <1>4, <1>5 DEF Stores

-----------------------------------------------------------------------------
(* What a cell serves.                                                     *)

(* The cell's own steps are the only ones that bring it to boot or serve.  *)
LEMMA CellNext ==
    ASSUME Shaped, [RecoveryNext]_recoveryVars, ~DeployBeside
    PROVE  \/ cell' = cell
           \/ cell'.pc \notin {"boot", "serving"}
           \/ CellCheck
           \/ CellBoot
<1> USE DEF deployed, world, Down, CellAt, Shaped
<1>1. CASE \/ OutsideRequest \/ Tick \/ ClockBack \/ \E t \in 0..scene.until : Vacuum(t)
           \/ UNCHANGED recoveryVars
  BY <1>1 DEF OutsideRequest, Tick, ClockBack, Vacuum, recoveryVars
<1>2. CASE \/ BackupOpen \/ BackupList \/ BackupWaited \/ BackupTrigger \/ BackupPoll
           \/ BackupRauthy \/ BackupDeliver \/ BackupEnd
  BY <1>2 DEF BackupOpen, BackupList, BackupWaited, BackupTrigger, BackupPoll, BackupRauthy,
              BackupDeliver, BackupEnd
<1>3. CASE \/ \E a \in Archive : RestoreStart(a)
           \/ \E f \in KeyFile : RestoreKey(f)
           \/ RestoreReset \/ RestorePlace \/ RestoreClear \/ RestoreRauthy
           \/ RestoreMark \/ RestoreEnd \/ RestoreCrash \/ ClearLock
  BY <1>3 DEF RestoreStart, RestoreKey, RestoreReset, RestorePlace, RestoreClear, RestoreRauthy,
              RestoreMark, RestoreEnd, RestoreCrash, ClearLock
<1>4. CASE CellWrite \/ RauthyWrite
  BY <1>4 DEF CellWrite, RauthyWrite
<1>5. CASE \E b \in Binary : CellPrepare(b)
  BY <1>5 DEF CellPrepare
<1>6. CASE CellHealthy \/ CellOpen
  BY <1>6 DEF CellHealthy, CellOpen
<1>7. CASE CellStop \/ CellCrash
  BY <1>7 DEF CellStop, CellCrash
<1> QED
  BY <1>1, <1>2, <1>3, <1>4, <1>5, <1>6, <1>7 DEF RecoveryNext

(* A deploy step that a serving cell does not notice does nothing to it.   *)
LEMMA Unnoticed ==
    ASSUME Shaped, DeployBeside, cell'.pc # "down", ~cell'.met
    PROVE  db' = db /\ cell'.pc = cell.pc /\ cell'.bin = cell.bin /\ ~cell.met
<1>1. /\ cell'.pc = cell.pc /\ cell'.bin = cell.bin /\ ~cell.met
      /\ \A d \in Step : ~Running(d) /\ ~Running(d)'
  BY DEF DeployBeside, Shaped, Down
<1>2. PICK d \in Step :
              \/ DeployOpen(d) \/ DeployPlan(d) \/ DeployApply(d) \/ DeployReread(d)
              \/ DeployAppend(d) \/ DeployJudge(d) \/ DeployRecord(d) \/ DeployEnd(d)
              \/ DeployAgain(d) \/ DeployCrash(d) \/ DeployLost(d)
  BY OneDeploy
<1>3. /\ deploy[d].pc \in {"idle", "ended"} /\ deploy'[d].pc \in {"idle", "ended"}
      /\ DOMAIN deploy = Step /\ {"pc", "owns"} \subseteq DOMAIN deploy[d]
  BY <1>1 DEF Running, Shaped, Idle
<1>4. ~DeployOpen(d)
  <2>1. SUFFICES ASSUME DeployOpen(d) PROVE deploy'[d].pc \in {"refused", "plan"}
    BY <1>3
  <2> QED
    BY <1>3, <2>1 DEF DeployOpen
<1>5. ~(DeployPlan(d) \/ DeployApply(d) \/ DeployReread(d) \/ DeployAppend(d))
  BY <1>3 DEF DeployPlan, DeployApply, DeployReread, DeployAppend
<1>6. ~(DeployJudge(d) \/ DeployRecord(d) \/ DeployEnd(d) \/ DeployCrash(d) \/ DeployLost(d))
  BY <1>3 DEF DeployJudge, DeployRecord, DeployEnd, DeployCrash, DeployLost, Running
<1> QED
  BY <1>1, <1>2, <1>4, <1>5, <1>6 DEF DeployAgain

(* A store that is judged ready has no record above a set the build does   *)
(* not carry that is not additive.                                         *)
LEMMA ReadyIsFit ==
    ASSUME NEW s, NEW d, Left(s, d), NEW b, Judgement(d.rows, b) = "ok"
    PROVE  \A r \in d.rows : r.set \notin Carried(b) => r.add
<1>1. ~Ahead(d.rows, b)
  BY DEF Judgement
<1>2. \A r \in d.rows : r.v \in Nat \ {0} /\ r.add \in BOOLEAN
  BY LeftRows
<1> QED
  BY <1>1, <1>2 DEF Ahead

(* A cell that boots or serves keeps the store it was judged ready for.    *)
LEMMA ServedFitsNext ==
    ASSUME Staged, Shaped, Stores, Holders, Restored, Started, ServedFits,
           [RecoveryNext]_recoveryVars
    PROVE  ServedFits'
<1> DEFINE Fit(d, b) == /\ Judgement(d.rows, b) = "ok"
                         /\ \A r \in d.rows : r.set \notin Carried(b) => r.add
<1>1. SUFFICES ASSUME cell'.pc \in {"boot", "serving"}, ~cell'.met
               PROVE  /\ Fit(db', cell'.bin)
                      /\ cell'.pc = "serving" => CurrentManifest(db') = Ceiling[cell'.bin]
  BY DEF ServedFits
<1>2. ASSUME NEW b, NEW d, d.rows = db.rows, Fit(db, b) PROVE Fit(d, b)
  BY <1>2
<1>3. ASSUME NEW d, StoreKept(d), db.first # None PROVE CurrentManifest(d) = CurrentManifest(db)
  BY <1>3 DEF StoreKept, CurrentManifest
<1>4. CASE DeployBeside
  BY <1>1, <1>4, Unnoticed DEF ServedFits
<1>5. CASE ~DeployBeside /\ cell' = cell
  <2>1. /\ owner = "cell" /\ Fit(db, cell.bin)
        /\ cell.pc = "serving" => db.first # None /\ CurrentManifest(db) = Ceiling[cell.bin]
    BY <1>1, <1>5 DEF ServedFits, Holders, Started
  <2>2. db' = db \/ BackupOpen \/ CellOpen \/ CellBoot \/ CellWrite
    <3>1. restore.pc \notin Busy
      BY <2>1 DEF Holders
    <3>2. ~RestoreReset /\ ~RestorePlace
      BY <3>1 DEF RestoreReset, RestorePlace, Busy
    <3> QED
      BY <1>5, <3>2, OtherSteps
  <2>3. db' = db \/ StoreKept(db')
    BY <2>2, OpenKeeps
  <2>4. ASSUME StoreKept(db') PROVE db'.rows = db.rows
    BY <2>4 DEF StoreKept
  <2>5. Fit(db', cell.bin)
    <3> HIDE DEF Fit
    <3> QED
      BY <1>2, <2>1, <2>3, <2>4
  <2>6. cell.pc = "serving" => CurrentManifest(db') = Ceiling[cell.bin]
    BY <1>3, <2>1, <2>3
  <2> HIDE DEF Fit
  <2> QED
    BY <1>5, <2>5, <2>6
<1>6. CASE CellCheck
  <2>1. db' = db /\ cell'.pc = "boot" /\ Judgement(db.rows, cell.bin) = "ok"
        /\ cell'.bin = cell.bin
    BY <1>1, <1>6 DEF CellCheck, CellAt, deployed, Shaped, Down
  <2>2. Left(scene, db)
    BY DEF Stores
  <2> QED
    BY <2>1, <2>2, ReadyIsFit
<1>7. CASE CellBoot
  <2> DEFINE store == WithGenesis(db, cell.bin)
  <2>1. cell'.pc = "serving" /\ cell'.bin = cell.bin /\ cell'.met = cell.met /\ cell.pc = "boot"
        /\ ChainVerifies(db) /\ CurrentManifest(store) = Ceiling[cell.bin] /\ db' = store
    BY <1>1, <1>7 DEF CellBoot, CellAt, Shaped, Down
  <2>2. Fit(db, cell.bin)
    BY <1>1, <2>1 DEF ServedFits
  <2>3. db'.rows = db.rows
    BY <1>7, OpenKeeps DEF StoreKept
  <2> HIDE DEF Fit
  <2> QED
    BY <1>2, <2>1, <2>2, <2>3
<1> QED
  BY <1>1, <1>4, <1>5, <1>6, <1>7, CellNext

-----------------------------------------------------------------------------
(* The theorems.                                                           *)

(* A volume starts as the deploy steps of its builds can have left it.     *)
LEMMA RecoveryStarts ==
    ASSUME RecoveryInit
    PROVE  RecoveryInv
<1>1. /\ DOMAIN scene = SceneField /\ scene \in Scenes /\ Left(scene, scene.db)
      /\ scene.until \in Nat /\ scene.writes \in Nat
      /\ \A a \in scene.archives :
            /\ a.name \in Archive /\ Left(scene, a.snap) /\ a.rauthy.data \in Nat
            /\ \A b \in Binary : Restorable(a.rows, b) => Restorable(Checksummed(a.snap), b)
      /\ \A a, b \in scene.archives : a.name = b.name => a = b
  BY ScenesAssumption DEF RecoveryInit
<1>2. Staged
  BY <1>1 DEF Staged
<1>3. Shaped
  <2>1. \A d \in Step : deploy[d] = Idle
    BY DEF RecoveryInit
  <2>2. /\ DOMAIN deploy = Step
        /\ \A d \in Step : /\ DOMAIN deploy[d] = DOMAIN Idle /\ deploy[d].pc \in DeployPc
                           /\ deploy[d].owns \in BOOLEAN
                           /\ deploy[d].pc # "idle" => d \in scene.deploys
    BY <2>1 DEF RecoveryInit, Idle, DeployPc
  <2>3. /\ marker \in MarkerRec \cup {None, Unreadable} /\ clock \in 0..scene.until
        /\ \A a \in archives : a.name \in Archive /\ a.rauthy.data \in Nat
        /\ torn \in Archive \cup {None} /\ rdir = None
    BY <1>1 DEF RecoveryInit
  <2>4. /\ DOMAIN hiq = DOMAIN Fresh /\ hiq.files = {}
        /\ DOMAIN backup = DOMAIN NoBackup /\ backup.pc = "idle" /\ backup.owns \in BOOLEAN
        /\ DOMAIN restore = DOMAIN NoRestore /\ restore.pc = "idle" /\ restore.at = 0
    BY DEF RecoveryInit, Fresh, NoBackup, NoRestore
  <2>5. /\ DOMAIN rauthy = {"up", "src", "data", "under"} /\ rauthy.data \in Nat
        /\ DOMAIN cell = DOMAIN Down /\ cell.pc = "down" /\ cell.met \in BOOLEAN
    BY DEF RecoveryInit, Down
  <2> QED
    BY <1>1, <2>2, <2>3, <2>4, <2>5 DEF Shaped, BackupPc, RestorePc, CellPc
<1>4. Stores
  BY <1>1 DEF RecoveryInit, Stores, Fresh, NoBackup
<1>5. \A d \in Step : deploy[d].pc = "idle" /\ ~deploy[d].owns
  BY DEF RecoveryInit, Idle
<1>6. Holders
  <2>1. owner = NoOne /\ NoOne \notin Step \cup {"cell", "backup", "restore"}
    BY StepAssumption DEF RecoveryInit
  <2>2. /\ lockFile = "none" /\ cell.pc = "down" /\ restore.pc = "idle" /\ backup.pc = "idle"
        /\ ~backup.owns /\ marker # Unreadable
    BY NoneAssumption DEF RecoveryInit, Down, NoRestore, NoBackup
  <2>3. \A a, b \in archives : a.name = b.name => a = b
    BY <1>1 DEF RecoveryInit
  <2>4. backup.owns = FALSE
    BY DEF RecoveryInit, NoBackup
  <2> QED
    BY <1>5, <2>1, <2>2, <2>3, <2>4 DEF Holders, Busy
<1>7. InPlan /\ Judged
  BY <1>5 DEF InPlan, Judged
<1>8. EpochsLinked
  <2>1. Linked(db.chain)
    BY <1>1, LeftRows DEF RecoveryInit
  <2> QED
    BY <1>5, <2>1 DEF EpochsLinked
<1>9. ServedFits
  BY DEF RecoveryInit, ServedFits, Down
<1>10. Restored
  BY <1>1 DEF RecoveryInit, Restored, Owed, NoRestore
<1>11. Started
  <2>1. marker \notin MarkerRec /\ cell.pc = "down" /\ rauthy.under = None
    BY NoneAssumption DEF RecoveryInit, Down, MarkerRec
  <2> QED
    BY <2>1 DEF Started
<1>12. Backed
  BY DEF RecoveryInit, Backed, NoBackup
<1> QED
  BY <1>2, <1>3, <1>4, <1>6, <1>7, <1>8, <1>9, <1>10, <1>11, <1>12 DEF RecoveryInv

(* The invariant: the volume, its archives and its snapshots hold stores   *)
(* the judged builds can have left, and every process at work holds what   *)
(* it read while it read it.                                               *)
THEOREM RecoveryInvHolds == RecoverySpec => []RecoveryInv
<1>1. RecoveryInit => RecoveryInv
  BY RecoveryStarts
<1>2. RecoveryInv /\ [RecoveryNext]_recoveryVars => RecoveryInv'
  <2> SUFFICES ASSUME RecoveryInv, [RecoveryNext]_recoveryVars PROVE RecoveryInv'
    OBVIOUS
  <2>1. /\ Staged /\ Shaped /\ Stores /\ Holders /\ InPlan /\ Judged /\ EpochsLinked
        /\ ServedFits /\ Restored /\ Started /\ Backed
    BY DEF RecoveryInv
  <2>2. Staged' /\ Shaped' /\ Holders'
    BY <2>1, StagedNext, ShapedNext, HoldersNext
  <2>3. Stores' /\ InPlan' /\ Judged'
    BY <2>1, StoresNext, InPlanNext, JudgedNext
  <2>4. EpochsLinked' /\ ServedFits'
    BY <2>1, EpochsLinkedNext, ServedFitsNext
  <2>5. Restored' /\ Started' /\ Backed'
    BY <2>1, RestoredNext, StartedNext, BackedNext
  <2> QED
    BY <2>2, <2>3, <2>4, <2>5 DEF RecoveryInv
<1> QED
  BY <1>1, <1>2, PTL DEF RecoverySpec

(* Under every order of deploy steps, backups, restores and starts, with   *)
(* crashes: every store records a version of a set once and nothing before *)
(* what it requires, epochs are linked and a restore left recorded, and a  *)
(* cell serves only a store its build was judged ready for.                *)
THEOREM DeploySoundHolds == RecoverySpec => []DeploySound
<1>1. RecoveryInv => DeploySound
  <2> SUFFICES ASSUME RecoveryInv PROVE DeploySound
    OBVIOUS
  <2> USE DEF RecoveryInv
  <2>1. StoreOK(scene, db) /\ \A a \in archives : StoreOK(scene, a.snap)
    BY DEF Stores, Left
  <2>2. lockFile \in {"none", "held", "left"} /\ (lockFile = "held" => owner # NoOne)
    BY DEF Holders
  <2>3. /\ cell.pc \in {"down", "ready", "open", "check", "boot", "serving", "stop"}
        /\ cell.pc # "down" <=> owner = "cell"
        /\ \A d \in Step : deploy[d].owns <=> owner = d
        /\ backup.owns <=> owner = "backup"
        /\ \A a, b \in archives : a.name = b.name => a = b
    BY DEF Holders, Shaped, CellPc
  <2>4. restore.pc \notin {"idle", "done", "already"} <=> owner = "restore"
    BY DEF Holders, Shaped, RestorePc, Busy
  <2>5. RecoveryTypeOK
    BY <2>1, <2>2, <2>3, <2>4 DEF RecoveryTypeOK
  <2>6. RequirementsMet
    BY DEF Stores, Left, RequirementsMet
  <2> QED
    BY <2>5, <2>6 DEF DeploySound, SchemaHolds
<1> QED
  BY <1>1, RecoveryInvHolds, PTL

-----------------------------------------------------------------------------
(* The key files.                                                          *)

(* What a restore has written is the archive's; what it wrote last and     *)
(* recorded is whole, until a restore begins a file again.                 *)
Undisturbed == restore.pc \in Busy => restore.pc = "keys" /\ restore.wrote = {}
Keyed ==
    /\ keys = [f \in KeyFile |-> keys[f]]
    /\ \A a \in archives : a.key = [f \in KeyFile |-> a.key[f]]
    /\ marker \in MarkerRec => marker.archive \in {a.name : a \in archives}
    /\ restore.wrote \subseteq KeyFile
    /\ restore.pc = "keys" => \A f \in restore.wrote : keys[f] = Restoring.key[f]
    /\ restore.pc \in Busy \ {"keys"} => keys = Restoring.key
    /\ (torn = None /\ marker # None /\ Undisturbed) => keys = Of(marker.archive).key

(* Only a restore writes a key file.                                       *)
LEMMA KeySteps ==
    ASSUME [RecoveryNext]_recoveryVars
    PROVE  \/ UNCHANGED <<keys, torn, restore>> /\ (marker' = marker \/ CellHealthy)
           \/ \E a \in Archive : RestoreStart(a)
           \/ \E f \in KeyFile : RestoreKey(f)
           \/ RestoreReset \/ RestorePlace \/ RestoreClear \/ RestoreRauthy
           \/ RestoreMark \/ RestoreEnd \/ RestoreCrash
<1> USE DEF deployed, world
<1>1. CASE DeployBeside
  BY <1>1 DEF DeployBeside, DeployNext, DeployOpen, DeployPlan, DeployApply, DeployReread,
              DeployAppend, DeployJudge, DeployRecord, DeployEnd, DeployAgain, DeployCrash,
              DeployLost
<1>2. CASE \/ OutsideRequest \/ Tick \/ ClockBack \/ \E t \in 0..scene.until : Vacuum(t)
           \/ UNCHANGED recoveryVars
  BY <1>2 DEF OutsideRequest, Tick, ClockBack, Vacuum, recoveryVars
<1>3. CASE \/ BackupOpen \/ BackupList \/ BackupWaited \/ BackupTrigger \/ BackupPoll
           \/ BackupRauthy \/ BackupDeliver \/ BackupEnd
  BY <1>3 DEF BackupOpen, BackupList, BackupWaited, BackupTrigger, BackupPoll, BackupRauthy,
              BackupDeliver, BackupEnd
<1>4. CASE ClearLock
  BY <1>4 DEF ClearLock
<1>5. CASE \/ \E b \in Binary : CellPrepare(b)
           \/ CellHealthy \/ CellOpen \/ CellCheck \/ CellBoot \/ CellWrite \/ RauthyWrite
           \/ CellStop \/ CellCrash
  BY <1>5 DEF CellPrepare, CellHealthy, CellOpen, CellCheck, CellBoot, CellWrite, RauthyWrite,
              CellStop, CellCrash
<1> QED
  BY <1>1, <1>2, <1>3, <1>4, <1>5 DEF RecoveryNext

(* An archive stays what it is under its name.                             *)
LEMMA ArchivesStay ==
    ASSUME Shaped, Holders, Keyed, [RecoveryNext]_recoveryVars
    PROVE  /\ \A n \in {a.name : a \in archives} :
                  n \in {a.name : a \in archives'} /\ Of(n)' = Of(n)
           /\ \A a \in archives' : a.key = [f \in KeyFile |-> a.key[f]]
<1>1. CASE archives' = archives
  BY <1>1 DEF Of, Keyed
<1>2. CASE BackupDeliver
  <2>1. PICK c \in Archive \ {x.name : x \in archives} : archives' = archives \cup {Sealed(c)}
    BY <1>2 DEF BackupDeliver
  <2>2. Sealed(c).name = c /\ Sealed(c).key = keys
    BY DEF Sealed
  <2>3. ASSUME NEW n \in {a.name : a \in archives}
        PROVE  n \in {a.name : a \in archives'} /\ Of(n)' = Of(n)
    <3>1. PICK a \in archives : a.name = n
      OBVIOUS
    <3>2. \A x \in archives : x.name = n => x = a
      BY <3>1 DEF Holders
    <3>3. a \in archives' /\ \A x \in archives' : x.name = n => x = a
      BY <2>1, <2>2, <3>1, <3>2
    <3>4. Of(n) = a
      BY <3>1, <3>2 DEF Of
    <3>5. Of(n)' = a
      BY <3>1, <3>3 DEF Of
    <3> QED
      BY <3>1, <3>3, <3>4, <3>5
  <2> QED
    BY <2>1, <2>2, <2>3 DEF Keyed
<1> QED
  BY <1>1, <1>2, TakenNext

(* A restore in its last steps has written every key file.                 *)
LEMMA KeyedNext ==
    ASSUME Shaped, Holders, Started, Keyed, [RecoveryNext]_recoveryVars
    PROVE  Keyed'
<1> USE StepAssumption, NoneAssumption
<1> DEFINE Names == {a.name : a \in archives}
<1>1. /\ \A n \in Names : n \in Names' /\ Of(n)' = Of(n)
      /\ \A a \in archives' : a.key = [f \in KeyFile |-> a.key[f]]
  BY ArchivesStay
<1>2. restore.pc # "idle" => restore.of \in Names /\ restore.of \in Archive
  BY DEF Shaped
<1>3. Unreadable \notin MarkerRec /\ None \notin MarkerRec
  BY DEF MarkerRec
<1>4. torn = None /\ marker # None => marker \in MarkerRec
  BY DEF Shaped, Holders
<1>5. \A n \in Names : \E a \in archives : a = Of(n) /\ a.name = n
  BY DEF Of
<1>6. restore.pc # "idle" => Restoring.key = [f \in KeyFile |-> Restoring.key[f]]
  BY <1>2, <1>5 DEF Keyed, Restoring
<1>7. CASE UNCHANGED <<keys, torn, restore>> /\ (marker' = marker \/ CellHealthy)
  <2>1. \/ marker' = marker
        \/ marker \in MarkerRec /\ marker' \in MarkerRec /\ marker'.archive = marker.archive
    <3>1. CellHealthy => owner # "restore"
      BY DEF CellHealthy, Holders
    <3> QED
      BY <1>7, <3>1, MarkerSteps
  <2>2. restore.pc # "idle" => Restoring' = Restoring
    BY <1>1, <1>2, <1>7 DEF Restoring
  <2>3. /\ restore'.pc = "keys" => \A f \in restore'.wrote : keys'[f] = Restoring'.key[f]
        /\ restore'.pc \in Busy \ {"keys"} => keys' = Restoring'.key
    BY <1>7, <2>2 DEF Keyed, Busy
  <2>4. marker' \in MarkerRec => marker'.archive \in Names'
    BY <1>1, <2>1 DEF Keyed
  <2>5. (torn' = None /\ marker' # None /\ Undisturbed') => keys' = Of(marker.archive)'.key
    <3>1. SUFFICES ASSUME torn' = None, marker' # None, Undisturbed'
                   PROVE  keys' = Of(marker.archive)'.key
      OBVIOUS
    <3>2. torn = None /\ marker # None /\ Undisturbed /\ keys' = keys
      BY <1>3, <1>7, <2>1, <3>1 DEF Undisturbed
    <3>3. marker \in MarkerRec /\ marker'.archive = marker.archive
      BY <1>4, <2>1, <3>2
    <3>4. keys = Of(marker.archive).key /\ marker.archive \in Names
      BY <3>2, <3>3 DEF Keyed
    <3>5. Of(marker.archive)' = Of(marker.archive)
      BY <1>1, <3>3, <3>4 DEF Of
    <3> QED
      BY <3>2, <3>4, <3>5
  <2>6. keys' = [f \in KeyFile |-> keys'[f]] /\ restore'.wrote \subseteq KeyFile
    BY <1>7 DEF Keyed
  <2> QED
    BY <1>1, <2>3, <2>4, <2>5, <2>6 DEF Keyed
<1> USE DEF deployed, world, RestoreAt, Busy
<1>8. ASSUME NEW a \in Archive, RestoreStart(a) PROVE Keyed'
  <2>1. UNCHANGED <<keys, torn, marker, archives>> /\ restore.pc = "idle"
    BY <1>8 DEF RestoreStart
  <2>2. \/ restore' = restore
        \/ restore'.pc = "already" /\ restore'.wrote = {}
        \/ restore'.pc = "keys" /\ restore'.wrote = {}
    BY <1>8 DEF RestoreStart
  <2>3. /\ restore'.wrote \subseteq KeyFile /\ Undisturbed
        /\ restore'.pc \notin Busy \ {"keys"} /\ (restore'.pc = "keys" => restore'.wrote = {})
    BY <2>1, <2>2 DEF Keyed, Undisturbed
  <2>4. Of(marker.archive)' = Of(marker.archive)
    BY <2>1 DEF Of
  <2> QED
    BY <2>1, <2>3, <2>4 DEF Keyed
<1>9. ASSUME NEW f \in KeyFile, RestoreKey(f) PROVE Keyed'
  <2>1. /\ UNCHANGED <<torn, marker, archives>> /\ restore.pc = "keys"
        /\ keys' = [keys EXCEPT ![f] = Restoring.key[f]]
    BY <1>9 DEF RestoreKey
  <2>2. /\ restore'.of = restore.of /\ restore'.wrote = restore.wrote \cup {f}
        /\ restore'.pc = IF KeyFile \subseteq restore.wrote \cup {f} THEN "reset" ELSE "keys"
    BY <1>9 DEF RestoreKey, Shaped, NoRestore
  <2>3. Restoring' = Restoring
    BY <2>1, <2>2 DEF Restoring, Of
  <2>4. keys' = [g \in KeyFile |-> IF g = f THEN Restoring.key[f] ELSE keys[g]]
    BY <2>1 DEF Keyed
  <2>5. \A g \in restore.wrote \cup {f} : g \in KeyFile => keys'[g] = Restoring.key[g]
    BY <2>1, <2>4 DEF Keyed
  <2>6. restore.wrote \subseteq KeyFile
    BY DEF Keyed
  <2>7. restore'.pc = "reset" => keys' = Restoring.key
    <3>1. SUFFICES ASSUME restore'.pc = "reset" PROVE keys' = Restoring.key
      OBVIOUS
    <3>2. KeyFile \subseteq restore.wrote \cup {f}
      BY <2>2, <3>1
    <3>3. \A g \in KeyFile : keys'[g] = Restoring.key[g]
      BY <2>5, <3>2
    <3>4. keys' = [g \in KeyFile |-> Restoring.key[g]]
      BY <2>4, <3>3
    <3> QED
      BY <1>6, <2>1, <3>4
  <2>8. keys' = [g \in KeyFile |-> keys'[g]]
    BY <2>4
  <2>9. ~Undisturbed'
    BY <2>2 DEF Undisturbed
  <2> QED
    BY <1>1, <2>1, <2>2, <2>3, <2>5, <2>6, <2>7, <2>8, <2>9 DEF Keyed
<1>10. CASE RestoreReset \/ RestorePlace \/ RestoreClear \/ RestoreRauthy
  <2>1. /\ UNCHANGED <<keys, torn, marker, archives>> /\ restore.pc \in Busy \ {"keys"}
        /\ restore'.of = restore.of /\ restore'.pc \in Busy \ {"keys"}
        /\ restore'.wrote = restore.wrote
    BY <1>10 DEF RestoreReset, RestorePlace, RestoreClear, RestoreRauthy, Shaped, NoRestore
  <2>2. Restoring' = Restoring /\ ~Undisturbed'
    BY <2>1 DEF Restoring, Of, Undisturbed
  <2> QED
    BY <2>1, <2>2 DEF Keyed
<1>11. CASE RestoreMark
  <2>1. /\ UNCHANGED <<keys, archives>> /\ restore.pc = "mark" /\ torn' = None
        /\ marker' = Marker(restore) /\ restore'.pc = "done" /\ restore'.wrote = restore.wrote
    BY <1>11 DEF RestoreMark, Shaped, NoRestore
  <2>2. Marker(restore).archive = restore.of
    BY DEF Marker
  <2>3. keys = Of(restore.of).key /\ restore.of \in Names
    BY <1>2, <2>1 DEF Keyed, Restoring
  <2>4. Of(marker.archive)' = Of(restore.of)
    BY <2>1, <2>2 DEF Of
  <2> QED
    BY <2>1, <2>2, <2>3, <2>4 DEF Keyed
<1>12. CASE RestoreEnd
  <2>1. /\ UNCHANGED <<keys, torn, marker, archives>> /\ restore.pc \in {"done", "already"}
        /\ restore'.pc = "idle" /\ restore'.wrote = {}
    BY <1>12 DEF RestoreEnd, NoRestore
  <2>2. Of(marker.archive)' = Of(marker.archive) /\ Undisturbed
    BY <2>1 DEF Of, Undisturbed
  <2> QED
    BY <2>1, <2>2 DEF Keyed
<1>13. CASE RestoreCrash
  <2>1. /\ archives' = archives /\ restore.pc \in Busy /\ restore'.pc = "idle"
        /\ restore'.wrote = {} /\ marker' \in {marker, Unreadable}
    BY <1>13 DEF RestoreCrash, NoRestore, Shaped, RestorePc
  <2>2. keys' = [f \in KeyFile |-> keys'[f]]
    <3>1. ASSUME NEW f \in KeyFile, keys' = [keys EXCEPT ![f] = Unreadable]
          PROVE  keys' = [g \in KeyFile |-> keys'[g]]
      BY <3>1 DEF Keyed
    <3> QED
      BY <1>13, <3>1 DEF RestoreCrash, Keyed
  <2>3. torn' = None => torn = None /\ keys' = keys /\ Undisturbed /\ marker' = marker
    <3>1. restore.of # None
      BY <1>2, <2>1
    <3> QED
      BY <1>13, <3>1 DEF RestoreCrash, Undisturbed
  <2>4. marker' \in MarkerRec => marker'.archive \in Names'
    BY <1>1, <1>3, <2>1 DEF Keyed
  <2>5. marker' = marker => Of(marker.archive)' = Of(marker.archive)
    BY <2>1 DEF Of
  <2> QED
    BY <2>1, <2>2, <2>3, <2>4, <2>5 DEF Keyed
<1> QED
  BY <1>7, <1>8, <1>9, <1>10, <1>11, <1>12, <1>13, KeySteps

(* At every moment what a completed restore recorded is on the volume.     *)
LEMMA KeyedHolds == RecoverySpec => []Keyed
<1>1. RecoveryInit => Keyed
  <2> SUFFICES ASSUME RecoveryInit PROVE Keyed
    OBVIOUS
  <2>1. \A a \in archives : a.key = [f \in KeyFile |-> a.key[f]]
    BY ScenesAssumption DEF RecoveryInit
  <2>2. keys = [f \in KeyFile |-> keys[f]]
    BY DEF RecoveryInit, KeySet
  <2>3. /\ marker = None /\ restore.pc = "idle" /\ restore.wrote = {}
        /\ None \notin MarkerRec
    BY NoneAssumption DEF RecoveryInit, NoRestore, MarkerRec
  <2> QED
    BY <2>1, <2>2, <2>3 DEF Keyed, Busy
<1>2. RecoveryInv /\ Keyed /\ [RecoveryNext]_recoveryVars => Keyed'
  BY KeyedNext DEF RecoveryInv
<1> QED
  BY <1>1, <1>2, RecoveryInvHolds, PTL DEF RecoverySpec

(* Whatever crashes came before, a cell that serves after a completed      *)
(* restore serves that archive and its whole key set, with its floor raised*)
(* to the restore; a restore that died amid a write since is exempt.       *)
THEOREM ServesWhatWasRestoredHolds == RecoverySpec => []ServesWhatWasRestored
<1>1. RecoveryInv /\ Keyed => ServesWhatWasRestored
  <2> SUFFICES ASSUME RecoveryInv, Keyed, cell.pc = "serving", torn = None, marker # None
               PROVE  /\ db.src = marker.archive /\ rauthy.src = marker.archive
                      /\ marker.applied /\ db.floor >= db.since
                      /\ db.key = keys["ledger"] /\ keys = Of(marker.archive).key
    BY DEF ServesWhatWasRestored
  <2> USE DEF RecoveryInv
  <2>1. owner = "cell" /\ owner # NoOne /\ restore.pc \notin Busy
    BY StepAssumption DEF Holders
  <2>2. marker # Unreadable /\ marker \in MarkerRec
    BY <2>1 DEF Holders, Shaped
  <2>3. marker.applied /\ rauthy.src = marker.archive
    BY <2>2 DEF Started, Owing
  <2>4. db.src = marker.archive /\ db.since = marker.owed
    BY <2>1 DEF Restored, Busy
  <2>5. db.floor >= marker.owed /\ db.key = keys["ledger"]
    BY <2>2 DEF Started, Owed
  <2>6. keys = Of(marker.archive).key
    BY <2>1 DEF Keyed, Undisturbed
  <2> QED
    BY <2>3, <2>4, <2>5, <2>6
<1> QED
  BY <1>1, RecoveryInvHolds, KeyedHolds, PTL

(* A backup's snapshot holds what was written before it was asked for, and *)
(* an archive judged restorable is restorable on the database it holds.    *)
THEOREM ArchiveSoundHolds == RecoverySpec => []ArchiveSound
<1>1. RecoveryInv => ArchiveSound
  <2> SUFFICES ASSUME RecoveryInv PROVE ArchiveSound
    OBVIOUS
  <2> USE DEF RecoveryInv
  <2>1. backup.snap # None => backup.snap.data >= backup.asked
    BY DEF Backed, Holds
  <2>2. \A a \in archives, b \in Binary :
            Restorable(a.rows, b) => Restorable(Checksummed(a.snap), b)
    BY DEF Stores
  <2> QED
    BY <2>1, <2>2 DEF ArchiveSound
<1> QED
  BY <1>1, RecoveryInvHolds, PTL

(* No step of rauthy's loses a write, except under another restore than    *)
(* the one it was written under.                                           *)
LEMMA RauthySteps ==
    ASSUME Shaped, Started, [RecoveryNext]_recoveryVars, rauthy'.data < rauthy.data
    PROVE  marker # rauthy.under
<1> USE DEF deployed, world, Shaped
<1>1. CASE \E b \in Binary : CellPrepare(b)
  <2>1. Owing
    <3>1. SUFFICES ASSUME ~Owing PROVE rauthy'.data = rauthy.data
      OBVIOUS
    <3> QED
      BY <1>1, <3>1 DEF CellPrepare
  <2>2. marker # None /\ ~marker.applied
    BY <2>1 DEF Owing
  <2> QED
    BY <2>2 DEF Started
<1>2. CASE RauthyWrite
  BY <1>2 DEF RauthyWrite
<1>3. CASE CellStop \/ CellCrash
  BY <1>3 DEF CellStop, CellCrash
<1>4. CASE \/ OutsideRequest \/ Tick \/ ClockBack \/ \E t \in 0..scene.until : Vacuum(t)
           \/ DeployBeside \/ UNCHANGED recoveryVars
  <2>1. rauthy' = rauthy
    BY <1>4 DEF OutsideRequest, Tick, ClockBack, Vacuum, DeployBeside, recoveryVars
  <2> QED
    BY <2>1
<1>5. CASE \/ BackupOpen \/ BackupList \/ BackupWaited \/ BackupTrigger \/ BackupPoll
           \/ BackupRauthy \/ BackupDeliver \/ BackupEnd
  BY <1>5 DEF BackupOpen, BackupList, BackupWaited, BackupTrigger, BackupPoll, BackupRauthy,
              BackupDeliver, BackupEnd
<1>6. CASE \/ \E a \in Archive : RestoreStart(a)
           \/ \E f \in KeyFile : RestoreKey(f)
           \/ RestoreReset \/ RestorePlace \/ RestoreClear \/ RestoreRauthy
           \/ RestoreMark \/ RestoreEnd \/ RestoreCrash \/ ClearLock
  <2>1. rauthy' = rauthy
    BY <1>6 DEF RestoreStart, RestoreKey, RestoreReset, RestorePlace, RestoreClear,
                RestoreRauthy, RestoreMark, RestoreEnd, RestoreCrash, ClearLock
  <2> QED
    BY <2>1
<1>7. CASE CellHealthy \/ CellOpen \/ CellCheck \/ CellBoot \/ CellWrite
  BY <1>7 DEF CellHealthy, CellOpen, CellCheck, CellBoot, CellWrite
<1> QED
  BY <1>1, <1>2, <1>3, <1>4, <1>5, <1>6, <1>7 DEF RecoveryNext

(* Nothing written to rauthy while a cell served is lost, unless a restore *)
(* completed after the write.                                              *)
THEOREM RauthyIsKeptHolds == RecoverySpec => RauthyIsKept
<1>1. RecoveryInv /\ [RecoveryNext]_recoveryVars
      => [rauthy'.data < rauthy.data => marker # rauthy.under]_recoveryVars
  BY RauthySteps DEF RecoveryInv
<1> QED
  BY <1>1, RecoveryInvHolds, PTL DEF RecoverySpec, RauthyIsKept
=============================================================================
