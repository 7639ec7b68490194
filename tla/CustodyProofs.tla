--------------------------- MODULE CustodyProofs ---------------------------
(* Theorems about Custody, for every finite set of replicas, every set of  *)
(* scopes, every sequence of versions and every scene.                     *)
EXTENDS Custody, TLAPS

----------------------------------------------------------------------------
(* What a call writes over a replica's record.                             *)

Field == {"pc", "version", "files", "torn", "file", "admin", "using", "copy", "minted",
          "catalog", "again", "found"}

(* A record whose fields a replica has, in their types.                    *)
Fits(c) ==
    /\ DOMAIN c \subseteq Field
    /\ "pc" \in DOMAIN c => c["pc"] \in Step
    /\ "version" \in DOMAIN c => c["version"] \in Version
    /\ "files" \in DOMAIN c => c["files"] \in SUBSET (KeyFile \cup Rendered)
    /\ "torn" \in DOMAIN c => c["torn"] \in SUBSET (KeyFile \cup Rendered)
    /\ "file" \in DOMAIN c => c["file"] \in Nat \cup {None}
    /\ "admin" \in DOMAIN c => c["admin"] \in {"none", "usable", "failed"}
    /\ "using" \in DOMAIN c => c["using"] \in Nat \cup {None}
    /\ "copy" \in DOMAIN c => c["copy"] \in Client \cup Native \cup {None}
    /\ "minted" \in DOMAIN c => c["minted"] \in Nat \cup {None}
    /\ "catalog" \in DOMAIN c => c["catalog"] \in SUBSET Scope
    /\ "again" \in DOMAIN c => c["again"] \in BOOLEAN
    /\ "found" \in DOMAIN c => c["found"] \in BOOLEAN

(* Written over a replica, it leaves a replica.                            *)
LEMMA OverReplica == ASSUME NEW r \in Replica, NEW c, Fits(c) PROVE Over(c, r) \in Replica
<1> DEFINE o == Over(c, r)
<1>1. DOMAIN r = Field
  BY DEF Replica, Field
<1>2. /\ r.pc \in Step /\ r.version \in Version /\ r.files \in SUBSET (KeyFile \cup Rendered)
      /\ r.torn \in SUBSET (KeyFile \cup Rendered) /\ r.file \in Nat \cup {None}
      /\ r.admin \in {"none", "usable", "failed"} /\ r.using \in Nat \cup {None}
      /\ r.copy \in Client \cup Native \cup {None} /\ r.minted \in Nat \cup {None}
      /\ r.catalog \in SUBSET Scope /\ r.again \in BOOLEAN /\ r.found \in BOOLEAN
  BY DEF Replica
<1>3. DOMAIN o = Field /\ \A x \in Field : o[x] = IF x \in DOMAIN c THEN c[x] ELSE r[x]
  BY <1>1 DEF Over, Fits
<1>4. /\ o.pc \in Step /\ o.version \in Version /\ o.files \in SUBSET (KeyFile \cup Rendered)
      /\ o.torn \in SUBSET (KeyFile \cup Rendered) /\ o.file \in Nat \cup {None}
      /\ o.admin \in {"none", "usable", "failed"}
  BY <1>2, <1>3 DEF Fits, Field
<1>5. /\ o.using \in Nat \cup {None} /\ o.copy \in Client \cup Native \cup {None}
      /\ o.minted \in Nat \cup {None} /\ o.catalog \in SUBSET Scope
      /\ o.again \in BOOLEAN /\ o.found \in BOOLEAN
  BY <1>2, <1>3 DEF Fits, Field
<1>6. o = [pc |-> o.pc, version |-> o.version, files |-> o.files, torn |-> o.torn,
           file |-> o.file, admin |-> o.admin, using |-> o.using, copy |-> o.copy,
           minted |-> o.minted, catalog |-> o.catalog, again |-> o.again, found |-> o.found]
  BY <1>1, <1>3 DEF Over, Field, Fits
<1> HIDE DEF o
<1>7. o \in Replica
  BY <1>4, <1>5, <1>6 DEF Replica
<1> QED
  BY <1>7 DEF o

(* The whole step: one replica has what was written, the others are as     *)
(* they were.                                                              *)
LEMMA CallOf ==
    ASSUME TypeOK, NEW n \in scene.nodes, NEW c, Fits(c), scene' = scene,
           cell' = [cell EXCEPT ![n] = Over(c, @)]
    PROVE  /\ cell' \in [scene'.nodes -> Replica]
           /\ \A m \in scene.nodes : m # n => cell'[m] = cell[m]
           /\ \A x \in Field : cell'[n][x] = IF x \in DOMAIN c THEN c[x] ELSE cell[n][x]
<1>1. cell \in [scene.nodes -> Replica]
  BY DEF TypeOK
<1>2. Over(c, cell[n]) \in Replica
  BY <1>1, OverReplica
<1>3. DOMAIN cell[n] = Field
  BY <1>1 DEF Replica, Field
<1> QED
  BY <1>1, <1>2, <1>3 DEF Over, Fits

(* The ends of an attempt fit.                                             *)
LEMMA EndsFit ==
    /\ \A s \in Step : Fits(Afresh(s))
    /\ \A a \in {"none", "usable", "failed"} : Fits([admin |-> a, pc |-> AfterAdmin])
    /\ Fits(Ended)
    /\ \A n \in Node : Fits(Custody(n))
<1>1. \A s \in Step : Fits(Afresh(s))
  BY DEF Fits, Field, Afresh
<1>2. AfterAdmin \in Step /\ \A n \in Node : AfterCustody(n) \in Step
  BY DEF AfterAdmin, AfterCustody, Step, Call, AdminStep, ClientStep
<1>3. \A a \in {"none", "usable", "failed"} : Fits([admin |-> a, pc |-> AfterAdmin])
  BY <1>2 DEF Fits, Field
<1>4. "down" \in Step /\ "pause" \in Step
  BY DEF Step
<1> QED
  BY <1>1, <1>2, <1>3, <1>4 DEF Ended, Custody

(* What a scene brings.                                                    *)
LEMMA SceneFacts ==
    ASSUME TypeOK
    PROVE  /\ scene.mode \in {"supervise", "remote"} /\ scene.nodes \subseteq Node
           /\ scene.nodes # {} /\ scene.last \in Version
           /\ scene.mode = "supervise" => \E n \in Node : scene.nodes = {n}
BY ScenesAssumption DEF TypeOK

(* Versions are numbered, and a rollout's next one is one of them.         *)
LEMMA VersionFacts ==
    /\ Version \subseteq Nat /\ 1 \in Version
    /\ \A v, w \in Version : v < w => v + 1 \in Version
BY CustodyAssumption DEF Version

(* While a key is missing, the first one of the order is found.            *)
LEMMA UnwrittenIsKey ==
    ASSUME NEW n, ~(KeyFile \subseteq cell[n].files)
    PROVE  Unwritten(n) \in KeyFile /\ Unwritten(n) \notin cell[n].files
<1> DEFINE Lacks(i) == /\ KeyOrder[i] \notin cell[n].files
                       /\ \A j \in 1 .. i - 1 : KeyOrder[j] \in cell[n].files
<1>1. DOMAIN KeyOrder = 1 .. 7
  BY DEF KeyOrder
<1>2. \E i \in DOMAIN KeyOrder : Lacks(i)
  <2>1. \E i \in 1 .. 7 : KeyOrder[i] \notin cell[n].files
    BY <1>1 DEF KeyFile
  <2>2. ASSUME \A i \in 1 .. 7 : ~Lacks(i) PROVE FALSE
    <3>1. KeyOrder[1] \in cell[n].files
      BY <2>2
    <3>2. KeyOrder[2] \in cell[n].files
      BY <2>2, <3>1
    <3>3. KeyOrder[3] \in cell[n].files
      BY <2>2, <3>1, <3>2
    <3>4. KeyOrder[4] \in cell[n].files
      BY <2>2, <3>1, <3>2, <3>3
    <3>5. KeyOrder[5] \in cell[n].files
      BY <2>2, <3>1, <3>2, <3>3, <3>4
    <3>6. KeyOrder[6] \in cell[n].files
      BY <2>2, <3>1, <3>2, <3>3, <3>4, <3>5
    <3>7. KeyOrder[7] \in cell[n].files
      BY <2>2, <3>1, <3>2, <3>3, <3>4, <3>5, <3>6
    <3> QED
      BY <2>1, <3>1, <3>2, <3>3, <3>4, <3>5, <3>6, <3>7
  <2> QED
    BY <1>1, <2>2
<1>3. Lacks(CHOOSE i \in DOMAIN KeyOrder : Lacks(i))
      /\ (CHOOSE i \in DOMAIN KeyOrder : Lacks(i)) \in DOMAIN KeyOrder
  BY <1>2
<1> QED
  BY <1>3 DEF Unwritten, KeyFile

----------------------------------------------------------------------------
(* The invariant.                                                          *)

(* A run that mints has a key left to mint, and a key that is not there    *)
(* was never minted.                                                       *)
Minting ==
    \A n \in scene.nodes :
        /\ cell[n].pc = "minting" => ~(KeyFile \subseteq cell[n].files)
        /\ \A f \in KeyFile : f \notin cell[n].files => told.mints[n][f] = 0

(* One replica provisions the backup admin; while the account is usable it *)
(* does not remake it, and what it converts has its passkey.               *)
Provider(n) == Supervised \/ ProvisionsBackupAdmin(n)
Remaking == {"role", "createUser", "setPassword", "login", "register", "convert"}
Provided ==
    \A n \in scene.nodes :
        /\ cell[n].pc \in AdminStep \/ cell[n].admin # "none" => Provider(n)
        /\ cell[n].admin = "usable" => cell[n].pc \notin Remaking
        /\ cell[n].pc = "convert" /\ Session(n) => rauthy.account.passkey

(* The secret a replica would present: the one it has just been told, else *)
(* its file.  One that is not excused holds Rauthy's or none.              *)
Holding(n) == IF cell[n].minted # None THEN cell[n].minted ELSE cell[n].file
Held ==
    \A n \in scene.nodes :
        /\ cell[n].minted # None => cell[n].pc \in {"reread", "update", "secret"}
        /\ cell[n].pc = "serving" => cell[n].using = cell[n].file /\ cell[n].file # None
        /\ n \notin told.excused =>
              Holding(n) = None \/ (rauthy.client # None /\ Holding(n) = rauthy.client.secret)

(* A replica that puts the client back read one, with what the operator    *)
(* added.                                                                  *)
Putting == {"update", "putLifetime"}
Copied ==
    \A n \in scene.nodes :
        cell[n].pc \in Putting => cell[n].copy \in Client /\ (told.widened => cell[n].copy.extra)

(* A replica is past custody, and when all are, at one version, the last   *)
(* of them left the native client as that version declares it.  Only a     *)
(* remote cell waits before it tries again.                                *)
Past(n) ==
    \/ cell[n].pc \in {"load", "serving"}
    \/ Supervised /\ cell[n].pc = "discover"
    \/ ~Supervised /\ cell[n].pc \in AdminStep
Paused == \A n \in scene.nodes : cell[n].pc = "pause" => ~Supervised
Ceiling ==
    \A v \in Version :
        (/\ ~told.drifted /\ Declared[v] # {} /\ rauthy.native # None
         /\ \A n \in scene.nodes : Past(n) /\ cell[n].version = v)
        => rauthy.native.grants = Declared[v]

CustodyInv ==
    /\ TypeOK /\ Minting /\ KeysMintedOnce /\ Provided /\ PasskeySound
    /\ Held /\ Copied /\ OperatorKept /\ Paused /\ Ceiling

(* The types of a replica's fields.                                        *)
LEMMA ReplicaFacts ==
    ASSUME TypeOK, NEW n \in scene.nodes
    PROVE  /\ n \in Node /\ cell[n].pc \in Step /\ cell[n].version \in Version
           /\ cell[n].files \in SUBSET (KeyFile \cup Rendered)
           /\ cell[n].torn \in SUBSET (KeyFile \cup Rendered)
           /\ cell[n].file \in Nat \cup {None} /\ cell[n].using \in Nat \cup {None}
           /\ cell[n].minted \in Nat \cup {None} /\ cell[n].catalog \in SUBSET Scope
           /\ cell[n].copy \in Client \cup Native \cup {None}
           /\ cell[n].admin \in {"none", "usable", "failed"}
BY SceneFacts DEF TypeOK, Replica

(* What a call that leaves Rauthy writes fits.                             *)
LEMMA CallFits ==
    ASSUME TypeOK, NEW n \in scene.nodes, NEW c, Then(n, c), Fits(c)
    PROVE  cell' \in [scene'.nodes -> Replica]
BY CallOf DEF Then

(* So does what one that writes Rauthy does.                               *)
LEMMA AnswerFits ==
    ASSUME TypeOK, NEW n \in scene.nodes, NEW r, NEW c, Answer(n, r, c), Fits(c)
    PROVE  cell' \in [scene'.nodes -> Replica]
BY CallOf DEF Answer

(* What a replica is writing is a key while it mints, and else a rendered  *)
(* file that is not there.                                                 *)
LEMMA WritingIs ==
    ASSUME Minting, NEW n \in scene.nodes, NEW f \in Writing(n)
    PROVE  \/ cell[n].pc = "minting" /\ f \in KeyFile
           \/ cell[n].pc = "rendering" /\ f \in Rendered
<1>1. CASE cell[n].pc = "minting"
  BY <1>1, UnwrittenIsKey DEF Writing, Minting
<1>2. CASE cell[n].pc = "rendering"
  BY <1>2 DEF Writing, Unrendered, Rendered
<1>3. CASE cell[n].pc \notin {"minting", "rendering"}
  BY <1>3 DEF Writing
<1> QED
  BY <1>1, <1>2, <1>3

(* Every replica stays one.                                                *)
LEMMA ReplicasKept == CustodyInv /\ Next => cell' \in [scene'.nodes -> Replica]
<1> SUFFICES ASSUME CustodyInv, Next PROVE cell' \in [scene'.nodes -> Replica]
  OBVIOUS
<1>1. TypeOK /\ Minting /\ rauthy \in Documents
  BY DEF CustodyInv, TypeOK
<1> DEFINE Kept == cell' \in [scene'.nodes -> Replica]
<1> HIDE DEF Kept
<1>2. ASSUME NEW n \in scene.nodes, NEW s \in Step, Then(n, [pc |-> s]) PROVE Kept
  <2>1. Fits([pc |-> s])
    BY DEF Fits, Field
  <2> QED
    BY <1>1, <1>2, <2>1, CallFits DEF Kept
<1>3. ASSUME NEW n \in scene.nodes, NEW r, NEW s \in Step, Answer(n, r, [pc |-> s]) PROVE Kept
  <2>1. Fits([pc |-> s])
    BY DEF Fits, Field
  <2> QED
    BY <1>1, <1>3, <2>1, AnswerFits DEF Kept
<1>4. ASSUME NEW n \in scene.nodes, NEW a \in {"none", "usable", "failed"}, Reported(n, a)
      PROVE  Kept
  BY <1>1, <1>4, CallFits, EndsFit DEF Kept, Reported
<1>5. ASSUME NEW n \in scene.nodes, Then(n, Ended) PROVE Kept
  BY <1>1, <1>5, CallFits, EndsFit DEF Kept
<1>6. ASSUME NEW n \in scene.nodes, Then(n, Custody(n)) PROVE Kept
  BY <1>1, <1>6, CallFits, EndsFit, ReplicaFacts DEF Kept
<1>7. ASSUME NEW n \in scene.nodes, NEW k \in Client \cup Native, NEW s \in Step,
             Then(n, [pc |-> s, copy |-> k])
      PROVE  Kept
  <2>1. Fits([pc |-> s, copy |-> k])
    BY DEF Fits, Field
  <2> QED
    BY <1>1, <1>7, <2>1, CallFits DEF Kept
<1>8. ASSUME NEW n \in scene.nodes, NEW r, NEW s \in Step, Answer(n, r, [pc |-> s, copy |-> None])
      PROVE  Kept
  <2>1. Fits([pc |-> s, copy |-> None])
    BY DEF Fits, Field
  <2> QED
    BY <1>1, <1>8, <2>1, AnswerFits DEF Kept
<1> USE DEF Step, Call
(* First boot.                                                             *)
<1>10. ASSUME NEW n \in Node, Start(n) PROVE Kept
  BY <1>2, <1>10 DEF Start, Due
<1>11. ASSUME NEW n \in Node, Mint(n) PROVE Kept
  <2>1. n \in scene.nodes /\ Unwritten(n) \in KeyFile
    BY <1>1, <1>11, UnwrittenIsKey DEF Mint, Due, Minting
  <2>2. PICK s \in Step : Then(n, [files |-> Written(n, Unwritten(n)), pc |-> s])
    BY <1>11 DEF Mint
  <2>3. Fits([files |-> Written(n, Unwritten(n)), pc |-> s])
    BY <1>1, <2>1, ReplicaFacts DEF Fits, Field, Written
  <2> QED
    BY <1>1, <2>1, <2>2, <2>3, CallFits DEF Kept
<1>12. ASSUME NEW n \in Node, Render(n) PROVE Kept
  <2>1. n \in scene.nodes
    BY <1>12 DEF Render, Due
  <2>2. Fits([files |-> Written(n, Unrendered(n))])
    BY <1>1, <2>1, ReplicaFacts DEF Fits, Field, Written, Unrendered, Rendered
  <2>3. \A s \in Step : Fits(Afresh(s))
    BY EndsFit
  <2> QED
    BY <1>1, <1>5, <1>12, <2>1, <2>2, <2>3, CallFits DEF Render, AdminStep, Kept
(* The backup admin.                                                       *)
<1>13. ASSUME NEW n \in Node, FindUser(n) PROVE Kept
  BY <1>2, <1>4, <1>13 DEF FindUser, Due, AdminStep
<1>14. ASSUME NEW n \in Node, ReadUser(n) PROVE Kept
  <2>1. Fits([pc |-> "role", found |-> TRUE])
    BY DEF Fits, Field, AdminStep
  <2> QED
    BY <1>1, <1>4, <1>14, <2>1, CallFits DEF ReadUser, Due, Kept
<1>15. ASSUME NEW n \in Node, EnsureRole(n) PROVE Kept
  BY <1>3, <1>15 DEF EnsureRole, Due, AdminStep
<1>16. ASSUME NEW n \in Node, CreateUser(n) PROVE Kept
  BY <1>3, <1>4, <1>16 DEF CreateUser, Due, AdminStep
<1>17. ASSUME NEW n \in Node, SetPassword(n) PROVE Kept
  BY <1>3, <1>4, <1>17 DEF SetPassword, Due, AdminStep
<1>18. ASSUME NEW n \in Node, Login(n) PROVE Kept
  BY <1>2, <1>4, <1>18 DEF Login, Due, AdminStep
<1>19. ASSUME NEW n \in Node, Register(n) PROVE Kept
  BY <1>3, <1>4, <1>19 DEF Register, Due, AdminStep
<1>20. ASSUME NEW n \in Node, Convert(n) PROVE Kept
  BY <1>1, <1>4, <1>20, AnswerFits, EndsFit DEF Convert, Due, Kept
(* The client.                                                             *)
<1>21. ASSUME NEW n \in Node, ReadClient(n) PROVE Kept
  BY <1>2, <1>5, <1>21 DEF ReadClient, Due, ClientStep
<1>22. ASSUME NEW n \in Node, Create(n) PROVE Kept
  <2>1. CASE Give(n)
    BY <1>5, <1>22, <2>1 DEF Create, Due, Give
  <2>2. CASE ~Give(n)
    <3> DEFINE r == [client |-> [secret |-> rauthy.secrets + 1, sound |-> FALSE, extra |-> FALSE,
                                 lifetime |-> 0],
                     secrets |-> rauthy.secrets + 1]
    <3> HIDE DEF r
    <3>1. PICK m \in {None, rauthy.secrets + 1} : Answer(n, r, [pc |-> "reread", minted |-> m])
      BY <1>22, <2>2 DEF Create, r
    <3>2. m \in Nat \cup {None}
      BY <1>1, <3>1 DEF Documents
    <3>3. Fits([pc |-> "reread", minted |-> m])
      BY <3>2 DEF Fits, Field, ClientStep
    <3> QED
      BY <1>1, <1>22, <3>1, <3>3, AnswerFits DEF Create, Due, Kept
  <2> QED
    BY <2>1, <2>2
<1>23. ASSUME NEW n \in Node, Reread(n) PROVE Kept
  BY <1>1, <1>5, <1>7, <1>23 DEF Reread, Due, ClientStep, Documents
<1>24. ASSUME NEW n \in Node, Update(n) PROVE Kept
  BY <1>5, <1>8, <1>24 DEF Update, Due, ClientStep
<1>25. ASSUME NEW n \in Node, KeepSecret(n) PROVE Kept
  <2>1. n \in scene.nodes
    BY <1>25 DEF KeepSecret, Due
  <2>2. ASSUME ~(cell[n].minted = None /\ cell[n].file = None /\ rauthy.client = None)
        PROVE  Fits([pc |-> "lifetime", file |-> Custodied(n), minted |-> None])
    <3>1. Custodied(n) \in Nat \cup {None}
      BY <1>1, <2>1, <2>2, ReplicaFacts DEF Custodied, Documents, Client
    <3> QED
      BY <3>1 DEF Fits, Field, ClientStep
  <2> QED
    BY <1>1, <1>5, <1>25, <2>1, <2>2, CallFits DEF KeepSecret, Kept
<1>26. ASSUME NEW n \in Node, ReadLifetime(n) PROVE Kept
  BY <1>1, <1>2, <1>5, <1>7, <1>26 DEF ReadLifetime, Due, ClientStep, NativeStep, Documents
<1>27. ASSUME NEW n \in Node, PutLifetime(n) PROVE Kept
  BY <1>5, <1>8, <1>27 DEF PutLifetime, Due, NativeStep
(* The native client.                                                      *)
<1>28. ASSUME NEW n \in Node, ReadScopes(n) PROVE Kept
  <2>1. Fits([pc |-> "scope", catalog |-> rauthy.scopes])
    BY <1>1 DEF Fits, Field, NativeStep, Documents
  <2> QED
    BY <1>1, <1>2, <1>5, <1>6, <1>28, <2>1, CallFits DEF ReadScopes, Due, Kept
<1>29. ASSUME NEW n \in Node, Reapply(n) PROVE Kept
  <2>1. Fits([pc |-> "readClient", again |-> TRUE])
    BY DEF Fits, Field, ClientStep
  <2> QED
    BY <1>1, <1>5, <1>29, <2>1, AnswerFits DEF Reapply, Due, Kept
<1>30. ASSUME NEW n \in Node, CreateScope(n) PROVE Kept
  <2>1. n \in scene.nodes
    BY <1>30 DEF CreateScope, Due
  <2>2. ASSUME NEW s \in Declares(n) \ cell[n].catalog
        PROVE  Fits([catalog |-> cell[n].catalog \cup {s}])
    <3>1. Declares(n) \subseteq Scope
      BY <1>1, <2>1, ReplicaFacts, CustodyAssumption DEF Declares, Version
    <3> QED
      BY <1>1, <2>1, <3>1, ReplicaFacts DEF Fits, Field
  <2> QED
    BY <1>1, <1>2, <1>5, <1>30, <2>1, <2>2, AnswerFits DEF CreateScope, NativeStep, Kept
<1>31. ASSUME NEW n \in scene.nodes, NEW k \in Native, Settle(n, k) PROVE Kept
  BY <1>6, <1>7, <1>31 DEF Settle, NativeStep
<1>32. ASSUME NEW n \in Node, ReadNative(n) PROVE Kept
  BY <1>1, <1>2, <1>31, <1>32 DEF ReadNative, Due, NativeStep, Documents
<1>33. ASSUME NEW n \in Node, CreateNative(n) PROVE Kept
  BY <1>3, <1>5, <1>33 DEF CreateNative, Due, NativeStep
<1>34. ASSUME NEW n \in Node, RereadNative(n) PROVE Kept
  BY <1>1, <1>5, <1>31, <1>34 DEF RereadNative, Due, Documents
<1>35. ASSUME NEW n \in Node, PutNative(n) PROVE Kept
  BY <1>1, <1>5, <1>35, AnswerFits, EndsFit DEF PutNative, Give, Due, Kept
(* The rest, faults, rollouts and the operator.                            *)
<1>36. ASSUME NEW n \in Node, Discover(n) \/ Retry(n) PROVE Kept
  BY <1>2, <1>36 DEF Discover, Retry, Due, ClientStep
<1>37. ASSUME NEW n \in Node, Load(n) PROVE Kept
  <2>1. n \in scene.nodes
    BY <1>37 DEF Load, Due
  <2>2. Fits(Over([using |-> cell[n].file], Afresh("serving")))
    BY <1>1, <2>1, ReplicaFacts DEF Fits, Field, Over, Afresh
  <2> QED
    BY <1>1, <1>5, <1>37, <2>1, <2>2, CallFits DEF Load, Kept
<1>38. ASSUME NEW n \in scene.nodes, NEW c, Fits(c), Broken(n, c), scene' = scene PROVE Kept
  BY <1>1, <1>38, CallOf DEF Broken, Kept
<1>39. ASSUME NEW n \in scene.nodes, NEW s \in Step, SecretCut(n, Afresh(s)), scene' = scene
       PROVE  Kept
  <2>1. Fits(Over([file |-> Half], Afresh(s)))
    BY DEF Fits, Field, Over, Afresh, Half
  <2> QED
    BY <1>1, <1>39, <2>1, CallOf DEF SecretCut, Kept
<1>43. ASSUME NEW n \in Node, Fail(n) PROVE Kept
  <2>1. n \in scene.nodes /\ scene' = scene
    BY <1>43 DEF Fail
  <2>2. PICK s \in Step : Ended = Afresh(s)
    BY DEF Ended
  <2> QED
    BY <1>38, <1>39, <1>43, <2>1, <2>2, EndsFit DEF Fail
<1>44. ASSUME NEW n \in Node, Crash(n) PROVE Kept
  <2>1. n \in scene.nodes /\ scene' = scene
    BY <1>44 DEF Crash
  <2>2. Fits(Over([using |-> None], Afresh("down")))
    BY DEF Fits, Field, Over, Afresh
  <2>3. ASSUME NEW f \in Writing(n)
        PROVE  Fits(Over([torn |-> cell[n].torn \cup {f}, files |-> Written(n, f)],
                         Afresh("down")))
    <3>1. f \in KeyFile \cup Rendered
      BY <1>1, <2>1, WritingIs
    <3> QED
      BY <1>1, <2>1, <3>1, ReplicaFacts DEF Fits, Field, Over, Afresh, Written
  <2> QED
    BY <1>38, <1>39, <1>44, <2>1, <2>2, <2>3 DEF Crash
<1>40. ASSUME NEW n \in Node, Upgrade(n) PROVE Kept
  <2>1. n \in scene.nodes /\ cell[n].version < scene.last
    BY <1>40 DEF Upgrade, Due
  <2>2. cell[n].version + 1 \in Version
    BY <1>1, <2>1, ReplicaFacts, SceneFacts, VersionFacts
  <2>3. Fits([pc |-> "down", using |-> None, version |-> cell[n].version + 1])
    BY <2>2 DEF Fits, Field
  <2> QED
    BY <1>1, <1>40, <2>1, <2>3, CallFits DEF Upgrade, Kept
<1>41. CASE WidenClient \/ DeleteClient \/ DriftNative
  BY <1>1, <1>41 DEF WidenClient, DeleteClient, DriftNative, Act, TypeOK, Kept
<1>42. CASE DeleteAccount
  <2>1. ASSUME NEW c \in Replica PROVE [c EXCEPT !.admin = "none"] \in Replica
    BY DEF Replica
  <2> QED
    BY <1>1, <1>42, <2>1 DEF DeleteAccount, Act, Kept, TypeOK
<1> QED
  BY <1>10, <1>11, <1>12, <1>13, <1>14, <1>15, <1>16, <1>17, <1>18, <1>19, <1>20, <1>21, <1>22,
     <1>23, <1>24, <1>25, <1>26, <1>27, <1>28, <1>29, <1>30, <1>32, <1>33, <1>34, <1>35, <1>36,
     <1>37, <1>40, <1>41, <1>42, <1>43, <1>44
     DEF Next, Runs, AdminRuns, ClientRuns, NativeRuns, Operator, Kept

(* What an answer writes over Rauthy's documents, in their types.          *)
Document == {"client", "secrets", "native", "scopes", "account", "role", "access"}
Suits(r) ==
    /\ DOMAIN r \subseteq Document
    /\ "client" \in DOMAIN r => r["client"] \in Client \cup {None}
    /\ "secrets" \in DOMAIN r => r["secrets"] \in Nat
    /\ "native" \in DOMAIN r => r["native"] \in Native \cup {None}
    /\ "scopes" \in DOMAIN r => r["scopes"] \in SUBSET Scope
    /\ "account" \in DOMAIN r => r["account"] \in Account \cup {None}
    /\ "role" \in DOMAIN r => r["role"] \in BOOLEAN
    /\ "access" \in DOMAIN r => r["access"] \in {"narrow", "rendered"}

(* Written over Rauthy's documents, it leaves such documents, and each is  *)
(* what was written or what it was.                                        *)
LEMMA OverDocuments ==
    ASSUME NEW d \in Documents, NEW r, Suits(r)
    PROVE  /\ Over(r, d) \in Documents
           /\ \A x \in Document : Over(r, d)[x] = IF x \in DOMAIN r THEN r[x] ELSE d[x]
<1> DEFINE o == Over(r, d)
<1>1. DOMAIN d = Document
  BY DEF Documents, Document
<1>2. /\ d.client \in Client \cup {None} /\ d.secrets \in Nat /\ d.native \in Native \cup {None}
      /\ d.scopes \in SUBSET Scope /\ d.account \in Account \cup {None} /\ d.role \in BOOLEAN
      /\ d.access \in {"narrow", "rendered"}
  BY DEF Documents
<1>3. DOMAIN o = Document /\ \A x \in Document : o[x] = IF x \in DOMAIN r THEN r[x] ELSE d[x]
  BY <1>1 DEF Over, Suits
<1>4. /\ o.client \in Client \cup {None} /\ o.secrets \in Nat /\ o.native \in Native \cup {None}
      /\ o.scopes \in SUBSET Scope /\ o.account \in Account \cup {None} /\ o.role \in BOOLEAN
      /\ o.access \in {"narrow", "rendered"}
  BY <1>2, <1>3 DEF Suits, Document
<1>5. o = [client |-> o.client, secrets |-> o.secrets, native |-> o.native, scopes |-> o.scopes,
           account |-> o.account, role |-> o.role, access |-> o.access]
  BY <1>1, <1>3 DEF Over, Document, Suits
<1> HIDE DEF o
<1>6. o \in Documents
  BY <1>4, <1>5 DEF Documents
<1> QED
  BY <1>3, <1>6 DEF o

(* Whose answers write what: all that any step does to Rauthy.             *)
LEMMA RauthyKept ==
    ASSUME CustodyInv, Next
    PROVE  /\ rauthy' \in Documents
           /\ \/ rauthy' = rauthy
              \/ \E r : Suits(r) /\ rauthy' = Over(r, rauthy)
<1>1. TypeOK /\ Copied /\ rauthy \in Documents
  BY DEF CustodyInv, TypeOK
<1>2. SUFFICES rauthy' = rauthy \/ \E r : Suits(r) /\ rauthy' = Over(r, rauthy)
  BY <1>1, OverDocuments
<1> DEFINE Kept == rauthy' = rauthy \/ \E r : Suits(r) /\ rauthy' = Over(r, rauthy)
<1>3. SUFFICES Kept
  OBVIOUS
<1>4. ASSUME NEW r, Suits(r), rauthy' = Over(r, rauthy) PROVE Kept
  BY <1>4
<1>5. ASSUME rauthy' = rauthy PROVE Kept
  BY <1>5
<1> HIDE DEF Kept
<1>6. /\ \A c \in Client \cup {None} : Suits([client |-> c])
      /\ \A a \in Account \cup {None} : Suits([account |-> a])
      /\ \A a \in Native \cup {None} : Suits([native |-> a])
      /\ Suits([role |-> TRUE]) /\ Suits([access |-> "rendered"])
  BY DEF Suits, Document
<1>7. rauthy.client \in Client \cup {None} /\ rauthy.secrets \in Nat
      /\ rauthy.account \in Account \cup {None} /\ rauthy.native \in Native \cup {None}
      /\ rauthy.scopes \in SUBSET Scope
  BY <1>1 DEF Documents
<1>8. ASSUME NEW n \in Node, EnsureRole(n) PROVE Kept
  BY <1>4, <1>6, <1>8 DEF EnsureRole, Answer
<1>9. ASSUME NEW n \in Node, CreateUser(n) PROVE Kept
  <2>1. [password |-> None, passkey |-> FALSE] \in Account
    BY DEF Account
  <2> QED
    BY <1>4, <1>5, <1>6, <1>9, <2>1 DEF CreateUser, Answer, Reported, Then
<1>10. ASSUME NEW n \in Node, SetPassword(n) \/ Register(n) \/ Convert(n) PROVE Kept
  <2>1. ASSUME NEW a \in Account
        PROVE  /\ [a EXCEPT !.password = n] \in Account /\ [a EXCEPT !.passkey = TRUE] \in Account
               /\ [a EXCEPT !.password = None] \in Account
    BY DEF Account
  <2>2. Session(n) => rauthy.account # None
    BY DEF Session
  <2> QED
    BY <1>4, <1>5, <1>6, <1>7, <1>10, <2>1, <2>2
       DEF SetPassword, Register, Convert, Answer, Reported, Then
<1>11. ASSUME NEW n \in Node, Create(n) PROVE Kept
  <2> DEFINE s == rauthy.secrets + 1
             r == [client |-> [secret |-> s, sound |-> FALSE, extra |-> FALSE, lifetime |-> 0],
                   secrets |-> s]
  <2>1. s \in Nat \ {Half}
    BY <1>7 DEF Half
  <2>2. Suits(r)
    <3> HIDE DEF s
    <3>1. [secret |-> s, sound |-> FALSE, extra |-> FALSE, lifetime |-> 0] \in Client
      BY <2>1 DEF Client
    <3> QED
      BY <2>1, <3>1 DEF Suits, Document
  <2>3. Give(n) \/ rauthy' = Over(r, rauthy)
    BY <1>11 DEF Create, Answer
  <2> HIDE DEF r
  <2> QED
    BY <1>4, <1>5, <2>2, <2>3 DEF Give, Then
<1>12. ASSUME NEW n \in Node, Update(n) PROVE Kept
  <2>1. ASSUME rauthy.client # None PROVE [Put(cell[n].copy) EXCEPT !.sound = TRUE] \in Client
    <3>1. cell[n].copy \in Client /\ rauthy.client.secret \in Nat \ {Half}
      BY <1>1, <1>7, <1>12, <2>1 DEF Copied, Putting, Update, Due, Client
    <3> QED
      BY <3>1 DEF Put, Client
  <2> QED
    BY <1>4, <1>5, <1>6, <1>12, <2>1 DEF Update, Answer, Then
<1>13. ASSUME NEW n \in Node, PutLifetime(n) PROVE Kept
  <2>1. ASSUME rauthy.client # None PROVE WithLifetime(n) \in Client
    <3>1. /\ cell[n].copy \in Client /\ rauthy.client.secret \in Nat \ {Half}
          /\ cell[n].version \in Version
      BY <1>1, <1>7, <1>13, <2>1, ReplicaFacts DEF Copied, Putting, PutLifetime, Due, Client
    <3> QED
      BY <3>1 DEF Put, WithLifetime, Client
  <2> QED
    BY <1>4, <1>5, <1>6, <1>13, <2>1 DEF PutLifetime, Answer, Then
<1>14. ASSUME NEW n \in Node, Reapply(n) PROVE Kept
  BY <1>4, <1>5, <1>6, <1>14 DEF Reapply, Answer, Then
<1>15. ASSUME NEW n \in Node, CreateScope(n) PROVE Kept
  <2>1. Declares(n) \subseteq Scope
    BY <1>1, <1>15, ReplicaFacts, CustodyAssumption DEF Declares, Version, CreateScope, Due, Then,
       Answer
  <2>2. \A s \in Declares(n) : Suits([scopes |-> rauthy.scopes \cup {s}])
    BY <1>7, <2>1 DEF Suits, Document
  <2> QED
    BY <1>4, <1>5, <1>15, <2>2 DEF CreateScope, Answer, Then
<1>16. ASSUME NEW n \in Node, CreateNative(n) PROVE Kept
  <2>1. [grants |-> Base, public |-> FALSE] \in Native
    BY CustodyAssumption DEF Native
  <2> QED
    BY <1>4, <1>5, <1>6, <1>16, <2>1 DEF CreateNative, Answer, Then
<1>17. ASSUME NEW n \in Node, PutNative(n) PROVE Kept
  <2>1. ASSUME Declares(n) \subseteq Scope
        PROVE  [grants |-> Declares(n), public |-> TRUE] \in Native
    BY <2>1 DEF Native
  <2> QED
    BY <1>4, <1>5, <1>6, <1>7, <1>17, <2>1 DEF PutNative, Answer, Give, Then
<1>18. CASE WidenClient
  <2>1. ASSUME NEW c \in Client PROVE [c EXCEPT !.extra = TRUE] \in Client
    BY DEF Client
  <2> QED
    BY <1>4, <1>6, <1>7, <1>18, <2>1 DEF WidenClient, Act
<1>19. CASE DeleteClient \/ DeleteAccount
  BY <1>4, <1>6, <1>19 DEF DeleteClient, DeleteAccount, Act
<1>20. CASE DriftNative
  <2>1. PICK s \in rauthy.scopes \ rauthy.native.grants :
           rauthy' = Over([native |-> [rauthy.native EXCEPT !.grants = @ \cup {s}]], rauthy)
    BY <1>20 DEF DriftNative, Act
  <2>2. [rauthy.native EXCEPT !.grants = @ \cup {s}] \in Native
    BY <1>7, <1>20 DEF DriftNative, Native
  <2> QED
    BY <1>4, <1>6, <2>1, <2>2
<1> QED
  BY <1>5, <1>8, <1>9, <1>10, <1>11, <1>12, <1>13, <1>14, <1>15, <1>16, <1>17, <1>18, <1>19, <1>20
     DEF Next, Runs, AdminRuns, ClientRuns, NativeRuns, Operator, Then, Reported, Settle,
         Start, Mint, Render, FindUser, ReadUser, Login, ReadClient, Reread, KeepSecret,
         ReadLifetime, ReadScopes, ReadNative, RereadNative, Discover, Retry, Load,
         Fail, Crash, Upgrade

(* Every step of one replica is in its scene.                              *)
LEMMA InScene ==
    ASSUME NEW n \in Node, Runs(n) \/ Fail(n) \/ Crash(n) \/ Upgrade(n)
    PROVE  n \in scene.nodes /\ scene' = scene
BY DEF Runs, AdminRuns, ClientRuns, NativeRuns, Due, Answer, Then, Give, Reported, Settle,
       Start, Mint, Render, FindUser, ReadUser, EnsureRole, CreateUser, SetPassword, Login,
       Register,
       Convert, ReadClient, Create, Reread, Update, KeepSecret, ReadLifetime, PutLifetime,
       ReadScopes, Reapply, CreateScope, ReadNative, CreateNative, RereadNative, PutNative,
       Discover, Retry, Load, Fail, Crash, Upgrade

(* The history of the operator's acts and of the mints.                    *)
Told == [widened : BOOLEAN, drifted : BOOLEAN, excused : SUBSET scene.nodes,
         mints : [scene.nodes -> [KeyFile -> Nat]]]

(* It keeps its type.                                                      *)
LEMMA ToldKept == CustodyInv /\ Next => told' \in Told
<1> SUFFICES ASSUME CustodyInv, Next PROVE told' \in Told
  OBVIOUS
<1>1. TypeOK /\ Minting /\ told \in Told
  BY DEF CustodyInv, TypeOK, Told
<1>2. told.widened \in BOOLEAN /\ told.drifted \in BOOLEAN /\ told.excused \subseteq scene.nodes
      /\ told.mints \in [scene.nodes -> [KeyFile -> Nat]]
  BY <1>1 DEF Told
<1>3. ASSUME NEW e \in SUBSET scene.nodes PROVE [told EXCEPT !.excused = e] \in Told
  BY <1>1 DEF Told
<1>4. ASSUME NEW n \in Node, Mint(n) PROVE told' \in Told
  <2>1. n \in scene.nodes /\ Unwritten(n) \in KeyFile
    BY <1>1, <1>4, UnwrittenIsKey DEF Mint, Due, Minting
  <2>2. told' = [told EXCEPT !.mints[n][Unwritten(n)] = @ + 1]
    BY <1>4 DEF Mint
  <2>3. PICK f \in KeyFile : f = Unwritten(n)
    BY <2>1
  <2>4. [told.mints EXCEPT ![n][f] = @ + 1] \in [scene.nodes -> [KeyFile -> Nat]]
    BY <1>2, <2>1
  <2>5. ASSUME NEW m \in [scene.nodes -> [KeyFile -> Nat]] PROVE [told EXCEPT !.mints = m] \in Told
    BY <1>1 DEF Told
  <2>6. told' = [told EXCEPT !.mints = [told.mints EXCEPT ![n][f] = @ + 1]]
    BY <1>1, <2>2, <2>3 DEF Told
  <2> QED
    BY <2>4, <2>5, <2>6
<1>5. ASSUME NEW n \in Node, Create(n) PROVE told' \in Told
  <2>1. \/ told' = told
        \/ told' = [told EXCEPT !.excused = @]
        \/ told' = [told EXCEPT !.excused = @ \ {n}]
    BY <1>5 DEF Create, Give
  <2> QED
    BY <1>1, <1>2, <1>3, <2>1
<1>6. ASSUME NEW n \in Node, Fail(n) \/ Crash(n) PROVE told' \in Told
  <2>1. n \in scene.nodes
    BY <1>6, InScene
  <2>2. told' = [told EXCEPT !.excused = @ \cup {n}] \/ told' = [told EXCEPT !.excused = @]
    BY <1>6 DEF Fail, Crash, Broken, SecretCut, Excusing
  <2> QED
    BY <1>2, <1>3, <2>1, <2>2
<1>7. ASSUME NEW n \in Node, PutNative(n) PROVE told' \in Told
  BY <1>1, <1>7 DEF PutNative, Give, Told
<1>8. CASE WidenClient
  <2>1. PICK b \in BOOLEAN : told' = Over([widened |-> b], told)
    BY <1>8 DEF WidenClient, Act
  <2> QED
    BY <1>1, <2>1 DEF Over, Told
<1>9. CASE DeleteClient
  <2>1. PICK e \in SUBSET scene.nodes : told' = Over([widened |-> FALSE, excused |-> e], told)
    BY <1>9 DEF DeleteClient, Act
  <2> QED
    BY <1>1, <2>1 DEF Over, Told
<1>10. CASE DriftNative
  <2>1. told' = Over([drifted |-> TRUE], told)
    BY <1>10 DEF DriftNative, Act
  <2> QED
    BY <1>1, <2>1 DEF Over, Told
<1>11. CASE DeleteAccount
  <2>1. told' = Over(<< >>, told)
    BY <1>11 DEF DeleteAccount, Act
  <2> QED
    BY <1>1, <2>1 DEF Over, Told
<1> QED
  BY <1>1, <1>4, <1>5, <1>6, <1>7, <1>8, <1>9, <1>10, <1>11
     DEF Next, Runs, AdminRuns, ClientRuns, NativeRuns, Operator,
         Start, Render, FindUser, ReadUser, EnsureRole, CreateUser, SetPassword, Login, Register,
         Convert, ReadClient, Reread, Update, KeepSecret, ReadLifetime, PutLifetime,
         ReadScopes, Reapply, CreateScope, ReadNative, CreateNative, RereadNative,
         Discover, Retry, Load, Upgrade

----------------------------------------------------------------------------
(* What each step does to the replica whose step it is.                    *)

(* The version a replica runs and the file a crash left half written.      *)
Steady(n) == cell'[n].version = cell[n].version /\ cell'[n].torn = cell[n].torn

(* What outlives an attempt stays; a secret just told is kept or forgotten.*)
Calm(n) ==
    /\ Steady(n) /\ cell'[n].files = cell[n].files
    /\ cell'[n].file = cell[n].file /\ cell'[n].using = cell[n].using
    /\ cell'[n].minted \in {cell[n].minted, None}
Same(n) == Calm(n) /\ cell'[n].admin = cell[n].admin

(* Where an attempt that failed goes.                                      *)
Resting == IF Supervised THEN "down" ELSE "pause"

(* A replica is written over, the others are as they were.                 *)
LEMMA WrittenOver ==
    ASSUME TypeOK, NEW n \in scene.nodes, NEW c, cell' = [cell EXCEPT ![n] = Over(c, @)]
    PROVE  /\ cell'[n] = Over(c, cell[n])
           /\ DOMAIN cell[n] = {"pc", "version", "files", "torn", "file", "admin", "using", "copy",
                                "minted", "catalog", "again", "found"}
           /\ \A m \in scene.nodes : m # n => cell'[m] = cell[m]
BY DEF TypeOK, Replica

(* Only the replica whose step it is changes.                              *)
LEMMA OthersStay ==
    ASSUME TypeOK, NEW n \in scene.nodes, Runs(n) \/ Fail(n) \/ Crash(n) \/ Upgrade(n)
    PROVE  \A m \in scene.nodes : m # n => cell'[m] = cell[m]
<1>1. \E c : cell' = [cell EXCEPT ![n] = Over(c, @)]
  BY DEF Runs, AdminRuns, ClientRuns, NativeRuns, Answer, Then, Give, Reported, Settle,
         Start, Mint, Render, FindUser, ReadUser, EnsureRole, CreateUser, SetPassword, Login,
         Register, Convert, ReadClient, Create, Reread, Update, KeepSecret, ReadLifetime,
         PutLifetime, ReadScopes, Reapply, CreateScope, ReadNative, CreateNative, RereadNative,
         PutNative, Discover, Retry, Load, Fail, Crash, Upgrade, Broken, SecretCut
<1> QED
  BY <1>1, WrittenOver

(* A record without what outlives an attempt leaves it.                    *)
LEMMA Shape ==
    ASSUME TypeOK, NEW n \in scene.nodes, NEW c, cell' = [cell EXCEPT ![n] = Over(c, @)],
           "version" \notin DOMAIN c, "torn" \notin DOMAIN c, "files" \notin DOMAIN c,
           "file" \notin DOMAIN c, "using" \notin DOMAIN c,
           "minted" \in DOMAIN c => c["minted"] = None
    PROVE  /\ Calm(n)
           /\ "pc" \in DOMAIN c => cell'[n].pc = c["pc"]
           /\ "pc" \notin DOMAIN c => cell'[n].pc = cell[n].pc
           /\ "admin" \in DOMAIN c => cell'[n].admin = c["admin"]
           /\ "admin" \notin DOMAIN c => Same(n)
           /\ "copy" \in DOMAIN c => cell'[n].copy = c["copy"]
           /\ "minted" \in DOMAIN c => cell'[n].minted = None
           /\ "minted" \notin DOMAIN c => cell'[n].minted = cell[n].minted
<1>1. /\ cell'[n] = Over(c, cell[n])
      /\ DOMAIN cell[n] = {"pc", "version", "files", "torn", "file", "admin", "using", "copy",
                           "minted", "catalog", "again", "found"}
  BY WrittenOver
<1> QED
  BY <1>1 DEF Over, Calm, Same, Steady

(* A call that only moves the attempt on.                                  *)
LEMMA Leads ==
    ASSUME TypeOK, NEW n \in scene.nodes, NEW s, cell' = [cell EXCEPT ![n] = Over([pc |-> s], @)]
    PROVE  Same(n) /\ cell'[n].pc = s /\ cell'[n].minted = cell[n].minted
<1> DEFINE c == [pc |-> s]
<1>1. DOMAIN c = {"pc"} /\ c["pc"] = s
  OBVIOUS
<1>2. cell' = [cell EXCEPT ![n] = Over(c, @)]
  OBVIOUS
<1> HIDE DEF c
<1>3. /\ "torn" \notin DOMAIN c /\ "version" \notin DOMAIN c /\ "files" \notin DOMAIN c
      /\ "file" \notin DOMAIN c
      /\ "using" \notin DOMAIN c /\ "minted" \notin DOMAIN c /\ "admin" \notin DOMAIN c
      /\ "pc" \in DOMAIN c
  BY <1>1
<1> QED
  BY <1>1, <1>2, <1>3, Shape

(* The ends of an attempt.                                                 *)
LEMMA EndsDo ==
    ASSUME TypeOK, NEW n \in scene.nodes
    PROVE  /\ \A a : Reported(n, a) => /\ Calm(n) /\ cell'[n].pc = AfterAdmin
                                       /\ cell'[n].admin = a
           /\ Then(n, Ended) => Same(n) /\ cell'[n].pc = Resting /\ cell'[n].minted = None
           /\ Then(n, Custody(n)) => Same(n) /\ cell'[n].pc = AfterCustody(n)
           /\ \A r : Answer(n, r, Custody(n)) => Same(n) /\ cell'[n].pc = AfterCustody(n)
<1>1. ASSUME NEW s, cell' = [cell EXCEPT ![n] = Over(Afresh(s), @)]
      PROVE  Same(n) /\ cell'[n].pc = s /\ cell'[n].minted = None
  <2> DEFINE c == Afresh(s)
  <2>1. /\ DOMAIN c = {"pc", "copy", "minted", "catalog", "again", "found"}
        /\ c["minted"] = None /\ c["pc"] = s
    BY DEF Afresh
  <2>2. cell' = [cell EXCEPT ![n] = Over(c, @)]
    BY <1>1
  <2> HIDE DEF c
  <2> QED
    BY <2>1, <2>2, Shape
<1>2. ASSUME NEW a, Reported(n, a)
      PROVE  Calm(n) /\ cell'[n].pc = AfterAdmin /\ cell'[n].admin = a
  <2> DEFINE c == [admin |-> a, pc |-> AfterAdmin]
  <2>1. DOMAIN c = {"admin", "pc"} /\ c["admin"] = a /\ c["pc"] = AfterAdmin
    OBVIOUS
  <2>2. cell' = [cell EXCEPT ![n] = Over(c, @)]
    BY <1>2 DEF Reported, Then
  <2> HIDE DEF c
  <2> QED
    BY <2>1, <2>2, Shape
<1>3. Then(n, Ended) => Same(n) /\ cell'[n].pc = Resting /\ cell'[n].minted = None
  BY <1>1 DEF Ended, Resting, Then
<1>4. Then(n, Custody(n)) => Same(n) /\ cell'[n].pc = AfterCustody(n)
  BY <1>1 DEF Custody, Then
<1>5. \A r : Answer(n, r, Custody(n)) => Same(n) /\ cell'[n].pc = AfterCustody(n)
  BY <1>1 DEF Custody, Answer
<1> QED
  BY <1>2, <1>3, <1>4, <1>5

(* First boot.                                                             *)
LEMMA BootDoes ==
    ASSUME TypeOK, NEW n \in scene.nodes
    PROVE  /\ Start(n) => /\ Same(n) /\ cell'[n].pc \in {"minting", "rendering"}
                          /\ cell'[n].pc = "minting" => IsEmptyDir(n)
           /\ Mint(n) => /\ Steady(n) /\ cell'[n].file = cell[n].file
                         /\ cell'[n].using = cell[n].using /\ cell'[n].admin = cell[n].admin
                         /\ cell'[n].minted = cell[n].minted
                         /\ cell'[n].files = Written(n, Unwritten(n))
                         /\ cell'[n].pc \in {"minting", "rendering"}
                         /\ cell'[n].pc = "minting" => ~(KeyFile \subseteq cell'[n].files)
           /\ Render(n) => /\ Steady(n) /\ cell'[n].file = cell[n].file
                           /\ cell'[n].using = cell[n].using /\ cell'[n].admin = cell[n].admin
                           /\ cell'[n].minted \in {cell[n].minted, None}
                           /\ cell'[n].files \in {cell[n].files, Written(n, Unrendered(n))}
                           /\ \/ cell'[n].pc \in {"rendering", "down"}
                              \/ cell'[n].pc = IF Supervised THEN "findUser" ELSE "discover"
           /\ Discover(n) => Same(n) /\ cell'[n].pc = IF Supervised THEN "load" ELSE "readClient"
           /\ Retry(n) => Same(n) /\ cell'[n].pc = "discover"
<1>1. Start(n) => /\ Same(n) /\ cell'[n].pc \in {"minting", "rendering"}
                  /\ cell'[n].pc = "minting" => IsEmptyDir(n)
  BY Shape DEF Start, Then
<1>2. ASSUME Mint(n)
      PROVE  /\ Steady(n) /\ cell'[n].file = cell[n].file
             /\ cell'[n].using = cell[n].using /\ cell'[n].admin = cell[n].admin
             /\ cell'[n].minted = cell[n].minted
             /\ cell'[n].files = Written(n, Unwritten(n))
             /\ cell'[n].pc \in {"minting", "rendering"}
             /\ cell'[n].pc = "minting" => ~(KeyFile \subseteq cell'[n].files)
  <2> DEFINE w == Written(n, Unwritten(n))
             c == [files |-> w, pc |-> IF KeyFile \subseteq w THEN "rendering" ELSE "minting"]
  <2>1. cell' = [cell EXCEPT ![n] = Over(c, @)]
    BY <1>2 DEF Mint, Then
  <2> HIDE DEF w
  <2>2. /\ DOMAIN c = {"files", "pc"} /\ c["files"] = w
        /\ c["pc"] = IF KeyFile \subseteq w THEN "rendering" ELSE "minting"
    OBVIOUS
  <2> HIDE DEF c
  <2>3. /\ cell'[n] = Over(c, cell[n])
        /\ DOMAIN cell[n] = {"pc", "version", "files", "torn", "file", "admin", "using", "copy",
                             "minted", "catalog", "again", "found"}
    BY <2>1, WrittenOver
  <2>4. /\ Steady(n) /\ cell'[n].file = cell[n].file
        /\ cell'[n].using = cell[n].using /\ cell'[n].admin = cell[n].admin
        /\ cell'[n].minted = cell[n].minted
        /\ cell'[n].files = w
        /\ cell'[n].pc = IF KeyFile \subseteq w THEN "rendering" ELSE "minting"
    BY <2>2, <2>3 DEF Over, Steady
  <2> QED
    BY <2>4 DEF w
<1>3. ASSUME Render(n)
      PROVE  /\ Steady(n) /\ cell'[n].file = cell[n].file
             /\ cell'[n].using = cell[n].using /\ cell'[n].admin = cell[n].admin
             /\ cell'[n].minted \in {cell[n].minted, None}
             /\ cell'[n].files \in {cell[n].files, Written(n, Unrendered(n))}
             /\ \/ cell'[n].pc \in {"rendering", "down"}
                \/ cell'[n].pc = IF Supervised THEN "findUser" ELSE "discover"
  <2> DEFINE w == Written(n, Unrendered(n))
             s == IF Supervised THEN "findUser" ELSE "discover"
             c == [files |-> w]
             b == Afresh(s)
  <2>1. \/ cell[n].pc = "rendering" /\ cell' = [cell EXCEPT ![n] = Over(c, @)]
        \/ cell' = [cell EXCEPT ![n] = Over(b, @)]
        \/ Supervised /\ Then(n, Ended)
    BY <1>3 DEF Render, Due, Then
  <2> HIDE DEF w, s
  <2>2. /\ DOMAIN c = {"files"} /\ c["files"] = w
        /\ DOMAIN b = {"pc", "copy", "minted", "catalog", "again", "found"}
        /\ b["pc"] = s /\ b["minted"] = None
    BY DEF Afresh
  <2> HIDE DEF b, c
  <2>3. ASSUME cell[n].pc = "rendering", cell' = [cell EXCEPT ![n] = Over(c, @)]
        PROVE  /\ Steady(n) /\ cell'[n].file = cell[n].file
               /\ cell'[n].using = cell[n].using /\ cell'[n].admin = cell[n].admin
               /\ cell'[n].minted = cell[n].minted /\ cell'[n].files = w
               /\ cell'[n].pc = "rendering"
    <3>1. /\ cell'[n] = Over(c, cell[n])
          /\ DOMAIN cell[n] = {"pc", "version", "files", "torn", "file", "admin", "using", "copy",
                               "minted", "catalog", "again", "found"}
      BY <2>3, WrittenOver
    <3> QED
      BY <2>2, <2>3, <3>1 DEF Over, Steady
  <2>4. ASSUME cell' = [cell EXCEPT ![n] = Over(b, @)] PROVE Same(n) /\ cell'[n].pc = s
    BY <2>2, <2>4, Shape
  <2>5. Supervised /\ Then(n, Ended) => Same(n) /\ cell'[n].pc = "down"
    BY EndsDo DEF Resting
  <2> QED
    BY <2>1, <2>3, <2>4, <2>5 DEF w, s, Same, Calm
<1>4. Discover(n) => Same(n) /\ cell'[n].pc = IF Supervised THEN "load" ELSE "readClient"
  <2> DEFINE s == IF Supervised THEN "load" ELSE "readClient"
  <2>1. Discover(n) => Then(n, [pc |-> s])
    BY DEF Discover
  <2> HIDE DEF s
  <2>2. Then(n, [pc |-> s]) => Same(n) /\ cell'[n].pc = s
    BY Leads DEF Then
  <2> QED
    BY <2>1, <2>2 DEF s
<1>5. Retry(n) => Same(n) /\ cell'[n].pc = "discover"
  BY Leads DEF Retry, Then
<1> QED
  BY <1>1, <1>2, <1>3, <1>4, <1>5

(* The backup admin: where each call leads, and what it reports.           *)
LEMMA AdminDoes ==
    ASSUME TypeOK, NEW n \in scene.nodes
    PROVE  /\ FindUser(n) =>
                \/ Reported(n, "none") \/ Reported(n, "failed")
                \/ Same(n) /\ cell'[n].pc = IF rauthy.account = None THEN "role" ELSE "readUser"
           /\ ReadUser(n) =>
                \/ Reported(n, "failed") /\ ~(rauthy.account # None /\ PasskeyOnly(rauthy.account))
                \/ /\ Reported(n, "usable")
                   /\ rauthy.account # None /\ PasskeyOnly(rauthy.account)
                \/ /\ Same(n) /\ cell'[n].pc = "role"
                   /\ ~(rauthy.account # None /\ PasskeyOnly(rauthy.account))
           /\ EnsureRole(n) => Same(n) /\ cell'[n].pc \in {"setPassword", "createUser"}
           /\ CreateUser(n) => Reported(n, "failed") \/ (Same(n) /\ cell'[n].pc = "setPassword")
           /\ SetPassword(n) => Reported(n, "failed") \/ (Same(n) /\ cell'[n].pc = "login")
           /\ Login(n) => Reported(n, "failed") \/ (Same(n) /\ cell'[n].pc = "register")
           /\ Register(n) => Reported(n, "failed") \/ (Same(n) /\ cell'[n].pc = "convert")
           /\ Convert(n) => \/ Reported(n, "failed")
                            \/ Calm(n) /\ cell'[n].pc = AfterAdmin /\ cell'[n].admin = "usable"
<1>1. ASSUME FindUser(n), ~Reported(n, "none"), ~Reported(n, "failed")
      PROVE  Same(n) /\ cell'[n].pc = IF rauthy.account = None THEN "role" ELSE "readUser"
  <2> DEFINE s == IF rauthy.account = None THEN "role" ELSE "readUser"
  <2>1. Then(n, [pc |-> s])
    BY <1>1 DEF FindUser
  <2> HIDE DEF s
  <2>2. Same(n) /\ cell'[n].pc = s
    BY <2>1, Leads DEF Then
  <2> QED
    BY <2>2 DEF s
<1>2. ReadUser(n) =>
        \/ Reported(n, "failed") /\ ~(rauthy.account # None /\ PasskeyOnly(rauthy.account))
        \/ /\ Reported(n, "usable")
           /\ rauthy.account # None /\ PasskeyOnly(rauthy.account)
        \/ /\ Same(n) /\ cell'[n].pc = "role"
           /\ ~(rauthy.account # None /\ PasskeyOnly(rauthy.account))
  BY Shape DEF ReadUser, Then, Same, PasskeyOnly
<1>3. EnsureRole(n) => Same(n) /\ cell'[n].pc \in {"setPassword", "createUser"}
  <2>1. ASSUME EnsureRole(n)
        PROVE  \E s \in {"setPassword", "createUser"} :
                  cell' = [cell EXCEPT ![n] = Over([pc |-> s], @)]
    BY <2>1 DEF EnsureRole, Answer
  <2> QED
    BY <2>1, Leads
<1>4. CreateUser(n) => Reported(n, "failed") \/ (Same(n) /\ cell'[n].pc = "setPassword")
  BY Shape DEF CreateUser, Answer
<1>5. SetPassword(n) => Reported(n, "failed") \/ (Same(n) /\ cell'[n].pc = "login")
  BY Shape DEF SetPassword, Answer
<1>6. Login(n) => Reported(n, "failed") \/ (Same(n) /\ cell'[n].pc = "register")
  BY Shape DEF Login, Then
<1>7. Register(n) => Reported(n, "failed") \/ (Same(n) /\ cell'[n].pc = "convert")
  BY Shape DEF Register, Answer
<1>8. Convert(n) => \/ Reported(n, "failed")
                    \/ Calm(n) /\ cell'[n].pc = AfterAdmin /\ cell'[n].admin = "usable"
  BY Shape DEF Convert, Answer
<1> QED
  BY <1>1, <1>2, <1>3, <1>4, <1>5, <1>6, <1>7, <1>8

(* The client.                                                             *)
LEMMA ClientDoes ==
    ASSUME TypeOK, NEW n \in scene.nodes
    PROVE  /\ ReadClient(n) => Same(n) /\ cell'[n].pc \in {"create", "secret", Resting}
           /\ Create(n) =>
                \/ /\ Same(n) /\ cell'[n].pc = Resting /\ cell'[n].minted = None
                   /\ rauthy' = rauthy /\ told' = told /\ rauthy.client # None
                \/ /\ Steady(n) /\ cell'[n].files = cell[n].files
                   /\ cell'[n].file = cell[n].file /\ cell'[n].using = cell[n].using
                   /\ cell'[n].admin = cell[n].admin /\ cell'[n].pc = "reread"
                   /\ cell'[n].minted \in {None, rauthy.secrets + 1}
                   /\ rauthy.client = None
                   /\ told' = [told EXCEPT !.excused =
                                   IF cell'[n].minted = None THEN @ ELSE @ \ {n}]
           /\ Reread(n) =>
                \/ /\ Same(n) /\ cell'[n].pc = Resting /\ rauthy.client = None
                   /\ cell'[n].minted = None
                \/ /\ Same(n) /\ cell'[n].pc = "update" /\ rauthy.client # None
                   /\ cell'[n].copy = rauthy.client /\ cell'[n].minted = cell[n].minted
           /\ Update(n) =>
                \/ /\ Same(n) /\ cell'[n].pc = Resting /\ rauthy.client = None
                   /\ cell'[n].minted = None
                \/ /\ Same(n) /\ cell'[n].pc = "secret" /\ rauthy.client # None
                   /\ cell'[n].minted = cell[n].minted
           /\ KeepSecret(n) =>
                \/ /\ Same(n) /\ cell'[n].pc = Resting
                   /\ cell[n].minted = None /\ cell[n].file = None
                \/ /\ Steady(n) /\ cell'[n].files = cell[n].files
                   /\ cell'[n].file = Custodied(n) /\ cell'[n].using = cell[n].using
                   /\ cell'[n].admin = cell[n].admin /\ cell'[n].pc = "lifetime"
                   /\ cell'[n].minted = None
                   /\ ~(cell[n].minted = None /\ cell[n].file = None /\ rauthy.client = None)
           /\ ReadLifetime(n) =>
                \/ Same(n) /\ cell'[n].pc \in {"scopes", Resting}
                \/ /\ Same(n) /\ cell'[n].pc = "putLifetime" /\ rauthy.client # None
                   /\ cell'[n].copy = rauthy.client
           /\ PutLifetime(n) => Same(n) /\ cell'[n].pc \in {"scopes", Resting}
<1>1. ReadClient(n) => Same(n) /\ cell'[n].pc \in {"create", "secret", Resting}
  BY EndsDo, Leads DEF ReadClient, Then
<1>2. ASSUME Create(n)
      PROVE  \/ /\ Same(n) /\ cell'[n].pc = Resting /\ cell'[n].minted = None
                /\ rauthy' = rauthy /\ told' = told /\ rauthy.client # None
             \/ /\ Steady(n) /\ cell'[n].files = cell[n].files
                /\ cell'[n].file = cell[n].file /\ cell'[n].using = cell[n].using
                /\ cell'[n].admin = cell[n].admin /\ cell'[n].pc = "reread"
                /\ cell'[n].minted \in {None, rauthy.secrets + 1}
                /\ rauthy.client = None
                /\ told' = [told EXCEPT !.excused = IF cell'[n].minted = None THEN @ ELSE @ \ {n}]
  <2>1. CASE rauthy.client # None /\ Give(n)
    BY <2>1, EndsDo DEF Give, Then
  <2>2. CASE rauthy.client = None
    <3>1. PICK m \in {None, rauthy.secrets + 1} :
             /\ cell' = [cell EXCEPT ![n] = Over([pc |-> "reread", minted |-> m], @)]
             /\ told' = [told EXCEPT !.excused = IF m = None THEN @ ELSE @ \ {n}]
      BY <1>2, <2>2 DEF Create, Answer
    <3> DEFINE c == [pc |-> "reread", minted |-> m]
    <3>2. DOMAIN c = {"pc", "minted"} /\ c["pc"] = "reread" /\ c["minted"] = m
      OBVIOUS
    <3>3. cell' = [cell EXCEPT ![n] = Over(c, @)]
      BY <3>1
    <3> HIDE DEF c
    <3>4. /\ cell'[n] = Over(c, cell[n])
          /\ DOMAIN cell[n] = {"pc", "version", "files", "torn", "file", "admin", "using", "copy",
                               "minted", "catalog", "again", "found"}
      BY <3>3, WrittenOver
    <3>5. /\ Steady(n) /\ cell'[n].files = cell[n].files
          /\ cell'[n].file = cell[n].file /\ cell'[n].using = cell[n].using
          /\ cell'[n].admin = cell[n].admin /\ cell'[n].pc = "reread" /\ cell'[n].minted = m
      BY <3>2, <3>4 DEF Over, Steady
    <3> QED
      BY <2>2, <3>1, <3>5
  <2> QED
    BY <1>2, <2>1, <2>2 DEF Create
<1>3. ASSUME Reread(n)
      PROVE  \/ /\ Same(n) /\ cell'[n].pc = Resting /\ rauthy.client = None
                /\ cell'[n].minted = None
             \/ /\ Same(n) /\ cell'[n].pc = "update" /\ rauthy.client # None
                /\ cell'[n].copy = rauthy.client /\ cell'[n].minted = cell[n].minted
  <2> DEFINE c == [pc |-> "update", copy |-> rauthy.client]
  <2>1. DOMAIN c = {"pc", "copy"} /\ c["pc"] = "update" /\ c["copy"] = rauthy.client
    OBVIOUS
  <2>2. \/ rauthy.client = None /\ Then(n, Ended)
        \/ rauthy.client # None /\ cell' = [cell EXCEPT ![n] = Over(c, @)]
    BY <1>3 DEF Reread, Then
  <2> HIDE DEF c
  <2> QED
    BY <2>1, <2>2, EndsDo, Shape
<1>4. ASSUME Update(n)
      PROVE  \/ /\ Same(n) /\ cell'[n].pc = Resting /\ rauthy.client = None
                /\ cell'[n].minted = None
             \/ /\ Same(n) /\ cell'[n].pc = "secret" /\ rauthy.client # None
                /\ cell'[n].minted = cell[n].minted
  <2> DEFINE c == [pc |-> "secret", copy |-> None]
  <2>1. DOMAIN c = {"pc", "copy"} /\ c["pc"] = "secret"
    OBVIOUS
  <2>2. \/ rauthy.client = None /\ Then(n, Ended)
        \/ rauthy.client # None /\ cell' = [cell EXCEPT ![n] = Over(c, @)]
    BY <1>4 DEF Update, Then, Answer
  <2> HIDE DEF c
  <2> QED
    BY <2>1, <2>2, EndsDo, Shape
<1>5. ASSUME KeepSecret(n)
      PROVE  \/ /\ Same(n) /\ cell'[n].pc = Resting
                /\ cell[n].minted = None /\ cell[n].file = None
             \/ /\ Steady(n) /\ cell'[n].files = cell[n].files
                /\ cell'[n].file = Custodied(n) /\ cell'[n].using = cell[n].using
                /\ cell'[n].admin = cell[n].admin /\ cell'[n].pc = "lifetime"
                /\ cell'[n].minted = None
                /\ ~(cell[n].minted = None /\ cell[n].file = None /\ rauthy.client = None)
  <2> DEFINE k == Custodied(n)
             c == [pc |-> "lifetime", file |-> k, minted |-> None]
  <2>1. \/ /\ cell[n].minted = None /\ cell[n].file = None /\ Then(n, Ended)
        \/ /\ cell' = [cell EXCEPT ![n] = Over(c, @)]
           /\ ~(cell[n].minted = None /\ cell[n].file = None /\ rauthy.client = None)
    BY <1>5 DEF KeepSecret, Then
  <2> HIDE DEF k
  <2>2. /\ DOMAIN c = {"pc", "file", "minted"}
        /\ c["pc"] = "lifetime" /\ c["file"] = k /\ c["minted"] = None
    OBVIOUS
  <2> HIDE DEF c
  <2>3. ASSUME cell' = [cell EXCEPT ![n] = Over(c, @)]
        PROVE  /\ Steady(n) /\ cell'[n].files = cell[n].files
               /\ cell'[n].file = k /\ cell'[n].using = cell[n].using
               /\ cell'[n].admin = cell[n].admin /\ cell'[n].pc = "lifetime"
               /\ cell'[n].minted = None
    <3>1. /\ cell'[n] = Over(c, cell[n])
          /\ DOMAIN cell[n] = {"pc", "version", "files", "torn", "file", "admin", "using", "copy",
                               "minted", "catalog", "again", "found"}
      BY <2>3, WrittenOver
    <3> QED
      BY <2>2, <3>1 DEF Over, Steady
  <2> QED
    BY <2>1, <2>3, EndsDo DEF k
<1>6. ASSUME ReadLifetime(n)
      PROVE  \/ Same(n) /\ cell'[n].pc \in {"scopes", Resting}
             \/ /\ Same(n) /\ cell'[n].pc = "putLifetime" /\ rauthy.client # None
                /\ cell'[n].copy = rauthy.client
  <2> DEFINE c == [pc |-> "putLifetime", copy |-> rauthy.client]
  <2>1. DOMAIN c = {"pc", "copy"} /\ c["pc"] = "putLifetime" /\ c["copy"] = rauthy.client
    OBVIOUS
  <2>2. \/ Then(n, Ended)
        \/ cell' = [cell EXCEPT ![n] = Over([pc |-> "scopes"], @)]
        \/ rauthy.client # None /\ cell' = [cell EXCEPT ![n] = Over(c, @)]
    BY <1>6 DEF ReadLifetime, Then
  <2> HIDE DEF c
  <2> QED
    BY <2>1, <2>2, EndsDo, Leads, Shape
<1>7. ASSUME PutLifetime(n) PROVE Same(n) /\ cell'[n].pc \in {"scopes", Resting}
  <2> DEFINE c == [pc |-> "scopes", copy |-> None]
  <2>1. DOMAIN c = {"pc", "copy"} /\ c["pc"] = "scopes"
    OBVIOUS
  <2>2. Then(n, Ended) \/ cell' = [cell EXCEPT ![n] = Over(c, @)]
    BY <1>7 DEF PutLifetime, Then, Answer
  <2> HIDE DEF c
  <2> QED
    BY <2>1, <2>2, EndsDo, Shape
<1> QED
  BY <1>1, <1>2, <1>3, <1>4, <1>5, <1>6, <1>7

(* The native client.                                                      *)
LEMMA NativeDoes ==
    ASSUME TypeOK, NEW n \in scene.nodes
    PROVE  /\ ReadScopes(n) =>
                \/ Same(n) /\ cell'[n].pc \in {"reapply", "scope", Resting}
                \/ Same(n) /\ cell'[n].pc = AfterCustody(n) /\ Declares(n) = {}
           /\ Reapply(n) => Same(n) /\ cell'[n].pc \in {"readClient", Resting}
           /\ CreateScope(n) => Same(n) /\ cell'[n].pc \in {"scope", "readNative", Resting}
           /\ ReadNative(n) =>
                \/ Same(n) /\ cell'[n].pc \in {"createNative", "putNative"}
                \/ Same(n) /\ cell'[n].pc = AfterCustody(n) /\ AsDeclared(n, rauthy.native)
           /\ CreateNative(n) => Same(n) /\ cell'[n].pc \in {"rereadNative", Resting}
           /\ RereadNative(n) =>
                \/ Same(n) /\ cell'[n].pc \in {"putNative", Resting}
                \/ Same(n) /\ cell'[n].pc = AfterCustody(n) /\ AsDeclared(n, rauthy.native)
           /\ PutNative(n) =>
                \/ Same(n) /\ cell'[n].pc = Resting /\ rauthy' = rauthy /\ told' = told
                \/ /\ Same(n) /\ cell'[n].pc = AfterCustody(n)
                   /\ rauthy' = Over([native |-> [grants |-> Declares(n), public |-> TRUE]], rauthy)
                   /\ told' = [told EXCEPT !.drifted = FALSE]
<1>1. ReadScopes(n) =>
        \/ Same(n) /\ cell'[n].pc \in {"reapply", "scope", Resting}
        \/ Same(n) /\ cell'[n].pc = AfterCustody(n) /\ Declares(n) = {}
  <2> DEFINE c == [pc |-> "scope", catalog |-> rauthy.scopes]
  <2>1. DOMAIN c = {"pc", "catalog"} /\ c["pc"] = "scope"
    OBVIOUS
  <2>2. ReadScopes(n) =>
          \/ Then(n, Ended)
          \/ Then(n, Custody(n)) /\ Declares(n) = {}
          \/ cell' = [cell EXCEPT ![n] = Over([pc |-> "reapply"], @)]
          \/ cell' = [cell EXCEPT ![n] = Over(c, @)]
    BY DEF ReadScopes, Then
  <2> HIDE DEF c
  <2>3. ASSUME cell' = [cell EXCEPT ![n] = Over(c, @)] PROVE Same(n) /\ cell'[n].pc = "scope"
    BY <2>1, <2>3, Shape
  <2> QED
    BY <2>2, <2>3, EndsDo, Leads
<1>2. Reapply(n) => Same(n) /\ cell'[n].pc \in {"readClient", Resting}
  <2> DEFINE c == [pc |-> "readClient", again |-> TRUE]
  <2>1. DOMAIN c = {"pc", "again"} /\ c["pc"] = "readClient"
    OBVIOUS
  <2>2. Reapply(n) => Then(n, Ended) \/ cell' = [cell EXCEPT ![n] = Over(c, @)]
    BY DEF Reapply, Then, Answer
  <2> HIDE DEF c
  <2>3. ASSUME cell' = [cell EXCEPT ![n] = Over(c, @)] PROVE Same(n) /\ cell'[n].pc = "readClient"
    BY <2>1, <2>3, Shape
  <2> QED
    BY <2>2, <2>3, EndsDo
<1>3. CreateScope(n) => Same(n) /\ cell'[n].pc \in {"scope", "readNative", Resting}
  <2>1. ASSUME NEW k, cell' = [cell EXCEPT ![n] = Over([catalog |-> k], @)]
        PROVE  Same(n) /\ cell'[n].pc = cell[n].pc
    <3> DEFINE c == [catalog |-> k]
    <3>1. DOMAIN c = {"catalog"}
      OBVIOUS
    <3>2. cell' = [cell EXCEPT ![n] = Over(c, @)]
      BY <2>1
    <3> HIDE DEF c
    <3>3. "pc" \notin DOMAIN c /\ "admin" \notin DOMAIN c /\ "minted" \notin DOMAIN c
          /\ "torn" \notin DOMAIN c /\ "version" \notin DOMAIN c /\ "files" \notin DOMAIN c
          /\ "file" \notin DOMAIN c
          /\ "using" \notin DOMAIN c
      BY <3>1
    <3> QED
      BY <3>2, <3>3, Shape
  <2>2. ASSUME CreateScope(n)
        PROVE  \/ Then(n, Ended)
               \/ cell' = [cell EXCEPT ![n] = Over([pc |-> "readNative"], @)]
               \/ \E k : cell' = [cell EXCEPT ![n] = Over([catalog |-> k], @)]
    BY <2>2 DEF CreateScope, Then, Answer
  <2>3. CreateScope(n) => cell[n].pc = "scope"
    BY DEF CreateScope, Due
  <2> QED
    BY <2>1, <2>2, <2>3, EndsDo, Leads
<1>4. ASSUME NEW native, Settle(n, native)
      PROVE  \/ Same(n) /\ cell'[n].pc = "putNative"
             \/ Same(n) /\ cell'[n].pc = AfterCustody(n) /\ AsDeclared(n, native)
  <2> DEFINE c == [pc |-> "putNative", copy |-> native]
  <2>1. DOMAIN c = {"pc", "copy"} /\ c["pc"] = "putNative"
    OBVIOUS
  <2>2. \/ Then(n, Custody(n)) /\ AsDeclared(n, native)
        \/ cell' = [cell EXCEPT ![n] = Over(c, @)]
    <3> DEFINE e == Custody(n)
    <3> HIDE DEF e, c
    <3>1. Then(n, IF AsDeclared(n, native) THEN e ELSE c)
      BY <1>4 DEF Settle, e, c
    <3> QED
      BY <3>1 DEF Then, e
  <2> HIDE DEF c
  <2>3. ASSUME cell' = [cell EXCEPT ![n] = Over(c, @)] PROVE Same(n) /\ cell'[n].pc = "putNative"
    BY <2>1, <2>3, Shape
  <2> QED
    BY <2>2, <2>3, EndsDo
<1>5. ReadNative(n) =>
        \/ Same(n) /\ cell'[n].pc \in {"createNative", "putNative"}
        \/ Same(n) /\ cell'[n].pc = AfterCustody(n) /\ AsDeclared(n, rauthy.native)
  BY <1>4, Leads DEF ReadNative, Then
<1>6. CreateNative(n) => Same(n) /\ cell'[n].pc \in {"rereadNative", Resting}
  BY EndsDo, Leads DEF CreateNative, Answer
<1>7. RereadNative(n) =>
        \/ Same(n) /\ cell'[n].pc \in {"putNative", Resting}
        \/ Same(n) /\ cell'[n].pc = AfterCustody(n) /\ AsDeclared(n, rauthy.native)
  BY <1>4, EndsDo DEF RereadNative
<1>8. ASSUME PutNative(n)
      PROVE  \/ Same(n) /\ cell'[n].pc = Resting /\ rauthy' = rauthy /\ told' = told
             \/ /\ Same(n) /\ cell'[n].pc = AfterCustody(n)
                /\ rauthy' = Over([native |-> [grants |-> Declares(n), public |-> TRUE]], rauthy)
                /\ told' = [told EXCEPT !.drifted = FALSE]
  <2>1. CASE Give(n)
    BY <2>1, EndsDo DEF Give, Then
  <2>2. CASE ~Give(n)
    <3> DEFINE r == [native |-> [grants |-> Declares(n), public |-> TRUE]]
    <3> HIDE DEF r
    <3>1. Answer(n, r, Custody(n)) /\ told' = [told EXCEPT !.drifted = FALSE]
      BY <1>8, <2>2 DEF PutNative, r
    <3>2. rauthy' = Over(r, rauthy)
      BY <3>1 DEF Answer
    <3> QED
      BY <3>1, <3>2, EndsDo DEF r
  <2> QED
    BY <2>1, <2>2
<1> QED
  BY <1>1, <1>2, <1>3, <1>5, <1>6, <1>7, <1>8

(* The load of what identity serves with, faults and rollouts.             *)
LEMMA RestDoes ==
    ASSUME TypeOK, NEW n \in scene.nodes
    PROVE  /\ Load(n) =>
                \/ Same(n) /\ cell'[n].pc = Resting
                \/ /\ cell[n].file # None
                   /\ Steady(n) /\ cell'[n].files = cell[n].files
                   /\ cell'[n].file = cell[n].file /\ cell'[n].using = cell[n].file
                   /\ cell'[n].admin = cell[n].admin /\ cell'[n].pc = "serving"
                   /\ cell'[n].minted = None
           /\ Fail(n) =>
                \/ /\ cell[n].pc \in AdminStep /\ Calm(n) /\ cell'[n].pc = AfterAdmin
                   /\ cell'[n].admin = "failed"
                \/ /\ cell[n].pc \notin AdminStep /\ Steady(n)
                   /\ cell'[n].files = cell[n].files /\ cell'[n].admin = cell[n].admin
                   /\ cell'[n].pc = Resting /\ cell'[n].minted = None
           /\ Fail(n) \/ Crash(n) =>
                \/ told' = Excusing(n, TRUE)
                \/ told' = Excusing(n, Lost(n)) /\ cell'[n].file = cell[n].file
           /\ Crash(n) =>
                /\ cell'[n].version = cell[n].version
                /\ cell'[n].admin = cell[n].admin /\ cell'[n].pc = "down"
                /\ cell'[n].minted = None
                /\ \/ cell'[n].files = cell[n].files /\ cell'[n].torn = cell[n].torn
                   \/ \E f \in Writing(n) : /\ cell'[n].files = Written(n, f)
                                             /\ cell'[n].torn = cell[n].torn \cup {f}
           /\ Upgrade(n) =>
                /\ cell'[n].files = cell[n].files /\ cell'[n].file = cell[n].file
                /\ cell'[n].admin = cell[n].admin /\ cell'[n].minted = cell[n].minted
                /\ cell'[n].pc = "down" /\ cell'[n].torn = cell[n].torn
<1>1. ASSUME Load(n)
      PROVE  \/ Same(n) /\ cell'[n].pc = Resting
             \/ /\ cell[n].file # None
                /\ Steady(n) /\ cell'[n].files = cell[n].files
                /\ cell'[n].file = cell[n].file /\ cell'[n].using = cell[n].file
                /\ cell'[n].admin = cell[n].admin /\ cell'[n].pc = "serving"
                /\ cell'[n].minted = None
  <2> DEFINE c == Over([using |-> cell[n].file], Afresh("serving"))
  <2>1. /\ DOMAIN c = {"using", "pc", "copy", "minted", "catalog", "again", "found"}
        /\ c["using"] = cell[n].file /\ c["pc"] = "serving" /\ c["minted"] = None
    BY DEF Over, Afresh
  <2>2. \/ Then(n, Ended)
        \/ cell[n].file # None /\ cell' = [cell EXCEPT ![n] = Over(c, @)]
    BY <1>1 DEF Load, Then
  <2> HIDE DEF c
  <2>3. ASSUME cell' = [cell EXCEPT ![n] = Over(c, @)]
        PROVE  /\ Steady(n) /\ cell'[n].files = cell[n].files
               /\ cell'[n].file = cell[n].file /\ cell'[n].using = cell[n].file
               /\ cell'[n].admin = cell[n].admin /\ cell'[n].pc = "serving"
               /\ cell'[n].minted = None
    <3>1. /\ cell'[n] = Over(c, cell[n])
          /\ DOMAIN cell[n] = {"pc", "version", "files", "torn", "file", "admin", "using", "copy",
                               "minted", "catalog", "again", "found"}
      BY <2>3, WrittenOver
    <3> QED
      BY <2>1, <3>1 DEF Over, Steady
  <2> QED
    BY <2>2, <2>3, EndsDo
<1>2. ASSUME NEW st, SecretCut(n, Afresh(st))
      PROVE  /\ Steady(n) /\ cell'[n].files = cell[n].files /\ cell'[n].admin = cell[n].admin
             /\ cell'[n].pc = st /\ cell'[n].minted = None /\ told' = Excusing(n, TRUE)
             /\ cell[n].pc = "secret"
  <2> DEFINE c == Over([file |-> Half], Afresh(st))
  <2>1. /\ DOMAIN c = {"file", "pc", "copy", "minted", "catalog", "again", "found"}
        /\ c["pc"] = st /\ c["minted"] = None
    BY DEF Over, Afresh
  <2>2. cell' = [cell EXCEPT ![n] = Over(c, @)] /\ told' = Excusing(n, TRUE)
        /\ cell[n].pc = "secret"
    BY <1>2 DEF SecretCut, WritesSecret
  <2> HIDE DEF c
  <2>3. /\ cell'[n] = Over(c, cell[n])
        /\ DOMAIN cell[n] = {"pc", "version", "files", "torn", "file", "admin", "using", "copy",
                             "minted", "catalog", "again", "found"}
    BY <2>2, WrittenOver
  <2> QED
    BY <2>1, <2>2, <2>3 DEF Over, Steady
<1>3. ASSUME Fail(n)
      PROVE  /\ \/ /\ cell[n].pc \in AdminStep /\ Calm(n) /\ cell'[n].pc = AfterAdmin
                   /\ cell'[n].admin = "failed"
                \/ /\ cell[n].pc \notin AdminStep /\ Steady(n)
                   /\ cell'[n].files = cell[n].files /\ cell'[n].admin = cell[n].admin
                   /\ cell'[n].pc = Resting /\ cell'[n].minted = None
             /\ \/ told' = Excusing(n, TRUE)
                \/ told' = Excusing(n, Lost(n)) /\ cell'[n].file = cell[n].file
  <2> DEFINE a == [admin |-> "failed", pc |-> AfterAdmin]
             b == Afresh(Resting)
  <2>1. /\ DOMAIN a = {"admin", "pc"} /\ a["admin"] = "failed" /\ a["pc"] = AfterAdmin
        /\ DOMAIN b = {"pc", "copy", "minted", "catalog", "again", "found"}
        /\ b["pc"] = Resting /\ b["minted"] = None
    BY DEF Afresh
  <2>2. b = Ended
    BY DEF Ended, Resting
  <2>3. \/ cell[n].pc \in AdminStep /\ Broken(n, a)
        \/ cell[n].pc \notin AdminStep /\ Broken(n, b)
        \/ SecretCut(n, Afresh(Resting))
    BY <1>3, <2>2 DEF Fail, a
  <2> HIDE DEF a, b
  <2>4. ASSUME Broken(n, a) PROVE Calm(n) /\ cell'[n].pc = AfterAdmin /\ cell'[n].admin = "failed"
    BY <2>1, <2>4, Shape DEF Broken
  <2>5. ASSUME Broken(n, b) PROVE Same(n) /\ cell'[n].pc = Resting /\ cell'[n].minted = None
    BY <2>1, <2>5, Shape DEF Broken
  <2>6. "secret" \notin AdminStep
    BY DEF AdminStep
  <2> QED
    BY <1>2, <2>3, <2>4, <2>5, <2>6 DEF Broken, Same, Calm
<1>5. ASSUME Crash(n)
      PROVE  /\ cell'[n].version = cell[n].version
             /\ cell'[n].admin = cell[n].admin /\ cell'[n].pc = "down"
             /\ cell'[n].minted = None
             /\ \/ cell'[n].files = cell[n].files /\ cell'[n].torn = cell[n].torn
                \/ \E f \in Writing(n) : /\ cell'[n].files = Written(n, f)
                                          /\ cell'[n].torn = cell[n].torn \cup {f}
             /\ \/ told' = Excusing(n, TRUE)
                \/ told' = Excusing(n, Lost(n)) /\ cell'[n].file = cell[n].file
  <2> DEFINE a == Over([using |-> None], Afresh("down"))
             t(f) == cell[n].torn \cup {f}
             w(f) == Written(n, f)
             b(f) == Over([torn |-> t(f), files |-> w(f)], Afresh("down"))
  <2>1. \/ Broken(n, a)
        \/ \E f \in Writing(n) : Broken(n, b(f))
        \/ SecretCut(n, Afresh("down"))
    BY <1>5 DEF Crash
  <2> HIDE DEF t, w
  <2>2. /\ DOMAIN a = {"using", "pc", "copy", "minted", "catalog", "again", "found"}
        /\ a["pc"] = "down" /\ a["minted"] = None
    BY DEF Over, Afresh
  <2>3. ASSUME NEW f
        PROVE  /\ DOMAIN b(f) = {"torn", "files", "pc", "copy", "minted", "catalog", "again",
                                 "found"}
               /\ b(f)["files"] = w(f) /\ b(f)["torn"] = t(f) /\ b(f)["pc"] = "down"
               /\ b(f)["minted"] = None
    BY DEF Over, Afresh
  <2> HIDE DEF a, b
  <2>4. DOMAIN cell[n] = {"pc", "version", "files", "torn", "file", "admin", "using", "copy",
                          "minted", "catalog", "again", "found"}
    BY DEF TypeOK, Replica
  <2>5. CASE Broken(n, a)
    <3>1. cell'[n] = Over(a, cell[n]) /\ told' = Excusing(n, Lost(n))
      BY <2>5, WrittenOver DEF Broken
    <3> QED
      BY <2>2, <2>4, <3>1 DEF Over, Steady
  <2>6. CASE \E f \in Writing(n) : Broken(n, b(f))
    <3>1. PICK f \in Writing(n) : Broken(n, b(f))
      BY <2>6
    <3>2. cell'[n] = Over(b(f), cell[n]) /\ told' = Excusing(n, Lost(n))
      BY <3>1, WrittenOver DEF Broken
    <3>3. /\ cell'[n].version = cell[n].version /\ cell'[n].file = cell[n].file
          /\ cell'[n].admin = cell[n].admin /\ cell'[n].pc = "down"
          /\ cell'[n].minted = None /\ cell'[n].files = w(f) /\ cell'[n].torn = t(f)
      BY <2>3, <2>4, <3>2 DEF Over
    <3> QED
      BY <3>1, <3>2, <3>3 DEF w, t
  <2>7. CASE SecretCut(n, Afresh("down"))
    BY <1>2, <2>7 DEF Steady
  <2> QED
    BY <2>1, <2>5, <2>6, <2>7
<1>4. ASSUME Upgrade(n)
      PROVE  /\ cell'[n].files = cell[n].files /\ cell'[n].file = cell[n].file
             /\ cell'[n].admin = cell[n].admin /\ cell'[n].minted = cell[n].minted
             /\ cell'[n].pc = "down" /\ cell'[n].torn = cell[n].torn
  <2> DEFINE v == cell[n].version + 1
             c == [pc |-> "down", using |-> None, version |-> v]
  <2>1. cell' = [cell EXCEPT ![n] = Over(c, @)]
    BY <1>4 DEF Upgrade, Then
  <2> HIDE DEF v
  <2>2. DOMAIN c = {"pc", "using", "version"} /\ c["pc"] = "down"
    OBVIOUS
  <2> HIDE DEF c
  <2>3. /\ cell'[n] = Over(c, cell[n])
        /\ DOMAIN cell[n] = {"pc", "version", "files", "torn", "file", "admin", "using", "copy",
                             "minted", "catalog", "again", "found"}
    BY <2>1, WrittenOver
  <2> QED
    BY <2>2, <2>3 DEF Over, Steady
<1> QED
  BY <1>1, <1>3, <1>4, <1>5

(* What a step writes over the documents.                                  *)
LEMMA WrittenDocuments ==
    ASSUME TypeOK, NEW r, rauthy' = Over(r, rauthy)
    PROVE  /\ "client" \notin DOMAIN r => rauthy'.client = rauthy.client
           /\ "client" \in DOMAIN r => rauthy'.client = r["client"]
           /\ "native" \notin DOMAIN r => rauthy'.native = rauthy.native
           /\ "native" \in DOMAIN r => rauthy'.native = r["native"]
           /\ "account" \notin DOMAIN r => rauthy'.account = rauthy.account
           /\ "account" \in DOMAIN r => rauthy'.account = r["account"]
<1>1. DOMAIN rauthy = {"client", "secrets", "native", "scopes", "account", "role", "access"}
  BY DEF TypeOK, Documents
<1> QED
  BY <1>1 DEF Over

(* A step that writes one document leaves the others.                      *)
LEMMA WritesAccount ==
    ASSUME TypeOK, NEW a, rauthy' = Over([account |-> a], rauthy)
    PROVE  /\ rauthy'.client = rauthy.client /\ rauthy'.native = rauthy.native
           /\ rauthy'.account = a
BY WrittenDocuments

(* Likewise.                                                               *)
LEMMA WritesClient ==
    ASSUME TypeOK, NEW c, rauthy' = Over([client |-> c], rauthy)
    PROVE  /\ rauthy'.account = rauthy.account /\ rauthy'.native = rauthy.native
           /\ rauthy'.client = c
BY WrittenDocuments

(* Likewise.                                                               *)
LEMMA Registers ==
    ASSUME TypeOK, NEW c, NEW s, rauthy' = Over([client |-> c, secrets |-> s], rauthy)
    PROVE  /\ rauthy'.account = rauthy.account /\ rauthy'.native = rauthy.native
           /\ rauthy'.client = c
BY WrittenDocuments

(* Likewise.                                                               *)
LEMMA WritesNative ==
    ASSUME TypeOK, NEW a, rauthy' = Over([native |-> a], rauthy)
    PROVE  /\ rauthy'.client = rauthy.client /\ rauthy'.account = rauthy.account
           /\ rauthy'.native = a
BY WrittenDocuments

(* Likewise.                                                               *)
LEMMA WritesOther ==
    ASSUME TypeOK, NEW a, \/ rauthy' = Over([role |-> a], rauthy)
                          \/ rauthy' = Over([access |-> a], rauthy)
                          \/ rauthy' = Over([scopes |-> a], rauthy)
    PROVE  /\ rauthy'.client = rauthy.client /\ rauthy'.account = rauthy.account
           /\ rauthy'.native = rauthy.native
<1>1. CASE rauthy' = Over([role |-> a], rauthy)
  BY <1>1, WrittenDocuments
<1>2. CASE rauthy' = Over([access |-> a], rauthy)
  BY <1>2, WrittenDocuments
<1>3. CASE rauthy' = Over([scopes |-> a], rauthy)
  BY <1>3, WrittenDocuments
<1> QED
  BY <1>1, <1>2, <1>3

(* The backup admin's calls touch the account alone.                       *)
LEMMA AdminWrites ==
    ASSUME TypeOK, NEW n \in scene.nodes, AdminRuns(n)
    PROVE  /\ rauthy'.client = rauthy.client /\ rauthy'.native = rauthy.native
           /\ told' = told /\ cell[n].pc \in AdminStep
<1>1. told' = told /\ cell[n].pc \in AdminStep
  BY DEF AdminRuns, Due, FindUser, ReadUser, EnsureRole, CreateUser, SetPassword, Login, Register,
         Convert, AdminStep
<1>2. \/ rauthy' = rauthy
      \/ \E a : rauthy' = Over([role |-> a], rauthy)
      \/ \E a : rauthy' = Over([account |-> a], rauthy)
  BY DEF AdminRuns, FindUser, ReadUser, EnsureRole, CreateUser, SetPassword, Login, Register,
         Convert, Reported, Then, Answer
<1>3. CASE rauthy' = rauthy
  BY <1>1, <1>3
<1>4. CASE \E a : rauthy' = Over([role |-> a], rauthy)
  BY <1>1, <1>4, WritesOther
<1>5. CASE \E a : rauthy' = Over([account |-> a], rauthy)
  BY <1>1, <1>5, WritesAccount
<1> QED
  BY <1>2, <1>3, <1>4, <1>5

(* The client's calls touch the client alone, and those that write it are  *)
(* its registration and the two that put it back.                          *)
LEMMA ClientWrites ==
    ASSUME TypeOK, NEW n \in scene.nodes, ClientRuns(n)
    PROVE  /\ rauthy'.account = rauthy.account /\ rauthy'.native = rauthy.native
           /\ ~(Create(n) \/ Update(n) \/ PutLifetime(n)) => rauthy' = rauthy
           /\ ~Create(n) => told' = told
<1>1. /\ ~(Create(n) \/ Update(n) \/ PutLifetime(n)) => rauthy' = rauthy
      /\ ~Create(n) => told' = told
  BY DEF ClientRuns, ReadClient, Reread, Update, KeepSecret, ReadLifetime, PutLifetime, Then
<1>2. \/ rauthy' = rauthy
      \/ \E c : rauthy' = Over([client |-> c], rauthy)
      \/ \E c, s : rauthy' = Over([client |-> c, secrets |-> s], rauthy)
  BY <1>1 DEF ClientRuns, Create, Update, PutLifetime, Give, Then, Answer
<1>3. CASE rauthy' = rauthy
  BY <1>1, <1>3
<1>4. CASE \E c : rauthy' = Over([client |-> c], rauthy)
  BY <1>1, <1>4, WritesClient
<1>5. CASE \E c, s : rauthy' = Over([client |-> c, secrets |-> s], rauthy)
  BY <1>1, <1>5, Registers
<1> QED
  BY <1>2, <1>3, <1>4, <1>5

(* The native client's calls leave the cell's own client and the account,  *)
(* and two of them write the native one.                                   *)
LEMMA NativeWrites ==
    ASSUME TypeOK, NEW n \in scene.nodes, NativeRuns(n)
    PROVE  /\ rauthy'.account = rauthy.account /\ rauthy'.client = rauthy.client
           /\ ~(CreateNative(n) \/ PutNative(n)) => rauthy'.native = rauthy.native
           /\ ~PutNative(n) => told' = told
           /\ told'.excused = told.excused /\ told'.mints = told.mints
           /\ told'.widened = told.widened
<1>1. /\ ~PutNative(n) => told' = told
      /\ told'.excused = told.excused /\ told'.mints = told.mints /\ told'.widened = told.widened
  BY DEF TypeOK, NativeRuns, ReadScopes, Reapply, CreateScope, ReadNative, CreateNative,
     RereadNative,
         PutNative, Give
<1>2. \/ rauthy' = rauthy
      \/ \E a : rauthy' = Over([access |-> a], rauthy)
      \/ \E a : rauthy' = Over([scopes |-> a], rauthy)
      \/ (CreateNative(n) \/ PutNative(n)) /\ \E a : rauthy' = Over([native |-> a], rauthy)
  BY DEF NativeRuns, ReadScopes, Reapply, CreateScope, ReadNative, CreateNative, RereadNative,
         PutNative, Settle, Give, Then, Answer
<1>3. CASE rauthy' = rauthy
  BY <1>1, <1>3
<1>4. CASE (\E a : rauthy' = Over([access |-> a], rauthy))
           \/ (\E a : rauthy' = Over([scopes |-> a], rauthy))
  BY <1>1, <1>4, WritesOther
<1>5. CASE (CreateNative(n) \/ PutNative(n)) /\ \E a : rauthy' = Over([native |-> a], rauthy)
  BY <1>1, <1>5, WritesNative
<1> QED
  BY <1>2, <1>3, <1>4, <1>5

(* The other steps leave every document.                                   *)
LEMMA RestWrites ==
    ASSUME TypeOK, NEW n \in scene.nodes,
           \/ Start(n) \/ Mint(n) \/ Render(n) \/ Discover(n) \/ Retry(n) \/ Load(n)
           \/ Fail(n) \/ Crash(n) \/ Upgrade(n)
    PROVE  /\ rauthy' = rauthy
           /\ ~(Mint(n) \/ Fail(n) \/ Crash(n)) => told' = told
           /\ ~Mint(n) => told'.mints = told.mints
           /\ told'.widened = told.widened /\ told'.drifted = told.drifted
           /\ Mint(n) => told'.excused = told.excused
BY DEF TypeOK, Start, Mint, Render, Discover, Retry, Load, Fail, Crash, Upgrade, Then, Excusing,
       Broken, SecretCut

(* Group by group: where an attempt goes, and what of the replica stays.   *)
LEMMA GroupsDo ==
    ASSUME TypeOK, NEW n \in scene.nodes
    PROVE  /\ AdminRuns(n) => Calm(n) /\ cell'[n].pc \in AdminStep \cup {AfterAdmin}
           /\ ClientRuns(n) =>
                /\ Steady(n) /\ cell'[n].files = cell[n].files /\ cell'[n].using = cell[n].using
                /\ cell'[n].admin = cell[n].admin
                /\ cell[n].pc \in ClientStep
                /\ cell'[n].pc \in {"create", "reread", "update", "secret", "lifetime",
                                    "putLifetime", "scopes", Resting}
           /\ NativeRuns(n) =>
                /\ Same(n) /\ cell[n].pc \in NativeStep \cup {"reapply"}
                /\ cell'[n].pc \in NativeStep \cup {"reapply", "readClient", Resting,
                                                    AfterCustody(n)}
<1>1. ASSUME AdminRuns(n) PROVE Calm(n) /\ cell'[n].pc \in AdminStep \cup {AfterAdmin}
  BY <1>1, AdminDoes, EndsDo DEF AdminRuns, AdminStep, Same
<1>2. ASSUME ClientRuns(n)
      PROVE  /\ Steady(n) /\ cell'[n].files = cell[n].files /\ cell'[n].using = cell[n].using
             /\ cell'[n].admin = cell[n].admin
             /\ cell[n].pc \in ClientStep
             /\ cell'[n].pc \in {"create", "reread", "update", "secret", "lifetime",
                                 "putLifetime", "scopes", Resting}
  <2>1. cell[n].pc \in ClientStep
    BY <1>2 DEF ClientRuns, ReadClient, Create, Reread, Update, KeepSecret, ReadLifetime,
                PutLifetime, Due, ClientStep
  <2> QED
    BY <1>2, <2>1, ClientDoes DEF ClientRuns, Same, Calm
<1>3. ASSUME NativeRuns(n)
      PROVE  /\ Same(n) /\ cell[n].pc \in NativeStep \cup {"reapply"}
             /\ cell'[n].pc \in NativeStep \cup {"reapply", "readClient", Resting, AfterCustody(n)}
  <2>1. cell[n].pc \in NativeStep \cup {"reapply"}
    BY <1>3 DEF NativeRuns, ReadScopes, Reapply, CreateScope, ReadNative, CreateNative,
                RereadNative, PutNative, Due, NativeStep
  <2> QED
    BY <1>3, <2>1, NativeDoes DEF NativeRuns, NativeStep
<1> QED
  BY <1>1, <1>2, <1>3

----------------------------------------------------------------------------
(* Every step keeps the invariant.                                         *)

(* A step of one replica.                                                  *)
Steps(n) == Runs(n) \/ Fail(n) \/ Crash(n) \/ Upgrade(n)

(* No file of a volume is lost, and one half written is there.             *)
LEMMA FilesStay ==
    ASSUME TypeOK, Minting, NEW n \in scene.nodes, Steps(n)
    PROVE  cell[n].files \subseteq cell'[n].files /\ cell'[n].torn \subseteq cell'[n].files
<1>1. cell[n].torn \subseteq cell[n].files
  BY DEF TypeOK
<1>2. ASSUME Mint(n) \/ Render(n)
      PROVE  cell[n].files \subseteq cell'[n].files /\ cell'[n].torn = cell[n].torn
  BY <1>2, BootDoes DEF Written, Steady
<1>3. ASSUME Crash(n)
      PROVE  cell[n].files \subseteq cell'[n].files /\ cell'[n].torn \subseteq cell'[n].files
  BY <1>1, <1>3, RestDoes DEF Written
<1>4. ASSUME ~Mint(n), ~Crash(n), ~Render(n)
      PROVE  cell'[n].files = cell[n].files /\ cell'[n].torn = cell[n].torn
  BY <1>4, BootDoes, GroupsDo, RestDoes DEF Steps, Runs, Same, Calm, Steady
<1> QED
  BY <1>1, <1>2, <1>3, <1>4

(* A run mints only what is not there.                                     *)
LEMMA MintingKept ==
    ASSUME CustodyInv, NEW n \in scene.nodes, Steps(n)
    PROVE  Minting' /\ KeysMintedOnce'
<1>1. TypeOK /\ Minting /\ KeysMintedOnce /\ scene' = scene /\ n \in Node
  BY InScene, ReplicaFacts DEF CustodyInv, Steps
<1>2. \A m \in scene.nodes : m # n => cell'[m] = cell[m]
  BY <1>1, OthersStay DEF Steps
<1>3. /\ told.mints \in [scene.nodes -> [KeyFile -> Nat]]
      /\ DOMAIN told = {"widened", "drifted", "excused", "mints"}
  BY <1>1 DEF TypeOK
<1>4. ASSUME Mint(n) PROVE Minting' /\ KeysMintedOnce'
  <2> DEFINE f == Unwritten(n)
  <2>1. f \in KeyFile /\ f \notin cell[n].files
    BY <1>1, <1>4, UnwrittenIsKey DEF Mint, Due, Minting
  <2>2. told'.mints = [told.mints EXCEPT ![n][f] = @ + 1]
    BY <1>3, <1>4 DEF Mint
  <2>3. cell'[n].files = cell[n].files \cup {f}
        /\ (cell'[n].pc = "minting" => ~(KeyFile \subseteq cell'[n].files))
    BY <1>1, <1>4, BootDoes DEF Written
  <2> HIDE DEF f
  <2>4. told.mints[n][f] = 0
    BY <1>1, <2>1 DEF Minting
  <2>5. /\ told'.mints[n][f] = 1
        /\ \A g \in KeyFile : g # f => told'.mints[n][g] = told.mints[n][g]
        /\ \A m \in scene.nodes : m # n => told'.mints[m] = told.mints[m]
    BY <1>3, <2>1, <2>2, <2>4
  <2>6. ASSUME NEW m \in scene.nodes, NEW g \in KeyFile
        PROVE  /\ told'.mints[m][g] <= 1
               /\ g \notin cell'[m].files => told'.mints[m][g] = 0
    BY <1>1, <1>2, <2>3, <2>5 DEF Minting, KeysMintedOnce
  <2>7. ASSUME NEW m \in scene.nodes, cell'[m].pc = "minting"
        PROVE  ~(KeyFile \subseteq cell'[m].files)
    BY <1>1, <1>2, <2>3, <2>7 DEF Minting
  <2> QED
    BY <1>1, <2>6, <2>7 DEF Minting, KeysMintedOnce
<1>5. ASSUME ~Mint(n) PROVE Minting' /\ KeysMintedOnce'
  <2>1. told'.mints = told.mints
    BY <1>1, <1>3, <1>5, AdminWrites, ClientWrites, NativeWrites, RestWrites DEF Steps, Runs,
       ClientRuns, Create, Give
  <2>2. cell[n].files \subseteq cell'[n].files
    BY <1>1, FilesStay
  <2>3. cell'[n].pc = "minting" => IsEmptyDir(n) /\ cell'[n].files = cell[n].files
    <3>1. AfterAdmin # "minting" /\ AfterCustody(n) # "minting" /\ Resting # "minting"
      BY DEF AfterAdmin, AfterCustody, Resting
    <3> QED
      BY <1>1, <1>5, <3>1, BootDoes, GroupsDo, RestDoes
         DEF Steps, Runs, Same, Calm, AdminStep, NativeStep
  <2>4. IsEmptyDir(n) => ~(KeyFile \subseteq cell[n].files)
    BY DEF IsEmptyDir, KeyFile, KeyOrder
  <2> QED
    BY <1>1, <1>2, <2>1, <2>2, <2>3, <2>4 DEF Minting, KeysMintedOnce
<1> QED
  BY <1>4, <1>5

(* There is one provider.                                                  *)
LEMMA OneProvider ==
    ASSUME TypeOK, NEW n \in scene.nodes, NEW m \in scene.nodes, Provider(n), Provider(m)
    PROVE  n = m
BY SceneFacts DEF Provider, ProvisionsBackupAdmin, Supervised

(* What the provider's calls do to the account, and what it then reports.  *)
LEMMA AccountDoes ==
    ASSUME TypeOK, NEW n \in scene.nodes
    PROVE  /\ FindUser(n) \/ ReadUser(n) \/ EnsureRole(n) \/ Login(n)
                => rauthy'.account = rauthy.account
           /\ CreateUser(n) \/ SetPassword(n) \/ Register(n) \/ Convert(n) =>
                \/ rauthy'.account = rauthy.account /\ Reported(n, "failed")
                \/ CreateUser(n) /\ cell'[n].pc = "setPassword" /\ cell'[n].admin = cell[n].admin
                \/ SetPassword(n) /\ cell'[n].pc = "login" /\ cell'[n].admin = cell[n].admin
                \/ /\ Register(n) /\ cell'[n].pc = "convert" /\ cell'[n].admin = cell[n].admin
                   /\ rauthy'.account # None /\ rauthy'.account.passkey
                \/ /\ Convert(n) /\ Session(n) /\ cell'[n].pc = AfterAdmin
                   /\ cell'[n].admin = "usable"
                   /\ rauthy'.account = [rauthy.account EXCEPT !.password = None]
<1>0. rauthy.account \in Account \cup {None}
  BY DEF TypeOK, Documents
<1>1. ASSUME FindUser(n) \/ ReadUser(n) \/ Login(n) PROVE rauthy'.account = rauthy.account
  BY <1>1 DEF FindUser, ReadUser, Login, Reported, Then
<1>2. ASSUME EnsureRole(n) PROVE rauthy'.account = rauthy.account
  BY <1>2, WritesOther DEF EnsureRole, Answer
<1>3. ASSUME Reported(n, "failed") PROVE rauthy'.account = rauthy.account
  BY <1>3 DEF Reported, Then
<1>4. ASSUME CreateUser(n), ~Reported(n, "failed")
      PROVE  cell'[n].pc = "setPassword" /\ cell'[n].admin = cell[n].admin
  BY <1>4, AdminDoes DEF Same
<1>5. ASSUME SetPassword(n), ~Reported(n, "failed")
      PROVE  cell'[n].pc = "login" /\ cell'[n].admin = cell[n].admin
  BY <1>5, AdminDoes DEF Same
<1>6. ASSUME Register(n), ~Reported(n, "failed")
      PROVE  /\ cell'[n].pc = "convert" /\ cell'[n].admin = cell[n].admin
             /\ rauthy'.account # None /\ rauthy'.account.passkey
  <2> DEFINE a == [rauthy.account EXCEPT !.passkey = TRUE]
  <2>1. rauthy.account # None /\ rauthy' = Over([account |-> a], rauthy)
    BY <1>6 DEF Register, Answer, Session
  <2>2. a \in Account /\ a.passkey
    BY <1>0, <2>1 DEF Account
  <2>3. a # None
    BY <2>2, NoneAssumption
  <2> HIDE DEF a
  <2>4. rauthy'.account = a
    BY <2>1, WritesAccount
  <2> QED
    BY <1>6, <2>2, <2>3, <2>4, AdminDoes DEF Same
<1>7. ASSUME Convert(n), ~Reported(n, "failed")
      PROVE  /\ Session(n) /\ cell'[n].pc = AfterAdmin /\ cell'[n].admin = "usable"
             /\ rauthy'.account = [rauthy.account EXCEPT !.password = None]
  <2> DEFINE a == [rauthy.account EXCEPT !.password = None]
  <2>1. Session(n) /\ rauthy' = Over([account |-> a], rauthy)
    BY <1>7 DEF Convert, Answer
  <2> HIDE DEF a
  <2>2. rauthy'.account = a
    BY <2>1, WritesAccount
  <2> QED
    BY <1>7, <2>1, <2>2, AdminDoes DEF a
<1> QED
  BY <1>1, <1>2, <1>3, <1>4, <1>5, <1>6, <1>7

(* A step of one replica leaves what is reported of the backup admin true. *)
LEMMA ProvidedKept ==
    ASSUME CustodyInv, NEW n \in scene.nodes, Steps(n)
    PROVE  Provided' /\ PasskeySound'
<1>1. TypeOK /\ Provided /\ PasskeySound /\ scene' = scene /\ n \in Node
  BY InScene, ReplicaFacts DEF CustodyInv, Steps
<1>2. \A m \in scene.nodes : m # n => cell'[m] = cell[m]
  BY <1>1, OthersStay DEF Steps
<1>3. \A m \in scene.nodes : Provider(m)' <=> Provider(m)
  BY <1>1 DEF Provider, Supervised
<1>4. /\ AfterAdmin \notin AdminStep /\ Resting \notin AdminStep
      /\ AfterCustody(n) \in AdminStep =>
           ~Supervised /\ ProvisionsBackupAdmin(n) /\ AfterCustody(n) = "findUser"
  BY DEF AfterAdmin, Resting, AfterCustody, AdminStep
<1>5. Remaking \subseteq AdminStep /\ "findUser" \notin Remaking /\ "readUser" \notin Remaking
      /\ "convert" \in Remaking
  BY DEF Remaking, AdminStep
(* It suffices to look at the replica itself, and at the account when the  *)
(* one provider steps.                                                     *)
<1>6. ASSUME cell'[n].pc \in AdminStep \/ cell'[n].admin # "none" => Provider(n),
             cell'[n].admin = "usable" => /\ cell'[n].pc \notin Remaking
                                          /\ rauthy'.account # None /\ PasskeyOnly(rauthy'.account),
             cell'[n].pc = "convert" /\ Session(n)' => rauthy'.account.passkey,
             Provider(n) \/ rauthy'.account = rauthy.account
      PROVE  Provided' /\ PasskeySound'
  <2>1. ASSUME NEW m \in scene.nodes, m # n
        PROVE  /\ cell'[m].pc \in AdminStep \/ cell'[m].admin # "none" => Provider(m)
               /\ cell'[m].admin = "usable" => cell'[m].pc \notin Remaking
               /\ cell'[m].pc = "convert" /\ Session(m)' => rauthy'.account.passkey
               /\ cell'[m].admin = "usable" =>
                     rauthy'.account # None /\ PasskeyOnly(rauthy'.account)
    <3>1. Provider(m) => rauthy'.account = rauthy.account
      BY <1>1, <1>6, <2>1, OneProvider
    <3>2. cell'[m] = cell[m]
      BY <1>2, <2>1
    <3>3. /\ cell[m].pc \in AdminStep \/ cell[m].admin # "none" => Provider(m)
          /\ cell[m].admin = "usable" => cell[m].pc \notin Remaking
          /\ cell[m].pc = "convert" /\ Session(m) => rauthy.account.passkey
          /\ cell[m].admin = "usable" => rauthy.account # None /\ PasskeyOnly(rauthy.account)
      BY <1>1 DEF Provided, PasskeySound
    <3> QED
      BY <1>5, <3>1, <3>2, <3>3 DEF Session
  <2> QED
    BY <1>1, <1>3, <1>6, <2>1 DEF Provided, PasskeySound
<1>7. /\ cell[n].pc \in AdminStep \/ cell[n].admin # "none" => Provider(n)
      /\ cell[n].admin = "usable" => cell[n].pc \notin Remaking
      /\ cell[n].pc = "convert" /\ Session(n) => rauthy.account.passkey
      /\ cell[n].admin = "usable" => rauthy.account # None /\ PasskeyOnly(rauthy.account)
  BY <1>1 DEF Provided, PasskeySound
<1>8. ASSUME AdminRuns(n) PROVE Provided' /\ PasskeySound'
  <2>1. Provider(n)
    BY <1>1, <1>7, <1>8, AdminWrites
  <2>2. ASSUME Reported(n, "failed") \/ Reported(n, "none") PROVE Provided' /\ PasskeySound'
    BY <1>1, <1>4, <1>5, <1>6, <2>1, <2>2, EndsDo
  <2>3. CASE FindUser(n)
    <3>1. rauthy'.account = rauthy.account
      BY <1>1, <2>3, AccountDoes
    <3>2. ASSUME Same(n), cell'[n].pc = IF rauthy.account = None THEN "role" ELSE "readUser"
          PROVE  Provided' /\ PasskeySound'
      <4>1. cell'[n].admin = "usable" => cell'[n].pc \notin Remaking
        BY <1>5, <1>7, <3>2 DEF Same
      <4>2. cell'[n].pc # "convert" /\ cell'[n].admin = cell[n].admin
        BY <3>2 DEF Same
      <4> QED
        BY <1>6, <1>7, <2>1, <3>1, <4>1, <4>2
    <3> QED
      BY <1>1, <2>2, <2>3, <3>2, AdminDoes
  <2>4. CASE ReadUser(n)
    <3>1. rauthy'.account = rauthy.account
      BY <1>1, <2>4, AccountDoes
    <3>2. ASSUME Reported(n, "usable"), rauthy.account # None, PasskeyOnly(rauthy.account)
          PROVE  Provided' /\ PasskeySound'
      BY <1>1, <1>4, <1>5, <1>6, <2>1, <3>1, <3>2, EndsDo
    <3>3. ASSUME Same(n), cell'[n].pc = "role",
                 ~(rauthy.account # None /\ PasskeyOnly(rauthy.account))
          PROVE  Provided' /\ PasskeySound'
      BY <1>6, <1>7, <2>1, <3>3 DEF Same
    <3> QED
      BY <1>1, <2>2, <2>4, <3>2, <3>3, AdminDoes
  <2>5. CASE EnsureRole(n) \/ Login(n)
    <3>1. rauthy'.account = rauthy.account
      BY <1>1, <2>5, AccountDoes
    <3>2. cell[n].pc \in Remaking
      BY <2>5 DEF EnsureRole, Login, Due, Remaking
    <3>3. ASSUME Same(n), cell'[n].pc # "convert" PROVE Provided' /\ PasskeySound'
      BY <1>6, <1>7, <2>1, <3>2, <3>3 DEF Same
    <3> QED
      BY <1>1, <2>2, <2>5, <3>3, AdminDoes
  <2>6. CASE CreateUser(n) \/ SetPassword(n) \/ Register(n) \/ Convert(n)
    <3>1. cell[n].pc \in Remaking
      BY <2>6 DEF CreateUser, SetPassword, Register, Convert, Due, Remaking
    <3>2. ASSUME cell'[n].admin = cell[n].admin,
                 cell'[n].pc = "convert" => rauthy'.account.passkey
          PROVE  Provided' /\ PasskeySound'
      BY <1>6, <1>7, <2>1, <3>1, <3>2
    <3>3. ASSUME Convert(n), Session(n), cell'[n].pc = AfterAdmin, cell'[n].admin = "usable",
                 rauthy'.account = [rauthy.account EXCEPT !.password = None]
          PROVE  Provided' /\ PasskeySound'
      <4>1. rauthy.account \in Account /\ rauthy.account.passkey
        BY <1>1, <1>7, <3>3 DEF TypeOK, Documents, Convert, Due, Session
      <4>2. /\ rauthy'.account \in Account /\ rauthy'.account.passkey
            /\ rauthy'.account.password = None
        BY <3>3, <4>1 DEF Account
      <4>3. rauthy'.account # None /\ PasskeyOnly(rauthy'.account)
        BY <4>2, NoneAssumption DEF PasskeyOnly
      <4> QED
        BY <1>4, <1>5, <1>6, <2>1, <3>3, <4>3
    <3> QED
      BY <1>1, <2>2, <2>6, <3>2, <3>3, AccountDoes
  <2> QED
    BY <1>8, <2>3, <2>4, <2>5, <2>6 DEF AdminRuns
<1>9. ASSUME ~AdminRuns(n), rauthy'.account = rauthy.account,
             cell'[n].pc \in AdminStep => Provider(n) /\ cell'[n].pc = "findUser",
             cell'[n].admin = cell[n].admin \/ (cell'[n].admin = "failed" /\ Provider(n))
      PROVE  Provided' /\ PasskeySound'
  BY <1>5, <1>6, <1>7, <1>9 DEF AdminStep
<1>10. ASSUME ClientRuns(n) \/ NativeRuns(n) PROVE Provided' /\ PasskeySound'
  <2>1. rauthy'.account = rauthy.account
    BY <1>1, <1>10, ClientWrites, NativeWrites
  <2>2. cell'[n].admin = cell[n].admin
    BY <1>1, <1>10, GroupsDo DEF Same
  <2>3. cell'[n].pc \in AdminStep => Provider(n) /\ cell'[n].pc = "findUser"
    BY <1>1, <1>4, <1>10, GroupsDo DEF AdminStep, NativeStep, Provider
  <2> QED
    BY <1>8, <1>9, <2>1, <2>2, <2>3
<1>11. ASSUME Start(n) \/ Mint(n) \/ Render(n) \/ Discover(n) \/ Retry(n) \/ Load(n)
       PROVE  Provided' /\ PasskeySound'
  <2>1. rauthy'.account = rauthy.account
    BY <1>1, <1>11, RestWrites
  <2>2. cell'[n].admin = cell[n].admin
    BY <1>1, <1>11, BootDoes, RestDoes DEF Same
  <2>3. cell'[n].pc \in AdminStep => Provider(n) /\ cell'[n].pc = "findUser"
    BY <1>1, <1>4, <1>11, BootDoes, RestDoes DEF AdminStep, Provider
  <2> QED
    BY <1>8, <1>9, <2>1, <2>2, <2>3
<1>12. ASSUME Fail(n) \/ Crash(n) \/ Upgrade(n) PROVE Provided' /\ PasskeySound'
  <2>1. rauthy'.account = rauthy.account
    BY <1>1, <1>12, RestWrites
  <2>2. cell'[n].admin = cell[n].admin \/ (cell'[n].admin = "failed" /\ Provider(n))
    BY <1>1, <1>7, <1>12, RestDoes DEF Same
  <2>3. cell'[n].pc \notin AdminStep
    BY <1>1, <1>4, <1>12, RestDoes DEF AdminStep
  <2> QED
    BY <1>8, <1>9, <2>1, <2>2, <2>3
<1> QED
  BY <1>8, <1>10, <1>11, <1>12 DEF Steps, Runs

(* What the client's calls leave of it: a client put back has Rauthy's own *)
(* secret, and only a registration brings a new one.                       *)
LEMMA ClientSecret ==
    ASSUME CustodyInv, NEW n \in scene.nodes
    PROVE  /\ Update(n) \/ PutLifetime(n) =>
                \/ rauthy' = rauthy
                \/ /\ rauthy.client # None /\ rauthy'.client # None
                   /\ rauthy'.client.secret = rauthy.client.secret
                   /\ rauthy'.client.extra = cell[n].copy.extra
           /\ Create(n) /\ rauthy.client = None =>
                rauthy'.client # None /\ rauthy'.client.secret = rauthy.secrets + 1
<1>1. TypeOK /\ Copied
  BY DEF CustodyInv
<1>2. ASSUME NEW c \in Client, rauthy.client # None, rauthy' = Over([client |-> c], rauthy),
             c.secret = rauthy.client.secret, c.extra = cell[n].copy.extra
      PROVE  /\ rauthy.client # None /\ rauthy'.client # None
             /\ rauthy'.client.secret = rauthy.client.secret
             /\ rauthy'.client.extra = cell[n].copy.extra
  <2>1. rauthy'.client = c
    BY <1>1, <1>2, WritesClient
  <2> QED
    BY <1>2, <2>1, NoneAssumption
<1>3. ASSUME NEW k \in Client, rauthy.client # None
      PROVE  /\ [Put(k) EXCEPT !.sound = TRUE] \in Client
             /\ [Put(k) EXCEPT !.sound = TRUE].secret = rauthy.client.secret
             /\ [Put(k) EXCEPT !.sound = TRUE].extra = k.extra
             /\ \A v \in Version : /\ [Put(k) EXCEPT !.lifetime = v] \in Client
                                   /\ [Put(k) EXCEPT !.lifetime = v].secret = rauthy.client.secret
                                   /\ [Put(k) EXCEPT !.lifetime = v].extra = k.extra
  <2>1. rauthy.client.secret \in Nat \ {Half}
    BY <1>1, <1>3 DEF TypeOK, Documents, Client
  <2> QED
    BY <2>1 DEF Put, Client
<1>4. ASSUME Update(n)
      PROVE  \/ rauthy' = rauthy
             \/ /\ rauthy.client # None /\ rauthy'.client # None
                /\ rauthy'.client.secret = rauthy.client.secret
                /\ rauthy'.client.extra = cell[n].copy.extra
  <2>1. cell[n].copy \in Client
    BY <1>1, <1>4 DEF Copied, Putting, Update, Due
  <2> DEFINE c == [Put(cell[n].copy) EXCEPT !.sound = TRUE]
  <2>2. \/ rauthy' = rauthy
        \/ rauthy.client # None /\ rauthy' = Over([client |-> c], rauthy)
    BY <1>4 DEF Update, Then, Answer
  <2>3. rauthy.client # None =>
          c \in Client /\ c.secret = rauthy.client.secret /\ c.extra = cell[n].copy.extra
    BY <1>3, <2>1
  <2> HIDE DEF c
  <2> QED
    BY <1>2, <2>2, <2>3
<1>5. ASSUME PutLifetime(n)
      PROVE  \/ rauthy' = rauthy
             \/ /\ rauthy.client # None /\ rauthy'.client # None
                /\ rauthy'.client.secret = rauthy.client.secret
                /\ rauthy'.client.extra = cell[n].copy.extra
  <2>1. cell[n].copy \in Client /\ cell[n].version \in Version
    BY <1>1, <1>5, ReplicaFacts DEF Copied, Putting, PutLifetime, Due
  <2> DEFINE c == WithLifetime(n)
  <2>2. \/ rauthy' = rauthy
        \/ rauthy.client # None /\ rauthy' = Over([client |-> c], rauthy)
    BY <1>5 DEF PutLifetime, Then, Answer
  <2>3. rauthy.client # None =>
          c \in Client /\ c.secret = rauthy.client.secret /\ c.extra = cell[n].copy.extra
    BY <1>3, <2>1 DEF WithLifetime
  <2> HIDE DEF c
  <2> QED
    BY <1>2, <2>2, <2>3
<1>6. ASSUME Create(n), rauthy.client = None
      PROVE  rauthy'.client # None /\ rauthy'.client.secret = rauthy.secrets + 1
  <2> DEFINE s == rauthy.secrets + 1
             c == [secret |-> s, sound |-> FALSE, extra |-> FALSE, lifetime |-> 0]
  <2>1. rauthy' = Over([client |-> c, secrets |-> s], rauthy)
    BY <1>6 DEF Create, Answer
  <2>2. s \in Nat \ {Half}
    BY <1>1 DEF TypeOK, Documents, Half
  <2> HIDE DEF s
  <2>3. c \in Client /\ c.secret = s
    BY <2>2 DEF Client
  <2> HIDE DEF c
  <2>4. rauthy'.client = c
    BY <1>1, <2>1, Registers
  <2> QED
    BY <2>3, <2>4, NoneAssumption DEF s
<1> QED
  BY <1>4, <1>5, <1>6

(* A step of one replica leaves what is kept the one Rauthy has.           *)
LEMMA HeldKept ==
    ASSUME CustodyInv, NEW n \in scene.nodes, Steps(n)
    PROVE  Held'
<1>1. TypeOK /\ Held /\ Copied /\ scene' = scene /\ n \in Node
  BY InScene, ReplicaFacts DEF CustodyInv, Steps
<1>2. \A m \in scene.nodes : m # n => cell'[m] = cell[m]
  BY <1>1, OthersStay DEF Steps
<1> DEFINE HeldBy(m) ==
             /\ cell[m].minted # None => cell[m].pc \in {"reread", "update", "secret"}
             /\ cell[m].pc = "serving" => cell[m].using = cell[m].file /\ cell[m].file # None
             /\ m \notin told.excused =>
                  Holding(m) = None
                  \/ (rauthy.client # None /\ Holding(m) = rauthy.client.secret)
<1>3. \A m \in scene.nodes : HeldBy(m)
  BY <1>1 DEF Held
<1>4. ASSUME \A m \in scene.nodes : HeldBy(m)' PROVE Held'
  BY <1>1, <1>4 DEF Held
<1>5. ASSUME NEW m \in scene.nodes, m # n
      PROVE  cell'[m] = cell[m] /\ Holding(m)' = Holding(m)
  BY <1>2, <1>5 DEF Holding
<1>6. AfterAdmin \notin {"reread", "update", "secret", "serving"}
      /\ Resting \notin {"reread", "update", "secret", "serving"}
      /\ AfterCustody(n) \notin {"reread", "update", "secret", "serving"}
  BY DEF AfterAdmin, Resting, AfterCustody
(* The client keeps its secret and nobody is forgiven: it suffices that    *)
(* the replica holds what it held, or what Rauthy has.                     *)
<1>7. ASSUME told.excused \subseteq told'.excused,
             rauthy.client = None <=> rauthy'.client = None,
             rauthy.client # None => rauthy'.client.secret = rauthy.client.secret,
             cell'[n].minted # None => cell'[n].pc \in {"reread", "update", "secret"},
             cell'[n].pc = "serving" => cell'[n].using = cell'[n].file /\ cell'[n].file # None,
             n \notin told'.excused =>
                \/ Holding(n)' = Holding(n)
                \/ Holding(n)' = None
                \/ rauthy'.client # None /\ Holding(n)' = rauthy'.client.secret
      PROVE  Held'
  <2>1. ASSUME NEW m \in scene.nodes PROVE HeldBy(m)'
    <3>1. CASE m = n
      BY <1>3, <1>7, <3>1
    <3>2. CASE m # n
      BY <1>3, <1>5, <1>7, <3>2
    <3> QED
      BY <3>1, <3>2
  <2> QED
    BY <1>4, <2>1
<1>8. ASSUME Create(n) PROVE Held'
  <2>1. cell[n].minted = None
    BY <1>3, <1>8 DEF Create, Due
  <2>2. CASE rauthy' = rauthy /\ told' = told /\ Same(n) /\ cell'[n].pc = Resting
    <3>1. Holding(n)' = Holding(n) /\ cell'[n].minted = None
      BY <2>1, <2>2 DEF Same, Calm, Holding
    <3> QED
      BY <1>6, <1>7, <2>2, <3>1
  <2>3. CASE /\ cell'[n].file = cell[n].file /\ cell'[n].pc = "reread"
             /\ cell'[n].minted \in {None, rauthy.secrets + 1}
             /\ rauthy.client = None
             /\ told' = [told EXCEPT !.excused = IF cell'[n].minted = None THEN @ ELSE @ \ {n}]
    <3>1. rauthy'.client # None /\ rauthy'.client.secret = rauthy.secrets + 1
      BY <1>8, <2>3, ClientSecret
    <3>2. told'.excused = IF cell'[n].minted = None THEN told.excused ELSE told.excused \ {n}
      BY <1>1, <2>3 DEF TypeOK
    <3>3. HeldBy(n)'
      <4>1. CASE cell'[n].minted = None
        <5>1. Holding(n)' = Holding(n)
          BY <2>1, <2>3, <4>1 DEF Holding
        <5>2. n \notin told.excused => Holding(n) = None
          BY <1>3, <2>3
        <5> QED
          BY <2>3, <3>2, <4>1, <5>1, <5>2
      <4>2. CASE cell'[n].minted # None
        <5>1. Holding(n)' = rauthy'.client.secret
          BY <2>3, <3>1, <4>2 DEF Holding
        <5> QED
          BY <2>3, <3>1, <5>1
      <4> QED
        BY <4>1, <4>2
    <3>4. ASSUME NEW m \in scene.nodes, m # n PROVE HeldBy(m)'
      <4>1. m \notin told'.excused => m \notin told.excused
        BY <3>2, <3>4
      <4>2. m \notin told.excused => Holding(m) = None
        BY <1>3, <2>3
      <4> QED
        BY <1>3, <1>5, <3>4, <4>1, <4>2
    <3> QED
      BY <1>4, <3>3, <3>4
  <2> QED
    BY <1>1, <1>8, <2>2, <2>3, ClientDoes
<1>9. ASSUME Reread(n) \/ Update(n) PROVE Held'
  <2>1. told' = told
    BY <1>9 DEF Reread, Update
  <2>2. /\ rauthy.client = None <=> rauthy'.client = None
        /\ rauthy.client # None => rauthy'.client.secret = rauthy.client.secret
    BY <1>9, ClientSecret DEF Reread, Then
  <2>3. CASE /\ Same(n) /\ cell'[n].pc = Resting /\ rauthy.client = None
             /\ cell'[n].minted = None
    <3>1. n \notin told.excused => cell[n].minted = None /\ cell[n].file = None
      BY <1>3, <2>3 DEF Holding
    <3>2. n \notin told.excused => Holding(n)' = None
      BY <2>3, <3>1 DEF Same, Calm, Holding
    <3> QED
      BY <1>6, <1>7, <2>1, <2>2, <2>3, <3>2
  <2>4. CASE /\ Same(n) /\ cell'[n].pc \in {"update", "secret"}
             /\ cell'[n].minted = cell[n].minted
    <3>1. Holding(n)' = Holding(n)
      BY <2>4 DEF Same, Calm, Holding
    <3> QED
      BY <1>7, <2>1, <2>2, <2>4, <3>1
  <2> QED
    BY <1>1, <1>9, <2>3, <2>4, ClientDoes
<1>10. ASSUME KeepSecret(n) PROVE Held'
  <2>1. told' = told /\ rauthy' = rauthy
    BY <1>10 DEF KeepSecret, Then
  <2>2. CASE /\ Same(n) /\ cell'[n].pc = Resting
             /\ cell[n].minted = None /\ cell[n].file = None
    <3>1. Holding(n)' = None /\ cell'[n].minted = None
      BY <2>2 DEF Same, Calm, Holding
    <3> QED
      BY <1>6, <1>7, <2>1, <2>2, <3>1
  <2>3. CASE /\ cell'[n].file = Custodied(n) /\ cell'[n].pc = "lifetime" /\ cell'[n].minted = None
             /\ ~(cell[n].minted = None /\ cell[n].file = None /\ rauthy.client = None)
    <3>1. Holding(n)' = Custodied(n)
      BY <2>3 DEF Holding
    <3>2. \/ Custodied(n) = Holding(n)
          \/ rauthy.client # None /\ Custodied(n) = rauthy.client.secret
      BY <2>3 DEF Custodied, Holding
    <3> QED
      BY <1>7, <2>1, <2>3, <3>1, <3>2
  <2> QED
    BY <1>1, <1>10, <2>2, <2>3, ClientDoes
(* The rest of an attempt knows no secret but its file's.                  *)
<1>11. ASSUME cell[n].minted = None, cell'[n].minted = None, cell'[n].file = cell[n].file,
              told'.excused = told.excused,
              rauthy'.client = None <=> rauthy.client = None,
              rauthy.client # None => rauthy'.client.secret = rauthy.client.secret,
              cell'[n].pc = "serving" => cell'[n].using = cell'[n].file /\ cell'[n].file # None
       PROVE  Held'
  <2>1. Holding(n)' = Holding(n)
    BY <1>11 DEF Holding
  <2> QED
    BY <1>7, <1>11, <2>1
<1>12. ASSUME ReadClient(n) \/ ReadLifetime(n) \/ PutLifetime(n) PROVE Held'
  <2>1. cell[n].minted = None
    BY <1>3, <1>12 DEF ReadClient, ReadLifetime, PutLifetime, Due
  <2>2. Same(n) /\ cell'[n].pc # "serving"
    BY <1>1, <1>6, <1>12, ClientDoes
  <2>3. cell'[n].minted = None /\ cell'[n].file = cell[n].file
    BY <2>1, <2>2 DEF Same, Calm
  <2>4. told' = told
    BY <1>12 DEF ReadClient, ReadLifetime, PutLifetime
  <2>5. /\ rauthy'.client = None <=> rauthy.client = None
        /\ rauthy.client # None => rauthy'.client.secret = rauthy.client.secret
    BY <1>12, ClientSecret DEF ReadClient, ReadLifetime, Then
  <2> QED
    BY <1>11, <2>1, <2>2, <2>3, <2>4, <2>5
<1>13. ASSUME AdminRuns(n) \/ NativeRuns(n) PROVE Held'
  <2>1. cell[n].pc \in AdminStep \cup NativeStep \cup {"reapply"}
    BY <1>1, <1>13, AdminWrites, GroupsDo
  <2>2. cell[n].minted = None
    BY <1>3, <2>1 DEF AdminStep, NativeStep
  <2>3. Calm(n)
    BY <1>1, <1>13, GroupsDo DEF Same
  <2>4. cell'[n].pc # "serving"
    BY <1>1, <1>6, <1>13, GroupsDo DEF AdminStep, NativeStep
  <2>5. cell'[n].minted = None /\ cell'[n].file = cell[n].file
    BY <2>2, <2>3 DEF Calm
  <2>6. rauthy'.client = rauthy.client /\ told'.excused = told.excused
    BY <1>1, <1>13, AdminWrites, NativeWrites
  <2> QED
    BY <1>11, <2>2, <2>4, <2>5, <2>6
<1>14. ASSUME Start(n) \/ Mint(n) \/ Render(n) \/ Discover(n) \/ Retry(n) \/ Load(n) \/ Upgrade(n)
       PROVE  Held'
  <2>1. cell[n].minted = None
    BY <1>3, <1>14 DEF Start, Mint, Render, Discover, Retry, Load, Upgrade, Due
  <2>2. rauthy' = rauthy /\ told'.excused = told.excused
    BY <1>1, <1>14, RestWrites DEF Start, Render, Discover, Retry, Load, Upgrade
  <2>3. /\ cell'[n].minted = None /\ cell'[n].file = cell[n].file
        /\ cell'[n].pc = "serving" => cell'[n].using = cell'[n].file /\ cell'[n].file # None
    BY <1>1, <1>6, <1>14, <2>1, BootDoes, RestDoes DEF Same, Calm
  <2> QED
    BY <1>11, <2>1, <2>2, <2>3
<1>15. ASSUME Fail(n) \/ Crash(n) PROVE Held'
  <2>1. rauthy' = rauthy
    BY <1>1, <1>15, RestWrites
  <2>2. \/ told'.excused = told.excused \cup {n}
        \/ /\ ~Lost(n) /\ told'.excused = told.excused /\ cell'[n].file = cell[n].file
    <3>1. \/ told' = Excusing(n, TRUE)
          \/ told' = Excusing(n, Lost(n)) /\ cell'[n].file = cell[n].file
      BY <1>1, <1>15, RestDoes
    <3> QED
      BY <1>1, <3>1 DEF Excusing, TypeOK
  <2>3. cell'[n].minted = None /\ cell'[n].pc # "serving"
    <3>1. cell[n].pc \in AdminStep => cell[n].minted = None
      BY <1>3 DEF AdminStep
    <3> QED
      BY <1>1, <1>6, <1>15, <3>1, RestDoes DEF Calm
  <2>4. ~Lost(n) /\ cell'[n].file = cell[n].file => Holding(n)' = Holding(n) \/ Holding(n)' = None
    BY <2>3 DEF Lost, Holding
  <2> QED
    BY <1>7, <2>1, <2>2, <2>3, <2>4
<1> QED
  BY <1>8, <1>9, <1>10, <1>12, <1>13, <1>14, <1>15 DEF Steps, Runs, ClientRuns

(* A step of one replica leaves every document that is about to be put     *)
(* back, and the client itself, with what the operator added.              *)
LEMMA CopiedKept ==
    ASSUME CustodyInv, NEW n \in scene.nodes, Steps(n)
    PROVE  Copied' /\ OperatorKept'
<1>1. TypeOK /\ Copied /\ OperatorKept /\ scene' = scene /\ n \in Node
  BY InScene, ReplicaFacts DEF CustodyInv, Steps
<1>2. \A m \in scene.nodes : m # n => cell'[m] = cell[m]
  BY <1>1, OthersStay DEF Steps
<1>3. told'.widened = told.widened
  <2>1. Create(n) => told'.widened = told.widened
    BY <1>1 DEF Create, Give, TypeOK
  <2> QED
    BY <1>1, <2>1, AdminWrites, ClientWrites, NativeWrites, RestWrites DEF Steps, Runs
<1>4. rauthy.client \in Client \cup {None}
  BY <1>1 DEF TypeOK, Documents
<1>5. cell'[n].pc \in Putting => /\ rauthy.client # None /\ cell'[n].copy = rauthy.client
  <2>1. AfterAdmin \notin Putting /\ Resting \notin Putting /\ AfterCustody(n) \notin Putting
    BY DEF AfterAdmin, Resting, AfterCustody, Putting
  <2>2. ASSUME Start(n) \/ Mint(n) \/ Render(n) \/ Discover(n) \/ Retry(n)
        PROVE  cell'[n].pc \notin Putting
    BY <1>1, <2>2, BootDoes DEF Putting
  <2>3. ASSUME Load(n) \/ Fail(n) \/ Crash(n) \/ Upgrade(n) PROVE cell'[n].pc \notin Putting
    BY <1>1, <2>1, <2>3, RestDoes DEF Putting
  <2>4. ASSUME AdminRuns(n) \/ NativeRuns(n) PROVE cell'[n].pc \notin Putting
    BY <1>1, <2>1, <2>4, GroupsDo DEF Putting, AdminStep, NativeStep
  <2>5. ASSUME ClientRuns(n), cell'[n].pc \in Putting
        PROVE  rauthy.client # None /\ cell'[n].copy = rauthy.client
    BY <1>1, <2>1, <2>5, ClientDoes DEF ClientRuns, Putting
  <2> QED
    BY <2>2, <2>3, <2>4, <2>5 DEF Steps, Runs
<1>6. Copied'
  <2>1. ASSUME NEW m \in scene.nodes, cell'[m].pc \in Putting
        PROVE  cell'[m].copy \in Client /\ (told'.widened => cell'[m].copy.extra)
    <3>1. CASE m = n
      BY <1>1, <1>3, <1>4, <1>5, <2>1, <3>1 DEF OperatorKept
    <3>2. CASE m # n
      BY <1>1, <1>2, <1>3, <2>1, <3>2 DEF Copied
    <3> QED
      BY <3>1, <3>2
  <2> QED
    BY <1>1, <2>1 DEF Copied, Putting
<1>7. OperatorKept'
  <2>1. CASE Create(n) /\ rauthy.client = None
    BY <1>1, <1>3, <2>1 DEF OperatorKept
  <2>2. CASE Update(n) \/ PutLifetime(n)
    <3>1. cell[n].pc \in Putting
      BY <2>2 DEF Update, PutLifetime, Due, Putting
    <3>2. told.widened => cell[n].copy.extra
      BY <1>1, <3>1 DEF Copied
    <3> QED
      BY <1>1, <1>3, <2>2, <3>2, ClientSecret DEF OperatorKept
  <2>3. CASE ~(Create(n) /\ rauthy.client = None) /\ ~Update(n) /\ ~PutLifetime(n)
    <3>1. Create(n) /\ rauthy.client # None => rauthy' = rauthy
      BY DEF Create, Give, Then
    <3>2. rauthy'.client = rauthy.client
      BY <1>1, <2>3, <3>1, AdminWrites, ClientWrites, NativeWrites, RestWrites DEF Steps, Runs
    <3> QED
      BY <1>1, <1>3, <3>2 DEF OperatorKept
  <2> QED
    BY <2>1, <2>2, <2>3
<1> QED
  BY <1>6, <1>7

(* A step of one replica that ends past custody was past it, or found or   *)
(* left the native client as it declares it.                               *)
LEMMA CeilingKept ==
    ASSUME CustodyInv, NEW n \in scene.nodes, Steps(n)
    PROVE  Paused' /\ Ceiling'
<1>1. TypeOK /\ Paused /\ Ceiling /\ scene' = scene /\ n \in Node
  BY InScene, ReplicaFacts DEF CustodyInv, Steps
<1>2. \A m \in scene.nodes : m # n => cell'[m] = cell[m]
  BY <1>1, OthersStay DEF Steps
<1>3. Supervised' <=> Supervised
  BY <1>1 DEF Supervised
<1>4. /\ AfterAdmin = IF Supervised THEN "readClient" ELSE "load"
      /\ Resting = IF Supervised THEN "down" ELSE "pause"
      /\ AfterCustody(n) # "pause"
  BY DEF AfterAdmin, Resting, AfterCustody
<1>5. Paused'
  <2>1. cell'[n].pc = "pause" => ~Supervised
    <3>1. ASSUME Start(n) \/ Mint(n) \/ Render(n) \/ Discover(n) \/ Retry(n)
          PROVE  cell'[n].pc # "pause"
      BY <1>1, <3>1, BootDoes
    <3>2. ASSUME Load(n) \/ Fail(n) \/ Crash(n) \/ Upgrade(n)
          PROVE  cell'[n].pc = "pause" => ~Supervised
      BY <1>1, <1>4, <3>2, RestDoes
    <3>3. ASSUME AdminRuns(n) \/ NativeRuns(n) \/ ClientRuns(n)
          PROVE  cell'[n].pc = "pause" => ~Supervised
      BY <1>1, <1>4, <3>3, GroupsDo DEF AdminStep, NativeStep
    <3> QED
      BY <3>1, <3>2, <3>3 DEF Steps, Runs
  <2> QED
    BY <1>1, <1>2, <1>3, <2>1 DEF Paused
(* What was so, stays so while the native client does.                     *)
<1>6. ASSUME Past(n)' => Past(n), cell'[n].version = cell[n].version \/ ~Past(n)',
             rauthy'.native = rauthy.native, told'.drifted = told.drifted
      PROVE  Ceiling'
  <2>1. ASSUME NEW v \in Version, ~told'.drifted, Declared[v] # {}, rauthy'.native # None,
               \A m \in scene.nodes : Past(m)' /\ cell'[m].version = v
        PROVE  rauthy'.native.grants = Declared[v]
    <3>1. \A m \in scene.nodes : Past(m) /\ cell[m].version = v
      BY <1>2, <1>3, <1>6, <2>1 DEF Past
    <3> QED
      BY <1>1, <1>6, <2>1, <3>1 DEF Ceiling
  <2> QED
    BY <1>1, <2>1 DEF Ceiling, Version
<1>7. ASSUME cell'[n].version = cell[n].version, rauthy'.native.grants = Declares(n)
      PROVE  Ceiling'
  BY <1>1, <1>7 DEF Ceiling, Version, Declares
<1>8. ASSUME ReadScopes(n) \/ ReadNative(n) \/ RereadNative(n) \/ PutNative(n) PROVE Ceiling'
  <2>1. Same(n)
    BY <1>1, <1>8, NativeDoes
  <2>2. cell'[n].version = cell[n].version
    BY <2>1 DEF Same, Calm, Steady
  <2>3. CASE cell'[n].pc \in {"reapply", "scope", "createNative", "putNative", Resting}
    <3>1. ~Past(n)'
      BY <1>3, <1>4, <2>3 DEF Past, AdminStep
    <3> QED
      BY <1>1, <3>1 DEF Ceiling
  <2>4. CASE Declares(n) = {}
    BY <1>1, <2>2, <2>4 DEF Ceiling, Version, Declares
  <2>5. CASE (ReadNative(n) \/ RereadNative(n)) /\ AsDeclared(n, rauthy.native)
    <3>1. rauthy'.native.grants = Declares(n)
      <4>1. rauthy' = rauthy
        BY <2>5 DEF ReadNative, RereadNative, Settle, Then
      <4> QED
        BY <2>5, <4>1 DEF AsDeclared
    <3> QED
      BY <1>7, <2>2, <3>1
  <2>6. CASE rauthy' = Over([native |-> [grants |-> Declares(n), public |-> TRUE]], rauthy)
    <3> DEFINE a == [grants |-> Declares(n), public |-> TRUE]
    <3>1. a.grants = Declares(n)
      OBVIOUS
    <3> HIDE DEF a
    <3>2. rauthy'.native = a
      BY <1>1, <2>6, WritesNative DEF a
    <3> QED
      BY <1>7, <2>2, <3>1, <3>2
  <2> QED
    BY <1>1, <1>8, <2>3, <2>4, <2>5, <2>6, NativeDoes
<1>9. ASSUME ClientRuns(n) \/ Reapply(n) \/ CreateScope(n) \/ CreateNative(n) PROVE Ceiling'
  <2>1. cell'[n].pc \in {"create", "reread", "update", "secret", "lifetime", "putLifetime",
                         "scopes", "readClient", "scope", "readNative", "rereadNative", Resting}
    BY <1>1, <1>9, GroupsDo, NativeDoes
  <2>2. ~Past(n)'
    BY <1>3, <1>4, <2>1 DEF Past, AdminStep
  <2> QED
    BY <1>1, <2>2 DEF Ceiling
<1>10. ASSUME AdminRuns(n) PROVE Ceiling'
  <2>1. Past(n)' => Past(n)
    BY <1>1, <1>3, <1>4, <1>10, AdminWrites, GroupsDo DEF Past, AdminStep
  <2>2. cell'[n].version = cell[n].version
    BY <1>1, <1>10, GroupsDo DEF Calm, Steady
  <2> QED
    BY <1>1, <1>6, <1>10, <2>1, <2>2, AdminWrites
<1>11. ASSUME \/ Start(n) \/ Mint(n) \/ Render(n) \/ Discover(n) \/ Retry(n) \/ Load(n)
              \/ Fail(n) \/ Crash(n) \/ Upgrade(n)
       PROVE  Ceiling'
  <2>1. rauthy' = rauthy /\ told'.drifted = told.drifted
    BY <1>1, <1>11, RestWrites
  <2>2. ASSUME Start(n) \/ Mint(n) \/ Render(n) \/ Crash(n) \/ Upgrade(n) PROVE ~Past(n)'
    BY <1>1, <1>3, <2>2, BootDoes, RestDoes DEF Past, AdminStep
  <2>3. ASSUME Discover(n) PROVE (Past(n)' => Past(n)) /\ cell'[n].version = cell[n].version
    BY <1>1, <1>3, <2>3, BootDoes DEF Discover, Due, Past, AdminStep, Same, Calm, Steady
  <2>4. ASSUME Retry(n) PROVE ~Past(n)'
    <3>1. ~Supervised
      BY <1>1, <2>4 DEF Retry, Due, Paused
    <3> QED
      BY <1>1, <1>3, <2>4, <3>1, BootDoes DEF Past, AdminStep
  <2>5. ASSUME Load(n) PROVE (Past(n)' => Past(n)) /\ cell'[n].version = cell[n].version
    <3>1. Past(n)
      BY <2>5 DEF Load, Due, Past
    <3> QED
      BY <1>1, <2>5, <3>1, RestDoes DEF Same, Calm, Steady
  <2>6. ASSUME Fail(n) PROVE (Past(n)' => Past(n)) /\ cell'[n].version = cell[n].version
    <3>1. cell'[n].version = cell[n].version
      BY <1>1, <2>6, RestDoes DEF Same, Calm, Steady
    <3>2. Past(n)' => Past(n)
      BY <1>1, <1>3, <1>4, <2>6, RestDoes DEF Past, AdminStep
    <3> QED
      BY <3>1, <3>2
  <2> QED
    BY <1>6, <1>11, <2>1, <2>2, <2>3, <2>4, <2>5, <2>6
<1> QED
  BY <1>5, <1>8, <1>9, <1>10, <1>11 DEF Steps, Runs, NativeRuns

(* A step leaves what may still come of the scene, and its bounds.         *)
LEMMA ScenesKept ==
    ASSUME TypeOK, Next
    PROVE  scene' = scene /\ left' \in [crash : Nat, fail : Nat, act : Nat]
<1>1. left \in [crash : Nat, fail : Nat, act : Nat]
  BY DEF TypeOK
<1>2. ASSUME NEW n \in Node, Runs(n) \/ Upgrade(n) PROVE scene' = scene /\ left' = left
  BY <1>2 DEF Runs, AdminRuns, ClientRuns, NativeRuns, Answer, Then, Give, Reported, Settle,
         Start, Mint, Render, FindUser, ReadUser, EnsureRole, CreateUser, SetPassword, Login,
         Register, Convert, ReadClient, Create, Reread, Update, KeepSecret, ReadLifetime,
         PutLifetime, ReadScopes, Reapply, CreateScope, ReadNative, CreateNative, RereadNative,
         PutNative, Discover, Retry, Load, Upgrade
<1>3. ASSUME NEW n \in Node, Fail(n)
      PROVE  scene' = scene /\ left' \in [crash : Nat, fail : Nat, act : Nat]
  BY <1>1, <1>3 DEF Fail
<1>4. ASSUME NEW n \in Node, Crash(n)
      PROVE  scene' = scene /\ left' \in [crash : Nat, fail : Nat, act : Nat]
  BY <1>1, <1>4 DEF Crash
<1>5. ASSUME Operator PROVE scene' = scene /\ left' \in [crash : Nat, fail : Nat, act : Nat]
  <2>1. scene' = scene /\ left.act > 0 /\ left' = [left EXCEPT !.act = @ - 1]
    BY <1>5 DEF Operator, WidenClient, DeleteClient, DriftNative, DeleteAccount, Act
  <2> QED
    BY <1>1, <2>1
<1> QED
  BY <1>1, <1>2, <1>3, <1>4, <1>5 DEF Next

(* What an operator does to the documents and to the history.              *)
LEMMA OperatorDoes ==
    ASSUME TypeOK
    PROVE  /\ WidenClient =>
                /\ cell' = cell /\ rauthy.client # None
                /\ rauthy'.client = [rauthy.client EXCEPT !.extra = TRUE]
                /\ rauthy'.native = rauthy.native /\ rauthy'.account = rauthy.account
                /\ told'.widened => \A n \in scene.nodes : cell[n].pc \notin Putting
                /\ told'.drifted = told.drifted /\ told'.excused = told.excused
                /\ told'.mints = told.mints
           /\ DeleteClient =>
                /\ cell' = cell /\ rauthy'.client = None
                /\ rauthy'.native = rauthy.native /\ rauthy'.account = rauthy.account
                /\ ~told'.widened /\ told'.drifted = told.drifted /\ told'.mints = told.mints
                /\ told'.excused =
                      {n \in scene.nodes : cell[n].file # None \/ cell[n].minted # None}
           /\ DriftNative =>
                /\ cell' = cell /\ rauthy'.client = rauthy.client
                /\ rauthy'.account = rauthy.account
                /\ told'.drifted /\ told'.widened = told.widened /\ told'.excused = told.excused
                /\ told'.mints = told.mints
           /\ DeleteAccount =>
                /\ \A n \in scene.nodes : cell'[n] = [cell[n] EXCEPT !.admin = "none"]
                /\ rauthy'.account = None /\ rauthy'.client = rauthy.client
                /\ rauthy'.native = rauthy.native /\ told' = told
<1>1. DOMAIN told = {"widened", "drifted", "excused", "mints"}
  BY DEF TypeOK
<1>2. ASSUME WidenClient
      PROVE  /\ cell' = cell /\ rauthy.client # None
             /\ rauthy'.client = [rauthy.client EXCEPT !.extra = TRUE]
             /\ rauthy'.native = rauthy.native /\ rauthy'.account = rauthy.account
             /\ told'.widened => \A n \in scene.nodes : cell[n].pc \notin Putting
             /\ told'.drifted = told.drifted /\ told'.excused = told.excused
             /\ told'.mints = told.mints
  <2> DEFINE c == [rauthy.client EXCEPT !.extra = TRUE]
             b == \A n \in scene.nodes : cell[n].pc \notin {"update", "putLifetime"}
  <2>1. /\ cell' = cell /\ rauthy.client # None /\ rauthy' = Over([client |-> c], rauthy)
        /\ told' = Over([widened |-> b], told)
    BY <1>2 DEF WidenClient, Act
  <2> HIDE DEF c, b
  <2>2. /\ rauthy'.native = rauthy.native /\ rauthy'.account = rauthy.account
        /\ rauthy'.client = c
    BY <2>1, WritesClient
  <2>3. /\ told'.widened = b /\ told'.drifted = told.drifted /\ told'.excused = told.excused
        /\ told'.mints = told.mints
    BY <1>1, <2>1 DEF Over
  <2> QED
    BY <2>1, <2>2, <2>3 DEF b, c, Putting
<1>3. ASSUME DeleteClient
      PROVE  /\ cell' = cell /\ rauthy'.client = None
             /\ rauthy'.native = rauthy.native /\ rauthy'.account = rauthy.account
             /\ ~told'.widened /\ told'.drifted = told.drifted /\ told'.mints = told.mints
             /\ told'.excused = {n \in scene.nodes : cell[n].file # None \/ cell[n].minted # None}
  <2> DEFINE e == {n \in scene.nodes : cell[n].file # None \/ cell[n].minted # None}
  <2>1. /\ cell' = cell /\ rauthy' = Over([client |-> None], rauthy)
        /\ told' = Over([widened |-> FALSE, excused |-> e], told)
    BY <1>3 DEF DeleteClient, Act
  <2> HIDE DEF e
  <2>2. /\ rauthy'.native = rauthy.native /\ rauthy'.account = rauthy.account
        /\ rauthy'.client = None
    BY <2>1, WritesClient
  <2>3. /\ ~told'.widened /\ told'.drifted = told.drifted /\ told'.excused = e
        /\ told'.mints = told.mints
    BY <1>1, <2>1 DEF Over
  <2> QED
    BY <2>1, <2>2, <2>3 DEF e
<1>4. ASSUME DriftNative
      PROVE  /\ cell' = cell /\ rauthy'.client = rauthy.client
             /\ rauthy'.account = rauthy.account
             /\ told'.drifted /\ told'.widened = told.widened /\ told'.excused = told.excused
             /\ told'.mints = told.mints
  <2>1. PICK a : /\ cell' = cell /\ rauthy' = Over([native |-> a], rauthy)
                 /\ told' = Over([drifted |-> TRUE], told)
    BY <1>4 DEF DriftNative, Act
  <2>2. rauthy'.client = rauthy.client /\ rauthy'.account = rauthy.account
    BY <2>1, WritesNative
  <2>3. /\ told'.drifted /\ told'.widened = told.widened /\ told'.excused = told.excused
        /\ told'.mints = told.mints
    BY <1>1, <2>1 DEF Over
  <2> QED
    BY <2>1, <2>2, <2>3
<1>5. ASSUME DeleteAccount
      PROVE  /\ \A n \in scene.nodes : cell'[n] = [cell[n] EXCEPT !.admin = "none"]
             /\ rauthy'.account = None /\ rauthy'.client = rauthy.client
             /\ rauthy'.native = rauthy.native /\ told' = told
  <2>1. /\ cell' = [n \in scene.nodes |-> [cell[n] EXCEPT !.admin = "none"]]
        /\ rauthy' = Over([account |-> None], rauthy)
        /\ told' = Over(<< >>, told)
    BY <1>5 DEF DeleteAccount, Act
  <2>2. /\ rauthy'.native = rauthy.native /\ rauthy'.client = rauthy.client
        /\ rauthy'.account = None
    BY <2>1, WritesAccount
  <2>3. told' = told
    BY <1>1, <2>1 DEF Over, TypeOK
  <2> QED
    BY <2>1, <2>2, <2>3
<1> QED
  BY <1>2, <1>3, <1>4, <1>5

(* An operator's act leaves every part of the invariant.                   *)
LEMMA OperatorKeeps ==
    ASSUME CustodyInv, Operator, scene' = scene
    PROVE  /\ Minting' /\ KeysMintedOnce' /\ Provided' /\ PasskeySound' /\ Held'
           /\ Copied' /\ OperatorKept' /\ Paused' /\ Ceiling'
           /\ \A n \in scene.nodes : cell'[n].files = cell[n].files /\ cell'[n].torn = cell[n].torn
<1>1. /\ TypeOK /\ Minting /\ KeysMintedOnce /\ Provided /\ PasskeySound /\ Held
      /\ Copied /\ OperatorKept /\ Paused /\ Ceiling
  BY DEF CustodyInv
<1>2. rauthy.client \in Client \cup {None} /\ \A n \in scene.nodes : cell[n] \in Replica
  BY <1>1 DEF TypeOK, Documents
<1>3. /\ Supervised' <=> Supervised
      /\ \A n : Provider(n)' <=> Provider(n)
  BY DEF Supervised, Provider
<1> DEFINE Rest == /\ Minting' /\ KeysMintedOnce' /\ Held' /\ Copied' /\ OperatorKept'
                   /\ Paused' /\ Ceiling'
<1>4. ASSUME cell' = cell, rauthy'.account = rauthy.account PROVE Provided' /\ PasskeySound'
  BY <1>1, <1>3, <1>4 DEF Provided, PasskeySound, Session
<1>5. ASSUME cell' = cell, told'.mints = told.mints PROVE Minting' /\ KeysMintedOnce' /\ Paused'
  BY <1>1, <1>3, <1>5 DEF Minting, KeysMintedOnce, Paused
<1>6. ASSUME cell' = cell, rauthy'.native = rauthy.native, told'.drifted = told.drifted
      PROVE  Ceiling'
  BY <1>1, <1>3, <1>6 DEF Ceiling, Past, Version
<1>7. CASE WidenClient
  <2>1. /\ cell' = cell /\ rauthy.client # None
        /\ rauthy'.client = [rauthy.client EXCEPT !.extra = TRUE]
        /\ rauthy'.native = rauthy.native /\ rauthy'.account = rauthy.account
        /\ told'.widened => \A n \in scene.nodes : cell[n].pc \notin Putting
        /\ told'.drifted = told.drifted /\ told'.excused = told.excused
        /\ told'.mints = told.mints
    BY <1>1, <1>7, OperatorDoes
  <2>2. /\ rauthy'.client \in Client /\ rauthy'.client.extra
        /\ rauthy'.client.secret = rauthy.client.secret
    BY <1>2, <2>1 DEF Client
  <2>3. rauthy'.client # None
    BY <2>2, NoneAssumption
  <2>4. Held'
    BY <1>1, <2>1, <2>2, <2>3 DEF Held, Holding
  <2>5. Copied' /\ OperatorKept'
    BY <1>1, <2>1, <2>2, <2>3 DEF Copied, OperatorKept
  <2> QED
    BY <1>4, <1>5, <1>6, <2>1, <2>4, <2>5
<1>8. CASE DeleteClient
  <2>1. /\ cell' = cell /\ rauthy'.client = None
        /\ rauthy'.native = rauthy.native /\ rauthy'.account = rauthy.account
        /\ ~told'.widened /\ told'.drifted = told.drifted /\ told'.mints = told.mints
        /\ told'.excused = {n \in scene.nodes : cell[n].file # None \/ cell[n].minted # None}
    BY <1>1, <1>8, OperatorDoes
  <2>2. Held'
    BY <1>1, <2>1 DEF Held, Holding
  <2>3. Copied' /\ OperatorKept'
    BY <1>1, <2>1 DEF Copied, OperatorKept
  <2> QED
    BY <1>4, <1>5, <1>6, <2>1, <2>2, <2>3
<1>9. CASE DriftNative
  <2>1. /\ cell' = cell /\ rauthy'.client = rauthy.client
        /\ rauthy'.account = rauthy.account
        /\ told'.drifted /\ told'.widened = told.widened /\ told'.excused = told.excused
        /\ told'.mints = told.mints
    BY <1>1, <1>9, OperatorDoes
  <2>2. Held'
    BY <1>1, <2>1 DEF Held, Holding
  <2>3. Copied' /\ OperatorKept' /\ Ceiling'
    BY <1>1, <2>1 DEF Copied, OperatorKept, Ceiling
  <2> QED
    BY <1>4, <1>5, <2>1, <2>2, <2>3
<1>10. CASE DeleteAccount
  <2>1. /\ \A n \in scene.nodes : cell'[n] = [cell[n] EXCEPT !.admin = "none"]
        /\ rauthy'.account = None /\ rauthy'.client = rauthy.client
        /\ rauthy'.native = rauthy.native /\ told' = told
    BY <1>1, <1>10, OperatorDoes
  <2>2. ASSUME NEW n \in scene.nodes
        PROVE  /\ cell'[n].pc = cell[n].pc /\ cell'[n].files = cell[n].files
               /\ cell'[n].torn = cell[n].torn /\ cell'[n].version = cell[n].version
               /\ cell'[n].minted = cell[n].minted /\ cell'[n].file = cell[n].file
               /\ cell'[n].using = cell[n].using /\ cell'[n].copy = cell[n].copy
               /\ cell'[n].admin = "none"
    BY <1>2, <2>1 DEF Replica
  <2>3. Minting' /\ KeysMintedOnce' /\ Paused'
    BY <1>1, <1>3, <2>1, <2>2 DEF Minting, KeysMintedOnce, Paused
  <2>4. Provided' /\ PasskeySound'
    BY <1>1, <1>3, <2>1, <2>2 DEF Provided, PasskeySound, Session
  <2>5. \A n \in scene.nodes : Holding(n)' = Holding(n)
    BY <2>2 DEF Holding
  <2>6. Held'
    BY <1>1, <2>1, <2>2, <2>5 DEF Held
  <2>7. Copied' /\ OperatorKept'
    BY <1>1, <2>1, <2>2 DEF Copied, OperatorKept
  <2>8. \A n \in scene.nodes : Past(n)' <=> Past(n)
    BY <1>3, <2>2 DEF Past
  <2>9. Ceiling'
    BY <1>1, <2>1, <2>2, <2>8 DEF Ceiling, Version
  <2> QED
    BY <2>2, <2>3, <2>4, <2>6, <2>7, <2>9
<1> QED
  BY <1>7, <1>8, <1>9, <1>10, OperatorDoes, <1>1 DEF Operator

(* Every step keeps the types.                                             *)
LEMMA TypesKept == CustodyInv /\ Next => TypeOK'
<1> SUFFICES ASSUME CustodyInv, Next PROVE TypeOK'
  OBVIOUS
<1>1. TypeOK /\ Minting
  BY DEF CustodyInv
<1>2. scene' = scene /\ left' \in [crash : Nat, fail : Nat, act : Nat]
  BY <1>1, ScenesKept
<1>3. rauthy' \in Documents /\ cell' \in [scene'.nodes -> Replica] /\ told' \in Told
  BY RauthyKept, ReplicasKept, ToldKept
<1>4. ASSUME NEW m \in scene.nodes PROVE cell'[m].torn \subseteq cell'[m].files
  <2>1. cell[m].torn \subseteq cell[m].files
    BY <1>1 DEF TypeOK
  <2>2. CASE Operator
    BY <1>2, <2>1, <2>2, OperatorKeeps
  <2>3. ASSUME NEW n \in Node, Steps(n) PROVE cell'[m].torn \subseteq cell'[m].files
    <3>1. n \in scene.nodes
      BY <2>3, InScene DEF Steps
    <3>2. CASE m = n
      BY <1>1, <2>1, <2>3, <3>1, <3>2, FilesStay
    <3>3. CASE m # n
      BY <1>1, <2>1, <2>3, <3>1, <3>3, OthersStay DEF Steps
    <3> QED
      BY <3>2, <3>3
  <2> QED
    BY <2>2, <2>3 DEF Next, Steps
<1>5. scene \in Scenes
  BY <1>1 DEF TypeOK
<1> QED
  BY <1>2, <1>3, <1>4, <1>5 DEF TypeOK, Told

----------------------------------------------------------------------------
(* The invariant holds of every behaviour.                                 *)

(* Every scene begins so.                                                  *)
LEMMA InitCustodyInv == Init => CustodyInv
<1> SUFFICES ASSUME Init PROVE CustodyInv
  OBVIOUS
<1> DEFINE s == scene
<1>1. /\ scene \in Scenes /\ scene.nodes \subseteq Node /\ scene.files \subseteq KeyFile
      /\ scene.left \in [crash : Nat, fail : Nat, act : Nat]
      /\ Over(scene.rauthy, Untouched) \in Documents
  BY ScenesAssumption DEF Init
<1>2. Volume(scene.files) =
        [version |-> 1, files |-> scene.files, torn |-> {}, file |-> None, admin |-> "none",
         using |-> None, pc |-> "down", copy |-> None, minted |-> None, catalog |-> {},
         again |-> FALSE, found |-> FALSE]
  <2> DEFINE f == scene.files
             a == [version |-> 1, files |-> f, torn |-> {}, file |-> None, admin |-> "none",
                   using |-> None]
             b == Afresh("down")
             d == [version |-> 1, files |-> f, torn |-> {}, file |-> None, admin |-> "none",
                   using |-> None, pc |-> "down", copy |-> None, minted |-> None, catalog |-> {},
                   again |-> FALSE, found |-> FALSE]
  <2> HIDE DEF f
  <2>1. /\ DOMAIN a = {"version", "files", "torn", "file", "admin", "using"}
        /\ a["version"] = 1 /\ a["files"] = f /\ a["torn"] = {} /\ a["file"] = None
        /\ a["admin"] = "none" /\ a["using"] = None
    OBVIOUS
  <2>2. /\ DOMAIN b = {"pc", "copy", "minted", "catalog", "again", "found"}
        /\ b["pc"] = "down" /\ b["copy"] = None /\ b["minted"] = None /\ b["catalog"] = {}
        /\ b["again"] = FALSE /\ b["found"] = FALSE
    BY DEF Afresh
  <2>3. /\ DOMAIN d = DOMAIN a \cup DOMAIN b
        /\ \A x \in DOMAIN a : d[x] = a[x]
        /\ \A x \in DOMAIN b : d[x] = b[x]
    <3>1. DOMAIN d = DOMAIN a \cup DOMAIN b
      BY <2>1, <2>2
    <3>2. \A x \in DOMAIN a : d[x] = a[x]
      BY <2>1
    <3>3. \A x \in DOMAIN b : d[x] = b[x]
      <4>1. /\ d["pc"] = "down" /\ d["copy"] = None /\ d["minted"] = None /\ d["catalog"] = {}
            /\ d["again"] = FALSE /\ d["found"] = FALSE
        OBVIOUS
      <4> HIDE DEF b, d
      <4> QED
        BY <2>2, <4>1
    <3> QED
      BY <3>1, <3>2, <3>3
  <2>4. d = [x \in DOMAIN d |-> d[x]]
    OBVIOUS
  <2>5. Volume(f) = Over(a, b)
    BY DEF Volume, b
  <2> HIDE DEF a, b, d
  <2>6. Over(a, b) = d
    BY <2>3, <2>4 DEF Over
  <2> QED
    BY <2>5, <2>6 DEF d, f
<1>3. "down" \in Step /\ 1 \in Version
  BY VersionFacts DEF Step
<1>4. Volume(scene.files) \in Replica
  BY <1>1, <1>2, <1>3 DEF Replica
<1>5. \A n \in scene.nodes : cell[n] = Volume(scene.files)
  BY DEF Init
<1>6. TypeOK
  <2>1. cell \in [scene.nodes -> Replica]
    BY <1>4 DEF Init
  <2>2. \A n \in scene.nodes : cell[n].torn \subseteq cell[n].files
    BY <1>2, <1>5
  <2>3. told \in [widened : BOOLEAN, drifted : BOOLEAN, excused : SUBSET scene.nodes,
                  mints : [scene.nodes -> [KeyFile -> Nat]]]
    BY DEF Init
  <2> QED
    BY <1>1, <2>1, <2>2, <2>3 DEF Init, TypeOK
<1>7. \A n \in scene.nodes : /\ cell[n].pc = "down" /\ cell[n].minted = None /\ cell[n].file = None
                             /\ cell[n].admin = "none"
  BY <1>2, <1>5
<1>8. /\ ~told.widened /\ \A n \in scene.nodes, f \in KeyFile : told.mints[n][f] = 0
  BY DEF Init
<1>9. Minting /\ KeysMintedOnce
  BY <1>7, <1>8 DEF Minting, KeysMintedOnce
<1>10. Provided /\ PasskeySound
  BY <1>7 DEF Provided, PasskeySound, AdminStep
<1>11. Held
  BY <1>7 DEF Held, Holding
<1>12. Copied /\ OperatorKept /\ Paused
  BY <1>7, <1>8 DEF Copied, Putting, OperatorKept, Paused
<1>13. Ceiling
  <2>1. \A n \in scene.nodes : ~Past(n)
    BY <1>7 DEF Past, AdminStep
  <2>2. scene.nodes # {}
    BY <1>6, SceneFacts
  <2> QED
    BY <2>1, <2>2 DEF Ceiling
<1> QED
  BY <1>6, <1>9, <1>10, <1>11, <1>12, <1>13 DEF CustodyInv

(* Every step keeps it.                                                    *)
LEMMA NextCustodyInv == CustodyInv /\ [Next]_vars => CustodyInv'
<1> SUFFICES ASSUME CustodyInv, [Next]_vars PROVE CustodyInv'
  OBVIOUS
<1>1. CASE Next
  <2>1. TypeOK' /\ scene' = scene
    BY <1>1, TypesKept, ScenesKept DEF CustodyInv
  <2>2. CASE Operator
    BY <2>1, <2>2, OperatorKeeps DEF CustodyInv
  <2>3. ASSUME NEW n \in Node, Steps(n) PROVE CustodyInv'
    <3>1. n \in scene.nodes
      BY <2>3, InScene DEF Steps
    <3> QED
      BY <2>1, <2>3, <3>1, MintingKept, ProvidedKept, HeldKept, CopiedKept, CeilingKept
         DEF CustodyInv
  <2> QED
    BY <1>1, <2>2, <2>3 DEF Next, Steps
<1>2. CASE UNCHANGED vars
  BY <1>2 DEF vars, CustodyInv, TypeOK, Minting, KeysMintedOnce, Provided, Provider, Supervised,
              PasskeySound, Session, Held, Holding, Copied, OperatorKept, Paused, Ceiling, Past
<1> QED
  BY <1>1, <1>2

(* It holds throughout.                                                    *)
LEMMA CustodyInvHolds == Spec => []CustodyInv
BY InitCustodyInv, NextCustodyInv, PTL DEF Spec

(* Across crashes, retries, rollouts and replicas no key file is ever      *)
(* minted twice, and a replica that serves presents the secret Rauthy has  *)
(* for the client, unless a person re-registered it or the answer that     *)
(* brought it was lost (first_boot.rs, supervise.rs: client_secret_path).  *)
THEOREM CustodySoundHolds == Spec => []CustodySound
<1>1. CustodyInv => CustodySound
  <2> SUFFICES ASSUME CustodyInv PROVE SecretsMatch
    BY DEF CustodyInv, CustodySound
  <2>1. Held
    BY DEF CustodyInv
  <2> QED
    BY <2>1 DEF SecretsMatch, Held, Holding, Serving
<1> QED
  BY <1>1, CustodyInvHolds, PTL

(* A backup admin reported usable is registered and has no password left,  *)
(* whatever failed between its calls and however often they ran            *)
(* (rauthy_session.rs: ensure_backup_admin).                               *)
THEOREM PasskeySoundHolds == Spec => []PasskeySound
<1>1. CustodyInv => PasskeySound
  BY DEF CustodyInv
<1> QED
  BY <1>1, CustodyInvHolds, PTL

(* What an operator added to the cell's client stands through every start  *)
(* and rollout, and when every replica serves one version the native       *)
(* client grants what that version declares (bootstrap.rs, native.rs).     *)
THEOREM DocumentsKeptHolds == Spec => []DocumentsKept
<1>1. CustodyInv => DocumentsKept
  <2> SUFFICES ASSUME CustodyInv PROVE CeilingHolds
    BY DEF CustodyInv, DocumentsKept
  <2>1. Ceiling
    BY DEF CustodyInv
  <2> QED
    BY <2>1 DEF CeilingHolds, Ceiling, Past, Serving
<1> QED
  BY <1>1, CustodyInvHolds, PTL
=============================================================================
