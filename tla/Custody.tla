------------------------------ MODULE Custody ------------------------------
(***************************************************************************)
(* How a cell comes to hold what it needs of Rauthy: first boot mints the  *)
(* key set (src/crates/rahi-ops/src/first_boot.rs), every start makes sure *)
(* Rauthy holds the backup admin (rauthy_session.rs), the cell's own OIDC  *)
(* client with its custodied secret (src/crates/rahi-idp/src/bootstrap.rs, *)
(* supervise.rs) and the declared native client (native.rs), and composes  *)
(* identity.  Under `supervise` that is one process whose failure ends it; *)
(* a remote cell's replicas each do it in the background and retry.        *)
(*                                                                         *)
(* Rauthy is external: one admin call is one step of its store, and an     *)
(* operator changes the same documents in its admin UI between any two.    *)
(* A document is the part of it the program decides on: `sound` stands for *)
(* the flows, challenges, algorithms and URIs a client needs, `extra` for  *)
(* what an operator added, `lifetime` for the version of the manifest      *)
(* whose lifetime was written (0: Rauthy's default).                       *)
(***************************************************************************)
EXTENDS Naturals, Sequences, FiniteSets

CONSTANTS
    Node,       \* the replicas; one under supervise
    First,      \* the replica whose node id is 1
    Scope,      \* scopes of the native client
    Base,       \* the scopes every client has (BASE_SCOPES)
    Declared,   \* Declared[v]: the scopes version v's native client declares;
                \* {} when version v declares no native client
    None,       \* nothing there
    Scenes      \* what a behaviour may contain: see Scene

Version == DOMAIN Declared

ASSUME CustodyAssumption ==
    /\ First \in Node /\ IsFiniteSet(Node)
    /\ Declared \in Seq(SUBSET Scope) /\ Declared # << >>
    /\ Base \subseteq Scope /\ Base # {}
    /\ \A v \in Version : Declared[v] = {} \/ Base \subseteq Declared[v]

VARIABLES
    scene,    \* the behaviour's bounds
    rauthy,   \* Rauthy's documents
    cell,     \* cell[n]: replica n, its volume and its attempt
    left,     \* crashes, failed calls and operator acts that may still come
    told      \* history: what an operator did that must stand, and mints

vars == <<scene, rauthy, cell, left, told>>

(* The key set, in the order first boot writes it (keys::generate, then    *)
(* mint_backup_passkey), and the two files rendered from it.               *)
KeyOrder == <<"ledger", "session", "store", "backup", "rauthy", "token", "passkey">>
KeyFile == {KeyOrder[i] : i \in DOMAIN KeyOrder}
Rendered == {"config", "env"}
Required == {"ledger", "session", "store", "backup", "token"}

AdminStep == {"findUser", "readUser", "role", "createUser", "setPassword", "login", "register",
              "convert"}
ClientStep == {"readClient", "create", "reread", "update", "secret", "lifetime", "putLifetime"}
NativeStep == {"scopes", "scope", "readNative", "createNative", "rereadNative", "putNative"}
Call == AdminStep \cup ClientStep \cup NativeStep \cup {"discover", "reapply", "load"}
Step == Call \cup {"down", "minting", "rendering", "pause", "serving"}

(* What a write that was cut short leaves of a client secret.              *)
Half == 0

(* What Rauthy has registered under a name.                                *)
Client == [secret : Nat \ {Half}, sound : BOOLEAN, extra : BOOLEAN, lifetime : {0} \cup Version]
Native == [grants : SUBSET Scope, public : BOOLEAN]
Account == [password : Node \cup {None}, passkey : BOOLEAN]

(* What of a record `r` is written over by another.                        *)
Over(c, r) == [f \in DOMAIN c \cup DOMAIN r |-> IF f \in DOMAIN c THEN c[f] ELSE r[f]]

(* Rauthy before the cell first reaches it; Rauthy, and a replica.         *)
Untouched == [client |-> None, secrets |-> 0, native |-> None, scopes |-> Base,
              account |-> None, role |-> FALSE, access |-> "rendered"]
Documents == [client : Client \cup {None}, secrets : Nat, native : Native \cup {None},
              scopes : SUBSET Scope, account : Account \cup {None}, role : BOOLEAN,
              access : {"narrow", "rendered"}]
Replica == [pc : Step, version : Version, files : SUBSET (KeyFile \cup Rendered),
            torn : SUBSET (KeyFile \cup Rendered), file : Nat \cup {None},
            admin : {"none", "usable", "failed"}, using : Nat \cup {None},
            copy : Client \cup Native \cup {None}, minted : Nat \cup {None},
            catalog : SUBSET Scope, again : BOOLEAN, found : BOOLEAN]

(* Under `supervise` there is one process; a scene starts from documents   *)
(* Rauthy can hold.                                                        *)
ASSUME ScenesAssumption == \A s \in Scenes :
    /\ s.mode \in {"supervise", "remote"} /\ s.nodes \subseteq Node /\ s.nodes # {}
    /\ s.mode = "supervise" => \E n \in Node : s.nodes = {n}
    /\ s.files \subseteq KeyFile /\ s.last \in Version
    /\ s.left \in [crash : Nat, fail : Nat, act : Nat]
    /\ Over(s.rauthy, Untouched) \in Documents

ASSUME NoneAssumption ==
    None \notin Node \cup Scope \cup Nat \cup Client \cup Native \cup Account \cup KeyFile

(* An attempt's own variables, as it begins or ends at `step`.             *)
Afresh(step) == [pc |-> step, copy |-> None, minted |-> None, catalog |-> {}, again |-> FALSE,
                 found |-> FALSE]

(* Volumes: the keys that are already there, and no client secret yet.     *)
Volume(files) == Over([version |-> 1, files |-> files, torn |-> {}, file |-> None,
                       admin |-> "none", using |-> None], Afresh("down"))

Supervised == scene.mode = "supervise"

TypeOK ==
    /\ scene \in Scenes
    /\ rauthy \in Documents
    /\ cell \in [scene.nodes -> Replica]
    /\ \A n \in scene.nodes : cell[n].torn \subseteq cell[n].files
    /\ left \in [crash : Nat, fail : Nat, act : Nat]
    /\ told \in [widened : BOOLEAN, drifted : BOOLEAN, excused : SUBSET scene.nodes,
                 mints : [scene.nodes -> [KeyFile -> Nat]]]

Init ==
    /\ scene \in Scenes
    /\ rauthy = Over(scene.rauthy, Untouched)
    /\ cell = [n \in scene.nodes |-> Volume(scene.files)]
    /\ left = scene.left
    /\ told = [widened |-> FALSE, drifted |-> FALSE, excused |-> {},
               mints |-> [n \in scene.nodes |-> [f \in KeyFile |-> 0]]]

-----------------------------------------------------------------------------
(* One call: it is due, it leaves Rauthy with `r` and the replica with `c`  *)
(* written over its record.                                                 *)
Due(n, step) == n \in scene.nodes /\ cell[n].pc = step

Answer(n, r, c) ==
    /\ rauthy' = Over(r, rauthy)
    /\ cell' = [cell EXCEPT ![n] = Over(c, @)]
    /\ UNCHANGED <<scene, left>>

(* A call that leaves Rauthy as it is.                                      *)
Then(n, c) ==
    /\ cell' = [cell EXCEPT ![n] = Over(c, @)]
    /\ UNCHANGED <<scene, rauthy, left>>

(* An attempt that failed: `supervise` exits and is started again, a remote *)
(* cell's composition waits in the background and tries again.              *)
Ended == Afresh(IF Supervised THEN "down" ELSE "pause")

Give(n) == Then(n, Ended) /\ UNCHANGED told

(* The steps after custody and after the backup admin, in either mode.      *)
AfterAdmin == IF Supervised THEN "readClient" ELSE "load"
(* Mutant of ProvisionsBackupAdmin: every replica provisions it.            *)
ProvisionsAnywhere(n) == n \in Node
ProvisionsBackupAdmin(n) == n = First
AfterCustody(n) ==
    CASE Supervised -> "discover"
      [] ~Supervised /\ ProvisionsBackupAdmin(n) -> "findUser"
      [] OTHER -> "load"

-----------------------------------------------------------------------------
(* First boot, which every start runs before it serves.                     *)

(* KeySet::check and rauthy_secrets: what a rerun asks of the files it      *)
(* finds; a file a crash left half written fails one of the two.            *)
Checked(n) ==
    LET c == cell[n] IN
    Required \cup {"rauthy"} \subseteq c.files \ c.torn

IsEmptyDir(n) == cell[n].files \cap KeyFile = {}

Start(n) ==
    /\ Due(n, "down")
    /\ \/ IsEmptyDir(n) /\ Then(n, [pc |-> "minting"])
       \/ ~IsEmptyDir(n) /\ Checked(n) /\ Then(n, [pc |-> "rendering"])
    /\ UNCHANGED told

(* The first of the set this run has still to write, in order.              *)
Unwritten(n) ==
    LET i == CHOOSE i \in DOMAIN KeyOrder :
                /\ KeyOrder[i] \notin cell[n].files
                /\ \A j \in 1 .. i - 1 : KeyOrder[j] \in cell[n].files
    IN KeyOrder[i]

Written(n, f) == cell[n].files \cup {f}

Mint(n) ==
    /\ Due(n, "minting")
    /\ LET f == Unwritten(n) IN
        /\ Then(n, [files |-> Written(n, f),
                    pc |-> IF KeyFile \subseteq Written(n, f) THEN "rendering" ELSE "minting"])
        /\ told' = [told EXCEPT !.mints[n][f] = @ + 1]

(* write_rauthy_files: what is absent, the config first; a file that is     *)
(* there is kept, whatever it holds.  Then Rauthy is healthy and runs on    *)
(* them, but need not be on half an environment; a remote cell, whose       *)
(* Rauthy has its own, asks for discovery.                                  *)
Unrendered(n) == IF "config" \in cell[n].files THEN "env" ELSE "config"

Render(n) ==
    /\ Due(n, "rendering")
    /\ LET rendered == Rendered \subseteq cell[n].files IN
       \/ ~rendered /\ Then(n, [files |-> Written(n, Unrendered(n))])
       \/ rendered /\ Then(n, Afresh(IF Supervised THEN "findUser" ELSE "discover"))
       \/ rendered /\ Supervised /\ "env" \in cell[n].torn /\ Then(n, Ended)
    /\ UNCHANGED told

-----------------------------------------------------------------------------
(* ensure_backup_admin: its failure is reported and ends nothing.           *)

HasPasskey(n) == "passkey" \in cell[n].files \ cell[n].torn

Reported(n, admin) == Then(n, [admin |-> admin, pc |-> AfterAdmin])

(* The account type Rauthy answers.                                         *)
PasskeyOnly(account) == account.passkey /\ account.password = None

FindUser(n) ==
    /\ Due(n, "findUser")
    /\ \/ "passkey" \notin cell[n].files /\ Reported(n, "none")
       \/ "passkey" \in cell[n].torn /\ Reported(n, "failed")
       \/ HasPasskey(n)
          /\ Then(n, [pc |-> IF rauthy.account = None THEN "role" ELSE "readUser"])
    /\ UNCHANGED told

ReadUser(n) ==
    /\ Due(n, "readUser")
    /\ LET account == rauthy.account IN
       \/ account = None /\ Reported(n, "failed")
       \/ account # None /\ PasskeyOnly(account) /\ Reported(n, "usable")
       \/ account # None /\ ~PasskeyOnly(account) /\ account.passkey /\ Reported(n, "failed")
       \/ account # None /\ ~account.passkey /\ Then(n, [pc |-> "role", found |-> TRUE])
    /\ UNCHANGED told

EnsureRole(n) ==
    /\ Due(n, "role")
    /\ Answer(n, [role |-> TRUE],
              [pc |-> IF cell[n].found THEN "setPassword" ELSE "createUser"])
    /\ UNCHANGED told

CreateUser(n) ==
    /\ Due(n, "createUser")
    /\ \/ rauthy.account # None /\ Reported(n, "failed")
       \/ rauthy.account = None
          /\ Answer(n, [account |-> [password |-> None, passkey |-> FALSE]],
                    [pc |-> "setPassword"])
    /\ UNCHANGED told

(* A transient password of this run's own.                                  *)
SetPassword(n) ==
    /\ Due(n, "setPassword")
    /\ \/ rauthy.account = None /\ Reported(n, "failed")
       \/ rauthy.account # None
          /\ Answer(n, [account |-> [rauthy.account EXCEPT !.password = n]], [pc |-> "login"])
    /\ UNCHANGED told

(* The rest of register_passkey logs in with that password.                 *)
Session(n) == rauthy.account # None /\ rauthy.account.password = n

Login(n) ==
    /\ Due(n, "login")
    /\ \/ ~Session(n) /\ Reported(n, "failed")
       \/ Session(n) /\ Then(n, [pc |-> "register"])
    /\ UNCHANGED told

Register(n) ==
    /\ Due(n, "register")
    /\ \/ ~Session(n) /\ Reported(n, "failed")
       \/ Session(n)
          /\ Answer(n, [account |-> [rauthy.account EXCEPT !.passkey = TRUE]],
                    [pc |-> "convert"])
    /\ UNCHANGED told

Convert(n) ==
    /\ Due(n, "convert")
    /\ \/ ~Session(n) /\ Reported(n, "failed")
       \/ Session(n)
          /\ Answer(n, [account |-> [rauthy.account EXCEPT !.password = None]],
                    [admin |-> "usable", pc |-> AfterAdmin])
    /\ UNCHANGED told

-----------------------------------------------------------------------------
(* custody_client, the cell's own client first (bootstrap_client).          *)

ReadClient(n) ==
    /\ Due(n, "readClient")
    /\ LET client == rauthy.client IN
       \/ client = None /\ Then(n, [pc |-> "create"])
       \/ client # None /\ client.sound /\ Then(n, [pc |-> "secret"])
       \/ client # None /\ ~client.sound /\ Then(n, Ended)
    /\ UNCHANGED told

(* Rauthy registers it with its own defaults; whether its answer carries    *)
(* the secret is Rauthy's to say.                                           *)
Create(n) ==
    /\ Due(n, "create")
    /\ \/ rauthy.client # None /\ Give(n)
       \/ /\ rauthy.client = None
          /\ LET secret == rauthy.secrets + 1 IN
             \E minted \in {None, secret} :
                /\ Answer(n, [client |-> [secret |-> secret, sound |-> FALSE, extra |-> FALSE,
                                          lifetime |-> 0],
                              secrets |-> secret],
                          [pc |-> "reread", minted |-> minted])
                /\ told' = [told EXCEPT !.excused = IF minted = None THEN @ ELSE @ \ {n}]

Reread(n) ==
    /\ Due(n, "reread")
    /\ \/ rauthy.client = None /\ Then(n, Ended)
       \/ rauthy.client # None /\ Then(n, [pc |-> "update", copy |-> rauthy.client])
    /\ UNCHANGED told

(* The whole document goes back, as it was read; the secret is not in it.   *)
Put(copy) == [copy EXCEPT !.secret = rauthy.client.secret]

Update(n) ==
    /\ Due(n, "update")
    /\ \/ rauthy.client = None /\ Then(n, Ended)
       \/ rauthy.client # None
          /\ Answer(n, [client |-> [Put(cell[n].copy) EXCEPT !.sound = TRUE]],
                    [pc |-> "secret", copy |-> None])
    /\ UNCHANGED told

(* Mutant of Custodied: a file that is there is kept.                       *)
CustodiedOnce(n) ==
    IF cell[n].file # None THEN cell[n].file
    ELSE IF cell[n].minted # None THEN cell[n].minted
    ELSE rauthy.client.secret

(* What was just minted, else the file that is there, else what Rauthy says.*)
Custodied(n) ==
    IF cell[n].minted # None THEN cell[n].minted
    ELSE IF cell[n].file # None THEN cell[n].file
    ELSE rauthy.client.secret

KeepSecret(n) ==
    /\ Due(n, "secret")
    /\ \/ cell[n].minted = None /\ cell[n].file = None /\ rauthy.client = None /\ Then(n, Ended)
       \/ ~(cell[n].minted = None /\ cell[n].file = None /\ rauthy.client = None)
          /\ Then(n, [pc |-> "lifetime", file |-> Custodied(n), minted |-> None])
    /\ UNCHANGED told

(* apply_lifetime: one field of the document Rauthy answered.               *)
ReadLifetime(n) ==
    /\ Due(n, "lifetime")
    /\ LET client == rauthy.client
           v == cell[n].version
       IN
       \/ client = None /\ Then(n, Ended)
       \/ client # None /\ client.lifetime = v /\ Then(n, [pc |-> "scopes"])
       \/ client # None /\ client.lifetime # v
          /\ Then(n, [pc |-> "putLifetime", copy |-> client])
    /\ UNCHANGED told

(* Mutant of WithLifetime: the cell's own settings, not what Rauthy sent.   *)
WithOwnSettings(n) ==
    [Put(cell[n].copy) EXCEPT !.lifetime = cell[n].version, !.extra = FALSE]
WithLifetime(n) == [Put(cell[n].copy) EXCEPT !.lifetime = cell[n].version]

PutLifetime(n) ==
    /\ Due(n, "putLifetime")
    /\ \/ rauthy.client = None /\ Then(n, Ended)
       \/ rauthy.client # None
          /\ Answer(n, [client |-> WithLifetime(n)], [pc |-> "scopes", copy |-> None])
    /\ UNCHANGED told

-----------------------------------------------------------------------------
(* The declared native client (provision_native_clients).                   *)

Declares(n) == Declared[cell[n].version]
Custody(n) == Afresh(AfterCustody(n))

(* Mutant of Reapplies: a key is as wide as the version that rendered it.   *)
ReappliesNever(n) == n \notin Node

(* A key that may not read scopes: `supervise` widens it once with the      *)
(* backup admin's session and runs custody again; a remote cell cannot.     *)
Reapplies(n) == Supervised /\ ~cell[n].again

ReadScopes(n) ==
    /\ Due(n, "scopes")
    /\ \/ Declares(n) = {} /\ Then(n, Custody(n))
       \/ Declares(n) # {} /\ rauthy.access = "narrow" /\ Reapplies(n)
          /\ Then(n, [pc |-> "reapply"])
       \/ Declares(n) # {} /\ rauthy.access = "narrow" /\ ~Reapplies(n) /\ Then(n, Ended)
       \/ Declares(n) # {} /\ rauthy.access # "narrow"
          /\ Then(n, [pc |-> "scope", catalog |-> rauthy.scopes])
    /\ UNCHANGED told

Reapply(n) ==
    /\ Due(n, "reapply")
    /\ LET opens == HasPasskey(n) /\ rauthy.account # None /\ PasskeyOnly(rauthy.account) IN
       \/ opens /\ Answer(n, [access |-> "rendered"], [pc |-> "readClient", again |-> TRUE])
       \/ ~opens /\ Then(n, Ended)
    /\ UNCHANGED told

(* The next declared scope the catalog this attempt read does not have.     *)
CreateScope(n) ==
    /\ Due(n, "scope")
    /\ LET missing == Declares(n) \ cell[n].catalog IN
       \/ missing = {} /\ Then(n, [pc |-> "readNative"])
       \/ \E s \in missing :
            \/ s \in rauthy.scopes /\ Then(n, Ended)
            \/ s \notin rauthy.scopes
               /\ Answer(n, [scopes |-> rauthy.scopes \cup {s}],
                         [catalog |-> cell[n].catalog \cup {s}])
    /\ UNCHANGED told

(* Mutant of AsDeclared: a client that covers what is declared will do.     *)
AsCovered(n, native) == native.public /\ Declares(n) \subseteq native.grants

(* NativeSettings::first_mismatch compares as sets, not for coverage.       *)
AsDeclared(n, native) == native.public /\ native.grants = Declares(n)

Settle(n, native) ==
    Then(n, IF AsDeclared(n, native) THEN Custody(n) ELSE [pc |-> "putNative", copy |-> native])

ReadNative(n) ==
    /\ Due(n, "readNative")
    /\ \/ rauthy.native = None /\ Then(n, [pc |-> "createNative"])
       \/ rauthy.native # None /\ Settle(n, rauthy.native)
    /\ UNCHANGED told

CreateNative(n) ==
    /\ Due(n, "createNative")
    /\ \/ rauthy.native # None /\ Then(n, Ended)
       \/ rauthy.native = None
          /\ Answer(n, [native |-> [grants |-> Base, public |-> FALSE]], [pc |-> "rereadNative"])
    /\ UNCHANGED told

RereadNative(n) ==
    /\ Due(n, "rereadNative")
    /\ \/ rauthy.native = None /\ Then(n, Ended)
       \/ rauthy.native # None /\ Settle(n, rauthy.native)
    /\ UNCHANGED told

PutNative(n) ==
    /\ Due(n, "putNative")
    /\ \/ /\ rauthy.native = None \/ ~(Declares(n) \subseteq rauthy.scopes)
          /\ Give(n)
       \/ /\ rauthy.native # None /\ Declares(n) \subseteq rauthy.scopes
          /\ Answer(n, [native |-> [grants |-> Declares(n), public |-> TRUE]], Custody(n))
          /\ told' = [told EXCEPT !.drifted = FALSE]

-----------------------------------------------------------------------------
(* The rest of `identity`.                                                  *)

Discover(n) ==
    /\ Due(n, "discover")
    /\ Then(n, [pc |-> IF Supervised THEN "load" ELSE "readClient"])
    /\ UNCHANGED told

Retry(n) ==
    /\ Due(n, "pause")
    /\ Then(n, [pc |-> "discover"])
    /\ UNCHANGED told

(* Discovery's key set, the session key and the custodied secret.           *)
Load(n) ==
    /\ Due(n, "load")
    /\ \/ cell[n].file = None /\ Then(n, Ended)
       \/ cell[n].file # None
          /\ Then(n, Over([using |-> cell[n].file], Afresh("serving")))
    /\ UNCHANGED told

-----------------------------------------------------------------------------
(* Faults, rollouts and the operator.                                       *)

(* An attempt that knew a new secret and lost it before the file held it.   *)
Lost(n) == cell[n].minted # None /\ cell[n].file # None

Excusing(n, lost) == [told EXCEPT !.excused = IF lost THEN @ \cup {n} ELSE @]

(* The plain writes a replica is in: a file of the key set or a rendered    *)
(* one; the client secret, told or read from Rauthy.                        *)
Writing(n) ==
    CASE cell[n].pc = "minting" -> {Unwritten(n)}
      [] cell[n].pc = "rendering" -> {Unrendered(n)} \ cell[n].files
      [] OTHER -> {}
WritesSecret(n) ==
    /\ cell[n].pc = "secret"
    /\ cell[n].minted # None \/ (cell[n].file = None /\ rauthy.client # None)

(* A replica's attempt is broken off and becomes `c`.  A secret's write     *)
(* that was cut short leaves a file that is there.                          *)
Broken(n, c) == cell' = [cell EXCEPT ![n] = Over(c, @)] /\ told' = Excusing(n, Lost(n))
SecretCut(n, c) ==
    /\ WritesSecret(n)
    /\ cell' = [cell EXCEPT ![n] = Over(Over([file |-> Half], c), @)]
    /\ told' = Excusing(n, TRUE)

(* A call fails, or its answer is lost after the call before had its        *)
(* effect: the same states; or the disk fails the secret's write.           *)
Fail(n) ==
    /\ n \in scene.nodes /\ cell[n].pc \in Call /\ left.fail > 0
    /\ \/ cell[n].pc \in AdminStep /\ Broken(n, [admin |-> "failed", pc |-> AfterAdmin])
       \/ cell[n].pc \notin AdminStep /\ Broken(n, Ended)
       \/ SecretCut(n, Ended)
    /\ left' = [left EXCEPT !.fail = @ - 1]
    /\ UNCHANGED <<scene, rauthy>>

(* A crash; what the replica was writing may be left half written.          *)
Crash(n) ==
    /\ n \in scene.nodes /\ cell[n].pc # "down" /\ left.crash > 0
    /\ \/ Broken(n, Over([using |-> None], Afresh("down")))
       \/ \E f \in Writing(n) :
            Broken(n, Over([torn |-> cell[n].torn \cup {f}, files |-> Written(n, f)],
                           Afresh("down")))
       \/ SecretCut(n, Afresh("down"))
    /\ left' = [left EXCEPT !.crash = @ - 1]
    /\ UNCHANGED <<scene, rauthy>>

(* A rollout replaces one serving replica by the next version.              *)
Upgrade(n) ==
    /\ Due(n, "serving") /\ cell[n].version < scene.last
    /\ Then(n, [pc |-> "down", using |-> None, version |-> cell[n].version + 1])
    /\ UNCHANGED told

(* What a person does in Rauthy's admin UI.                                 *)
Act(r, c, t) ==
    /\ left.act > 0
    /\ left' = [left EXCEPT !.act = @ - 1]
    /\ rauthy' = Over(r, rauthy) /\ cell' = c /\ told' = Over(t, told)
    /\ UNCHANGED scene

(* Kept, unless a read-modify-write of the cell's is under way.             *)
WidenClient ==
    /\ "widen" \in scene.acts
    /\ rauthy.client # None /\ rauthy.client.sound /\ ~rauthy.client.extra
    /\ Act([client |-> [rauthy.client EXCEPT !.extra = TRUE]], cell,
           [widened |-> \A n \in scene.nodes : cell[n].pc \notin {"update", "putLifetime"}])

DeleteClient ==
    /\ "delete" \in scene.acts /\ rauthy.client # None
    /\ Act([client |-> None], cell,
           [widened |-> FALSE,
            excused |-> {n \in scene.nodes : cell[n].file # None \/ cell[n].minted # None}])

DriftNative ==
    /\ "drift" \in scene.acts /\ rauthy.native # None
    /\ \E s \in rauthy.scopes \ rauthy.native.grants :
        Act([native |-> [rauthy.native EXCEPT !.grants = @ \cup {s}]], cell, [drifted |-> TRUE])

DeleteAccount ==
    /\ "account" \in scene.acts /\ rauthy.account # None
    /\ Act([account |-> None],
           [n \in scene.nodes |-> [cell[n] EXCEPT !.admin = "none"]], << >>)

-----------------------------------------------------------------------------
AdminRuns(n) ==
    \/ FindUser(n) \/ ReadUser(n) \/ EnsureRole(n) \/ CreateUser(n) \/ SetPassword(n)
    \/ Login(n) \/ Register(n) \/ Convert(n)
ClientRuns(n) ==
    \/ ReadClient(n) \/ Create(n) \/ Reread(n) \/ Update(n) \/ KeepSecret(n)
    \/ ReadLifetime(n) \/ PutLifetime(n)
NativeRuns(n) ==
    \/ ReadScopes(n) \/ Reapply(n) \/ CreateScope(n) \/ ReadNative(n) \/ CreateNative(n)
    \/ RereadNative(n) \/ PutNative(n)
Runs(n) ==
    \/ Start(n) \/ Mint(n) \/ Render(n) \/ Discover(n) \/ Retry(n) \/ Load(n)
    \/ AdminRuns(n) \/ ClientRuns(n) \/ NativeRuns(n)
Operator == WidenClient \/ DeleteClient \/ DriftNative \/ DeleteAccount

Next ==
    \/ \E n \in Node : Runs(n) \/ Fail(n) \/ Crash(n) \/ Upgrade(n)
    \/ Operator

Spec == Init /\ [][Next]_vars

(* A started container keeps running, an ended one is started again.        *)
FairSpec == Spec /\ \A n \in Node : WF_vars(Runs(n))

-----------------------------------------------------------------------------
(* What custody is for.                                                     *)

Serving(n) == cell[n].pc = "serving"

(* No key file of a volume is ever minted twice: keys that were printed or  *)
(* used are not replaced (first_boot::run, is_empty_dir).                   *)
KeysMintedOnce == \A n \in scene.nodes, f \in KeyFile : told.mints[n][f] <= 1

(* A replica that serves presents the secret Rauthy has for the client,     *)
(* unless a person re-registered the client under it, it lost the answer    *)
(* that would have told it, or the write of its file was cut short: such a  *)
(* file is there, so every later start keeps it (custody_client,            *)
(* write_client_secret, client_secret_path).                                *)
SecretsMatch ==
    \A n \in scene.nodes :
        /\ Serving(n) /\ n \notin told.excused /\ rauthy.client # None
        => cell[n].using = rauthy.client.secret

(* What an operator added to the cell's own client stands through starts,   *)
(* retries and upgrades (bootstrap.rs, apply_lifetime).                     *)
OperatorKept == told.widened => rauthy.client # None /\ rauthy.client.extra

(* When every replica serves one version, the native client grants exactly  *)
(* what that version declares, whatever an older one granted and however    *)
(* the rollout interleaved (native.rs: declared settings replace).          *)
CeilingHolds ==
    \A v \in Version :
        (/\ ~told.drifted /\ Declared[v] # {} /\ rauthy.native # None
         /\ \A n \in scene.nodes : Serving(n) /\ cell[n].version = v)
        => rauthy.native.grants = Declared[v]

(* A backup admin reported usable is one: registered, and with no password  *)
(* left (ensure_backup_admin; serve.rs provisions_backup_admin).            *)
PasskeySound ==
    \A n \in scene.nodes :
        cell[n].admin = "usable" => rauthy.account # None /\ PasskeyOnly(rauthy.account)

(* Across crashes, retries and replicas the key set is minted once, and a   *)
(* secret the cell kept whole is the one Rauthy holds (first_boot.rs,       *)
(* supervise.rs).                                                           *)
CustodySound == TypeOK /\ KeysMintedOnce /\ SecretsMatch

(* What an operator put into a client outlives every start, and the program *)
(* never gives the native client more than is declared (bootstrap.rs,       *)
(* native.rs).                                                              *)
DocumentsKept == OperatorKept /\ CeilingHolds

(* What no attempt repairs and only a person can: a client a failed         *)
(* registration left with Rauthy's defaults, a key set a crash left         *)
(* incomplete, an environment it left half written, a key too narrow with   *)
(* nobody to widen it.                                                      *)
StrandedClient ==
    /\ rauthy.client # None /\ ~rauthy.client.sound
    /\ \A n \in scene.nodes : cell[n].pc \notin {"reread", "update"}
StrandedKeys(n) == cell[n].pc = "down" /\ ~IsEmptyDir(n) /\ ~Checked(n)
StrandedAccess(n) ==
    /\ rauthy.access = "narrow"
    /\ \/ ~Supervised \/ ~HasPasskey(n)
       \/ rauthy.account # None /\ rauthy.account.passkey /\ ~PasskeyOnly(rauthy.account)
StrandedEnvironment(n) == Supervised /\ "env" \in cell[n].torn
Stranded ==
    \/ StrandedClient
    \/ \E n \in scene.nodes : StrandedKeys(n) \/ StrandedAccess(n) \/ StrandedEnvironment(n)

(* Every replica comes to serve, whatever failed on the way, unless what    *)
(* only a person repairs was left behind.                                   *)
Composes == <>[]((\A n \in scene.nodes : Serving(n)) \/ Stranded)

(* bootstrap.rs: "First boot registers the client; every boot after that    *)
(* finds it and changes nothing."  Nothing but the program touched Rauthy.  *)
NeverStranded == ~StrandedClient

(* supervise.rs: custody_client runs "after rauthy is healthy and before    *)
(* serve", and serve asks only that the secret be "custodied": no replica   *)
(* serves on half a secret.                                                 *)
NeverHalf == \A n \in scene.nodes : Serving(n) => cell[n].using # Half
===========================================================================
