--------------------------- MODULE SessionProofs ---------------------------
(* Theorems about Session, for any number of requests in flight, of logins,*)
(* tokens and signing keys, every lifetime and every length of run.        *)
EXTENDS Session, TLAPS

Who == {Nobody, Bare, Holder}
Cookie == [sid : Sids, token : 1..MaxGrants]
Envelope == Cookie \cup {Foreign, NoCookie}

(* A request of each kind.                                                 *)
BrowserPcs == Layer \cup {"handle", "begun", "exchange", "claims", "establish", "welcome",
                          "refuse", "revoke", "forget", "leave"}
Browsed == [kind : Routes, pc : BrowserPcs, from : 0..MaxTime, env : Envelope, code : 0..MaxLogins,
            login : [login : Nat, issued : Nat], as : Who, token : 0..MaxGrants, bought : {0, 1},
            fresh : Cookie \cup {NoCookie}, dropped : BOOLEAN, alone : BOOLEAN]
Bearer == [kind : {"bearer"}, pc : Pcs.bearer, from : 0..MaxTime, jti : Nat, barred : BOOLEAN]
Operator == [kind : {"operator"}, pc : Pcs.operator, from : 0..MaxTime]
Request == {Idle} \cup Browsed \cup Bearer \cup Operator

Instants ==
    /\ scene \in Scenes /\ now \in 0..scene.time /\ faults \in 0..scene.faults
    /\ lost \in 0..now \cup {Never} /\ ended \in -1..now

GrantsOK == grants \in [Sids -> [last : 0..MaxGrants, live : BOOLEAN]]
LoginsOK == logins \in 0..scene.logins /\ codes \subseteq 1..logins
TokensOK == signing \in 1..MaxKids /\ tokens \in Seq([iat : Nat, exp : Nat, kid : 1..signing])
KeysOK == keys \in [current : SUBSET (1..signing), previous : SUBSET (1..signing),
                    refreshed : 0..now]
CacheOK == cache \in [Sids -> [as : Who, expires : Int]]
RowsOK == rows \in [jti : SUBSET DOMAIN tokens, sub : -1..now, floor : -1..now]
JarOK == jar \in [session : Envelope, login : [login : Nat, issued : Nat]]
HistoryOK == /\ spoiled \subseteq Sids /\ silenced \subseteq Sids
             /\ logouts \in [Sids -> {"open", "renewed", "kept", "dropped"}]
Records == /\ GrantsOK /\ LoginsOK /\ TokensOK /\ KeysOK /\ CacheOK /\ RowsOK /\ JarOK
           /\ HistoryOK

Requests ==
    /\ reqs \in [Slots -> Request]
    /\ \A r \in Slots : reqs[r] # Idle => reqs[r].from <= now /\ now <= reqs[r].from + Flight

Shape == Instants /\ Records /\ Requests

(* What a browser's request holds at each of its steps.                    *)
Phase(q) ==
    /\ q.pc \in Pcs[q.kind]
    /\ q.kind \in {"page", "logout"} => q.code = 0 /\ q.env # NoCookie
    /\ q.kind \in {"login", "callback"} => q.code # 0
    /\ q.env = NoCookie => q.pc \notin Layer
    /\ q.env = Foreign => q.pc = "clear"
    /\ q.env \notin Cookie => q.token = 0
    /\ q.pc \in {"load", "grant"} => q.token = 0
    /\ q.pc \in {"userinfo", "mint"} => q.token # 0
    /\ q.pc \in Layer => q.fresh = NoCookie
    /\ q.pc \notin Layer /\ q.token # 0 => q.fresh # NoCookie
    /\ q.fresh # NoCookie => q.token # 0 /\ q.fresh = [sid |-> q.env.sid, token |-> q.token]
    /\ q.pc \in Layer \cup {"handle", "begun", "exchange"} => q.bought = 0
    /\ q.pc = "welcome" => q.bought = 1
    /\ q.bought # 0 => q.code # 0
    /\ q.alone => q.kind = "logout"
    /\ q.dropped => q.pc = "leave"

(* Of the sessions a request is of, the one presented and the one it is    *)
(* buying, it holds tokens rauthy issued, and the live ones.               *)
Backed(q) ==
    /\ q.env.sid \in Sids => q.env.token <= grants[q.env.sid].last /\ q.token <= grants[q.env.sid].last
    /\ q.code \in Sids => q.bought <= grants[q.code].last
    /\ q.env.sid \in Sids \ spoiled /\ q.token # 0 => Accepts(q.env.sid, q.token)
    /\ q.code \in Sids \ spoiled /\ q.bought # 0 => Accepts(q.code, q.bought)

(* A login under way: its code is spent, and until it is exchanged rauthy  *)
(* has granted nothing for it.                                             *)
Booked(q) ==
    q.code # 0 =>
      /\ q.code \notin codes /\ q.code <= logins
      /\ q.pc \in Layer \cup {"begun", "exchange"} => ~grants[q.code].live /\ q.code \notin silenced

(* An assertion is bounded by what rauthy said last, and so is a request   *)
(* that carries one.                                                       *)
RoleGone == lost + Flight + AccessTtl
GrantGone == ended + Flight + AccessTtl
Timely(q) ==
    /\ q.pc \in {"mint", "establish"} /\ q.as = Holder => q.from <= lost
    /\ q.pc \in {"userinfo", "mint"} /\ q.env.sid \in silenced => q.from <= ended
    /\ q.pc \in {"claims", "establish"} /\ q.code \in silenced => q.from <= ended
    /\ q.pc = "handle" /\ q.as = Holder => q.from < RoleGone
    /\ q.pc = "handle" /\ q.env.sid \in silenced => q.from < GrantGone
CacheBounded ==
    \A s \in Sids :
        /\ cache[s].expires <= now + AccessTtl
        /\ cache[s].as = Holder => cache[s].expires <= RoleGone
        /\ s \in silenced => cache[s].expires <= GrantGone /\ ~grants[s].live

(* A logout nothing overlaps has dropped the assertion if it says so.      *)
Left(q) == q.alone /\ q.dropped => cache[q.env.sid] = Unheld

Fit(q) == Phase(q) /\ Backed(q) /\ Booked(q) /\ Timely(q) /\ Left(q)
Fits == \A r \in Slots : reqs[r].kind \in Routes => Fit(reqs[r])

(* No two requests share a login, and none a session with a logout alone.  *)
Apart ==
    \A r, q \in Slots : reqs[r].kind \in Routes /\ reqs[q].kind \in Routes /\ q # r =>
        /\ reqs[r].code # 0 => reqs[q].code # reqs[r].code
        /\ reqs[r].alone => reqs[q].env.sid # reqs[r].env.sid

(* A login without its cookies: rauthy has not been asked, or has not been *)
(* answered, or the answer is still on its way.  No request and no logout  *)
(* is of its session yet.                                                  *)
Unasked(s) == s \in codes \/ s > logins
Logging(r, s) == reqs[r].kind \in Routes /\ reqs[r].code = s
Unborn(s) == Unasked(s) \/ \E r \in Slots : Logging(r, s)
Hidden(s) == jar.session.sid # s /\ InFlight(s) = {} /\ logouts[s] = "open"

(* The jar holds a session's live token, or a reply that does is on its    *)
(* way.                                                                    *)
Renewing(r, s) == reqs[r].kind \in Routes /\ reqs[r].env.sid = s /\ reqs[r].token # 0
JarKept(s) ==
    jar.session.sid = s =>
      /\ jar.session.token <= grants[s].last
      /\ s \notin spoiled => Accepts(s, jar.session.token) \/ \E r \in Slots : Renewing(r, s)

(* A session ended for good has nothing left.                              *)
Final(s) == logouts[s] \in {"kept", "dropped"}
Over(s) ==
    Final(s) => /\ InFlight(s) = {} /\ jar.session.sid # s
                /\ logouts[s] = "dropped" => cache[s] = Unheld
Sessions ==
    \A s \in Sids : /\ Unasked(s) => ~grants[s].live /\ s \notin silenced
                    /\ Unborn(s) => Hidden(s)
                    /\ JarKept(s) /\ Over(s)

(* What bars a request is still ahead of it: it has not passed the read    *)
(* that finds it.                                                          *)
Barring(q) ==
    /\ q.pc \in {"key", "floor"} => Covered(q.jti)
    /\ q.pc = "jti" => q.jti \in rows.jti \/ tokens[q.jti].iat <= rows.sub
    /\ q.pc = "subject" => tokens[q.jti].iat <= rows.sub
    /\ q.pc \notin {"count", "admitted"}
Trial(q) ==
    /\ q.jti \in 0..Len(tokens)
    /\ q.pc \in {"floor", "jti", "subject", "count", "admitted"} => q.jti # 0
    /\ q.barred => q.jti # 0 /\ Barring(q)
    /\ q.pc = "unkeyed" => KeyOf(q.jti) < signing
Judged == \A r \in Slots : reqs[r].kind = "bearer" => Trial(reqs[r])

IInv == Shape /\ Fits /\ Apart /\ Sessions /\ CacheBounded /\ Judged


----------------------------------------------------------------------------
(* The constants are natural numbers, and every scene stays within them.   *)
LEMMA Bounds ==
    /\ MaxTime \in Nat /\ Flight \in Nat \ {0} /\ AccessTtl \in Nat /\ MaxLogins \in Nat
    /\ MaxGrants \in Nat \ {0} /\ MaxKids \in Nat /\ KeyInterval \in Nat
    /\ ExpiresIn \subseteq Nat /\ Lifetimes \subseteq Nat
    /\ \A s \in Scenes : /\ s.time \in 0..MaxTime /\ s.logins \in 0..MaxLogins
                         /\ s.kids \in 1..MaxKids /\ s.faults \in Nat
<1> USE SessionAssumption
<1>1. \A s \in Scenes : /\ s.time \in 0..MaxTime /\ s.logins \in 0..MaxLogins
                        /\ s.kids \in 1..MaxKids /\ s.faults \in Nat
  OBVIOUS
<1> QED
  BY <1>1

(* A request is of the kind it says.                                       *)
LEMMA Kinds ==
    ASSUME NEW q \in Request
    PROVE  /\ q.kind \in Routes => q \in Browsed
           /\ q.kind = "bearer" => q \in Bearer
           /\ q.kind = "operator" => q \in Operator
           /\ q # Idle <=> q.kind # "none"
           /\ q.kind \in Routes => q.kind \notin {"none", "bearer", "operator"}
           /\ q.kind \in Routes \cup {"none", "bearer", "operator"}
           /\ q # Idle => q.from \in 0..MaxTime
BY DEF Request, Browsed, Bearer, Operator, Idle, Routes

(* A cookie's session is one of the logins, or none.                       *)
LEMMA CookieSids ==
    /\ \A env \in Cookie : env.sid \in Sids /\ env.token \in 1..MaxGrants /\ env # Foreign
                           /\ env # NoCookie /\ env.sid # 0 /\ env.sid # -1
    /\ Foreign.sid \notin Sids /\ NoCookie.sid \notin Sids /\ Foreign # NoCookie
    /\ Foreign.token = 0 /\ NoCookie.token = 0
    /\ \A env \in Envelope : env.sid \in Sids <=> env \in Cookie
BY Bounds DEF Cookie, Foreign, NoCookie, Sids, Envelope

(* All slots but r are left alone.                                         *)
OneSlot(r) == \A q \in Slots : q # r => reqs'[q] = reqs[q]

(* A slot's request is replaced.                                           *)
LEMMA Replaced ==
    ASSUME Shape, NEW r \in Slots, NEW w \in Request, reqs' = [reqs EXCEPT ![r] = w], now' = now,
           w # Idle => w.from <= now /\ now <= w.from + Flight
    PROVE  Requests' /\ OneSlot(r) /\ reqs'[r] = w
<1>1. reqs \in [Slots -> Request]
  BY DEF Shape, Requests
<1> HIDE DEF Request
<1>2. reqs' \in [Slots -> Request] /\ OneSlot(r) /\ reqs'[r] = w
  BY <1>1 DEF OneSlot
<1> QED
  BY <1>1, <1>2 DEF Shape, Requests, OneSlot

LEMMA OthersGo ==
    ASSUME Shape, NEW r \in Slots, now' = now, NEW pc, Go(r, pc)
    PROVE  /\ reqs[r].kind = "bearer" /\ pc \in Pcs.bearer =>
                /\ Requests' /\ OneSlot(r)
                /\ reqs'[r].kind = "bearer" /\ reqs'[r].pc = pc /\ reqs'[r].jti = reqs[r].jti
                /\ reqs'[r].barred = reqs[r].barred
           /\ reqs[r].kind = "operator" /\ pc \in Pcs.operator =>
                Requests' /\ OneSlot(r) /\ reqs'[r].kind = "operator"
<1>1. reqs \in [Slots -> Request]
  BY DEF Shape, Requests
<1>2. reqs[r].kind # "none" => reqs[r].from <= now /\ now <= reqs[r].from + Flight
  BY <1>1, Kinds DEF Shape, Requests
<1> DEFINE w == [reqs[r] EXCEPT !.pc = pc]
<1>3. reqs' = [reqs EXCEPT ![r] = w]
  BY <1>1 DEF Go
<1>5. CASE reqs[r].kind = "bearer" /\ pc \in Pcs.bearer
  <2>1. w \in Bearer /\ w.from = reqs[r].from /\ w.jti = reqs[r].jti /\ w.barred = reqs[r].barred
        /\ w.pc = pc /\ w.kind = "bearer"
    BY <1>1, <1>5, Kinds DEF Bearer
  <2>2. w \in Request
    BY <2>1 DEF Request
  <2> HIDE DEF w
  <2> QED
    BY <1>2, <1>3, <1>5, <2>1, <2>2, Replaced
<1>6. CASE reqs[r].kind = "operator" /\ pc \in Pcs.operator
  <2>1. w \in Operator /\ w.from = reqs[r].from /\ w.kind = "operator"
    BY <1>1, <1>6, Kinds DEF Operator
  <2>2. w \in Request
    BY <2>1 DEF Request
  <2> HIDE DEF w
  <2> QED
    BY <1>2, <1>3, <1>6, <2>1, <2>2, Replaced
<1> QED
  BY <1>5, <1>6

LEMMA DoneIsIdle ==
    ASSUME Shape, NEW r \in Slots, now' = now, Done(r)
    PROVE  Requests' /\ OneSlot(r) /\ reqs'[r] = Idle /\ reqs'[r].kind = "none"
<1>1. Idle \in Request /\ Idle.kind = "none"
  BY DEF Request, Idle
<1> QED
  BY <1>1, Replaced DEF Done

(* A call answered or failed, and the steps that leave the clock alone.    *)
LEMMA InstantsKept ==
    ASSUME Shape, Fault \/ NoFault, UNCHANGED <<scene, now, lost, ended>>
    PROVE  Instants'
<1>1. scene.faults \in Nat /\ faults \in 0..scene.faults
  BY Bounds DEF Shape, Instants
<1>2. faults' \in 0..scene.faults
  BY <1>1 DEF Fault, NoFault
<1> QED
  BY <1>2 DEF Shape, Instants, Never

LEMMA RecordsKept ==
    ASSUME Shape, UNCHANGED <<scene, now, signing, tokens, keys, rows>>,
           LoginsOK', GrantsOK', CacheOK', JarOK', HistoryOK'
    PROVE  Records'
BY DEF Shape, Records, TokensOK, KeysOK, RowsOK

(* The clock and the instants are numbers.                                 *)
LEMMA Times ==
    ASSUME Shape
    PROVE  /\ now \in Nat /\ now <= MaxTime /\ lost \in Nat /\ ended \in Int /\ ended >= -1
           /\ RoleGone \in Int /\ lost < RoleGone /\ lost + Flight + AccessTtl = RoleGone
           /\ GrantGone \in Int /\ ended < GrantGone /\ ended + Flight + AccessTtl = GrantGone
           /\ \A s \in Sids : /\ cache[s].expires \in Int /\ cache[s].as \in Who
                              /\ grants[s].last \in 0..MaxGrants /\ grants[s].live \in BOOLEAN
           /\ logins \in Nat /\ logins <= MaxLogins /\ codes \subseteq 1..logins
           /\ lost = Never => now < lost
<1>1. now \in Nat /\ now <= MaxTime /\ lost \in Nat /\ ended \in Int /\ ended >= -1
      /\ (lost = Never => now < lost)
  BY Bounds DEF Shape, Instants, Never
<1>2. \A s \in Sids : /\ cache[s].expires \in Int /\ cache[s].as \in Who
                      /\ grants[s].last \in 0..MaxGrants /\ grants[s].live \in BOOLEAN
  BY DEF Shape, Records, CacheOK, GrantsOK
<1>3. logins \in Nat /\ logins <= MaxLogins /\ codes \subseteq 1..logins
  BY Bounds DEF Shape, Instants, Records, LoginsOK
<1> QED
  BY <1>1, <1>2, <1>3, Bounds DEF RoleGone, GrantGone

----------------------------------------------------------------------------
(* Steps of one side leave the other's part alone.                         *)
LEMMA BrowserFrame ==
    ASSUME IInv,
           \A q \in Slots : reqs[q].kind \in Routes \/ reqs'[q].kind \in Routes =>
                              reqs'[q] = reqs[q],
           UNCHANGED <<grants, codes, logins, cache, jar, spoiled, logouts, silenced, ended, lost,
                       now>>
    PROVE  Fits' /\ Apart' /\ Sessions' /\ CacheBounded'
<1> USE DEF IInv
<1>1. \A s : /\ InFlight(s)' = InFlight(s)
             /\ \A r \in Slots : /\ Logging(r, s)' <=> Logging(r, s)
                                 /\ Renewing(r, s)' <=> Renewing(r, s)
  BY DEF InFlight, Logging, Renewing
<1>2. Fits'
  BY DEF Fits, Fit, Phase, Backed, Accepts, Booked, Timely, RoleGone, GrantGone, Left
<1>3. Apart'
  BY DEF Apart
<1>4. ASSUME NEW s \in Sids
      PROVE  (Unasked(s)' <=> Unasked(s)) /\ (Unborn(s)' <=> Unborn(s)) /\ (Hidden(s)' <=> Hidden(s))
             /\ (JarKept(s)' <=> JarKept(s)) /\ (Over(s)' <=> Over(s))
  <2>1. (Unasked(s)' <=> Unasked(s)) /\ (Unborn(s)' <=> Unborn(s)) /\ (Hidden(s)' <=> Hidden(s))
    BY <1>1 DEF Unasked, Unborn, Hidden
  <2>2. JarKept(s)' <=> JarKept(s)
    BY <1>1 DEF JarKept, Accepts
  <2>3. Over(s)' <=> Over(s)
    BY <1>1 DEF Over, Final
  <2> QED
    BY <2>1, <2>2, <2>3
<1>5. Sessions'
  BY <1>4 DEF Sessions
<1>6. CacheBounded'
  BY DEF CacheBounded, RoleGone, GrantGone
<1> QED
  BY <1>2, <1>3, <1>5, <1>6

LEMMA BearerFrame ==
    ASSUME IInv,
           \A q \in Slots : reqs[q].kind = "bearer" \/ reqs'[q].kind = "bearer" =>
                              reqs'[q] = reqs[q],
           UNCHANGED <<tokens, rows, signing>>
    PROVE  Judged'
BY DEF IInv, Judged, Trial, Barring, Covered, KeyOf

(* What a browser's request in flight is known to be.                      *)
LEMMA BrowsedFacts ==
    ASSUME IInv, NEW r \in Slots, reqs[r].kind \in Routes
    PROVE  /\ Shape /\ reqs[r] \in Browsed /\ Fit(reqs[r]) /\ CacheBounded /\ reqs[r] # Idle
           /\ reqs[r].from \in Nat /\ reqs[r].from <= now /\ now <= reqs[r].from + Flight
           /\ reqs[r].pc \in Layer \ {"clear"} => reqs[r].env \in Cookie
           /\ reqs[r].code # 0 => reqs[r].code \in Sids /\ Unborn(reqs[r].code)
<1>1. reqs[r] \in Browsed /\ reqs[r] # Idle /\ Shape /\ CacheBounded /\ Fit(reqs[r])
  BY Kinds DEF IInv, Shape, Requests, Fits
<1>2. reqs[r].from \in Nat /\ reqs[r].from <= now /\ now <= reqs[r].from + Flight
  BY <1>1 DEF Shape, Requests, Browsed
<1>3. reqs[r].env \in Envelope /\ reqs[r].code \in 0..MaxLogins
  BY <1>1 DEF Browsed
<1>4. reqs[r].pc \in Layer \ {"clear"} => reqs[r].env \in Cookie
  BY <1>1, <1>3 DEF Fit, Phase, Envelope
<1>5. reqs[r].code # 0 => reqs[r].code \in Sids /\ Unborn(reqs[r].code)
  BY <1>3, Bounds DEF Sids, Unborn, Logging
<1> QED
  BY <1>1, <1>2, <1>4, <1>5

(* What a step keeps of a session that is not its own.                     *)
Keeps(s) ==
    /\ grants[s].last <= grants'[s].last
    /\ grants'[s].live => grants[s].live
    /\ s \in spoiled => s \in spoiled'
    /\ s \notin spoiled' => grants'[s] = grants[s]
Tells(s) == cache'[s] = cache[s] \/ cache'[s] = Unheld

(* A request goes on fitting when the step kept its sessions.              *)
LEMMA FitKept ==
    ASSUME Shape, NEW q \in Browsed, Fit(q), NEW u \in Browsed,
           u = q \/ u = [q EXCEPT !.alone = FALSE],
           GrantsOK', UNCHANGED <<lost, silenced, ended>>,
           q.env.sid \in Sids => Keeps(q.env.sid), q.code \in Sids => Keeps(q.code),
           q.code # 0 => q.code \notin codes' /\ q.code <= logins',
           u.alone /\ u.dropped => Tells(q.env.sid)
    PROVE  Fit(u)'
<1>1. /\ u.kind = q.kind /\ u.pc = q.pc /\ u.from = q.from /\ u.env = q.env /\ u.code = q.code
      /\ u.as = q.as /\ u.token = q.token /\ u.bought = q.bought /\ u.fresh = q.fresh
      /\ u.dropped = q.dropped /\ (u.alone => q.alone)
  BY DEF Browsed
<1>2. Phase(u)
  BY <1>1 DEF Fit, Phase
<1>3. \A s \in Sids : /\ grants[s].last \in Int /\ grants'[s].last \in Int
                      /\ grants[s] \in [last : 0..MaxGrants, live : BOOLEAN]
  BY Times, Bounds DEF GrantsOK, Shape, Records
<1>4. q.token \in Int /\ q.bought \in Int /\ q.env.token \in Int
  BY Bounds DEF Browsed, Envelope, Cookie, Foreign, NoCookie
<1>5. Backed(u)'
  <2>1. \A a, b, c \in Int : a <= b /\ b <= c => a <= c
    OBVIOUS
  <2>2. q.env.sid \in Sids =>
          q.env.token <= grants'[q.env.sid].last /\ q.token <= grants'[q.env.sid].last
    BY <1>3, <1>4, <2>1 DEF Fit, Backed, Keeps
  <2>3. q.code \in Sids => q.bought <= grants'[q.code].last
    BY <1>3, <1>4, <2>1 DEF Fit, Backed, Keeps
  <2>4. q.env.sid \in Sids \ spoiled' /\ q.token # 0 =>
          grants'[q.env.sid].live /\ grants'[q.env.sid].last = q.token
    BY DEF Fit, Backed, Keeps, Accepts
  <2>5. q.code \in Sids \ spoiled' /\ q.bought # 0 =>
          grants'[q.code].live /\ grants'[q.code].last = q.bought
    BY DEF Fit, Backed, Keeps, Accepts
  <2> QED
    BY <1>1, <2>2, <2>3, <2>4, <2>5 DEF Backed, Accepts
<1>6. Booked(u)'
  <2>1. q.code # 0 => q.code \in Sids
    BY Bounds DEF Browsed, Sids
  <2> QED
    BY <1>1, <2>1 DEF Fit, Booked, Keeps
<1>7. Timely(u)'
  BY <1>1 DEF Fit, Timely, RoleGone, GrantGone
<1>8. Left(u)'
  BY <1>1 DEF Fit, Left, Tells
<1> QED
  BY <1>2, <1>5, <1>6, <1>7, <1>8 DEF Fit, Phase

(* The login a request carries is its own, and so is a session that a      *)
(* logout is ending alone.                                                 *)
LEMMA Strangers ==
    ASSUME IInv, NEW r \in Slots, reqs[r].kind \in Routes
    PROVE  /\ reqs[r].code # 0 =>
                /\ reqs[r].env.sid # reqs[r].code /\ jar.session.sid # reqs[r].code
                /\ logouts[reqs[r].code] = "open"
           /\ reqs[r].env.sid \in Sids => ~Unborn(reqs[r].env.sid) /\ ~Final(reqs[r].env.sid)
           /\ \A q \in Slots : q # r /\ reqs[q].kind \in Routes =>
                /\ reqs[r].code # 0 => reqs[q].env.sid # reqs[r].code /\ reqs[q].code # reqs[r].code
                /\ reqs[q].code # 0 => reqs[q].code # reqs[r].env.sid
                /\ reqs[q].alone => reqs[q].env.sid # reqs[r].env.sid
<1>1. \A q \in Slots : reqs[q].kind \in Routes /\ reqs[q].code # 0 =>
        reqs[q].code \in Sids /\ Hidden(reqs[q].code)
  BY BrowsedFacts DEF IInv, Sessions
<1>2. \A q \in Slots : reqs[q].kind \in Routes => q \in InFlight(reqs[q].env.sid)
  BY DEF InFlight
<1>3. \A q, p \in Slots : reqs[q].kind \in Routes /\ reqs[p].kind \in Routes /\ reqs[q].code # 0 =>
        reqs[p].env.sid # reqs[q].code
  BY <1>1, <1>2 DEF Hidden
<1>4. reqs[r].code # 0 => jar.session.sid # reqs[r].code /\ logouts[reqs[r].code] = "open"
  BY <1>1 DEF Hidden
<1>5. reqs[r].env.sid \in Sids => ~Unborn(reqs[r].env.sid) /\ ~Final(reqs[r].env.sid)
  BY <1>2 DEF IInv, Sessions, Hidden, Over
<1> QED
  BY <1>3, <1>4, <1>5 DEF IInv, Apart

(* A session that only the request's own step changes.                     *)
Own(r, s) == s = reqs[r].code \/ (s = reqs[r].env.sid /\ InFlight(s) \ {r} = {})

(* Every other request goes on fitting.                                    *)
LEMMA OthersFit ==
    ASSUME IInv, NEW r \in Slots, reqs[r].kind \in Routes, OneSlot(r),
           GrantsOK', UNCHANGED <<lost, silenced, ended>>,
           \A c \in codes' : c \in codes \/ c = reqs[r].code, logins' = logins,
           \A s \in Sids : Keeps(s) \/ Own(r, s),
           \A s \in Sids : Tells(s) \/ s = reqs[r].env.sid \/ s = reqs[r].code
    PROVE  \A q \in Slots : q # r /\ reqs'[q].kind \in Routes =>
             reqs'[q] = reqs[q] /\ Fit(reqs[q])'
<1>1. ASSUME NEW q \in Slots, q # r, reqs'[q].kind \in Routes
      PROVE  reqs'[q] = reqs[q] /\ Fit(reqs[q])'
  <2>1. reqs'[q] = reqs[q] /\ reqs[q].kind \in Routes
    BY <1>1 DEF OneSlot
  <2>2. /\ Shape /\ reqs[q] \in Browsed /\ Fit(reqs[q])
        /\ reqs[q].code # 0 => reqs[q].code \in Sids
    BY <2>1, BrowsedFacts
  <2>3. 0 \notin Sids
    BY DEF Sids
  <2>4. reqs[q].env.sid \in Sids => ~Own(r, reqs[q].env.sid)
    <3>1. q \in InFlight(reqs[q].env.sid)
      BY <2>1 DEF InFlight
    <3> QED
      BY <1>1, <2>1, <2>3, <3>1, Strangers DEF Own
  <2>5. reqs[q].code # 0 => ~Own(r, reqs[q].code)
    BY <1>1, <2>1, Strangers DEF Own
  <2>6. reqs[q].alone /\ reqs[q].dropped => Tells(reqs[q].env.sid)
    <3>1. reqs[q].alone /\ reqs[q].dropped => reqs[q].env \in Cookie
      BY <2>2, BrowsedFacts DEF Fit, Phase, Browsed, Envelope
    <3>2. reqs[q].alone /\ reqs[q].dropped => reqs[q].env.sid \in Sids
      BY <3>1, CookieSids
    <3> QED
      BY <1>1, <2>1, <2>3, <3>2, Strangers
  <2>7. reqs[q].code # 0 => reqs[q].code \notin codes' /\ reqs[q].code <= logins'
    BY <1>1, <2>1, <2>2, Strangers DEF Fit, Booked
  <2>8. reqs[q].env.sid \in Sids => Keeps(reqs[q].env.sid)
    BY <2>4
  <2>9. reqs[q].code \in Sids => Keeps(reqs[q].code)
    BY <2>3, <2>5
  <2> HIDE DEF Browsed
  <2> QED
    BY <2>1, <2>2, <2>6, <2>7, <2>8, <2>9, FitKept
<1> QED
  BY <1>1

(* What a step of a request changes, it changes of itself: it stays the    *)
(* request it is, and what it does to the rest is its sessions' own.       *)
LEMMA StepKeeps ==
    ASSUME IInv, NEW r \in Slots, reqs[r].kind \in Routes, NEW w \in Browsed, Becomes(r, w),
           w.kind = reqs[r].kind, w.env = reqs[r].env, w.code = reqs[r].code,
           w.from = reqs[r].from, w.alone = reqs[r].alone, reqs[r].token # 0 => w.token # 0,
           Fault \/ NoFault,
           UNCHANGED <<scene, now, lost, codes, signing, tokens, keys, rows, jar, logins,
                       logouts, silenced, ended>>,
           GrantsOK', CacheOK', HistoryOK', CacheBounded', Fit(w)',
           \A s \in Sids : Keeps(s) \/ Own(r, s),
           \A s \in Sids : Tells(s) \/ s = reqs[r].env.sid \/ s = reqs[r].code,
           \A s \in Sids : grants'[s].live => grants[s].live \/ s = reqs[r].code,
           jar.session.sid \in Sids =>
             \/ Keeps(jar.session.sid)
             \/ /\ jar.session.sid = w.env.sid /\ w.token # 0
                /\ grants[w.env.sid].last <= grants'[w.env.sid].last
    PROVE  IInv'
<1>1. /\ Shape /\ reqs[r] \in Browsed /\ reqs[r] # Idle
      /\ reqs[r].from <= now /\ now <= reqs[r].from + Flight
  BY BrowsedFacts
<1>2. Requests' /\ OneSlot(r) /\ reqs'[r] = w
  <2>1. w \in Request
    BY DEF Request
  <2> HIDE DEF Request, Browsed
  <2> QED
    BY <1>1, <2>1, Replaced DEF Becomes
<1>3. Instants' /\ Records'
  BY <1>1, InstantsKept, RecordsKept DEF Shape, Records, LoginsOK, JarOK
<1>4. \A q \in Slots : q # r /\ reqs'[q].kind \in Routes => reqs'[q] = reqs[q] /\ Fit(reqs[q])'
  BY <1>2, OthersFit
<1>5. Fits'
  <2>1. ASSUME NEW q \in Slots, reqs'[q].kind \in Routes
        PROVE  Fit(reqs[q])'
    <3>1. CASE q = r
      <4>1. reqs'[q] = w
        BY <1>2, <3>1
      <4> QED
        BY <4>1 DEF Fit, Phase, Backed, Accepts, Booked, Timely, RoleGone, GrantGone, Left
    <3> QED
      BY <1>4, <2>1, <3>1
  <2> QED
    BY <2>1 DEF Fits
<1>6. \A q \in Slots : /\ reqs'[q].kind = reqs[q].kind
                       /\ reqs[q].kind \in Routes =>
                            /\ reqs'[q].env = reqs[q].env /\ reqs'[q].code = reqs[q].code
                            /\ reqs'[q].alone = reqs[q].alone
                            /\ reqs[q].token # 0 => reqs'[q].token # 0
  BY <1>2 DEF OneSlot
<1>7. Apart'
  BY <1>6 DEF IInv, Apart
<1>8. \A s : /\ InFlight(s)' = InFlight(s)
             /\ \A q \in Slots : /\ Logging(q, s)' <=> Logging(q, s)
                                 /\ Renewing(q, s) => Renewing(q, s)'
  BY <1>6 DEF InFlight, Logging, Renewing
<1>9. Sessions'
  <2>1. ASSUME NEW s \in Sids
        PROVE  (Unasked(s)' <=> Unasked(s)) /\ (Unborn(s)' <=> Unborn(s)) /\ (Hidden(s)' <=> Hidden(s))
    BY <1>8 DEF Unasked, Unborn, Hidden
  <2>2. ASSUME NEW s \in Sids, Unasked(s) PROVE ~grants'[s].live /\ s \notin silenced'
    <3>1. s # reqs[r].code
      BY <2>2, BrowsedFacts, Times DEF Fit, Booked, Unasked, Sids
    <3> QED
      BY <2>2, <3>1 DEF IInv, Sessions
  <2>3. ASSUME NEW s \in Sids PROVE JarKept(s)'
    <3>1. SUFFICES ASSUME jar.session.sid = s
                   PROVE  /\ jar.session.token <= grants'[s].last
                          /\ s \notin spoiled' => \/ grants'[s].live /\ grants'[s].last = jar.session.token
                                                  \/ \E q \in Slots : Renewing(q, s)'
      BY DEF JarKept, Accepts
    <3>2. JarKept(s) /\ jar.session.token \in Int /\ grants[s].last \in Int /\ grants'[s].last \in Int
      <4>1. jar.session.token \in Int
        BY <1>1, Bounds DEF Shape, Records, JarOK, Envelope, Cookie, Foreign, NoCookie
      <4> QED
        BY <1>1, <4>1, Times, Bounds DEF IInv, Sessions, GrantsOK
    <3>3. \A a, b, c \in Int : a <= b /\ b <= c => a <= c
      OBVIOUS
    <3>4. CASE Keeps(s)
      BY <1>8, <3>1, <3>2, <3>3, <3>4 DEF JarKept, Keeps, Accepts
    <3>5. CASE /\ s = w.env.sid /\ w.token # 0
               /\ grants[w.env.sid].last <= grants'[w.env.sid].last
      <4>1. Renewing(r, s)'
        BY <1>2, <3>5 DEF Renewing
      <4> QED
        BY <3>1, <3>2, <3>3, <3>5, <4>1 DEF JarKept
    <3> QED
      BY <3>1, <3>4, <3>5
  <2>4. ASSUME NEW s \in Sids PROVE Over(s)'
    <3>1. Final(s)' <=> Final(s)
      BY DEF Final
    <3>2. Over(s)
      BY DEF IInv, Sessions
    <3>3. Final(s) => s # reqs[r].env.sid /\ s # reqs[r].code
      <4>1. s # 0
        BY DEF Sids
      <4> QED
        BY <4>1, Strangers DEF Final
    <3> QED
      BY <1>8, <3>1, <3>2, <3>3 DEF Over, Tells
  <2>5. ASSUME NEW s \in Sids, Unborn(s) PROVE Hidden(s)
    BY <2>5 DEF IInv, Sessions
  <2> QED
    BY <2>1, <2>2, <2>3, <2>4, <2>5 DEF Sessions
<1>10. Judged'
  <2>1. \A q \in Slots : reqs[q].kind = "bearer" \/ reqs'[q].kind = "bearer" => reqs'[q] = reqs[q]
    BY <1>2 DEF OneSlot, Routes
  <2> QED
    BY <2>1, BearerFrame
<1> QED
  BY <1>2, <1>3, <1>5, <1>7, <1>9, <1>10 DEF IInv, Shape

(* A request that ends without a reply took no token, or spent its session *)
(* at rauthy.                                                              *)
LEMMA EndKeeps ==
    ASSUME IInv, NEW r \in Slots, reqs[r].kind \in Routes, Done(r), Fault,
           UNCHANGED <<scene, now, lost, codes, signing, tokens, keys, rows, jar, logins, cache,
                       logouts, silenced, ended>>,
           GrantsOK', spoiled' \subseteq Sids, \A s \in Sids : Keeps(s),
           reqs[r].token # 0 => reqs[r].env.sid \in spoiled'
    PROVE  IInv'
<1>1. Shape
  BY DEF IInv
<1>2. Requests' /\ OneSlot(r) /\ reqs'[r].kind = "none"
  BY <1>1, DoneIsIdle
<1>3. reqs'[r].kind \notin Routes
  BY <1>2 DEF Routes
<1>4. Instants' /\ Records'
  BY <1>1, InstantsKept, RecordsKept DEF Shape, Records, LoginsOK, JarOK, CacheOK, HistoryOK
<1>5. \A q \in Slots : reqs'[q].kind \in Routes => q # r /\ reqs'[q] = reqs[q] /\ Fit(reqs[q])'
  BY <1>2, <1>3, OthersFit DEF Tells
<1>6. Fits'
  BY <1>5 DEF Fits
<1>7. Apart'
  BY <1>5 DEF IInv, Apart
<1>8. \A s : /\ InFlight(s)' \subseteq InFlight(s)
             /\ \A q \in Slots : /\ Logging(q, s)' => Logging(q, s)
                                 /\ Renewing(q, s) => Renewing(q, s)' \/ q = r
  BY <1>2, <1>5 DEF InFlight, Logging, Renewing, OneSlot
<1>9. Sessions'
  <2>1. ASSUME NEW s \in Sids
        PROVE  /\ Unasked(s)' => Unasked(s)
               /\ Unborn(s)' => Unborn(s)
               /\ Hidden(s) => Hidden(s)'
    BY <1>8 DEF Unasked, Unborn, Hidden
  <2>2. ASSUME NEW s \in Sids, Unasked(s) PROVE ~grants'[s].live /\ s \notin silenced'
    BY <2>2 DEF IInv, Sessions, Keeps
  <2>3. ASSUME NEW s \in Sids PROVE JarKept(s)'
    <3>1. SUFFICES ASSUME jar.session.sid = s
                   PROVE  /\ jar.session.token <= grants'[s].last
                          /\ s \notin spoiled' =>
                               \/ grants'[s].live /\ grants'[s].last = jar.session.token
                               \/ \E q \in Slots : Renewing(q, s)'
      BY DEF JarKept, Accepts
    <3>2. JarKept(s) /\ jar.session.token \in Int /\ grants[s].last \in Int /\ grants'[s].last \in Int
      <4>1. jar.session.token \in Int
        BY <1>1, Bounds DEF Shape, Records, JarOK, Envelope, Cookie, Foreign, NoCookie
      <4> QED
        BY <1>1, <4>1, Times, Bounds DEF IInv, Sessions, GrantsOK
    <3>3. \A a, b, c \in Int : a <= b /\ b <= c => a <= c
      OBVIOUS
    <3>4. jar.session.token <= grants'[s].last
      BY <3>1, <3>2, <3>3 DEF JarKept, Keeps
    <3>5. ASSUME s \notin spoiled'
          PROVE  \/ grants'[s].live /\ grants'[s].last = jar.session.token
                 \/ \E q \in Slots : Renewing(q, s)'
      <4>1. grants'[s] = grants[s] /\ s \notin spoiled
        BY <3>5 DEF Keeps
      <4>2. ~Renewing(r, s)
        BY <3>5 DEF Renewing
      <4> QED
        BY <1>8, <3>1, <3>2, <4>1, <4>2 DEF JarKept, Accepts
    <3> QED
      BY <3>4, <3>5
  <2>4. ASSUME NEW s \in Sids PROVE Over(s)'
    BY <1>8 DEF IInv, Sessions, Over, Final
  <2>5. ASSUME NEW s \in Sids, Unborn(s) PROVE Hidden(s)
    BY <2>5 DEF IInv, Sessions
  <2> QED
    BY <2>1, <2>2, <2>3, <2>4, <2>5 DEF Sessions
<1>10. CacheBounded'
  BY DEF IInv, CacheBounded, RoleGone, GrantGone, Keeps
<1>11. Judged'
  <2>1. \A q \in Slots : reqs[q].kind = "bearer" \/ reqs'[q].kind = "bearer" => reqs'[q] = reqs[q]
    BY <1>2 DEF OneSlot, Routes
  <2> QED
    BY <2>1, BearerFrame
<1> QED
  BY <1>2, <1>4, <1>6, <1>7, <1>9, <1>10, <1>11 DEF IInv, Shape

(* A request whose handler runs is the request it was.                     *)
LEMMA EnteredFits ==
    ASSUME Shape, NEW q \in Browsed, q.env # Foreign,
           q.kind \in {"page", "logout"} => q.code = 0 /\ q.env # NoCookie,
           q.kind \in {"login", "callback"} => q.code # 0,
           q.env \notin Cookie => q.token = 0,
           q.token # 0 <=> q.fresh # NoCookie,
           q.fresh # NoCookie => q.fresh = [sid |-> q.env.sid, token |-> q.token],
           q.bought = 0, q.alone => q.kind = "logout", ~q.dropped,
           q.pc \in Layer,
           q.kind = "page" /\ q.as = Holder => q.from < RoleGone,
           q.kind = "page" /\ q.env.sid \in silenced => q.from < GrantGone
    PROVE  LET w == Entered(q)
           IN  /\ w \in Browsed /\ Phase(w) /\ Timely(w) /\ Left(w)
               /\ Backed(q) => Backed(w)
               /\ Booked(q) => Booked(w)
               /\ w.kind = q.kind /\ w.env = q.env /\ w.code = q.code /\ w.from = q.from
               /\ w.alone = q.alone /\ w.token = q.token /\ w.fresh = q.fresh /\ w.bought = q.bought
               /\ ~w.dropped
<1> DEFINE w == Entered(q)
<1>1. now \in Nat
  BY Times
<1>2. /\ w \in Browsed /\ w.kind = q.kind /\ w.env = q.env /\ w.code = q.code /\ w.from = q.from
      /\ w.alone = q.alone /\ w.token = q.token /\ w.fresh = q.fresh /\ w.bought = q.bought
      /\ w.as = q.as /\ w.dropped = q.dropped
      /\ q.kind = "page" => w.pc = "handle"
      /\ q.kind = "login" => w.pc = "begun"
      /\ q.kind = "callback" => w.pc \in {"exchange", "refuse"}
      /\ q.kind = "logout" => w.pc = "revoke"
  <2>1. q.kind \in Routes
    BY DEF Browsed
  <2>2. CASE q.kind = "page"
    <3>1. w = [q EXCEPT !.pc = "handle"]
      BY <2>2 DEF Entered
    <3> HIDE DEF w
    <3> QED
      BY <2>2, <3>1 DEF Browsed, BrowserPcs
  <2>3. CASE q.kind = "login"
    <3>1. w = [q EXCEPT !.pc = "begun", !.login = [login |-> q.code, issued |-> now]]
      BY <2>3 DEF Entered
    <3>2. [login |-> q.code, issued |-> now] \in [login : Nat, issued : Nat]
      BY <1>1, Bounds DEF Browsed
    <3> HIDE DEF w
    <3> QED
      BY <2>3, <3>1, <3>2 DEF Browsed, BrowserPcs
  <2>4. CASE q.kind = "callback"
    <3>1. w = [q EXCEPT !.pc = IF Matches(q.login, q.code) THEN "exchange" ELSE "refuse"]
      BY <2>4 DEF Entered
    <3>2. PICK pc \in {"exchange", "refuse"} : w = [q EXCEPT !.pc = pc]
      <4> HIDE DEF w
      <4>1. CASE Matches(q.login, q.code)
        BY <3>1, <4>1
      <4>2. CASE ~Matches(q.login, q.code)
        BY <3>1, <4>2
      <4> QED
        BY <4>1, <4>2
    <3> HIDE DEF w
    <3> QED
      BY <2>4, <3>2 DEF Browsed, BrowserPcs
  <2>5. CASE q.kind = "logout"
    <3>1. w = [q EXCEPT !.pc = "revoke"]
      BY <2>5 DEF Entered
    <3> HIDE DEF w
    <3> QED
      BY <2>5, <3>1 DEF Browsed, BrowserPcs
  <2> QED
    BY <2>1, <2>2, <2>3, <2>4, <2>5 DEF Routes
<1> HIDE DEF w
<1>3. q.kind \in Routes
  BY DEF Browsed
<1>4. w.pc \in {"handle", "begun", "exchange", "refuse", "revoke"} /\ w.pc \notin Layer
  BY <1>2, <1>3 DEF Routes, Layer
<1>5. Phase(w)
  <2>1. w.pc \in Pcs[w.kind]
    BY <1>2, <1>3 DEF Routes, Pcs
  <2> QED
    BY <1>2, <1>4, <2>1 DEF Phase
<1>6. (Backed(q) => Backed(w)) /\ (Booked(q) => Booked(w))
  BY <1>2, <1>4 DEF Backed, Booked
<1>7. Timely(w) /\ Left(w)
  <2>1. w.pc = "handle" => q.kind = "page"
    BY <1>2, <1>3 DEF Routes
  <2> QED
    BY <1>2, <1>4, <2>1 DEF Timely, Left
<1> QED
  BY <1>2, <1>5, <1>6, <1>7 DEF w

(* A request that fits goes on fitting while the rest stays as it is.      *)
LEMMA FitStays ==
    ASSUME NEW w, Fit(w), UNCHANGED <<grants, spoiled, codes, logins, silenced, lost, ended>>,
           cache' = cache \/ ~w.dropped
    PROVE  Fit(w)'
BY DEF Fit, Phase, Backed, Accepts, Booked, Timely, RoleGone, GrantGone, Left

(* A step of one request that leaves rauthy and the cache alone.           *)
LEMMA QuietStep ==
    ASSUME IInv, NEW r \in Slots, reqs[r].kind \in Routes, NEW w \in Browsed, Becomes(r, w),
           w.kind = reqs[r].kind, w.env = reqs[r].env, w.code = reqs[r].code,
           w.from = reqs[r].from, w.alone = reqs[r].alone, reqs[r].token # 0 => w.token # 0,
           Fault \/ NoFault, Fit(w),
           UNCHANGED <<scene, now, lost, grants, codes, signing, tokens, keys, rows, jar, logins,
                       cache, spoiled, logouts, silenced, ended>>
    PROVE  IInv'
<1>1. \A s \in Sids : Keeps(s) /\ Tells(s)
  BY Times, BrowsedFacts DEF Keeps, Tells
<1>2. GrantsOK' /\ CacheOK' /\ HistoryOK'
  BY DEF IInv, Shape, Records, GrantsOK, CacheOK, HistoryOK
<1>3. CacheBounded'
  BY DEF IInv, CacheBounded, RoleGone, GrantGone
<1>4. Fit(w)'
  BY FitStays
<1> HIDE DEF Browsed
<1> QED
  BY <1>1, <1>2, <1>3, <1>4, StepKeeps

(* `load_assertion`, found, gone or failed.                                *)
LEMMA LoadKeeps ==
    ASSUME IInv, scene' = scene, NEW r \in Slots, Load(r)
    PROVE  IInv'
<1> DEFINE sid == reqs[r].env.sid
<1>1. /\ reqs[r].kind \in Routes /\ reqs[r].pc = "load"
      /\ UNCHANGED <<now, lost, grants, codes, signing, tokens, cache, keys, counted, rows, jar,
                     logins, revokes, spoiled, logouts, silenced, ended, retired>>
  BY DEF Load, rauthy, cell, history
<1>2. /\ Shape /\ reqs[r] \in Browsed /\ Fit(reqs[r]) /\ CacheBounded
      /\ reqs[r].from \in Nat /\ reqs[r].from <= now /\ now <= reqs[r].from + Flight
      /\ reqs[r].env \in Cookie
  BY <1>1, BrowsedFacts DEF Layer
<1>3. sid \in Sids /\ reqs[r].env # Foreign /\ reqs[r].env # NoCookie
  BY <1>2, CookieSids
<1>4. CASE NoFault /\ Current(sid) /\ Becomes(r, Entered([reqs[r] EXCEPT !.as = cache[sid].as]))
  <2> DEFINE q == [reqs[r] EXCEPT !.as = cache[sid].as]
  <2>1. cache[sid].as \in Who /\ cache[sid].expires \in Int
    BY <1>2, <1>3, Times
  <2>2. /\ q \in Browsed /\ q.kind = reqs[r].kind /\ q.env = reqs[r].env /\ q.code = reqs[r].code
        /\ q.from = reqs[r].from /\ q.alone = reqs[r].alone /\ q.token = reqs[r].token
        /\ q.fresh = reqs[r].fresh /\ q.bought = reqs[r].bought /\ q.dropped = reqs[r].dropped
        /\ q.pc = "load" /\ q.as = cache[sid].as
    BY <1>1, <1>2, <2>1 DEF Browsed
  <2>3. Becomes(r, Entered(q))
    BY <1>4
  <2> HIDE DEF q
  <2>4. /\ reqs[r].kind \in {"page", "logout"} => q.code = 0 /\ q.env # NoCookie
        /\ reqs[r].kind \in {"login", "callback"} => q.code # 0
        /\ q.token = 0 /\ q.fresh = NoCookie /\ q.bought = 0
        /\ (q.alone => q.kind = "logout") /\ ~q.dropped
    BY <1>1, <1>2, <2>2 DEF Fit, Phase, Layer
  <2>5. Backed(q) /\ Booked(q)
    BY <1>1, <1>2, <2>2 DEF Fit, Backed, Booked, Layer
  <2>6. /\ q.as = Holder => q.from < RoleGone
        /\ q.env.sid \in silenced => q.from < GrantGone
    <3>1. now < cache[sid].expires
      BY <1>2, <1>4, <2>1, Times DEF Current
    <3>2. \A f, n, e, g \in Int : f <= n /\ n < e /\ e <= g => f < g
      OBVIOUS
    <3>3. /\ now \in Int /\ RoleGone \in Int /\ GrantGone \in Int
      BY <1>2, Times
    <3> QED
      BY <1>2, <1>3, <2>1, <2>2, <3>1, <3>2, <3>3 DEF CacheBounded
  <2>7. "load" \in Layer
    BY DEF Layer
  <2>8. /\ Entered(q) \in Browsed /\ Fit(Entered(q))
        /\ Entered(q).kind = q.kind /\ Entered(q).env = q.env /\ Entered(q).code = q.code
        /\ Entered(q).from = q.from /\ Entered(q).alone = q.alone
    <3> HIDE DEF Browsed, Cookie
    <3> QED
      BY <1>2, <1>3, <2>2, <2>4, <2>5, <2>6, <2>7, EnteredFits DEF Fit
  <2>9. reqs[r].token = 0
    BY <2>2, <2>4
  <2> DEFINE w == Entered(q)
  <2>10. w \in Browsed /\ Fit(w) /\ w.kind = reqs[r].kind /\ w.env = reqs[r].env
         /\ w.code = reqs[r].code /\ w.from = reqs[r].from /\ w.alone = reqs[r].alone
         /\ Becomes(r, w)
    BY <2>2, <2>3, <2>8
  <2> HIDE DEF w, Browsed
  <2> QED
    BY <1>1, <1>4, <2>9, <2>10, QuietStep
<1>5. CASE NoFault /\ ~Current(sid) /\ Becomes(r, [reqs[r] EXCEPT !.pc = "grant"])
  <2> DEFINE w == [reqs[r] EXCEPT !.pc = "grant"]
  <2>1. /\ w \in Browsed /\ w.kind = reqs[r].kind /\ w.env = reqs[r].env /\ w.code = reqs[r].code
        /\ w.from = reqs[r].from /\ w.alone = reqs[r].alone /\ w.token = reqs[r].token
        /\ w.fresh = reqs[r].fresh /\ w.bought = reqs[r].bought /\ w.dropped = reqs[r].dropped
        /\ w.pc = "grant" /\ w.as = reqs[r].as
    BY <1>2 DEF Browsed, BrowserPcs, Layer
  <2>2. Becomes(r, w)
    BY <1>5
  <2> HIDE DEF w
  <2>3. Fit(w)
    <3>1. Phase(w)
      BY <1>1, <1>2, <2>1 DEF Fit, Phase, Layer, Pcs, Routes
    <3>2. Backed(w) /\ Booked(w) /\ Timely(w) /\ Left(w)
      BY <1>1, <1>2, <2>1 DEF Fit, Phase, Backed, Booked, Timely, Left, Layer
    <3> QED
      BY <3>1, <3>2 DEF Fit
  <2> HIDE DEF Browsed
  <2> QED
    BY <1>1, <1>5, <2>1, <2>2, <2>3, QuietStep
<1>6. CASE Fault /\ Done(r)
  <2>1. \A s \in Sids : Keeps(s)
    BY <1>1, <1>2, Times DEF Keeps
  <2>2. GrantsOK' /\ spoiled' \subseteq Sids
    BY <1>1, <1>2 DEF Shape, Records, GrantsOK, HistoryOK
  <2>3. reqs[r].token = 0
    BY <1>1, <1>2 DEF Fit, Phase
  <2> QED
    BY <1>1, <1>6, <2>1, <2>2, <2>3, EndKeeps
<1>7. \/ NoFault /\ Current(sid) /\ Becomes(r, Entered([reqs[r] EXCEPT !.as = cache[sid].as]))
      \/ NoFault /\ ~Current(sid) /\ Becomes(r, [reqs[r] EXCEPT !.pc = "grant"])
      \/ Fault /\ Done(r)
  <2>1. CASE Current(sid)
    BY <2>1 DEF Load
  <2>2. CASE ~Current(sid)
    BY <2>2 DEF Load
  <2> QED
    BY <2>1, <2>2
<1> QED
  BY <1>4, <1>5, <1>6, <1>7

(* A request at its next step.                                             *)
LEMMA Moved ==
    ASSUME NEW q \in Browsed, NEW pc \in BrowserPcs
    PROVE  LET w == [q EXCEPT !.pc = pc]
           IN  /\ w \in Browsed /\ w.kind = q.kind /\ w.env = q.env /\ w.code = q.code
               /\ w.from = q.from /\ w.alone = q.alone /\ w.token = q.token /\ w.fresh = q.fresh
               /\ w.bought = q.bought /\ w.dropped = q.dropped /\ w.pc = pc /\ w.as = q.as
BY DEF Browsed

(* rauthy's answer to a renewal: a token, perhaps a new one, which it then *)
(* accepts and no other; a refusal; or none that arrives.                  *)
LEMMA GrantKeeps ==
    ASSUME IInv, scene' = scene, NEW r \in Slots, Grant(r)
    PROVE  IInv'
<1> DEFINE sid == reqs[r].env.sid
           token == reqs[r].env.token
<1>1. /\ reqs[r].kind \in Routes /\ reqs[r].pc = "grant"
      /\ UNCHANGED <<now, lost, codes, signing, tokens, cache, keys, counted, rows, jar,
                     logins, revokes, logouts, silenced, ended, retired>>
  BY DEF Grant, cell
<1>2. /\ Shape /\ reqs[r] \in Browsed /\ Fit(reqs[r]) /\ CacheBounded
      /\ reqs[r].from \in Nat /\ reqs[r].from <= now /\ now <= reqs[r].from + Flight
      /\ reqs[r].env \in Cookie
  BY <1>1, BrowsedFacts DEF Layer
<1>3. sid \in Sids /\ reqs[r].env # Foreign /\ reqs[r].env # NoCookie /\ token \in 1..MaxGrants
      /\ grants \in [Sids -> [last : 0..MaxGrants, live : BOOLEAN]] /\ spoiled \subseteq Sids
      /\ HistoryOK
  BY <1>2, CookieSids DEF Shape, Records, GrantsOK, HistoryOK
<1>4. reqs[r].token = 0 /\ reqs[r].fresh = NoCookie /\ reqs[r].bought = 0
  BY <1>1, <1>2 DEF Fit, Phase, Layer
<1>5. CacheOK'
  BY <1>1, <1>2 DEF Shape, Records, CacheOK
<1>6. CASE /\ Accepts(sid, token) /\ NoFault
           /\ \E next \in Rotations(sid, token) :
                /\ grants' = [grants EXCEPT ![sid].last = next]
                /\ Becomes(r, [reqs[r] EXCEPT !.token = next, !.pc = "userinfo"])
                /\ IF next # token /\ Crowded(r, sid) THEN Spoil(sid) ELSE UNCHANGED spoiled
  <2>1. PICK next \in Rotations(sid, token) :
          /\ grants' = [grants EXCEPT ![sid].last = next]
          /\ Becomes(r, [reqs[r] EXCEPT !.token = next, !.pc = "userinfo"])
          /\ IF next # token /\ Crowded(r, sid) THEN Spoil(sid) ELSE UNCHANGED spoiled
    BY <1>6
  <2>2. next \in 1..MaxGrants /\ token <= next /\ (next = token \/ next = token + 1)
    BY <1>3, Bounds DEF Rotations
  <2>3. grants[sid].live /\ grants[sid].last = token /\ sid \notin silenced
    BY <1>2, <1>3, <1>6 DEF Accepts, CacheBounded
  <2>4. /\ GrantsOK' /\ grants'[sid].last = next /\ grants'[sid].live
        /\ \A s \in Sids : s # sid => grants'[s] = grants[s]
        /\ next = token => grants'[sid] = grants[sid]
    <3>1. next \in 0..MaxGrants
      BY <2>2, Bounds
    <3> QED
      BY <1>3, <2>1, <2>3, <3>1 DEF GrantsOK
  <2>5. spoiled \subseteq spoiled' /\ HistoryOK'
        /\ (spoiled' = spoiled \/ spoiled' = spoiled \cup {sid})
        /\ (next # token /\ InFlight(sid) \ {r} # {} => sid \in spoiled')
    <3>1. CASE next # token /\ Crowded(r, sid)
      BY <1>1, <1>3, <2>1, <3>1 DEF Spoil, HistoryOK
    <3>2. CASE ~(next # token /\ Crowded(r, sid))
      BY <1>1, <1>3, <2>1, <3>2 DEF Crowded, HistoryOK
    <3> QED
      BY <3>1, <3>2
  <2>6. \A s \in Sids : /\ s # sid => Keeps(s)
                        /\ (next = token \/ sid \in spoiled') => Keeps(s)
                        /\ grants'[s].live => grants[s].live
    <3>1. \A s \in Sids : grants[s].last \in Int
      BY <1>2, Times
    <3> QED
      BY <1>3, <2>2, <2>3, <2>4, <2>5, <3>1 DEF Keeps
  <2>7. \A s \in Sids : Keeps(s) \/ Own(r, s)
    BY <2>5, <2>6 DEF Own
  <2>8. CacheBounded'
    BY <1>1, <1>2, <2>3, <2>4 DEF CacheBounded, RoleGone, GrantGone
  <2>9. PICK w \in Browsed :
          /\ Becomes(r, w) /\ w.kind = reqs[r].kind /\ w.env = reqs[r].env
          /\ w.code = reqs[r].code /\ w.from = reqs[r].from /\ w.alone = reqs[r].alone
          /\ w.token = next /\ w.fresh = reqs[r].fresh /\ w.bought = reqs[r].bought
          /\ w.dropped = reqs[r].dropped /\ w.pc = "userinfo" /\ w.as = reqs[r].as
    <3> DEFINE w == [reqs[r] EXCEPT !.token = next, !.pc = "userinfo"]
    <3>1. next \in 0..MaxGrants /\ "userinfo" \in BrowserPcs
      BY <2>2, Bounds DEF BrowserPcs, Layer
    <3>2. /\ w \in Browsed /\ w.kind = reqs[r].kind /\ w.env = reqs[r].env
          /\ w.code = reqs[r].code /\ w.from = reqs[r].from /\ w.alone = reqs[r].alone
          /\ w.token = next /\ w.fresh = reqs[r].fresh /\ w.bought = reqs[r].bought
          /\ w.dropped = reqs[r].dropped /\ w.pc = "userinfo" /\ w.as = reqs[r].as
      BY <1>2, <3>1 DEF Browsed
    <3>3. Becomes(r, w)
      BY <2>1
    <3> HIDE DEF w, Browsed
    <3> QED
      BY <3>2, <3>3
  <2>11. Fit(w)'
    <3>1. Phase(w)
      BY <1>1, <1>2, <1>3, <1>4, <2>2, <2>9 DEF Fit, Phase, Layer, Pcs, Routes
    <3>2. Backed(w)'
      BY <1>3, <1>4, <2>2, <2>4, <2>9, <1>2 DEF Backed, Accepts, Fit
    <3>3. Booked(w)'
      <4>1. w.code # 0 => w.code \in Sids
        BY <2>9, <1>1, BrowsedFacts
      <4> QED
        BY <1>1, <1>2, <2>6, <2>9, <4>1 DEF Fit, Booked, Layer
    <3>4. Timely(w)' /\ Left(w)'
      BY <1>1, <1>2, <2>3, <2>9 DEF Timely, Left, Fit, Phase
    <3> QED
      BY <3>1, <3>2, <3>3, <3>4 DEF Fit, Phase
  <2>12. jar.session.sid \in Sids =>
             \/ Keeps(jar.session.sid)
             \/ /\ jar.session.sid = w.env.sid /\ w.token # 0
                /\ grants[w.env.sid].last <= grants'[w.env.sid].last
    BY <2>2, <2>3, <2>4, <2>6, <2>9
  <2> HIDE DEF Browsed
  <2> QED
    BY <1>1, <1>4, <1>5, <1>6, <2>4, <2>5, <2>6, <2>7, <2>8, <2>9, <2>11, <2>12,
       StepKeeps DEF Tells
<1>7. CASE ~Accepts(sid, token) /\ NoFault /\ Becomes(r, [reqs[r] EXCEPT !.pc = "drop"])
           /\ UNCHANGED <<grants, spoiled>>
  <2> DEFINE w == [reqs[r] EXCEPT !.pc = "drop"]
  <2>1. /\ w \in Browsed /\ w.kind = reqs[r].kind /\ w.env = reqs[r].env /\ w.code = reqs[r].code
        /\ w.from = reqs[r].from /\ w.alone = reqs[r].alone /\ w.token = reqs[r].token
        /\ w.fresh = reqs[r].fresh /\ w.bought = reqs[r].bought /\ w.dropped = reqs[r].dropped
        /\ w.pc = "drop" /\ w.as = reqs[r].as
    <3>1. "drop" \in BrowserPcs
      BY DEF BrowserPcs, Layer
    <3> QED
      BY <1>2, <3>1, Moved
  <2>2. Becomes(r, w)
    BY <1>7
  <2> HIDE DEF w
  <2>3. Fit(w)
    <3>1. Phase(w)
      BY <1>1, <1>2, <2>1 DEF Fit, Phase, Layer, Pcs, Routes
    <3>2. Backed(w) /\ Booked(w) /\ Timely(w) /\ Left(w)
      BY <1>1, <1>2, <2>1 DEF Fit, Phase, Backed, Booked, Timely, Left, Layer
    <3> QED
      BY <3>1, <3>2 DEF Fit
  <2> HIDE DEF Browsed
  <2> QED
    BY <1>1, <1>7, <2>1, <2>2, <2>3, QuietStep
<1>8. CASE /\ Fault /\ Done(r)
           /\ \/ UNCHANGED <<grants, spoiled>>
              \/ /\ Accepts(sid, token) /\ token < MaxGrants
                 /\ grants' = [grants EXCEPT ![sid].last = token + 1]
                 /\ Spoil(sid)
  <2>1. \A s \in Sids : grants[s].last \in Int
    BY <1>2, Times
  <2>2. GrantsOK' /\ spoiled' \subseteq Sids /\ \A s \in Sids : Keeps(s)
    <3>1. CASE UNCHANGED <<grants, spoiled>>
      BY <1>3, <2>1, <3>1 DEF Keeps, GrantsOK
    <3>2. CASE /\ Accepts(sid, token) /\ token < MaxGrants
               /\ grants' = [grants EXCEPT ![sid].last = token + 1]
               /\ Spoil(sid)
      <4>1. token + 1 \in 0..MaxGrants /\ grants[sid].last = token
        BY <1>3, <3>2, Bounds DEF Accepts
      <4>2. /\ GrantsOK' /\ grants'[sid].last = token + 1 /\ grants'[sid].live = grants[sid].live
            /\ \A s \in Sids : s # sid => grants'[s] = grants[s]
        BY <1>3, <3>2, <4>1 DEF GrantsOK
      <4>3. spoiled' = spoiled \cup {sid}
        BY <1>3, <3>2 DEF Spoil
      <4> QED
        BY <1>3, <2>1, <4>1, <4>2, <4>3 DEF Keeps
    <3> QED
      BY <1>8, <3>1, <3>2
  <2> QED
    BY <1>1, <1>4, <1>8, <2>2, EndKeeps
<1> QED
  BY <1>6, <1>7, <1>8 DEF Grant

(* The claims of a renewal, rauthy's refusal of them, or none.             *)
LEMMA UserinfoKeeps ==
    ASSUME IInv, scene' = scene, NEW r \in Slots, Userinfo(r)
    PROVE  IInv'
<1> DEFINE sid == reqs[r].env.sid
<1>1. /\ reqs[r].kind \in Routes /\ reqs[r].pc = "userinfo"
      /\ UNCHANGED <<now, lost, grants, codes, signing, tokens, cache, keys, counted, rows, jar,
                     logins, revokes, logouts, silenced, ended, retired>>
  BY DEF Userinfo, rauthy, cell
<1>2. /\ Shape /\ reqs[r] \in Browsed /\ Fit(reqs[r]) /\ CacheBounded
      /\ reqs[r].from \in Nat /\ reqs[r].from <= now /\ now <= reqs[r].from + Flight
      /\ reqs[r].env \in Cookie
  BY <1>1, BrowsedFacts DEF Layer
<1>3. sid \in Sids
  BY <1>2, CookieSids
<1>4. CASE NoFault /\ UNCHANGED spoiled
           /\ Becomes(r, [reqs[r] EXCEPT !.as = Claimed, !.pc = "mint"])
  <2> DEFINE w == [reqs[r] EXCEPT !.as = Claimed, !.pc = "mint"]
  <2>1. Claimed \in Who /\ (Claimed = Holder => lost = Never)
    BY DEF Claimed, Who, Bare, Holder
  <2>2. /\ w \in Browsed /\ w.kind = reqs[r].kind /\ w.env = reqs[r].env /\ w.code = reqs[r].code
        /\ w.from = reqs[r].from /\ w.alone = reqs[r].alone /\ w.token = reqs[r].token
        /\ w.fresh = reqs[r].fresh /\ w.bought = reqs[r].bought /\ w.dropped = reqs[r].dropped
        /\ w.pc = "mint" /\ w.as = Claimed
    BY <1>2, <2>1 DEF Browsed, BrowserPcs, Layer
  <2>3. Becomes(r, w)
    BY <1>4
  <2> HIDE DEF w
  <2>4. Fit(w)
    <3>1. Phase(w)
      BY <1>1, <1>2, <2>2 DEF Fit, Phase, Layer, Pcs, Routes
    <3>2. Backed(w) /\ Booked(w) /\ Left(w)
      BY <1>1, <1>2, <2>2 DEF Fit, Phase, Backed, Booked, Left, Layer
    <3>3. w.as = Holder => w.from <= lost
      <4>1. \A f, n, l \in Int : f <= n /\ n < l => f <= l
        OBVIOUS
      <4> QED
        BY <1>2, <2>1, <2>2, <4>1, Times
    <3>4. Timely(w)
      BY <1>1, <1>2, <2>2, <3>3 DEF Fit, Timely
    <3> QED
      BY <3>1, <3>2, <3>4 DEF Fit
  <2> HIDE DEF Browsed
  <2> QED
    BY <1>1, <1>4, <2>2, <2>3, <2>4, QuietStep
<1>5. CASE NoFault /\ UNCHANGED spoiled /\ Becomes(r, [reqs[r] EXCEPT !.pc = "drop"])
  <2> DEFINE w == [reqs[r] EXCEPT !.pc = "drop"]
  <2>1. /\ w \in Browsed /\ w.kind = reqs[r].kind /\ w.env = reqs[r].env /\ w.code = reqs[r].code
        /\ w.from = reqs[r].from /\ w.alone = reqs[r].alone /\ w.token = reqs[r].token
        /\ w.fresh = reqs[r].fresh /\ w.bought = reqs[r].bought /\ w.dropped = reqs[r].dropped
        /\ w.pc = "drop" /\ w.as = reqs[r].as
    <3>1. "drop" \in BrowserPcs
      BY DEF BrowserPcs, Layer
    <3> QED
      BY <1>2, <3>1, Moved
  <2>2. Becomes(r, w)
    BY <1>5
  <2> HIDE DEF w
  <2>3. Fit(w)
    <3>1. Phase(w)
      BY <1>1, <1>2, <2>1 DEF Fit, Phase, Layer, Pcs, Routes
    <3>2. Backed(w) /\ Booked(w) /\ Timely(w) /\ Left(w)
      BY <1>1, <1>2, <2>1 DEF Fit, Phase, Backed, Booked, Timely, Left, Layer
    <3> QED
      BY <3>1, <3>2 DEF Fit
  <2> HIDE DEF Browsed
  <2> QED
    BY <1>1, <1>5, <2>1, <2>2, <2>3, QuietStep
<1>6. CASE Fault /\ Spoil(sid) /\ Done(r)
  <2>1. spoiled' = spoiled \cup {sid} /\ spoiled \subseteq Sids
    BY <1>2, <1>3, <1>6 DEF Spoil, Shape, Records, HistoryOK
  <2>2. \A s \in Sids : Keeps(s)
    BY <1>1, <1>2, <2>1, Times DEF Keeps
  <2>3. GrantsOK' /\ spoiled' \subseteq Sids
    BY <1>1, <1>2, <1>3, <2>1 DEF Shape, Records, GrantsOK
  <2> QED
    BY <1>1, <1>6, <2>1, <2>2, <2>3, EndKeeps
<1> QED
  BY <1>4, <1>5, <1>6 DEF Userinfo

(* A step of one request that writes the assertion of a session of its.    *)
LEMMA CacheStep ==
    ASSUME IInv, NEW r \in Slots, reqs[r].kind \in Routes, NEW w \in Browsed, Becomes(r, w),
           w.kind = reqs[r].kind, w.env = reqs[r].env, w.code = reqs[r].code,
           w.from = reqs[r].from, w.alone = reqs[r].alone, reqs[r].token # 0 => w.token # 0,
           Fault \/ NoFault, Phase(w), Backed(w), Booked(w), Timely(w),
           w.dropped => cache'[w.env.sid] = Unheld,
           UNCHANGED <<scene, now, lost, grants, codes, signing, tokens, keys, rows, jar, logins,
                       spoiled, logouts, silenced, ended>>,
           CacheOK', CacheBounded',
           \A s \in Sids : Tells(s) \/ s = reqs[r].env.sid \/ s = reqs[r].code
    PROVE  IInv'
<1>1. \A s \in Sids : Keeps(s)
  BY Times, BrowsedFacts DEF Keeps
<1>2. GrantsOK' /\ HistoryOK'
  BY DEF IInv, Shape, Records, GrantsOK, HistoryOK
<1>3. Fit(w)'
  BY DEF Fit, Phase, Backed, Accepts, Booked, Timely, RoleGone, GrantGone, Left
<1> HIDE DEF Browsed
<1> QED
  BY <1>1, <1>2, <1>3, StepKeeps

(* An assertion minted now is over within an access lifetime.              *)
LEMMA MintBounded ==
    ASSUME Shape, CacheBounded, NEW sid \in Sids, NEW as \in Who, Mint(sid, as),
           as = Holder => now <= lost + Flight,
           sid \in silenced => now <= ended + Flight,
           UNCHANGED <<now, lost, ended, silenced, grants>>
    PROVE  CacheOK' /\ CacheBounded' /\ \A s \in Sids : s # sid => cache'[s] = cache[s]
<1>1. PICK ttl \in ExpiresIn : cache' = [cache EXCEPT ![sid] = [as |-> as, expires |-> Expiry(ttl)]]
  BY DEF Mint
<1>2. now \in Nat /\ lost \in Nat /\ ended \in Int /\ CacheOK
  BY Times DEF Shape, Records
<1>3. Expiry(ttl) \in Int /\ Expiry(ttl) <= now + AccessTtl
  BY <1>2, Bounds DEF Expiry
<1>4. /\ CacheOK' /\ cache'[sid].as = as /\ cache'[sid].expires = Expiry(ttl)
      /\ \A s \in Sids : s # sid => cache'[s] = cache[s]
  BY <1>1, <1>2, <1>3 DEF CacheOK
<1>5. /\ as = Holder => Expiry(ttl) <= RoleGone
      /\ sid \in silenced => Expiry(ttl) <= GrantGone
  <2>1. /\ now \in Int /\ lost \in Int /\ ended \in Int /\ Flight \in Int /\ AccessTtl \in Int
        /\ Expiry(ttl) \in Int /\ Expiry(ttl) <= now + AccessTtl
    BY <1>2, <1>3, Bounds
  <2>2. \A e, n, l, f, a \in Int : e <= n + a /\ n <= l + f => e <= l + f + a
    OBVIOUS
  <2> QED
    BY <2>1, <2>2 DEF RoleGone, GrantGone
<1>6. RoleGone' = RoleGone /\ GrantGone' = GrantGone
  BY DEF RoleGone, GrantGone
<1> QED
  BY <1>3, <1>4, <1>5, <1>6 DEF CacheBounded

(* Dropping an assertion bounds it.                                        *)
LEMMA DropBounded ==
    ASSUME Shape, CacheBounded, NEW sid \in Sids, cache' = [cache EXCEPT ![sid] = Unheld],
           UNCHANGED <<now, lost, ended, silenced, grants>>
    PROVE  CacheOK' /\ CacheBounded' /\ cache'[sid] = Unheld /\ \A s \in Sids : Tells(s)
<1>1. Unheld \in [as : Who, expires : Int] /\ Unheld.expires = -1 /\ Unheld.as # Holder
  BY DEF Unheld, Who, Nobody, Holder
<1>2. -1 <= now + AccessTtl /\ -1 <= GrantGone
  BY Times, Bounds
<1>3. CacheOK
  BY DEF Shape, Records
<1>4. CacheOK' /\ cache'[sid] = Unheld /\ \A s \in Sids : s # sid => cache'[s] = cache[s]
  BY <1>1, <1>3 DEF CacheOK
<1> HIDE DEF Unheld
<1> QED
  BY <1>1, <1>2, <1>4 DEF CacheBounded, RoleGone, GrantGone, Tells

(* The mint of a renewal rotates the envelope onto the token granted, and  *)
(* the handler runs.                                                       *)
LEMMA RenewedKeeps ==
    ASSUME IInv, scene' = scene, NEW r \in Slots, Renewed(r)
    PROVE  IInv'
<1> DEFINE sid == reqs[r].env.sid
           fresh == RotatedOnto(reqs[r].env, reqs[r].token)
           q == [reqs[r] EXCEPT !.fresh = fresh]
<1>1. /\ reqs[r].kind \in Routes /\ reqs[r].pc = "mint"
      /\ UNCHANGED <<now, lost, grants, codes, signing, tokens, keys, counted, rows, jar,
                     logins, revokes, logouts, silenced, ended, retired>>
  BY DEF Renewed, rauthy
<1>2. /\ Shape /\ reqs[r] \in Browsed /\ Fit(reqs[r]) /\ CacheBounded
      /\ reqs[r].from \in Nat /\ reqs[r].from <= now /\ now <= reqs[r].from + Flight
      /\ reqs[r].env \in Cookie
  BY <1>1, BrowsedFacts DEF Layer
<1>3. sid \in Sids /\ reqs[r].env # Foreign /\ reqs[r].env # NoCookie
  BY <1>2, CookieSids
<1>4. CASE /\ NoFault /\ UNCHANGED spoiled
           /\ Mint(sid, reqs[r].as)
           /\ Becomes(r, Entered(q))
  <2>1. reqs[r].token \in 1..MaxGrants /\ reqs[r].token # 0
    BY <1>1, <1>2, Bounds DEF Fit, Phase, Browsed
  <2>2. fresh \in Cookie /\ fresh = [sid |-> sid, token |-> reqs[r].token] /\ fresh # NoCookie
    BY <1>2, <2>1, CookieSids DEF RotatedOnto, Cookie
  <2> HIDE DEF fresh
  <2>3. /\ q \in Browsed /\ q.kind = reqs[r].kind /\ q.env = reqs[r].env /\ q.code = reqs[r].code
        /\ q.from = reqs[r].from /\ q.alone = reqs[r].alone /\ q.token = reqs[r].token
        /\ q.fresh = fresh /\ q.bought = reqs[r].bought /\ q.dropped = reqs[r].dropped
        /\ q.pc = "mint" /\ q.as = reqs[r].as
    BY <1>1, <1>2, <2>2 DEF Browsed
  <2>4. Becomes(r, Entered(q))
    BY <1>4
  <2> HIDE DEF q
  <2>5. /\ reqs[r].kind \in {"page", "logout"} => q.code = 0 /\ q.env # NoCookie
        /\ reqs[r].kind \in {"login", "callback"} => q.code # 0
        /\ q.bought = 0 /\ (q.alone => q.kind = "logout") /\ ~q.dropped
    BY <1>1, <1>2, <2>3 DEF Fit, Phase, Layer
  <2>6. Backed(q) /\ Booked(q)
    BY <1>1, <1>2, <2>3 DEF Fit, Backed, Booked, Layer
  <2>7. reqs[r].as \in Who /\ (reqs[r].as = Holder => reqs[r].from <= lost)
        /\ (sid \in silenced => reqs[r].from <= ended)
    BY <1>1, <1>2 DEF Fit, Timely, Browsed
  <2>8. /\ q.as = Holder => q.from < RoleGone
        /\ q.env.sid \in silenced => q.from < GrantGone
    BY <1>2, <2>3, <2>7, Times, Bounds
  <2>9. "mint" \in Layer
    BY DEF Layer
  <2>10. /\ Entered(q) \in Browsed /\ Fit(Entered(q))
         /\ Entered(q).kind = q.kind /\ Entered(q).env = q.env /\ Entered(q).code = q.code
         /\ Entered(q).from = q.from /\ Entered(q).alone = q.alone /\ Entered(q).token = q.token
         /\ ~Entered(q).dropped
    <3> HIDE DEF Browsed, Cookie
    <3> QED
      BY <1>2, <1>3, <2>1, <2>2, <2>3, <2>5, <2>6, <2>8, <2>9, EnteredFits DEF Fit
  <2>11. CacheOK' /\ CacheBounded' /\ \A s \in Sids : s # sid => cache'[s] = cache[s]
    <3>1. /\ reqs[r].as = Holder => now <= lost + Flight
          /\ sid \in silenced => now <= ended + Flight
      BY <1>2, <2>7, Times, Bounds
    <3> QED
      BY <1>1, <1>2, <1>3, <1>4, <2>7, <3>1, MintBounded
  <2> DEFINE w == Entered(q)
  <2>12. w \in Browsed /\ Phase(w) /\ Backed(w) /\ Booked(w) /\ Timely(w) /\ w.kind = reqs[r].kind
         /\ w.env = reqs[r].env /\ w.code = reqs[r].code /\ w.from = reqs[r].from
         /\ w.alone = reqs[r].alone /\ w.token = reqs[r].token /\ ~w.dropped /\ Becomes(r, w)
    BY <2>3, <2>4, <2>10 DEF Fit
  <2> HIDE DEF w, Browsed
  <2> QED
    BY <1>1, <1>4, <2>11, <2>12, CacheStep DEF Tells
<1>5. CASE Fault /\ Spoil(sid) /\ Done(r) /\ UNCHANGED cache
  <2>1. spoiled' = spoiled \cup {sid} /\ spoiled \subseteq Sids
    BY <1>2, <1>3, <1>5 DEF Spoil, Shape, Records, HistoryOK
  <2>2. \A s \in Sids : Keeps(s)
    BY <1>1, <1>2, <2>1, Times DEF Keeps
  <2>3. GrantsOK' /\ spoiled' \subseteq Sids
    BY <1>1, <1>2, <1>3, <2>1 DEF Shape, Records, GrantsOK
  <2> QED
    BY <1>1, <1>5, <2>1, <2>2, <2>3, EndKeeps
<1> QED
  BY <1>4, <1>5 DEF Renewed

(* The assertion of a session rauthy refused, dropped or left.             *)
LEMMA DropAssertionKeeps ==
    ASSUME IInv, scene' = scene, NEW r \in Slots, DropAssertion(r)
    PROVE  IInv'
<1> DEFINE sid == reqs[r].env.sid
           w == [reqs[r] EXCEPT !.pc = "clear"]
<1>1. /\ reqs[r].kind \in Routes /\ reqs[r].pc = "drop" /\ Becomes(r, w) /\ (Fault \/ NoFault)
      /\ UNCHANGED <<now, lost, grants, codes, signing, tokens, keys, counted, rows, jar,
                     logins, revokes, spoiled, logouts, silenced, ended, retired>>
      /\ cache' = cache \/ cache' = [cache EXCEPT ![sid] = Unheld]
  BY DEF DropAssertion, rauthy, history
<1>2. /\ Shape /\ reqs[r] \in Browsed /\ Fit(reqs[r]) /\ CacheBounded /\ reqs[r].env \in Cookie
  BY <1>1, BrowsedFacts DEF Layer
<1>3. sid \in Sids
  BY <1>2, CookieSids
<1>4. /\ w \in Browsed /\ w.kind = reqs[r].kind /\ w.env = reqs[r].env /\ w.code = reqs[r].code
      /\ w.from = reqs[r].from /\ w.alone = reqs[r].alone /\ w.token = reqs[r].token
      /\ w.fresh = reqs[r].fresh /\ w.bought = reqs[r].bought /\ w.dropped = reqs[r].dropped
      /\ w.pc = "clear" /\ w.as = reqs[r].as
  <2>1. "clear" \in BrowserPcs
    BY DEF BrowserPcs, Layer
  <2> QED
    BY <1>2, <2>1, Moved
<1> HIDE DEF w
<1>5. Phase(w) /\ ~w.dropped
  BY <1>1, <1>2, <1>4 DEF Fit, Phase, Layer, Pcs, Routes
<1>6. Backed(w) /\ Booked(w) /\ Timely(w)
  BY <1>1, <1>2, <1>4 DEF Fit, Phase, Backed, Booked, Timely, Layer
<1>7. CacheOK' /\ CacheBounded' /\ \A s \in Sids : Tells(s)
  <2>1. CASE cache' = cache
    BY <1>1, <1>2, <2>1 DEF Shape, Records, CacheOK, CacheBounded, RoleGone, GrantGone, Tells
  <2>2. CASE cache' = [cache EXCEPT ![sid] = Unheld]
    BY <1>1, <1>2, <1>3, <2>2, DropBounded
  <2> QED
    BY <1>1, <2>1, <2>2
<1> HIDE DEF Browsed
<1> QED
  BY <1>1, <1>4, <1>5, <1>6, <1>7, CacheStep

(* The code exchange: the session's first token, none, or no answer.       *)
LEMMA ExchangeKeeps ==
    ASSUME IInv, scene' = scene, NEW r \in Slots, Exchange(r)
    PROVE  IInv'
<1> DEFINE code == reqs[r].code
<1>1. /\ reqs[r].kind \in Routes /\ reqs[r].kind = "callback" /\ reqs[r].pc = "exchange"
      /\ UNCHANGED <<now, lost, codes, signing, tokens, cache, keys, counted, rows, jar,
                     logins, revokes, spoiled, logouts, silenced, ended, retired>>
  BY DEF Exchange, Is, Routes, cell, history
<1>2. Shape /\ reqs[r] \in Browsed /\ Fit(reqs[r]) /\ CacheBounded
  BY <1>1, BrowsedFacts
<1>3. /\ code \in Sids /\ code # 0 /\ code # reqs[r].env.sid /\ jar.session.sid # code
      /\ reqs[r].token # 0 => reqs[r].fresh # NoCookie
  <2>1. code # 0 /\ (reqs[r].token # 0 => reqs[r].fresh # NoCookie)
    BY <1>1, <1>2 DEF Fit, Phase, Layer
  <2> QED
    BY <1>1, <2>1, BrowsedFacts, Strangers
<1>4. reqs[r].bought = 0 /\ ~reqs[r].dropped /\ ~reqs[r].alone /\ code \notin silenced
  BY <1>1, <1>2, <1>3 DEF Fit, Phase, Booked
<1>5. ASSUME NEW refresh \in {0, 1}, NoFault,
             grants' = [grants EXCEPT ![code] = [last |-> refresh, live |-> refresh = 1]],
             Becomes(r, [reqs[r] EXCEPT !.bought = refresh, !.pc = "claims"])
      PROVE  IInv'
  <2>1. /\ GrantsOK' /\ grants'[code].last = refresh /\ (grants'[code].live <=> refresh = 1)
        /\ \A s \in Sids : s # code => grants'[s] = grants[s]
    <3>1. refresh \in 0..MaxGrants
      BY Bounds
    <3>2. grants \in [Sids -> [last : 0..MaxGrants, live : BOOLEAN]]
      BY <1>2 DEF Shape, Records, GrantsOK
    <3> QED
      BY <1>3, <1>5, <3>1, <3>2 DEF GrantsOK
  <2>2. PICK w \in Browsed :
          /\ Becomes(r, w) /\ w.kind = reqs[r].kind /\ w.env = reqs[r].env
          /\ w.code = reqs[r].code /\ w.from = reqs[r].from /\ w.alone = reqs[r].alone
          /\ w.token = reqs[r].token /\ w.fresh = reqs[r].fresh /\ w.bought = refresh
          /\ w.dropped = reqs[r].dropped /\ w.pc = "claims" /\ w.as = reqs[r].as
    <3> DEFINE w == [reqs[r] EXCEPT !.bought = refresh, !.pc = "claims"]
    <3>1. "claims" \in BrowserPcs
      BY DEF BrowserPcs
    <3>2. /\ w \in Browsed /\ w.kind = reqs[r].kind /\ w.env = reqs[r].env
          /\ w.code = reqs[r].code /\ w.from = reqs[r].from /\ w.alone = reqs[r].alone
          /\ w.token = reqs[r].token /\ w.fresh = reqs[r].fresh /\ w.bought = refresh
          /\ w.dropped = reqs[r].dropped /\ w.pc = "claims" /\ w.as = reqs[r].as
      BY <1>2, <3>1 DEF Browsed
    <3>3. Becomes(r, w)
      BY <1>5
    <3> HIDE DEF w, Browsed
    <3> QED
      BY <3>2, <3>3
  <2>3. Fit(w)'
    <3>1. Phase(w)
      BY <1>1, <1>2, <1>3, <2>2 DEF Fit, Phase, Layer, Pcs, Routes
    <3>2. Backed(w)'
      BY <1>1, <1>2, <1>3, <2>1, <2>2 DEF Backed, Accepts, Fit
    <3>3. Booked(w)'
      BY <1>1, <1>2, <2>2 DEF Fit, Booked, Layer
    <3>4. Timely(w)' /\ Left(w)'
      BY <1>1, <1>2, <1>4, <2>2 DEF Timely, Left, Fit
    <3> QED
      BY <3>1, <3>2, <3>3, <3>4 DEF Fit, Phase
  <2>4. \A s \in Sids : s # code => Keeps(s)
    <3>1. \A s \in Sids : grants[s].last \in Int
      BY <1>2, Times
    <3> QED
      BY <1>1, <2>1, <3>1 DEF Keeps
  <2>5. CacheBounded'
    BY <1>1, <1>2, <1>4, <2>1 DEF CacheBounded, RoleGone, GrantGone
  <2>6. CacheOK' /\ HistoryOK'
    BY <1>1, <1>2 DEF Shape, Records, CacheOK, HistoryOK
  <2>7. \A s \in Sids : /\ Keeps(s) \/ Own(r, s)
                        /\ grants'[s].live => grants[s].live \/ s = code
    BY <2>4 DEF Own, Keeps
  <2>8. \A s \in Sids : Tells(s)
    BY <1>1 DEF Tells
  <2> HIDE DEF Browsed
  <2> QED
    BY <1>1, <1>3, <1>5, <2>1, <2>2, <2>3, <2>4, <2>5, <2>6, <2>7, <2>8, StepKeeps
<1>6. CASE Fault /\ Becomes(r, [reqs[r] EXCEPT !.pc = "refuse"]) /\ UNCHANGED grants
  <2> DEFINE w == [reqs[r] EXCEPT !.pc = "refuse"]
  <2>1. /\ w \in Browsed /\ w.kind = reqs[r].kind /\ w.env = reqs[r].env /\ w.code = reqs[r].code
        /\ w.from = reqs[r].from /\ w.alone = reqs[r].alone /\ w.token = reqs[r].token
        /\ w.fresh = reqs[r].fresh /\ w.bought = reqs[r].bought /\ w.dropped = reqs[r].dropped
        /\ w.pc = "refuse" /\ w.as = reqs[r].as
    <3>1. "refuse" \in BrowserPcs
      BY DEF BrowserPcs
    <3> QED
      BY <1>2, <3>1, Moved
  <2>2. Becomes(r, w)
    BY <1>6
  <2> HIDE DEF w
  <2>3. Fit(w)
    <3>1. Phase(w)
      BY <1>1, <1>2, <2>1 DEF Fit, Phase, Layer, Pcs, Routes
    <3>2. Backed(w) /\ Booked(w) /\ Timely(w) /\ Left(w)
      BY <1>1, <1>2, <2>1 DEF Fit, Phase, Backed, Booked, Timely, Left, Layer
    <3> QED
      BY <3>1, <3>2 DEF Fit
  <2> HIDE DEF Browsed
  <2> QED
    BY <1>1, <1>6, <2>1, <2>2, <2>3, QuietStep
<1> QED
  BY <1>5, <1>6 DEF Exchange

(* The claims of a login, refused or not.                                  *)
LEMMA ClaimsKeeps ==
    ASSUME IInv, scene' = scene, NEW r \in Slots, Claims(r)
    PROVE  IInv'
<1>1. /\ reqs[r].kind \in Routes /\ reqs[r].kind = "callback" /\ reqs[r].pc = "claims"
      /\ UNCHANGED <<now, lost, grants, codes, signing, tokens, cache, keys, counted, rows, jar,
                     logins, revokes, spoiled, logouts, silenced, ended, retired>>
  BY DEF Claims, Is, Routes, rauthy, cell, history
<1>2. /\ Shape /\ reqs[r] \in Browsed /\ Fit(reqs[r]) /\ CacheBounded
      /\ reqs[r].from \in Nat /\ reqs[r].from <= now /\ now <= reqs[r].from + Flight
  BY <1>1, BrowsedFacts
<1>4. CASE NoFault /\ Becomes(r, [reqs[r] EXCEPT !.as = Claimed, !.pc = "establish"])
  <2> DEFINE w == [reqs[r] EXCEPT !.as = Claimed, !.pc = "establish"]
  <2>1. Claimed \in Who /\ (Claimed = Holder => lost = Never)
    BY DEF Claimed, Who, Bare, Holder
  <2>2. /\ w \in Browsed /\ w.kind = reqs[r].kind /\ w.env = reqs[r].env /\ w.code = reqs[r].code
        /\ w.from = reqs[r].from /\ w.alone = reqs[r].alone /\ w.token = reqs[r].token
        /\ w.fresh = reqs[r].fresh /\ w.bought = reqs[r].bought /\ w.dropped = reqs[r].dropped
        /\ w.pc = "establish" /\ w.as = Claimed
    BY <1>2, <2>1 DEF Browsed, BrowserPcs
  <2>3. Becomes(r, w)
    BY <1>4
  <2> HIDE DEF w
  <2>4. Fit(w)
    <3>1. Phase(w)
      BY <1>1, <1>2, <2>2 DEF Fit, Phase, Layer, Pcs, Routes
    <3>2. Backed(w) /\ Booked(w) /\ Left(w)
      BY <1>1, <1>2, <2>2 DEF Fit, Phase, Backed, Booked, Left, Layer
    <3>3. w.as = Holder => w.from <= lost
      <4>1. \A f, n, l \in Int : f <= n /\ n < l => f <= l
        OBVIOUS
      <4> QED
        BY <1>2, <2>1, <2>2, <4>1, Times
    <3>4. Timely(w)
      BY <1>1, <1>2, <2>2, <3>3 DEF Fit, Timely
    <3> QED
      BY <3>1, <3>2, <3>4 DEF Fit
  <2> HIDE DEF Browsed
  <2> QED
    BY <1>1, <1>4, <2>2, <2>3, <2>4, QuietStep
<1>5. CASE (Fault \/ NoFault) /\ Becomes(r, [reqs[r] EXCEPT !.pc = "refuse"])
  <2> DEFINE w == [reqs[r] EXCEPT !.pc = "refuse"]
  <2>1. /\ w \in Browsed /\ w.kind = reqs[r].kind /\ w.env = reqs[r].env /\ w.code = reqs[r].code
        /\ w.from = reqs[r].from /\ w.alone = reqs[r].alone /\ w.token = reqs[r].token
        /\ w.fresh = reqs[r].fresh /\ w.bought = reqs[r].bought /\ w.dropped = reqs[r].dropped
        /\ w.pc = "refuse" /\ w.as = reqs[r].as
    <3>1. "refuse" \in BrowserPcs
      BY DEF BrowserPcs
    <3> QED
      BY <1>2, <3>1, Moved
  <2>2. Becomes(r, w)
    BY <1>5
  <2> HIDE DEF w
  <2>3. Fit(w)
    <3>1. Phase(w)
      BY <1>1, <1>2, <2>1 DEF Fit, Phase, Layer, Pcs, Routes
    <3>2. Backed(w) /\ Booked(w) /\ Timely(w) /\ Left(w)
      BY <1>1, <1>2, <2>1 DEF Fit, Phase, Backed, Booked, Timely, Left, Layer
    <3> QED
      BY <3>1, <3>2 DEF Fit
  <2> HIDE DEF Browsed
  <2> QED
    BY <1>1, <1>5, <2>1, <2>2, <2>3, QuietStep
<1>6. \/ NoFault /\ Becomes(r, [reqs[r] EXCEPT !.as = Claimed, !.pc = "establish"])
      \/ (Fault \/ NoFault) /\ Becomes(r, [reqs[r] EXCEPT !.pc = "refuse"])
  <2>1. CASE grants[reqs[r].code].live
    BY <2>1 DEF Claims
  <2>2. CASE ~grants[reqs[r].code].live
    BY <2>2 DEF Claims
  <2> QED
    BY <2>1, <2>2
<1> QED
  BY <1>4, <1>5, <1>6

(* The mint of a login: the session's assertion, and then a welcome if it  *)
(* was sold a token.                                                       *)
LEMMA EstablishKeeps ==
    ASSUME IInv, scene' = scene, NEW r \in Slots, Establish(r)
    PROVE  IInv'
<1> DEFINE code == reqs[r].code
<1>1. /\ reqs[r].kind \in Routes /\ reqs[r].kind = "callback" /\ reqs[r].pc = "establish"
      /\ UNCHANGED <<now, lost, grants, codes, signing, tokens, keys, counted, rows, jar,
                     logins, revokes, spoiled, logouts, silenced, ended, retired>>
  BY DEF Establish, Is, Routes, rauthy, history
<1>2. /\ Shape /\ reqs[r] \in Browsed /\ Fit(reqs[r]) /\ CacheBounded
      /\ reqs[r].from \in Nat /\ reqs[r].from <= now /\ now <= reqs[r].from + Flight
  BY <1>1, BrowsedFacts
<1>3. code \in Sids /\ ~reqs[r].dropped /\ reqs[r].bought \in {0, 1} /\ reqs[r].as \in Who
  <2>1. code # 0 /\ ~reqs[r].dropped
    BY <1>1, <1>2 DEF Fit, Phase
  <2> QED
    BY <1>1, <1>2, <2>1, BrowsedFacts DEF Browsed
<1>4. ASSUME NEW pc \in {"refuse", "welcome"}, pc = "welcome" => reqs[r].bought = 1
      PROVE  \E w \in Browsed :
               /\ w = [reqs[r] EXCEPT !.pc = pc] /\ w.kind = reqs[r].kind /\ w.env = reqs[r].env
               /\ w.code = reqs[r].code /\ w.from = reqs[r].from /\ w.alone = reqs[r].alone
               /\ w.token = reqs[r].token /\ ~w.dropped
               /\ Phase(w) /\ Backed(w) /\ Booked(w) /\ Timely(w) /\ Left(w)
  <2> DEFINE w == [reqs[r] EXCEPT !.pc = pc]
  <2>1. /\ w \in Browsed /\ w.kind = reqs[r].kind /\ w.env = reqs[r].env /\ w.code = reqs[r].code
        /\ w.from = reqs[r].from /\ w.alone = reqs[r].alone /\ w.token = reqs[r].token
        /\ w.fresh = reqs[r].fresh /\ w.bought = reqs[r].bought /\ w.dropped = reqs[r].dropped
        /\ w.pc = pc /\ w.as = reqs[r].as
    <3>1. pc \in BrowserPcs
      BY DEF BrowserPcs
    <3> QED
      BY <1>2, <3>1, Moved
  <2>2. w = [reqs[r] EXCEPT !.pc = pc]
    OBVIOUS
  <2> HIDE DEF w
  <2>3. Phase(w)
    BY <1>1, <1>2, <1>4, <2>1 DEF Fit, Phase, Layer, Pcs, Routes
  <2>4. Backed(w) /\ Booked(w) /\ Timely(w) /\ Left(w)
    BY <1>1, <1>2, <1>4, <2>1 DEF Fit, Phase, Backed, Booked, Timely, Left, Layer
  <2> HIDE DEF Browsed
  <2> QED
    BY <1>3, <2>1, <2>2, <2>3, <2>4
<1>5. CASE /\ NoFault /\ Mint(code, reqs[r].as)
           /\ Becomes(r, [reqs[r] EXCEPT !.pc = IF reqs[r].bought = 0 THEN "refuse" ELSE "welcome"])
  <2>1. PICK pc \in {"refuse", "welcome"} : /\ pc = "welcome" => reqs[r].bought = 1
                                            /\ Becomes(r, [reqs[r] EXCEPT !.pc = pc])
    <3>1. CASE reqs[r].bought = 0
      BY <1>5, <3>1
    <3>2. CASE reqs[r].bought # 0
      BY <1>3, <1>5, <3>2
    <3> QED
      BY <3>1, <3>2
  <2>2. CacheOK' /\ CacheBounded' /\ \A s \in Sids : s # code => cache'[s] = cache[s]
    <3>1. /\ reqs[r].as = Holder => reqs[r].from <= lost
          /\ code \in silenced => reqs[r].from <= ended
      BY <1>1, <1>2 DEF Fit, Timely
    <3>2. /\ reqs[r].as = Holder => now <= lost + Flight
          /\ code \in silenced => now <= ended + Flight
      BY <1>2, <3>1, Times, Bounds
    <3> QED
      BY <1>1, <1>2, <1>3, <1>5, <3>2, MintBounded
  <2> HIDE DEF Browsed
  <2> QED
    BY <1>1, <1>4, <1>5, <2>1, <2>2, CacheStep DEF Tells
<1>6. CASE Fault /\ Becomes(r, [reqs[r] EXCEPT !.pc = "refuse"]) /\ UNCHANGED cache
  <2>1. PICK w \in Browsed :
          /\ w = [reqs[r] EXCEPT !.pc = "refuse"] /\ w.kind = reqs[r].kind /\ w.env = reqs[r].env
          /\ w.code = reqs[r].code /\ w.from = reqs[r].from /\ w.alone = reqs[r].alone
          /\ w.token = reqs[r].token
          /\ Phase(w) /\ Backed(w) /\ Booked(w) /\ Timely(w) /\ Left(w)
    BY <1>4
  <2>2. Fit(w) /\ Becomes(r, w)
    BY <1>6, <2>1 DEF Fit
  <2> HIDE DEF Browsed
  <2> QED
    BY <1>1, <1>6, <2>1, <2>2, QuietStep
<1> QED
  BY <1>5, <1>6 DEF Establish

(* A logout's revocation at rauthy, which ends the grant or does not.      *)
LEMMA LogoutRevokeKeeps ==
    ASSUME IInv, scene' = scene, NEW r \in Slots, LogoutRevoke(r)
    PROVE  IInv'
<1> DEFINE sid == reqs[r].env.sid
           w == [reqs[r] EXCEPT !.pc = "forget"]
<1>1. /\ reqs[r].kind \in Routes /\ reqs[r].kind = "logout" /\ reqs[r].pc = "revoke"
      /\ (Fault \/ NoFault) /\ Becomes(r, w)
      /\ UNCHANGED <<now, lost, codes, signing, tokens, cache, keys, counted, rows, jar,
                     logins, revokes, logouts, silenced, ended, retired>>
  <2>1. Fault \/ NoFault
    <3>1. CASE Accepts(sid, reqs[r].env.token)
      BY <3>1 DEF LogoutRevoke
    <3>2. CASE ~Accepts(sid, reqs[r].env.token)
      BY <3>2 DEF LogoutRevoke
    <3> QED
      BY <3>1, <3>2
  <2> QED
    BY <2>1 DEF LogoutRevoke, Is, Routes, cell
<1>2. Shape /\ reqs[r] \in Browsed /\ Fit(reqs[r]) /\ CacheBounded
  BY <1>1, BrowsedFacts
<1>3. sid \in Sids /\ reqs[r].code = 0 /\ spoiled \subseteq Sids /\ GrantsOK /\ HistoryOK
  <2>1. reqs[r].env \in Cookie
    BY <1>1, <1>2 DEF Fit, Phase, Browsed, Envelope
  <2> QED
    BY <1>1, <1>2, <2>1, CookieSids DEF Fit, Phase, Shape, Records, HistoryOK
<1>4. /\ w \in Browsed /\ w.kind = reqs[r].kind /\ w.env = reqs[r].env /\ w.code = reqs[r].code
      /\ w.from = reqs[r].from /\ w.alone = reqs[r].alone /\ w.token = reqs[r].token
      /\ w.fresh = reqs[r].fresh /\ w.bought = reqs[r].bought /\ w.dropped = reqs[r].dropped
      /\ w.pc = "forget" /\ w.as = reqs[r].as
  <2>1. "forget" \in BrowserPcs
    BY DEF BrowserPcs
  <2> QED
    BY <1>2, <2>1, Moved
<1> HIDE DEF w
<1>5. Fit(w)
  <2>1. Phase(w)
    BY <1>1, <1>2, <1>4 DEF Fit, Phase, Layer, Pcs, Routes
  <2>2. Backed(w) /\ Booked(w) /\ Timely(w) /\ Left(w)
    BY <1>1, <1>2, <1>4 DEF Fit, Phase, Backed, Booked, Timely, Left, Layer
  <2> QED
    BY <2>1, <2>2 DEF Fit
<1>6. /\ GrantsOK' /\ HistoryOK' /\ \A s \in Sids : Keeps(s)
  <2>1. \A s \in Sids : grants[s].last \in Int
    BY <1>2, Times
  <2>2. CASE grants' = [grants EXCEPT ![sid].live = FALSE] /\ Spoil(sid)
    <3>1. /\ GrantsOK' /\ grants'[sid].last = grants[sid].last /\ ~grants'[sid].live
          /\ \A s \in Sids : s # sid => grants'[s] = grants[s]
      BY <1>3, <2>2 DEF GrantsOK
    <3>2. spoiled' = spoiled \cup {sid}
      BY <1>3, <2>2 DEF Spoil
    <3> QED
      BY <1>1, <1>3, <2>1, <3>1, <3>2 DEF Keeps, HistoryOK
  <2>3. CASE UNCHANGED <<grants, spoiled>>
    BY <1>1, <1>3, <2>1, <2>3 DEF Keeps, HistoryOK, GrantsOK
  <2> QED
    BY <2>2, <2>3 DEF LogoutRevoke
<1>7. \A s \in Sids : Tells(s)
  BY <1>1 DEF Tells
<1>8. CacheOK' /\ CacheBounded'
  BY <1>1, <1>2, <1>6 DEF Shape, Records, CacheOK, CacheBounded, RoleGone, GrantGone, Keeps
<1>9. PICK u \in Browsed : u = w
  BY <1>4
<1> HIDE DEF Browsed
<1>10. Fit(u)'
  BY <1>1, <1>2, <1>3, <1>4, <1>5, <1>6, <1>7, <1>9, FitKept DEF Fit, Booked
<1>11. \A s \in Sids : grants'[s].live => grants[s].live
  BY <1>6 DEF Keeps
<1> QED
  BY <1>1, <1>4, <1>6, <1>7, <1>8, <1>9, <1>10, <1>11, StepKeeps

(* A logout's assertion, dropped or not.                                   *)
LEMMA LogoutDropKeeps ==
    ASSUME IInv, scene' = scene, NEW r \in Slots, LogoutDrop(r)
    PROVE  IInv'
<1> DEFINE sid == reqs[r].env.sid
<1>1. /\ reqs[r].kind \in Routes /\ reqs[r].kind = "logout" /\ reqs[r].pc = "forget"
      /\ UNCHANGED <<now, lost, grants, codes, signing, tokens, keys, counted, rows, jar,
                     logins, revokes, spoiled, logouts, silenced, ended, retired>>
  BY DEF LogoutDrop, Is, Routes, rauthy, history
<1>2. Shape /\ reqs[r] \in Browsed /\ Fit(reqs[r]) /\ CacheBounded
  BY <1>1, BrowsedFacts
<1>3. sid \in Sids
  <2>1. reqs[r].env \in Cookie
    BY <1>1, <1>2 DEF Fit, Phase, Browsed, Envelope
  <2> QED
    BY <2>1, CookieSids
<1>4. "leave" \in BrowserPcs
  BY DEF BrowserPcs
<1>5. CASE /\ NoFault /\ cache' = [cache EXCEPT ![sid] = Unheld]
           /\ Becomes(r, [reqs[r] EXCEPT !.dropped = TRUE, !.pc = "leave"])
  <2> DEFINE w == [reqs[r] EXCEPT !.dropped = TRUE, !.pc = "leave"]
  <2>1. /\ w \in Browsed /\ w.kind = reqs[r].kind /\ w.env = reqs[r].env /\ w.code = reqs[r].code
        /\ w.from = reqs[r].from /\ w.alone = reqs[r].alone /\ w.token = reqs[r].token
        /\ w.fresh = reqs[r].fresh /\ w.bought = reqs[r].bought /\ w.dropped
        /\ w.pc = "leave" /\ w.as = reqs[r].as
    BY <1>2, <1>4 DEF Browsed
  <2>2. Becomes(r, w)
    BY <1>5
  <2> HIDE DEF w
  <2>3. Phase(w)
    BY <1>1, <1>2, <2>1 DEF Fit, Phase, Layer, Pcs, Routes
  <2>4. Backed(w) /\ Booked(w) /\ Timely(w)
    BY <1>1, <1>2, <2>1 DEF Fit, Phase, Backed, Booked, Timely, Layer
  <2>5. CacheOK' /\ CacheBounded' /\ cache'[sid] = Unheld /\ \A s \in Sids : Tells(s)
    BY <1>1, <1>2, <1>3, <1>5, DropBounded
  <2> HIDE DEF Browsed
  <2> QED
    BY <1>1, <1>5, <2>1, <2>2, <2>3, <2>4, <2>5, CacheStep
<1>6. CASE Fault /\ Becomes(r, [reqs[r] EXCEPT !.pc = "leave"]) /\ UNCHANGED cache
  <2> DEFINE w == [reqs[r] EXCEPT !.pc = "leave"]
  <2>1. /\ w \in Browsed /\ w.kind = reqs[r].kind /\ w.env = reqs[r].env /\ w.code = reqs[r].code
        /\ w.from = reqs[r].from /\ w.alone = reqs[r].alone /\ w.token = reqs[r].token
        /\ w.fresh = reqs[r].fresh /\ w.bought = reqs[r].bought /\ w.dropped = reqs[r].dropped
        /\ w.pc = "leave" /\ w.as = reqs[r].as
    BY <1>2, <1>4, Moved
  <2>2. Becomes(r, w)
    BY <1>6
  <2> HIDE DEF w
  <2>3. Fit(w)
    <3>1. Phase(w)
      BY <1>1, <1>2, <2>1 DEF Fit, Phase, Layer, Pcs, Routes
    <3>2. Backed(w) /\ Booked(w) /\ Timely(w) /\ Left(w)
      BY <1>1, <1>2, <2>1 DEF Fit, Phase, Backed, Booked, Timely, Left, Layer
    <3> QED
      BY <3>1, <3>2 DEF Fit
  <2> HIDE DEF Browsed
  <2> QED
    BY <1>1, <1>6, <2>1, <2>2, <2>3, QuietStep
<1> QED
  BY <1>5, <1>6 DEF LogoutDrop

(* A reply lost: the browser keeps the cookies it had.                     *)
LEMMA LostKeeps ==
    ASSUME IInv, scene' = scene, NEW r \in Slots, reqs[r].kind \in Routes, reqs[r].pc \in Replies,
           Fault, Done(r), UNCHANGED <<jar, codes, logouts>>,
           IF reqs[r].fresh # NoCookie \/ reqs[r].pc = "clear"
           THEN Spoil(reqs[r].env.sid) ELSE UNCHANGED spoiled,
           UNCHANGED <<now, lost, grants, signing, tokens, cache, keys, rows, logins, silenced, ended>>
    PROVE  IInv'
<1>1. Shape /\ reqs[r] \in Browsed /\ Fit(reqs[r])
  BY BrowsedFacts
<1>2. spoiled \subseteq Sids /\ GrantsOK'
  BY <1>1 DEF Shape, Records, HistoryOK, GrantsOK
<1>3. spoiled \subseteq spoiled' /\ spoiled' \subseteq Sids
  <2>1. CASE reqs[r].fresh # NoCookie \/ reqs[r].pc = "clear"
    BY <1>2, <2>1 DEF Spoil
  <2>2. CASE ~(reqs[r].fresh # NoCookie \/ reqs[r].pc = "clear")
    BY <1>2, <2>2
  <2> QED
    BY <2>1, <2>2
<1>4. reqs[r].token # 0 => reqs[r].env.sid \in spoiled'
  <2>1. SUFFICES ASSUME reqs[r].token # 0 PROVE reqs[r].env.sid \in spoiled'
    OBVIOUS
  <2>2. reqs[r].env \in Cookie
    BY <1>1, <2>1 DEF Fit, Phase
  <2>3. reqs[r].env.sid \in Sids
    BY <2>2, CookieSids
  <2>4. reqs[r].fresh # NoCookie \/ reqs[r].pc = "clear"
    BY <1>1, <2>1 DEF Fit, Phase, Layer, Replies
  <2> QED
    BY <2>3, <2>4 DEF Spoil
<1>5. \A s \in Sids : Keeps(s)
  BY <1>1, <1>3, Times DEF Keeps
<1> QED
  BY <1>2, <1>3, <1>4, <1>5, EndKeeps

(* The cookies a reply leaves: those there were, none, the envelope it     *)
(* presented rotated onto the token it was granted, or the login's own.    *)
LEMMA CookiesAre ==
    ASSUME IInv, NEW r \in Slots, reqs[r].kind \in Routes, reqs[r].pc \in Replies
    PROVE  LET q == reqs[r]
           IN  /\ Cookies(q) \in [session : Envelope, login : [login : Nat, issued : Nat]]
               /\ \/ Cookies(q).session = jar.session /\ q.token = 0
                  \/ Cookies(q).session = NoCookie
                  \/ /\ q.env.sid \in Sids /\ q.token # 0
                     /\ Cookies(q).session = [sid |-> q.env.sid, token |-> q.token]
                  \/ /\ q.code \in Sids /\ q.bought = 1 /\ q.pc = "welcome"
                     /\ Cookies(q).session = [sid |-> q.code, token |-> q.bought]
               /\ q.pc = "leave" /\ q.fresh = NoCookie => Cookies(q).session = NoCookie
<1> DEFINE q == reqs[r]
           h == Handled(q)
<1>1. Shape /\ q \in Browsed /\ Fit(q)
  BY BrowsedFacts
<1>2. q.code # 0 => q.code \in Sids
  BY BrowsedFacts
<1>3. jar \in [session : Envelope, login : [login : Nat, issued : Nat]]
      /\ q.login \in [login : Nat, issued : Nat]
  BY <1>1 DEF Shape, Records, JarOK, Browsed
<1>4. NoLogin \in [login : Nat, issued : Nat] /\ NoCookie \in Envelope
  BY DEF NoLogin, Envelope
<1>5. h \in [session : Envelope, login : [login : Nat, issued : Nat]]
      /\ \/ h.session = jar.session /\ q.pc \in {"handle", "begun", "refuse"}
         \/ h.session = NoCookie /\ q.pc \in {"leave", "clear"}
         \/ /\ q.code \in Sids /\ q.bought = 1 /\ q.pc = "welcome"
            /\ h.session = [sid |-> q.code, token |-> q.bought]
  <2>1. CASE q.pc = "handle"
    <3>1. h = jar
      BY <2>1 DEF Handled
    <3> QED
      BY <1>3, <2>1, <3>1
  <2>2. CASE q.pc = "begun"
    <3>1. h = [jar EXCEPT !.login = q.login]
      BY <2>2 DEF Handled
    <3> HIDE DEF h, q, Envelope
    <3> QED
      BY <1>3, <2>2, <3>1
  <2>3. CASE q.pc = "welcome"
    <3>1. h = [session |-> [sid |-> q.code, token |-> q.bought], login |-> NoLogin]
      BY <2>3 DEF Handled
    <3>2. q.bought = 1 /\ q.code \in Sids
      BY <1>1, <1>2, <2>3 DEF Fit, Phase
    <3>3. [sid |-> q.code, token |-> q.bought] \in Envelope
      BY <3>2, Bounds DEF Envelope, Cookie
    <3> HIDE DEF h, q, Envelope, NoLogin
    <3> QED
      BY <1>4, <2>3, <3>1, <3>2, <3>3
  <2>4. CASE q.pc = "refuse"
    <3>1. h = [jar EXCEPT !.login = NoLogin]
      BY <2>4 DEF Handled
    <3> HIDE DEF h, q, Envelope, NoLogin
    <3> QED
      BY <1>3, <1>4, <2>4, <3>1
  <2>5. CASE q.pc \in {"leave", "clear"}
    <3>1. h = [session |-> NoCookie, login |-> NoLogin]
      BY <2>5 DEF Handled
    <3> HIDE DEF h, q, Envelope, NoLogin, NoCookie
    <3> QED
      BY <1>4, <2>5, <3>1
  <2> QED
    BY <2>1, <2>2, <2>3, <2>4, <2>5 DEF Replies
<1>6. CASE q.fresh = NoCookie
  <2>1. Cookies(q) = h
    BY <1>6 DEF Cookies
  <2>2. q.pc \notin {"leave", "clear"} => q.token = 0
    BY <1>1, <1>6 DEF Fit, Phase, Layer, Replies
  <2> HIDE DEF h, q, Envelope
  <2> QED
    BY <1>5, <2>1, <2>2 DEF q
<1>7. CASE q.fresh # NoCookie
  <2>1. Cookies(q) = [h EXCEPT !.session = q.fresh]
    BY <1>7 DEF Cookies
  <2>2. q.token # 0 /\ q.fresh = [sid |-> q.env.sid, token |-> q.token] /\ q.env \in Cookie
    BY <1>1, <1>7 DEF Fit, Phase
  <2>3. q.env.sid \in Sids /\ q.fresh \in Envelope
    BY <1>1, <1>7, <2>2, CookieSids DEF Browsed, Envelope
  <2> HIDE DEF h, q, Envelope
  <2> QED
    BY <1>5, <1>7, <2>1, <2>2, <2>3 DEF q
<1> QED
  BY <1>6, <1>7

(* A reply that arrives: the jar is what it leaves.                        *)
LEMMA ArrivedKeeps ==
    ASSUME IInv, scene' = scene, NEW r \in Slots, reqs[r].kind \in Routes, reqs[r].pc \in Replies,
           NoFault, Done(r), UNCHANGED spoiled, jar' = Cookies(reqs[r]),
           codes' = IF reqs[r].pc = "begun" THEN codes \cup {reqs[r].code} ELSE codes,
           logouts' = IF reqs[r].pc = "leave" /\ reqs[r].alone
                      THEN [logouts EXCEPT ![reqs[r].env.sid] = LeftAs(reqs[r])] ELSE logouts,
           UNCHANGED <<now, lost, grants, signing, tokens, cache, keys, rows, logins, silenced, ended>>
    PROVE  IInv'
<1> DEFINE q == reqs[r]
           sid == reqs[r].env.sid
           code == reqs[r].code
<1>1. Shape /\ q \in Browsed /\ Fit(q) /\ (code # 0 => code \in Sids)
  BY BrowsedFacts
<1>2. Requests' /\ OneSlot(r) /\ reqs'[r].kind = "none"
  BY <1>1, DoneIsIdle
<1>3. reqs'[r].kind \notin Routes
  BY <1>2 DEF Routes
<1>4. /\ codes' = codes \/ (codes' = codes \cup {code} /\ q.pc = "begun")
      /\ q.pc = "begun" => code # 0 /\ code \in codes' /\ ~grants[code].live /\ code \notin silenced
      /\ code # 0 => code \notin codes /\ code <= logins
  <2>1. q.pc = "begun" => code # 0
    <3>1. q.pc = "begun" => q.kind = "login"
      BY <1>1 DEF Fit, Phase, Pcs, Layer, Browsed, Routes
    <3> QED
      BY <1>1, <3>1 DEF Fit, Phase
  <2> QED
    BY <1>1, <2>1 DEF Fit, Booked
<1>5. /\ \A s \in Sids : logouts'[s] = logouts[s] \/ (s = sid /\ q.pc = "leave" /\ q.alone)
      /\ q.pc = "leave" /\ q.alone /\ sid \in Sids => logouts'[sid] = LeftAs(q)
      /\ HistoryOK'
  <2>1. HistoryOK /\ LeftAs(q) \in {"renewed", "kept", "dropped"}
    BY <1>1 DEF Shape, Records, LeftAs
  <2> QED
    BY <2>1 DEF HistoryOK
<1>6. Instants' /\ Records'
  <2>1. LoginsOK'
    <3>1. code \in Nat /\ logins \in Nat /\ LoginsOK
      BY <1>1, Bounds, Times DEF Browsed, Shape, Records
    <3>2. code # 0 => code \in 1..logins
      BY <1>4, <3>1
    <3> QED
      BY <1>4, <3>1, <3>2 DEF LoginsOK
  <2>2. JarOK'
    BY CookiesAre DEF JarOK
  <2>3. GrantsOK' /\ CacheOK'
    BY <1>1 DEF Shape, Records, GrantsOK, CacheOK
  <2> QED
    BY <1>1, <1>5, <2>1, <2>2, <2>3, InstantsKept, RecordsKept
<1>7. \A p \in Slots : reqs'[p].kind \in Routes => p # r /\ reqs'[p] = reqs[p] /\ Fit(reqs[p])'
  <2>1. \A s \in Sids : Keeps(s) /\ Tells(s)
    BY <1>1, Times DEF Keeps, Tells
  <2>2. \A c \in codes' : c \in codes \/ c = reqs[r].code
    BY <1>4
  <2>3. GrantsOK'
    BY <1>6 DEF Records
  <2> QED
    BY <1>2, <1>3, <2>1, <2>2, <2>3, OthersFit
<1>8. Fits'
  BY <1>7 DEF Fits
<1>9. Apart'
  BY <1>7 DEF IInv, Apart
<1>10. \A s : /\ InFlight(s)' \subseteq InFlight(s)
              /\ \A p \in Slots : /\ Logging(p, s)' => Logging(p, s) /\ p # r
                                  /\ Renewing(p, s) => Renewing(p, s)' \/ p = r
  BY <1>2, <1>3, <1>7 DEF InFlight, Logging, Renewing, OneSlot
<1>11. \/ jar'.session = jar.session /\ q.token = 0
       \/ jar'.session = NoCookie
       \/ /\ sid \in Sids /\ q.token # 0
          /\ jar'.session = [sid |-> sid, token |-> q.token]
       \/ /\ code \in Sids /\ q.bought = 1 /\ q.pc = "welcome"
          /\ jar'.session = [sid |-> code, token |-> q.bought]
  BY CookiesAre
<1>12. Sessions'
  <2>1. ASSUME NEW s \in Sids, Unasked(s)' PROVE ~grants'[s].live /\ s \notin silenced'
    <3>1. CASE s = code /\ q.pc = "begun"
      BY <1>4, <3>1
    <3>2. CASE ~(s = code /\ q.pc = "begun")
      <4>1. Unasked(s)
        BY <1>4, <2>1, <3>2 DEF Unasked
      <4> QED
        BY <4>1 DEF IInv, Sessions
    <3> QED
      BY <3>1, <3>2
  <2>2. ASSUME NEW s \in Sids, Unborn(s)' PROVE Hidden(s)'
    <3>1. Unborn(s)
      <4>1. CASE \E p \in Slots : Logging(p, s)'
        BY <1>10, <4>1 DEF Unborn
      <4>2. CASE Unasked(s)'
        <5>1. Unasked(s) \/ s = code
          BY <1>4, <4>2 DEF Unasked
        <5> QED
          BY <5>1 DEF Unborn, Logging
      <4> QED
        BY <2>2, <4>1, <4>2 DEF Unborn
    <3>2. jar.session.sid # s /\ InFlight(s) = {} /\ logouts[s] = "open"
      BY <3>1 DEF IInv, Sessions, Hidden
    <3>3. s # sid
      BY <3>2 DEF InFlight
    <3>4. s = code => q.pc = "begun"
      <4>1. SUFFICES ASSUME s = code, q.pc # "begun" PROVE FALSE
        OBVIOUS
      <4>2. code # 0 /\ ~Unasked(s)'
        <5>1. code # 0
          BY <4>1 DEF Sids
        <5>2. code \notin codes' /\ code <= logins'
          BY <1>4, <4>1, <5>1
        <5>3. code \in Int /\ logins' \in Int
          BY <1>1, Bounds, Times DEF Browsed
        <5> QED
          BY <4>1, <5>1, <5>2, <5>3 DEF Unasked
      <4>3. PICK p \in Slots : Logging(p, s)'
        BY <2>2, <4>2 DEF Unborn
      <4>4. Logging(p, s) /\ p # r
        BY <1>10, <4>3
      <4> QED
        BY <4>1, <4>2, <4>4, Strangers DEF Logging
    <3>5. jar'.session.sid # s
      <4>1. NoCookie.sid # s
        BY CookieSids
      <4> QED
        BY <1>11, <3>2, <3>3, <3>4, <4>1
    <3>6. InFlight(s)' = {}
      BY <1>10, <3>2
    <3> QED
      BY <1>5, <3>2, <3>3, <3>5, <3>6 DEF Hidden
  <2>3. ASSUME NEW s \in Sids PROVE JarKept(s)'
    <3>1. SUFFICES ASSUME jar'.session.sid = s
                   PROVE  /\ jar'.session.token <= grants[s].last
                          /\ s \notin spoiled => \/ Accepts(s, jar'.session.token)
                                                 \/ \E p \in Slots : Renewing(p, s)'
      BY DEF JarKept, Accepts
    <3>2. CASE jar'.session = jar.session /\ q.token = 0
      <4>1. ~Renewing(r, s)
        BY <3>2 DEF Renewing
      <4> QED
        BY <1>10, <3>1, <3>2, <4>1 DEF IInv, Sessions, JarKept
    <3>3. CASE jar'.session = NoCookie
      BY <3>1, <3>3, CookieSids
    <3>4. CASE /\ sid \in Sids /\ q.token # 0
               /\ jar'.session = [sid |-> sid, token |-> q.token]
      BY <1>1, <3>1, <3>4 DEF Fit, Backed
    <3>5. CASE /\ code \in Sids /\ q.bought = 1 /\ q.pc = "welcome"
               /\ jar'.session = [sid |-> code, token |-> q.bought]
      BY <1>1, <3>1, <3>5 DEF Fit, Backed
    <3> QED
      BY <1>11, <3>2, <3>3, <3>4, <3>5
  <2>4. ASSUME NEW s \in Sids PROVE Over(s)'
    <3>1. CASE s = sid /\ q.pc = "leave" /\ q.alone
      <4>1. SUFFICES ASSUME LeftAs(q) \in {"kept", "dropped"}
                     PROVE  /\ InFlight(s)' = {} /\ jar'.session.sid # s
                            /\ LeftAs(q) = "dropped" => cache[s] = Unheld
        BY <1>5, <3>1 DEF Over, Final
      <4>2. q.fresh = NoCookie
        BY <4>1 DEF LeftAs
      <4>3. jar'.session = NoCookie
        BY <3>1, <4>2, CookiesAre
      <4>4. InFlight(s)' = {}
        <5>1. \A p \in Slots : p # r /\ reqs[p].kind \in Routes => reqs[p].env.sid # sid
          BY <3>1 DEF IInv, Apart
        <5> QED
          BY <1>7, <3>1, <5>1 DEF InFlight
      <4>5. LeftAs(q) = "dropped" => q.dropped
        BY <4>2 DEF LeftAs
      <4> QED
        BY <1>1, <3>1, <4>3, <4>4, <4>5, CookieSids DEF Fit, Left
    <3>2. CASE ~(s = sid /\ q.pc = "leave" /\ q.alone)
      <4>1. logouts'[s] = logouts[s]
        BY <1>5, <3>2
      <4>2. SUFFICES ASSUME Final(s)
                     PROVE  /\ InFlight(s)' = {} /\ jar'.session.sid # s
                            /\ logouts[s] = "dropped" => cache[s] = Unheld
        BY <4>1 DEF Over, Final
      <4>3. InFlight(s) = {} /\ jar.session.sid # s /\ (logouts[s] = "dropped" => cache[s] = Unheld)
        BY <4>2 DEF IInv, Sessions, Over
      <4>4. s # sid /\ s # code
        <5>1. s # 0
          BY DEF Sids
        <5> QED
          BY <4>2, <5>1, Strangers DEF Final
      <4>5. jar'.session.sid # s
        BY <1>11, <4>3, <4>4, CookieSids
      <4> QED
        BY <1>10, <4>3, <4>5
    <3> QED
      BY <3>1, <3>2
  <2> QED
    BY <2>1, <2>2, <2>3, <2>4 DEF Sessions
<1>13. CacheBounded'
  BY DEF IInv, CacheBounded, RoleGone, GrantGone
<1>14. Judged'
  <2>1. \A p \in Slots : reqs[p].kind = "bearer" \/ reqs'[p].kind = "bearer" => reqs'[p] = reqs[p]
    BY <1>2 DEF OneSlot, Routes
  <2> QED
    BY <2>1, BearerFrame
<1> QED
  BY <1>2, <1>6, <1>8, <1>9, <1>12, <1>13, <1>14 DEF IInv, Shape

(* A reply, arrived or lost.                                               *)
LEMMA ReplyKeeps ==
    ASSUME IInv, scene' = scene, NEW r \in Slots, Reply(r)
    PROVE  IInv'
<1>1. /\ reqs[r].kind \in Routes /\ reqs[r].pc \in Replies /\ Done(r)
      /\ UNCHANGED <<now, lost, grants, signing, tokens, cache, keys, counted, rows, logins,
                     silenced, ended>>
  BY DEF Reply, cell
<1>2. CASE /\ NoFault /\ UNCHANGED spoiled /\ jar' = Cookies(reqs[r])
           /\ codes' = IF reqs[r].pc = "begun" THEN codes \cup {reqs[r].code} ELSE codes
           /\ logouts' = IF reqs[r].pc = "leave" /\ reqs[r].alone
                         THEN [logouts EXCEPT ![reqs[r].env.sid] = LeftAs(reqs[r])] ELSE logouts
  BY <1>1, <1>2, ArrivedKeeps
<1>3. CASE /\ Fault /\ UNCHANGED <<jar, codes, logouts>>
           /\ IF reqs[r].fresh # NoCookie \/ reqs[r].pc = "clear"
              THEN Spoil(reqs[r].env.sid) ELSE UNCHANGED spoiled
  BY <1>1, <1>3, LostKeeps
<1> QED
  BY <1>2, <1>3 DEF Reply

(* A request as it reaches the layer: its handler runs, its cookie is      *)
(* refused, or its session is looked up.                                   *)
LEMMA ArrivesFits ==
    ASSUME IInv, NEW kind \in Routes, NEW code \in 0..MaxLogins,
           kind \in {"page", "logout"} => code = 0 /\ jar.session # NoCookie,
           kind \in {"login", "callback"} => code # 0
    PROVE  LET w == Arrives(Sent(kind, code))
           IN  /\ w \in Browsed /\ Phase(w) /\ Backed(w) /\ Timely(w) /\ Left(w)
               /\ w.kind = kind /\ w.env = jar.session /\ w.code = code /\ w.from = now
               /\ w.token = 0
               /\ w.alone => kind = "logout" /\ InFlight(jar.session.sid) = {}
<1>1. Shape /\ now \in Nat /\ now <= MaxTime
  BY Times DEF IInv
<1>2. jar.session \in Envelope /\ jar.login \in [login : Nat, issued : Nat]
  BY <1>1 DEF Shape, Records, JarOK
<1>3. PICK q \in Browsed :
      /\ q = Sent(kind, code)
      /\ q.kind = kind /\ q.pc = "load" /\ q.env = jar.session /\ q.code = code
      /\ q.from = now /\ q.as = Nobody /\ q.token = 0 /\ q.bought = 0 /\ q.fresh = NoCookie
      /\ ~q.dropped
      /\ q.alone => kind = "logout" /\ InFlight(jar.session.sid) = {}
  <2> DEFINE q == Sent(kind, code)
  <2>1. PICK login \in [login : Nat, issued : Nat] :
          login = IF kind = "callback" THEN jar.login ELSE NoLogin
    BY <1>2 DEF NoLogin
  <2>2. PICK alone \in BOOLEAN :
          alone = (kind = "logout" /\ InFlight(jar.session.sid) = {})
    OBVIOUS
  <2>3. q = [kind |-> kind, pc |-> "load", from |-> now, env |-> jar.session, code |-> code,
             login |-> login, as |-> Nobody, token |-> 0, bought |-> 0, fresh |-> NoCookie,
             dropped |-> FALSE, alone |-> alone]
    BY <2>1, <2>2 DEF Sent
  <2>4. /\ "load" \in BrowserPcs /\ Nobody \in Who /\ 0 \in 0..MaxGrants /\ 0 \in {0, 1}
        /\ NoCookie \in Cookie \cup {NoCookie} /\ now \in 0..MaxTime
    BY <1>1, Bounds DEF BrowserPcs, Layer, Who
  <2>5. q = Sent(kind, code)
    OBVIOUS
  <2> HIDE DEF q, Envelope, NoCookie, Nobody
  <2>6. /\ q \in Browsed /\ q.kind = kind /\ q.pc = "load" /\ q.env = jar.session /\ q.code = code
        /\ q.from = now /\ q.as = Nobody /\ q.token = 0 /\ q.bought = 0 /\ q.fresh = NoCookie
        /\ ~q.dropped /\ q.alone = alone
    BY <1>2, <2>2, <2>3, <2>4 DEF Browsed
  <2> HIDE DEF Browsed
  <2> QED
    BY <2>2, <2>5, <2>6
<1>4. q.env \in Cookie => q.env.token <= grants[q.env.sid].last
  BY <1>2, <1>3, CookieSids DEF IInv, Sessions, JarKept
<1>5. Backed(q)
  <2>1. \A s \in Sids : grants[s].last \in Nat
    BY <1>1, Times, Bounds
  <2>2. q.env.sid \in Sids => q.env \in Cookie
    BY <1>2, <1>3, CookieSids
  <2> QED
    BY <1>3, <1>4, <2>1, <2>2 DEF Backed
<1>6. Nobody # Holder /\ (q.env \in Cookie => q.env.sid \in Sids)
  BY CookieSids DEF Nobody, Holder
<1> DEFINE w == Arrives(q)
<1>7. CASE q.env = NoCookie
  <2>1. w = Entered(q)
    BY <1>7, CookieSids DEF Arrives
  <2>2. q.env # Foreign /\ q.env.sid \notin Sids /\ "load" \in Layer
    BY <1>7, CookieSids DEF Layer
  <2>3. silenced \subseteq Sids
    BY <1>1 DEF Shape, Records, HistoryOK
  <2>4. LET u == Entered(q)
        IN  /\ u \in Browsed /\ Phase(u) /\ Backed(u) /\ Timely(u) /\ Left(u)
            /\ u.kind = q.kind /\ u.env = q.env /\ u.code = q.code /\ u.from = q.from
            /\ u.alone = q.alone /\ u.token = q.token
    <3> HIDE DEF Browsed, Nobody, Holder, NoCookie, Foreign, Cookie
    <3> QED
      BY <1>1, <1>3, <1>5, <1>6, <1>7, <2>2, <2>3, EnteredFits
  <2> HIDE DEF Browsed
  <2> QED
    BY <1>3, <2>1, <2>4
<1>8. CASE q.env = Foreign
  <2>1. w = [q EXCEPT !.pc = "clear"]
    BY <1>8, CookieSids DEF Arrives
  <2>2. "clear" \in BrowserPcs
    BY DEF BrowserPcs, Layer
  <2>3. /\ w \in Browsed /\ w.kind = q.kind /\ w.env = q.env /\ w.code = q.code
        /\ w.from = q.from /\ w.alone = q.alone /\ w.token = q.token /\ w.fresh = q.fresh
        /\ w.bought = q.bought /\ w.dropped = q.dropped /\ w.pc = "clear" /\ w.as = q.as
    BY <1>3, <2>1, <2>2, Moved
  <2> HIDE DEF w
  <2>4. Phase(w)
    BY <1>3, <1>8, <2>3, CookieSids DEF Phase, Layer, Pcs, Routes
  <2>5. Backed(w) /\ Timely(w) /\ Left(w)
    BY <1>3, <1>5, <2>3 DEF Backed, Timely, Left
  <2> QED
    BY <1>3, <2>3, <2>4, <2>5 DEF w
<1>9. CASE q.env \notin {NoCookie, Foreign}
  <2>1. w = q
    BY <1>9 DEF Arrives
  <2>2. q.env \in Cookie
    BY <1>2, <1>3, <1>9 DEF Envelope
  <2>3. Phase(q)
    BY <1>3, <1>9, <2>2 DEF Phase, Layer, Pcs, Routes
  <2>4. Timely(q) /\ Left(q)
    BY <1>3 DEF Timely, Left
  <2> QED
    BY <1>3, <1>5, <2>1, <2>3, <2>4
<1> QED
  BY <1>3, <1>7, <1>8, <1>9

(* A browser sends a request: nothing changes but the requests in flight,  *)
(* and logouts of its session are no longer alone.                         *)
LEMMA StartKeeps ==
    ASSUME IInv, scene' = scene, NEW r \in Slots, NEW kind \in Routes, NEW code \in 0..MaxLogins,
           Start(r, kind, code),
           kind \in {"page", "logout"} => code = 0 /\ jar.session # NoCookie,
           kind \in {"login", "callback"} => code # 0,
           code # 0 => Unasked(code) /\ code \notin codes' /\ code <= logins',
           codes' \subseteq codes, logins <= logins', LoginsOK'
    PROVE  IInv'
<1> DEFINE sid == jar.session.sid
<1>1. /\ Shape /\ reqs[r] = Idle /\ reqs \in [Slots -> Request]
      /\ UNCHANGED <<now, faults, lost, grants, signing, tokens, cache, keys, counted, rows, jar,
                     revokes, spoiled, logouts, silenced, ended, retired>>
  BY DEF IInv, Shape, Requests, Start, cell, history
<1>2. PICK w \in Browsed :
        /\ w = Arrives(Sent(kind, code)) /\ Phase(w) /\ Backed(w) /\ Timely(w) /\ Left(w)
        /\ w.kind = kind /\ w.env = jar.session /\ w.code = code /\ w.from = now /\ w.token = 0
        /\ w.alone => kind = "logout" /\ InFlight(sid) = {}
  BY ArrivesFits
<1>3. reqs' = [Overlapped(sid) EXCEPT ![r] = w]
  BY <1>2 DEF Start
<1>4. reqs[r].kind \notin Routes /\ reqs[r].kind = "none"
  BY <1>1 DEF Idle, Routes
<1>5. reqs'[r] = w /\ \A p \in Slots : p # r =>
        reqs'[p] = IF reqs[p].kind = "logout" /\ reqs[p].env.sid = sid
                   THEN [reqs[p] EXCEPT !.alone = FALSE] ELSE reqs[p]
  BY <1>3 DEF Overlapped
<1>6. /\ DOMAIN reqs' = Slots
      /\ \A p \in Slots : p # r /\ reqs[p].kind \notin Routes => reqs'[p] = reqs[p]
      /\ \A p \in Slots : p # r /\ reqs[p].kind \in Routes =>
           reqs'[p] = reqs[p] \/ reqs'[p] = [reqs[p] EXCEPT !.alone = FALSE]
  BY <1>3, <1>5 DEF Overlapped, Routes
<1>7. \A p \in Slots : p # r /\ reqs[p].kind \in Routes =>
        LET u == reqs'[p] IN
        /\ u \in Browsed /\ u.kind = reqs[p].kind /\ u.env = reqs[p].env /\ u.code = reqs[p].code
        /\ u.from = reqs[p].from /\ u.token = reqs[p].token /\ u.dropped = reqs[p].dropped
        /\ u.alone => reqs[p].alone
  <2>1. \A p \in Slots : reqs[p].kind \in Routes => reqs[p] \in Browsed
    BY BrowsedFacts
  <2>2. \A p \in Browsed : LET u == [p EXCEPT !.alone = FALSE] IN
        /\ u \in Browsed /\ u.kind = p.kind /\ u.env = p.env /\ u.code = p.code
        /\ u.from = p.from /\ u.token = p.token /\ u.dropped = p.dropped /\ ~u.alone
    BY DEF Browsed
  <2>3. ASSUME NEW p \in Slots, p # r, reqs[p].kind \in Routes
        PROVE  LET u == reqs'[p] IN
               /\ u \in Browsed /\ u.kind = reqs[p].kind /\ u.env = reqs[p].env
               /\ u.code = reqs[p].code /\ u.from = reqs[p].from /\ u.token = reqs[p].token
               /\ u.dropped = reqs[p].dropped /\ (u.alone => reqs[p].alone)
    <3>1. PICK q \in Browsed : q = reqs[p]
      BY <2>1, <2>3
    <3>2. CASE reqs'[p] = reqs[p]
      BY <3>1, <3>2
    <3>3. CASE reqs'[p] = [reqs[p] EXCEPT !.alone = FALSE]
      <4> HIDE DEF Browsed
      <4> QED
        BY <2>2, <3>1, <3>3
    <3> QED
      BY <1>6, <2>3, <3>2, <3>3
  <2> HIDE DEF Browsed
  <2> QED
    BY <2>3
<1>8. Requests'
  <2>1. w \in Request
    BY DEF Request
  <2>2. ASSUME NEW p \in Slots
        PROVE  reqs'[p] \in Request /\ (reqs'[p] # Idle => reqs'[p].from <= now /\ now <= reqs'[p].from + Flight)
    <3>1. CASE p = r
      BY <1>1, <1>2, <1>5, <2>1, <3>1, Times, Bounds
    <3>2. CASE p # r /\ reqs[p].kind \in Routes
      <4>1. reqs'[p] \in Browsed /\ reqs'[p].from = reqs[p].from
        BY <1>7, <3>2
      <4>2. reqs[p].from <= now /\ now <= reqs[p].from + Flight
        BY <3>2, BrowsedFacts
      <4> HIDE DEF Browsed
      <4> QED
        BY <4>1, <4>2 DEF Request
    <3>3. CASE p # r /\ reqs[p].kind \notin Routes
      <4> HIDE DEF Request
      <4> QED
        BY <1>1, <1>6, <3>3 DEF Shape, Requests
    <3> QED
      BY <3>1, <3>2, <3>3
  <2>3. reqs' \in [Slots -> Request]
    <3>1. reqs' = [p \in Slots |-> reqs'[p]]
      BY <1>3 DEF Overlapped
    <3> HIDE DEF Request
    <3> QED
      BY <2>2, <3>1
  <2> HIDE DEF Request
  <2> QED
    BY <1>1, <2>2, <2>3 DEF Requests
<1>9. Instants' /\ Records'
  <2>1. NoFault
    BY <1>1 DEF NoFault
  <2>2. GrantsOK' /\ CacheOK' /\ JarOK' /\ HistoryOK'
    BY <1>1 DEF Shape, Records, GrantsOK, CacheOK, JarOK, HistoryOK
  <2> QED
    BY <1>1, <2>1, <2>2, InstantsKept, RecordsKept
<1>10. \A s \in Sids : Keeps(s) /\ Tells(s)
  BY <1>1, Times DEF Keeps, Tells
<1>11. code # 0 => code \in Sids /\ ~grants[code].live /\ code \notin silenced
  BY Bounds DEF Sids, IInv, Sessions
<1>12. \A p \in Slots : p # r /\ reqs[p].kind \in Routes /\ reqs[p].code # 0 =>
         /\ reqs[p].code \in Sids /\ ~Unasked(reqs[p].code)
         /\ reqs[p].code \notin codes' /\ reqs[p].code <= logins'
  <2>1. \A a, b, c \in Int : a <= b /\ b <= c => a <= c
    OBVIOUS
  <2>2. logins \in Int /\ logins' \in Int
    BY <1>1, Times DEF LoginsOK
  <2>3. \A s \in Sids : s <= logins => ~(s > logins)
    BY <2>2 DEF Sids
  <2>4. \A s \in Sids : s \in Int
    BY DEF Sids
  <2> QED
    BY <2>1, <2>2, <2>3, <2>4, BrowsedFacts DEF Fit, Booked, Unasked
<1>13. Fits'
  <2>1. ASSUME NEW p \in Slots, reqs'[p].kind \in Routes
        PROVE  Fit(reqs[p])'
    <3>1. CASE p = r
      <4>1. reqs'[p] = w
        BY <1>5, <3>1
      <4>2. Booked(w)'
        BY <1>1, <1>2, <1>11 DEF Booked
      <4>3. Phase(w) /\ Backed(w)' /\ Timely(w)' /\ Left(w)'
        BY <1>1, <1>2 DEF Backed, Accepts, Timely, RoleGone, GrantGone, Left
      <4> QED
        BY <4>1, <4>2, <4>3 DEF Fit, Phase, Backed, Accepts, Booked, Timely, RoleGone, GrantGone, Left
    <3>2. CASE p # r
      <4>1. reqs[p].kind \in Routes
        BY <1>6, <2>1, <3>2
      <4>2. PICK q \in Browsed : q = reqs[p] /\ Fit(q)
        BY <4>1, BrowsedFacts
      <4>3. PICK u \in Browsed : u = reqs'[p]
        BY <1>7, <3>2, <4>1
      <4>4. u = q \/ u = [q EXCEPT !.alone = FALSE]
        BY <1>6, <3>2, <4>1, <4>2, <4>3
      <4>5. GrantsOK'
        BY <1>9 DEF Records
      <4> HIDE DEF Browsed
      <4>6. q.code # 0 => q.code \notin codes' /\ q.code <= logins'
        BY <1>12, <3>2, <4>1, <4>2
      <4>7. Fit(u)'
        BY <1>1, <1>10, <4>2, <4>4, <4>5, <4>6, FitKept DEF Tells
      <4> QED
        BY <4>3, <4>7 DEF Fit, Phase, Backed, Accepts, Booked, Timely, RoleGone, GrantGone, Left
    <3> QED
      BY <3>1, <3>2
  <2> QED
    BY <2>1 DEF Fits
<1>14. Apart'
  <2>1. ASSUME NEW p \in Slots, NEW q \in Slots, reqs'[p].kind \in Routes,
               reqs'[q].kind \in Routes, q # p
        PROVE  /\ reqs'[p].code # 0 => reqs'[q].code # reqs'[p].code
               /\ reqs'[p].alone => reqs'[q].env.sid # reqs'[p].env.sid
    <3>1. CASE p # r /\ q # r
      BY <1>6, <1>7, <2>1, <3>1 DEF IInv, Apart
    <3>2. CASE p = r
      <4>1. reqs'[p] = w /\ q # r /\ reqs[q].kind \in Routes
        BY <1>5, <1>6, <2>1, <3>2
      <4>2. reqs'[q].code = reqs[q].code /\ reqs'[q].env = reqs[q].env
        BY <1>7, <4>1
      <4>3. code # 0 => reqs[q].code # code
        BY <1>12, <4>1
      <4>4. w.alone => reqs[q].env.sid # sid
        BY <1>2, <4>1 DEF InFlight
      <4> QED
        BY <1>2, <4>1, <4>2, <4>3, <4>4
    <3>3. CASE q = r
      <4>1. reqs'[q] = w /\ p # r /\ reqs[p].kind \in Routes
        BY <1>5, <1>6, <2>1, <3>3
      <4>2. reqs'[p].code = reqs[p].code /\ reqs'[p].env = reqs[p].env
        BY <1>7, <4>1
      <4>3. reqs[p].code # 0 => reqs[p].code # code
        BY <1>12, <4>1
      <4>4. reqs'[p].alone => reqs[p].env.sid # sid
        <5>1. reqs[p].alone => reqs[p].kind = "logout"
          BY <4>1, BrowsedFacts DEF Fit, Phase
        <5>2. reqs'[p].alone => reqs[p].alone
          BY <1>7, <4>1
        <5>3. reqs[p].kind = "logout" /\ reqs[p].env.sid = sid => ~reqs'[p].alone
          <6>1. reqs[p] \in Browsed
            BY <4>1, BrowsedFacts
          <6> QED
            BY <1>5, <4>1, <6>1 DEF Browsed
        <5> QED
          BY <5>1, <5>2, <5>3
      <4> QED
        BY <1>2, <4>1, <4>2, <4>3, <4>4
    <3> QED
      BY <2>1, <3>1, <3>2, <3>3
  <2> QED
    BY <2>1 DEF Apart
<1>15. \A s : /\ s # sid => InFlight(s)' = InFlight(s)
              /\ \A p \in Slots : /\ Logging(p, s)' => Logging(p, s) \/ s = code
                                  /\ Renewing(p, s) => Renewing(p, s)'
  BY <1>2, <1>4, <1>5, <1>6, <1>7 DEF InFlight, Logging, Renewing
<1>16. Sessions'
  <2>1. ASSUME NEW s \in Sids, Unasked(s)' PROVE Unasked(s)
    <3>1. s \in Int /\ logins \in Int /\ logins' \in Int
      BY <1>1, Times DEF Sids, LoginsOK
    <3> QED
      BY <2>1, <3>1 DEF Unasked
  <2>2. ASSUME NEW s \in Sids, Unasked(s)' PROVE ~grants'[s].live /\ s \notin silenced'
    BY <1>1, <2>1, <2>2 DEF IInv, Sessions
  <2>3. ASSUME NEW s \in Sids, Unborn(s)' PROVE Hidden(s)'
    <3>1. Unborn(s)
      <4>1. s = code => Unasked(s)
        BY DEF Sids
      <4> QED
        BY <1>15, <2>1, <2>3, <4>1 DEF Unborn
    <3> QED
      BY <1>1, <1>15, <3>1 DEF IInv, Sessions, Hidden
  <2>4. ASSUME NEW s \in Sids PROVE JarKept(s)'
    BY <1>1, <1>15 DEF IInv, Sessions, JarKept, Accepts
  <2>5. ASSUME NEW s \in Sids PROVE Over(s)'
    BY <1>1, <1>15 DEF IInv, Sessions, Over, Final
  <2> QED
    BY <2>2, <2>3, <2>4, <2>5 DEF Sessions
<1>17. CacheBounded'
  BY <1>1 DEF IInv, CacheBounded, RoleGone, GrantGone
<1>18. Judged'
  <2>1. \A p \in Slots : reqs[p].kind = "bearer" \/ reqs'[p].kind = "bearer" => reqs'[p] = reqs[p]
    BY <1>2, <1>4, <1>5, <1>6, <1>7 DEF Routes
  <2> QED
    BY <1>1, <2>1, BearerFrame
<1> QED
  BY <1>8, <1>9, <1>13, <1>14, <1>16, <1>17, <1>18 DEF IInv, Shape

(* A page, ...                                                             *)
LEMMA StartPageKeeps ==
    ASSUME IInv, scene' = scene, NEW r \in Slots, StartPage(r)
    PROVE  IInv'
<1>1. "page" \in Routes /\ 0 \in 0..MaxLogins /\ logins \in Int /\ LoginsOK'
  BY Bounds, Times DEF IInv, Shape, Records, LoginsOK, StartPage, Routes
<1> QED
  BY <1>1, StartKeeps DEF StartPage

(* ... a login, ...                                                        *)
LEMMA StartLoginKeeps ==
    ASSUME IInv, scene' = scene, NEW r \in Slots, StartLogin(r)
    PROVE  IInv'
<1>1. /\ logins \in Nat /\ logins < scene.logins /\ scene.logins \in 0..MaxLogins
      /\ logins' = logins + 1 /\ codes' = codes /\ codes \subseteq 1..logins
      /\ Start(r, "login", logins + 1)
  BY Bounds, Times DEF IInv, Shape, Instants, StartLogin
<1>2. "login" \in Routes /\ logins + 1 \in 0..MaxLogins /\ logins + 1 # 0 /\ LoginsOK'
  BY <1>1, Bounds DEF Routes, LoginsOK
<1>3. Unasked(logins + 1) /\ logins + 1 \notin codes' /\ logins + 1 <= logins' /\ logins <= logins'
  BY <1>1 DEF Unasked
<1> QED
  BY <1>1, <1>2, <1>3, StartKeeps

(* ... a callback with its code, ...                                       *)
LEMMA StartCallbackKeeps ==
    ASSUME IInv, scene' = scene, NEW r \in Slots, StartCallback(r)
    PROVE  IInv'
<1>1. PICK code \in codes : /\ codes' = codes \ {code} /\ Start(r, "callback", code)
                            /\ UNCHANGED logins
  BY DEF StartCallback
<1>2. /\ logins \in Nat /\ logins <= MaxLogins /\ codes \subseteq 1..logins /\ LoginsOK
  BY Times DEF IInv, Shape, Records
<1>3. "callback" \in Routes /\ code \in 0..MaxLogins /\ code # 0 /\ code <= logins' /\ LoginsOK'
  BY <1>1, <1>2, Bounds DEF Routes, LoginsOK
<1>4. Unasked(code) /\ code \notin codes' /\ codes' \subseteq codes /\ logins <= logins'
  BY <1>1, <1>2 DEF Unasked
<1> QED
  BY <1>1, <1>3, <1>4, StartKeeps

(* ... or a logout.                                                        *)
LEMMA StartLogoutKeeps ==
    ASSUME IInv, scene' = scene, NEW r \in Slots, StartLogout(r)
    PROVE  IInv'
<1>1. "logout" \in Routes /\ 0 \in 0..MaxLogins /\ logins \in Int /\ LoginsOK'
  BY Bounds, Times DEF IInv, Shape, Records, LoginsOK, StartLogout, Routes
<1> QED
  BY <1>1, StartKeeps DEF StartLogout

----------------------------------------------------------------------------
(* The resource server and the operator.  What bars a token goes on        *)
(* barring it: rows and tokens only ever grow.                             *)
RowsRise == rows.jti \subseteq rows'.jti /\ rows.sub <= rows'.sub /\ rows.floor <= rows'.floor
TokensGrow == /\ Len(tokens) <= Len(tokens') /\ Len(tokens') \in Nat
              /\ \A j \in 1..Len(tokens) : tokens'[j] = tokens[j]

LEMMA RowsTyped ==
    ASSUME Shape
    PROVE  /\ rows.sub \in Int /\ rows.floor \in Int /\ rows.jti \subseteq 1..Len(tokens)
           /\ Len(tokens) \in Nat /\ DOMAIN tokens = 1..Len(tokens)
           /\ signing \in Nat \ {0} /\ now \in Nat
           /\ \A j \in 1..Len(tokens) :
                tokens[j].iat \in Nat /\ tokens[j].exp \in Nat /\ tokens[j].kid \in 1..signing
<1> DEFINE T == [iat : Nat, exp : Nat, kid : 1..signing]
<1>1. tokens \in Seq(T) /\ signing \in Nat \ {0} /\ now \in Nat
  BY Bounds DEF Shape, Records, TokensOK, Instants
<1>2. Len(tokens) \in Nat /\ DOMAIN tokens = 1..Len(tokens)
      /\ \A j \in 1..Len(tokens) : tokens[j] \in T
  <2> HIDE DEF T
  <2> QED
    BY <1>1
<1>3. rows.sub \in Int /\ rows.floor \in Int /\ rows.jti \subseteq 1..Len(tokens)
  BY <1>1, <1>2 DEF Shape, Records, RowsOK
<1> QED
  BY <1>1, <1>2, <1>3

LEMMA TrialKept ==
    ASSUME IInv, RowsRise, TokensGrow, rows'.sub \in Int, rows'.floor \in Int,
           signing <= signing', signing' \in Int,
           NEW q \in Slots, reqs[q].kind = "bearer", reqs'[q] = reqs[q]
    PROVE  Trial(reqs[q])'
<1> DEFINE j == reqs[q].jti
<1>1. Trial(reqs[q]) /\ Shape
  BY DEF IInv, Judged
<1>2. j \in 0..Len(tokens) /\ (j # 0 => j \in 1..Len(tokens) /\ tokens'[j] = tokens[j])
  BY <1>1, RowsTyped DEF Trial, TokensGrow
<1>3. KeyOf(j)' = KeyOf(j) /\ KeyOf(j) \in Int
  BY <1>1, <1>2, RowsTyped DEF KeyOf
<1>4. ASSUME j # 0
      PROVE  /\ tokens[j].iat <= rows.sub => tokens'[j].iat <= rows'.sub
             /\ tokens[j].iat <= rows.floor => tokens'[j].iat <= rows'.floor
             /\ j \in rows.jti => j \in rows'.jti
  <2>1. tokens'[j] = tokens[j] /\ tokens[j].iat \in Int /\ rows.sub \in Int /\ rows.floor \in Int
    BY <1>1, <1>2, <1>4, RowsTyped
  <2>2. \A a, b, c \in Int : a <= b /\ b <= c => a <= c
    OBVIOUS
  <2> QED
    BY <2>1, <2>2 DEF RowsRise
<1>5. reqs[q].barred => j # 0 /\ Barring(reqs[q])'
  BY <1>1, <1>4 DEF Trial, Barring, Covered
<1>6. reqs[q].pc = "unkeyed" => KeyOf(j)' < signing'
  BY <1>1, <1>3, RowsTyped DEF Trial
<1>7. j \in 0..Len(tokens')
  BY <1>1, <1>2, RowsTyped DEF TokensGrow
<1> QED
  BY <1>1, <1>5, <1>6, <1>7 DEF Trial, KeyOf, Barring, Covered

LEMMA RowsAlike ==
    ASSUME Shape, rows' = rows
    PROVE  RowsRise /\ rows'.sub \in Int /\ rows'.floor \in Int
BY RowsTyped DEF RowsRise

LEMMA TokensAlike ==
    ASSUME Shape, tokens' = tokens, signing' = signing
    PROVE  TokensGrow /\ signing <= signing' /\ signing' \in Int
BY RowsTyped DEF TokensGrow

(* A step of a request that is no browser's.                               *)
LEMMA NotOfBrowser ==
    ASSUME IInv, NEW r \in Slots, reqs[r].kind \notin Routes, OneSlot(r),
           reqs'[r].kind \notin Routes, Requests', Instants', Records',
           reqs'[r].kind = "bearer" => Trial(reqs[r])',
           RowsRise /\ rows'.sub \in Int /\ rows'.floor \in Int,
           UNCHANGED <<grants, codes, logins, cache, jar, spoiled, logouts, silenced, ended, lost, now,
                       tokens, signing>>
    PROVE  IInv'
<1>1. Shape
  BY DEF IInv
<1>2. Fits' /\ Apart' /\ Sessions' /\ CacheBounded'
  BY BrowserFrame DEF OneSlot
<1>3. \A q \in Slots : q # r /\ reqs'[q].kind = "bearer" => Trial(reqs[q])'
  BY <1>1, TrialKept, TokensAlike DEF OneSlot
<1>4. Judged'
  BY <1>3 DEF Judged
<1> QED
  BY <1>2, <1>4 DEF IInv, Shape


(* What a bearer request in flight is known to be.                         *)
LEMMA BearerFacts ==
    ASSUME IInv, NEW r \in Slots, reqs[r].kind = "bearer"
    PROVE  /\ Shape /\ Trial(reqs[r]) /\ reqs[r].pc \in Pcs.bearer /\ reqs[r].kind \notin Routes
           /\ reqs[r].jti # 0 => reqs[r].jti \in 1..Len(tokens)
<1>1. reqs[r] \in Bearer /\ Shape
  BY Kinds DEF IInv, Shape, Requests
<1>2. Trial(reqs[r])
  BY DEF IInv, Judged
<1> QED
  BY <1>1, <1>2, RowsTyped DEF Bearer, Routes, Trial

(* One check of a token passed or failed, nothing else changed.            *)
LEMMA BearerGoes ==
    ASSUME IInv, NEW r \in Slots, reqs[r].kind = "bearer", NEW pc \in Pcs.bearer, Go(r, pc),
           Instants', Records', RowsRise /\ rows'.sub \in Int /\ rows'.floor \in Int,
           ASSUME reqs'[r].pc = pc, reqs'[r].jti = reqs[r].jti, reqs'[r].barred = reqs[r].barred
           PROVE  Trial(reqs[r])',
           UNCHANGED <<grants, codes, logins, cache, jar, spoiled, logouts, silenced, ended, lost, now,
                       tokens, signing>>
    PROVE  IInv'
<1>1. Shape /\ reqs[r].kind \notin Routes
  BY BearerFacts
<1>2. /\ Requests' /\ OneSlot(r) /\ reqs'[r].kind = "bearer"
      /\ reqs'[r].pc = pc /\ reqs'[r].jti = reqs[r].jti /\ reqs'[r].barred = reqs[r].barred
  BY <1>1, OthersGo
<1>3. Trial(reqs[r])'
  BY <1>2
<1>4. reqs'[r].kind \notin Routes
  BY <1>2 DEF Routes
<1> QED
  BY <1>1, <1>2, <1>3, <1>4, NotOfBrowser

(* Shape of what a step of the resource server leaves alone.               *)
LEMMA ServerShape ==
    ASSUME Shape, Fault \/ NoFault,
           UNCHANGED <<scene, now, lost, grants, codes, signing, tokens, cache, jar, logins,
                       spoiled, logouts, silenced, ended>>,
           KeysOK', RowsOK'
    PROVE  Instants' /\ Records'
BY InstantsKept DEF Shape, Records, GrantsOK, LoginsOK, TokensOK, CacheOK, JarOK, HistoryOK

LEMMA StartBearerKeeps ==
    ASSUME IInv, scene' = scene, NEW r \in Slots, StartBearer(r)
    PROVE  IInv'
<1>1. /\ Shape /\ reqs[r] = Idle /\ reqs[r].kind \notin Routes /\ NoFault
      /\ UNCHANGED <<now, lost, grants, codes, signing, tokens, cache, keys, counted, rows,
                     jar, logins, revokes, spoiled, logouts, silenced, ended, retired>>
  BY DEF StartBearer, rauthy, cell, history, IInv, NoFault, Routes, Idle
<1>2. PICK jti \in 0..Len(tokens) :
        reqs' = [reqs EXCEPT ![r] = [kind |-> "bearer", pc |-> "key", from |-> now, jti |-> jti,
                                     barred |-> jti # 0 /\ Covered(jti)]]
  BY DEF StartBearer
<1> DEFINE barred == jti # 0 /\ Covered(jti)
           w == [kind |-> "bearer", pc |-> "key", from |-> now, jti |-> jti, barred |-> barred]
<1>3. w \in Request /\ w.from <= now /\ now <= w.from + Flight
  <2>1. now \in 0..MaxTime /\ jti \in Nat
    BY <1>1, RowsTyped, Bounds DEF Shape, Instants
  <2>2. w \in Bearer
    BY <2>1 DEF Bearer, Pcs
  <2>3. w \in Request
    BY <2>2 DEF Request
  <2> QED
    BY <2>1, <2>3, Bounds
<1>4. Requests' /\ OneSlot(r) /\ reqs'[r] = w
  <2> HIDE DEF w
  <2>1. reqs' = [reqs EXCEPT ![r] = w]
    BY <1>2 DEF w
  <2> QED
    BY <1>1, <1>3, <2>1, Replaced
<1>5. Instants' /\ Records'
  BY <1>1, ServerShape DEF Shape, Records, KeysOK, RowsOK
<1>6. Trial(reqs[r])'
  <2>1. /\ reqs'[r].jti = jti /\ reqs'[r].pc = "key" /\ reqs'[r].barred = barred
    BY <1>4
  <2>2. Len(tokens') = Len(tokens) /\ (Covered(jti) => Covered(jti)')
    BY <1>1 DEF Covered
  <2> QED
    BY <2>1, <2>2 DEF Trial, Barring, Covered
<1>7. reqs'[r].kind \notin Routes
  BY <1>4 DEF Routes
<1> QED
  BY <1>1, <1>4, <1>5, <1>6, <1>7, RowsAlike, NotOfBrowser

(* The key sets hold keys rauthy has signed with, and after a refresh the  *)
(* one it signs with.                                                      *)
LEMMA VerifyKeeps ==
    ASSUME IInv, scene' = scene, NEW r \in Slots, Verify(r)
    PROVE  IInv'
<1> DEFINE jti == reqs[r].jti
           timed == IF Stale(keys) THEN Rotated(keys) ELSE keys
           sets == IF Holds(timed, KeyOf(jti)) THEN timed ELSE Rotated(timed)
<1>1. /\ reqs[r].kind = "bearer" /\ reqs[r].pc = "key" /\ Shape /\ Trial(reqs[r])
      /\ UNCHANGED <<now, lost, grants, codes, signing, tokens, cache, counted, rows,
                     jar, logins, revokes, spoiled, logouts, silenced, ended, retired>>
      /\ (Fault \/ NoFault)
  BY BearerFacts DEF Verify, Is, rauthy, history
<1>2. \A k : k \in [current : SUBSET (1..signing), previous : SUBSET (1..signing), refreshed : 0..now]
        => Rotated(k) \in [current : SUBSET (1..signing), previous : SUBSET (1..signing),
                           refreshed : 0..now]
  BY <1>1, RowsTyped DEF Rotated
<1>3. timed \in [current : SUBSET (1..signing), previous : SUBSET (1..signing), refreshed : 0..now]
  BY <1>1, <1>2 DEF Shape, Records, KeysOK
<1>4. sets \in [current : SUBSET (1..signing), previous : SUBSET (1..signing), refreshed : 0..now]
  BY <1>2, <1>3
<1>5. KeyOf(jti) \in 0..signing /\ (jti = 0 => KeyOf(jti) = 0) /\ signing \in Nat \ {0}
  BY <1>1, RowsTyped DEF KeyOf, Trial
<1>6. Holds(sets, KeyOf(jti)) => jti # 0
  <2>1. ASSUME jti = 0 PROVE KeyOf(jti) \notin sets.current /\ KeyOf(jti) \notin sets.previous
    BY <1>4, <1>5, <2>1
  <2> HIDE DEF sets
  <2> QED
    BY <2>1 DEF Holds
<1>7. ~Holds(sets, KeyOf(jti)) => KeyOf(jti) < signing
  <2>1. ASSUME ~Holds(sets, KeyOf(jti)) PROVE KeyOf(jti) # signing
    <3>1. sets = Rotated(timed)
      BY <2>1
    <3>2. signing \in sets.current
      BY <3>1 DEF Rotated
    <3> HIDE DEF sets
    <3> QED
      BY <2>1, <3>2 DEF Holds
  <2> HIDE DEF sets
  <2> QED
    BY <1>5, <2>1
<1>8. PICK pc \in Pcs.bearer :
        /\ Go(r, pc) /\ keys' \in {keys, sets} /\ pc \in {"unkeyed", "floor", "end"}
        /\ pc = "floor" => jti # 0
        /\ pc = "unkeyed" => KeyOf(jti) < signing
  <2>1. {"unkeyed", "floor", "end"} \subseteq Pcs.bearer
    BY DEF Pcs
  <2>2. PICK pc \in {"unkeyed", "floor", "end"} :
          /\ Go(r, pc) /\ keys' \in {keys, sets}
          /\ pc = "floor" => Holds(sets, KeyOf(jti))
          /\ pc = "unkeyed" => ~Holds(sets, KeyOf(jti))
    <3>1. CASE keys # sets /\ Fault /\ UNCHANGED keys /\ Go(r, "end")
      BY <3>1
    <3>2. CASE /\ NoFault /\ keys' = sets
               /\ Go(r, IF ~Holds(sets, KeyOf(jti)) THEN "unkeyed"
                        ELSE IF AdmitLifetime(tokens[jti]) THEN "floor" ELSE "end")
      <4> HIDE DEF sets
      <4>1. CASE ~Holds(sets, KeyOf(jti))
        BY <3>2, <4>1
      <4>2. CASE Holds(sets, KeyOf(jti)) /\ AdmitLifetime(tokens[jti])
        BY <3>2, <4>2
      <4>3. CASE Holds(sets, KeyOf(jti)) /\ ~AdmitLifetime(tokens[jti])
        BY <3>2, <4>3
      <4> QED
        BY <4>1, <4>2, <4>3
    <3>3. \/ keys # sets /\ Fault /\ UNCHANGED keys /\ Go(r, "end")
          \/ /\ NoFault /\ keys' = sets
             /\ Go(r, IF ~Holds(sets, KeyOf(jti)) THEN "unkeyed"
                      ELSE IF AdmitLifetime(tokens[jti]) THEN "floor" ELSE "end")
      BY DEF Verify
    <3> QED
      BY <3>1, <3>2, <3>3
  <2> QED
    BY <1>6, <1>7, <2>1, <2>2
<1> HIDE DEF sets, timed
<1>9. KeysOK'
  BY <1>1, <1>4, <1>8 DEF KeysOK, Shape, Records
<1>10. Instants' /\ Records'
  BY <1>1, <1>9, ServerShape DEF Shape, Records, RowsOK
<1>11. ASSUME reqs'[r].pc = pc, reqs'[r].jti = jti, reqs'[r].barred = reqs[r].barred
       PROVE  Trial(reqs[r])'
  BY <1>1, <1>8, <1>11 DEF Trial, Barring, Covered, KeyOf
<1> QED
  BY <1>1, <1>8, <1>10, <1>11, RowsAlike, BearerGoes

(* The reads of the rows, in the order that what bars a token is met.      *)
LEMMA ChecksKeep ==
    ASSUME IInv, scene' = scene, NEW r \in Slots, CheckFloor(r) \/ CheckJti(r) \/ CheckSubject(r)
    PROVE  IInv'
<1>1. /\ reqs[r].kind = "bearer" /\ reqs[r].pc \in {"floor", "jti", "subject"} /\ NoFault
      /\ UNCHANGED <<now, lost, grants, codes, signing, tokens, cache, keys, counted, rows,
                     jar, logins, revokes, spoiled, logouts, silenced, ended, retired>>
  BY DEF CheckFloor, CheckJti, CheckSubject, Is, rauthy, cell, history, NoFault
<1>2. Shape /\ Trial(reqs[r])
  BY <1>1, BearerFacts
<1>3. Instants' /\ Records'
  BY <1>1, <1>2, ServerShape DEF Shape, Records, KeysOK, RowsOK
<1>4. PICK pc \in {"jti", "subject", "count", "end"} :
        /\ Go(r, pc)
        /\ \/ pc = "end"
           \/ pc = "jti" /\ reqs[r].pc = "floor" /\ ~(tokens[reqs[r].jti].iat <= rows.floor)
           \/ pc = "subject" /\ reqs[r].pc = "jti" /\ reqs[r].jti \notin rows.jti
           \/ pc = "count" /\ reqs[r].pc = "subject" /\ ~(tokens[reqs[r].jti].iat <= rows.sub)
  BY DEF CheckFloor, CheckJti, CheckSubject, SubjectDenied, Is
<1>5. pc \in Pcs.bearer
  BY DEF Pcs
<1>6. ASSUME reqs'[r].pc = pc, reqs'[r].jti = reqs[r].jti, reqs'[r].barred = reqs[r].barred
      PROVE  Trial(reqs[r])'
  BY <1>1, <1>2, <1>4, <1>6 DEF Trial, Barring, Covered, KeyOf
<1> QED
  BY <1>1, <1>2, <1>3, <1>4, <1>5, <1>6, RowsAlike, BearerGoes

LEMMA CountKeeps ==
    ASSUME IInv, scene' = scene, NEW r \in Slots, Count(r)
    PROVE  IInv'
<1>1. /\ reqs[r].kind = "bearer" /\ reqs[r].pc = "count" /\ NoFault
      /\ UNCHANGED <<now, lost, grants, codes, signing, tokens, cache, keys, rows,
                     jar, logins, revokes, spoiled, logouts, silenced, ended, retired>>
  BY DEF Count, Is, rauthy, history, NoFault
<1>2. Shape /\ Trial(reqs[r])
  BY <1>1, BearerFacts
<1>3. Instants' /\ Records'
  BY <1>1, <1>2, ServerShape DEF Shape, Records, KeysOK, RowsOK
<1>4. PICK pc \in {"end", "admitted"} : Go(r, pc)
  BY DEF Count
<1>5. pc \in Pcs.bearer
  BY DEF Pcs
<1>6. ASSUME reqs'[r].pc = pc, reqs'[r].jti = reqs[r].jti, reqs'[r].barred = reqs[r].barred
      PROVE  Trial(reqs[r])'
  BY <1>1, <1>2, <1>4, <1>6 DEF Trial, Barring, Covered, KeyOf
<1> QED
  BY <1>1, <1>2, <1>3, <1>4, <1>5, <1>6, RowsAlike, BearerGoes

(* A row by the token's id, written by its holder or by the operator.      *)
LEMMA RowRises ==
    ASSUME Shape, NEW jti \in 1..Len(tokens), rows' = [rows EXCEPT !.jti = @ \cup {jti}],
           UNCHANGED <<tokens, now>>
    PROVE  RowsOK' /\ RowsRise /\ rows'.sub \in Int /\ rows'.floor \in Int
<1>1. DOMAIN tokens = 1..Len(tokens) /\ RowsOK
  BY RowsTyped DEF Shape, Records
<1> QED
  BY <1>1, RowsTyped DEF RowsOK, RowsRise

LEMMA BearerHandlerKeeps ==
    ASSUME IInv, scene' = scene, NEW r \in Slots, BearerHandler(r)
    PROVE  IInv'
<1>1. /\ reqs[r].kind = "bearer" /\ reqs[r].pc = "admitted" /\ NoFault /\ Go(r, "end")
      /\ UNCHANGED <<now, lost, grants, codes, signing, tokens, cache, keys, counted,
                     jar, logins, spoiled, logouts, silenced, ended, retired>>
      /\ rows' = rows \/ rows' = [rows EXCEPT !.jti = @ \cup {reqs[r].jti}]
  BY DEF BearerHandler, Is, rauthy, history, NoFault
<1>2. Shape /\ Trial(reqs[r]) /\ reqs[r].jti \in 1..Len(tokens)
  BY <1>1, BearerFacts DEF Trial
<1>3. RowsOK' /\ RowsRise /\ rows'.sub \in Int /\ rows'.floor \in Int
  <2>1. CASE rows' = rows
    BY <1>1, <1>2, <2>1, RowsAlike DEF Shape, Records, RowsOK
  <2> QED
    BY <1>1, <1>2, <2>1, RowRises
<1>4. Instants' /\ Records'
  BY <1>1, <1>2, <1>3, ServerShape DEF Shape, Records, KeysOK
<1>5. "end" \in Pcs.bearer
  BY DEF Pcs
<1>6. ASSUME reqs'[r].pc = "end", reqs'[r].jti = reqs[r].jti, reqs'[r].barred = reqs[r].barred
      PROVE  Trial(reqs[r])'
  BY <1>1, <1>2, <1>6 DEF Trial, Barring, KeyOf
<1> QED
  BY <1>1, <1>3, <1>4, <1>5, <1>6, BearerGoes

LEMMA BearerReplyKeeps ==
    ASSUME IInv, scene' = scene, NEW r \in Slots, BearerReply(r)
    PROVE  IInv'
<1>1. /\ reqs[r].kind = "bearer" /\ NoFault /\ Done(r)
      /\ UNCHANGED <<now, lost, grants, codes, signing, tokens, cache, keys, counted, rows,
                     jar, logins, revokes, spoiled, logouts, silenced, ended, retired>>
  BY DEF BearerReply, rauthy, cell, history, NoFault
<1>2. Shape /\ reqs[r].kind \notin Routes
  BY <1>1, BearerFacts
<1>3. Instants' /\ Records'
  BY <1>1, <1>2, ServerShape DEF Shape, Records, KeysOK, RowsOK
<1>4. Requests' /\ OneSlot(r) /\ reqs'[r].kind = "none"
  BY <1>1, <1>2, DoneIsIdle
<1>5. reqs'[r].kind \notin Routes
  BY <1>4 DEF Routes
<1> QED
  BY <1>1, <1>2, <1>3, <1>4, <1>5, RowsAlike, NotOfBrowser

LEMMA RevokeSubjectKeeps ==
    ASSUME IInv, scene' = scene, NEW r \in Slots, RevokeSubject(r)
    PROVE  IInv'
<1>1. /\ Shape /\ reqs[r] = Idle /\ reqs[r].kind \notin Routes /\ NoFault
      /\ UNCHANGED <<now, lost, grants, codes, signing, tokens, cache, keys, counted, rows,
                     jar, logins, spoiled, logouts, silenced, ended, retired>>
  BY DEF RevokeSubject, rauthy, cell, history, IInv, NoFault, Routes, Idle
<1> DEFINE w == [kind |-> "operator", pc |-> "record", from |-> now]
<1>2. w \in Request /\ w.from <= now /\ now <= w.from + Flight /\ w.kind = "operator"
  <2>1. now \in 0..MaxTime
    BY <1>1, RowsTyped, Bounds DEF Shape, Instants
  <2>2. w \in Operator
    BY <2>1 DEF Operator, Pcs
  <2>3. w \in Request
    BY <2>2 DEF Request
  <2> QED
    BY <2>1, <2>3, Bounds
<1>3. reqs' = [reqs EXCEPT ![r] = w]
  BY DEF RevokeSubject
<1> HIDE DEF w
<1>4. Requests' /\ OneSlot(r) /\ reqs'[r] = w
  BY <1>1, <1>2, <1>3, Replaced
<1>5. Instants' /\ Records'
  BY <1>1, ServerShape DEF Shape, Records, KeysOK, RowsOK
<1>6. reqs'[r].kind \notin Routes
  BY <1>2, <1>4 DEF Routes
<1> QED
  BY <1>1, <1>2, <1>4, <1>5, <1>6, RowsAlike, NotOfBrowser

(* The row of a person only rises.                                         *)
LEMMA RecordSubjectKeeps ==
    ASSUME IInv, scene' = scene, NEW r \in Slots, RecordSubject(r)
    PROVE  IInv'
<1>1. /\ reqs[r].kind = "operator" /\ NoFault /\ Go(r, "end") /\ Shape
      /\ UNCHANGED <<now, lost, grants, codes, signing, tokens, cache, keys, counted,
                     jar, logins, revokes, spoiled, logouts, silenced, ended, retired>>
      /\ rows' = [rows EXCEPT !.sub = Latest(@, reqs[r].from)]
  BY DEF RecordSubject, Is, rauthy, history, NoFault, Raised, IInv
<1>2. reqs[r].from \in 0..MaxTime /\ reqs[r].from <= now
  BY <1>1, Kinds DEF Shape, Requests, Operator
<1>3. RowsOK' /\ RowsRise /\ rows'.sub \in Int /\ rows'.floor \in Int
  <2>1. RowsOK
    BY <1>1 DEF Shape, Records
  <2>2. Latest(rows.sub, reqs[r].from) \in -1..now /\ rows.sub <= Latest(rows.sub, reqs[r].from)
    BY <1>1, <1>2, <2>1, RowsTyped, Bounds DEF Latest, RowsOK
  <2> QED
    BY <1>1, <2>1, <2>2, RowsTyped DEF RowsOK, RowsRise
<1>4. Instants' /\ Records'
  BY <1>1, <1>3, ServerShape DEF Shape, Records, KeysOK
<1>5. Requests' /\ OneSlot(r) /\ reqs'[r].kind = "operator"
  BY <1>1, OthersGo DEF Pcs
<1>6. reqs[r].kind \notin Routes /\ reqs'[r].kind \notin Routes
  BY <1>1, <1>5 DEF Routes
<1> QED
  BY <1>1, <1>3, <1>4, <1>5, <1>6, NotOfBrowser

(* Steps no request takes.                                                 *)
LEMMA WorldFrame ==
    ASSUME IInv, reqs' = reqs, Instants', Records', RowsRise, TokensGrow,
           rows'.sub \in Int, rows'.floor \in Int, signing <= signing', signing' \in Int,
           UNCHANGED <<grants, codes, logins, cache, jar, spoiled, logouts, silenced, ended, lost, now>>
    PROVE  IInv'
<1>1. Fits' /\ Apart' /\ Sessions' /\ CacheBounded'
  BY BrowserFrame
<1>2. Judged'
  BY TrialKept DEF Judged
<1>3. Requests'
  BY DEF IInv, Shape, Requests
<1> QED
  BY <1>1, <1>2, <1>3 DEF IInv, Shape

LEMMA RevokeTokenKeeps ==
    ASSUME IInv, scene' = scene, RevokeToken
    PROVE  IInv'
<1>1. /\ NoFault /\ Shape /\ reqs' = reqs
      /\ UNCHANGED <<now, lost, grants, codes, signing, tokens, cache, keys, counted,
                     jar, logins, spoiled, logouts, silenced, ended, retired>>
  BY DEF RevokeToken, rauthy, history, NoFault, IInv
<1>2. PICK jti \in 1..Len(tokens) : rows' = [rows EXCEPT !.jti = @ \cup {jti}]
  BY <1>1, RowsTyped DEF RevokeToken
<1>3. RowsOK' /\ RowsRise /\ rows'.sub \in Int /\ rows'.floor \in Int
  BY <1>1, <1>2, RowRises
<1>4. Instants' /\ Records'
  BY <1>1, <1>3, ServerShape DEF Shape, Records, KeysOK
<1> QED
  BY <1>1, <1>3, <1>4, TokensAlike, WorldFrame

LEMMA IssueTokenKeeps ==
    ASSUME IInv, scene' = scene, IssueToken
    PROVE  IInv'
<1>1. /\ NoFault /\ Shape
      /\ UNCHANGED <<now, lost, grants, codes, signing, cache, keys, counted, rows,
                     jar, logins, reqs, spoiled, logouts, silenced, ended, retired>>
  BY DEF IssueToken, cell, history, NoFault, IInv
<1>2. PICK life \in Lifetimes :
        tokens' = Append(tokens, [iat |-> now, exp |-> now + life, kid |-> signing])
  BY DEF IssueToken
<1>3. [iat |-> now, exp |-> now + life, kid |-> signing] \in [iat : Nat, exp : Nat, kid : 1..signing]
  BY <1>1, RowsTyped, Bounds
<1>4. TokensOK' /\ TokensGrow
  BY <1>1, <1>2, <1>3 DEF Shape, Records, TokensOK, TokensGrow
<1>5. RowsOK'
  <2>1. DOMAIN tokens \subseteq DOMAIN tokens'
    BY <1>1, <1>4, RowsTyped DEF TokensOK, TokensGrow, Shape, Records
  <2> QED
    BY <1>1, <2>1 DEF Shape, Records, RowsOK
<1>6. Instants' /\ Records'
  BY <1>1, <1>4, <1>5, InstantsKept DEF Shape, Records, GrantsOK, LoginsOK, CacheOK, JarOK, HistoryOK,
     KeysOK
<1>7. signing <= signing' /\ signing' \in Int
  BY <1>1, RowsTyped
<1> QED
  BY <1>1, <1>4, <1>6, <1>7, RowsAlike, WorldFrame

LEMMA RotateKeyKeeps ==
    ASSUME IInv, scene' = scene, RotateKey
    PROVE  IInv'
<1>1. /\ NoFault /\ Shape /\ signing < scene.kids /\ signing' = signing + 1
      /\ UNCHANGED <<now, lost, grants, codes, tokens, cache, keys, counted, rows,
                     jar, logins, reqs, spoiled, logouts, silenced, ended>>
  BY DEF RotateKey, cell, NoFault, IInv
<1>2. signing' \in 1..MaxKids /\ signing <= signing' /\ signing' \in Int
      /\ 1..signing \subseteq 1..signing'
  <2>1. scene.kids \in 1..MaxKids
    BY <1>1, Bounds DEF Shape, Instants
  <2> QED
    BY <1>1, <2>1, RowsTyped, Bounds
<1>3. TokensOK' /\ TokensGrow
  <2> DEFINE T == [iat : Nat, exp : Nat, kid : 1..signing]
             U == [iat : Nat, exp : Nat, kid : 1..signing']
  <2>1. T \subseteq U
    BY <1>2
  <2>2. tokens \in Seq(T)
    BY <1>1 DEF Shape, Records, TokensOK
  <2>3. tokens \in Seq(U)
    <3> HIDE DEF T, U
    <3> QED
      BY <2>1, <2>2
  <2> QED
    BY <1>1, <1>2, <2>3, RowsTyped DEF TokensOK, TokensGrow
<1>4. KeysOK'
  BY <1>1, <1>2 DEF Shape, Records, KeysOK
<1>5. Instants' /\ Records'
  BY <1>1, <1>3, <1>4, InstantsKept DEF Shape, Records, GrantsOK, LoginsOK, CacheOK, JarOK, HistoryOK,
     RowsOK
<1> QED
  BY <1>1, <1>2, <1>3, <1>5, RowsAlike, WorldFrame

(* The clock, rauthy's mind, and the browser's own acts.                   *)
LEMMA TickKeeps ==
    ASSUME IInv, scene' = scene, Tick
    PROVE  IInv'
<1>1. /\ Shape /\ now < scene.time /\ now' = now + 1
      /\ \A r \in Slots : reqs[r] # Idle => now - reqs[r].from < Flight
      /\ UNCHANGED <<faults, lost, grants, codes, signing, tokens, cache, keys, rows,
                     jar, logins, reqs, spoiled, logouts, silenced, ended, retired>>
  BY DEF Tick, rauthy, history, IInv
<1>2. now \in Nat /\ now' \in Nat /\ scene.time \in Nat
  BY <1>1, Bounds DEF Shape, Instants
<1>3. Instants'
  BY <1>1, <1>2, Bounds DEF Shape, Instants, Never
<1>4. Records'
  <2>1. KeysOK' /\ RowsOK'
    <3>1. 0..now \subseteq 0..now' /\ -1..now \subseteq -1..now'
      BY <1>1, <1>2
    <3> QED
      BY <1>1, <3>1 DEF KeysOK, RowsOK, Shape, Records
  <2> QED
    BY <1>1, <2>1 DEF Shape, Records, GrantsOK, LoginsOK, TokensOK, CacheOK, JarOK, HistoryOK
<1>5. Requests'
  <2>1. ASSUME NEW r \in Slots, reqs[r] # Idle
        PROVE  reqs[r].from <= now' /\ now' <= reqs[r].from + Flight
    <3>1. reqs[r].from \in Nat /\ reqs[r].from <= now
      BY <1>1, <2>1, Kinds DEF Shape, Requests
    <3> QED
      BY <1>1, <1>2, <2>1, <3>1, Bounds
  <2> QED
    BY <1>1, <2>1 DEF Shape, Requests
<1>6. Fits' /\ Apart'
  BY <1>1 DEF IInv, Fits, Fit, Phase, Backed, Accepts, Booked, Timely, RoleGone, GrantGone, Left, Apart
<1>7. Sessions'
  BY <1>1 DEF IInv, Sessions, Unasked, Unborn, Hidden, JarKept, Over, Final, Logging, InFlight,
     Renewing, Accepts
<1>8. CacheBounded'
  <2>1. ASSUME NEW s \in Sids PROVE cache[s].expires <= now' + AccessTtl
    BY <1>1, <1>2, Bounds, Times DEF IInv, CacheBounded
  <2> QED
    BY <1>1, <2>1 DEF IInv, CacheBounded, RoleGone, GrantGone
<1>9. Judged'
  BY <1>1, BearerFrame
<1> QED
  BY <1>3, <1>4, <1>5, <1>6, <1>7, <1>8, <1>9 DEF IInv, Shape

LEMMA LoseRoleKeeps ==
    ASSUME IInv, scene' = scene, LoseRole
    PROVE  IInv'
<1>1. /\ Shape /\ lost' = now /\ lost = Never
      /\ UNCHANGED <<now, faults, grants, codes, signing, tokens, cache, keys, counted, rows,
                     jar, logins, reqs, spoiled, logouts, silenced, ended, retired>>
  BY DEF LoseRole, cell, history, IInv
<1>2. now \in Nat /\ ended \in Int
  BY <1>1, Times
<1>3. Instants'
  BY <1>1, <1>2 DEF Shape, Instants, Never
<1>4. Records'
  BY <1>1 DEF Shape, Records, GrantsOK, LoginsOK, TokensOK, KeysOK, CacheOK, RowsOK, JarOK, HistoryOK
<1>5. Requests'
  BY <1>1 DEF Shape, Requests
<1>6. Apart' /\ Sessions'
  BY <1>1 DEF IInv, Apart, Sessions, Unasked, Unborn, Hidden, JarKept, Over, Final, Logging, InFlight,
     Renewing, Accepts
<1>7. RoleGone' \in Int /\ now < RoleGone' /\ now + AccessTtl <= RoleGone' /\ GrantGone' = GrantGone
  BY <1>1, <1>2, Bounds DEF RoleGone, GrantGone
<1>8. CacheBounded'
  <2>1. ASSUME NEW s \in Sids PROVE cache[s].expires <= RoleGone'
    <3>1. cache[s].expires \in Int /\ cache[s].expires <= now + AccessTtl
      BY <1>1, Times DEF IInv, CacheBounded
    <3> QED
      BY <1>2, <1>7, <3>1, Bounds
  <2> QED
    BY <1>1, <1>7, <2>1 DEF IInv, CacheBounded
<1>9. Fits'
  <2>1. ASSUME NEW r \in Slots, reqs[r].kind \in Routes PROVE Fit(reqs[r])'
    <3>1. reqs[r].from <= now /\ reqs[r].from \in Nat /\ Fit(reqs[r])
      BY <2>1, BrowsedFacts
    <3>2. reqs[r].from < RoleGone'
      BY <1>2, <1>7, <3>1
    <3>3. Timely(reqs[r])'
      BY <1>1, <1>7, <3>1, <3>2 DEF Fit, Timely
    <3> QED
      BY <1>1, <3>1, <3>3 DEF Fit, Phase, Backed, Accepts, Booked, Left
  <2> QED
    BY <1>1, <2>1 DEF Fits
<1>10. Judged'
  BY <1>1, BearerFrame
<1> QED
  BY <1>3, <1>4, <1>5, <1>6, <1>8, <1>9, <1>10 DEF IInv, Shape

LEMMA TamperKeeps ==
    ASSUME IInv, scene' = scene, Tamper
    PROVE  IInv'
<1>1. /\ Shape /\ Fault /\ jar' = [jar EXCEPT !.session = Foreign]
      /\ UNCHANGED <<now, lost, grants, codes, signing, tokens, cache, keys, counted, rows,
                     logins, reqs, spoiled, logouts, silenced, ended, retired>>
  BY DEF Tamper, rauthy, cell, history, IInv
<1>2. JarOK' /\ jar'.session = Foreign /\ jar'.session.sid \notin Sids
  BY <1>1, CookieSids DEF Shape, Records, JarOK, Envelope
<1>3. Instants' /\ Records'
  BY <1>1, <1>2, InstantsKept, RecordsKept DEF Shape, Records, GrantsOK, LoginsOK, CacheOK, HistoryOK
<1>4. Requests'
  BY <1>1 DEF Shape, Requests
<1>5. Fits' /\ Apart' /\ CacheBounded'
  BY <1>1 DEF IInv, Fits, Fit, Phase, Backed, Accepts, Booked, Timely, RoleGone, GrantGone, Left, Apart,
     CacheBounded
<1>6. Sessions'
  BY <1>1, <1>2 DEF IInv, Sessions, Unasked, Unborn, Hidden, JarKept, Over, Final, Logging, InFlight
<1>7. Judged'
  BY <1>1, BearerFrame
<1> QED
  BY <1>3, <1>4, <1>5, <1>6, <1>7 DEF IInv, Shape

(* A restart forgets every request and assertion, and keeps the rows.      *)
LEMMA RestartKeeps ==
    ASSUME IInv, scene' = scene, Restart
    PROVE  IInv'
<1>1. /\ Shape /\ Fault /\ reqs' = [r \in Slots |-> Idle] /\ cache' = [s \in Sids |-> Unheld]
      /\ keys' = [current |-> {signing}, previous |-> {}, refreshed |-> now]
      /\ rows' = rows \/ rows' = [rows EXCEPT !.floor = Latest(@, now)]
      /\ spoiled' = spoiled \cup {s \in Sids : InFlight(s) # {}}
      /\ UNCHANGED <<now, lost, grants, codes, signing, tokens, jar, logins, logouts, silenced,
                     ended, retired>>
  BY DEF Restart, rauthy, IInv
<1>2. Instants'
  BY <1>1, InstantsKept
<1>3. now \in Nat /\ ended \in Int /\ ended >= -1 /\ signing \in Nat \ {0}
  BY <1>1, RowsTyped DEF Shape, Instants
<1>4. Unheld \in [as : Who, expires : Int] /\ Unheld.expires = -1 /\ Unheld.as # Holder
  BY DEF Unheld, Who, Nobody, Holder
<1>5. Records'
  <2>1. KeysOK'
    BY <1>1, <1>3 DEF KeysOK
  <2>2. RowsOK'
    BY <1>1, <1>3, RowsTyped DEF RowsOK, Latest, Shape, Records
  <2>3. CacheOK' /\ HistoryOK'
    BY <1>1, <1>4 DEF CacheOK, HistoryOK, Shape, Records
  <2> QED
    BY <1>1, <2>1, <2>2, <2>3 DEF Shape, Records, GrantsOK, LoginsOK, TokensOK, JarOK
<1>6. \A r \in Slots : reqs'[r] = Idle /\ reqs'[r].kind = "none" /\ reqs'[r].kind \notin Routes
  BY <1>1 DEF Idle, Routes
<1>7. Requests'
  BY <1>1, <1>6 DEF Requests, Request
<1>8. Fits' /\ Apart' /\ Judged'
  BY <1>6 DEF Fits, Apart, Judged
<1>9. Sessions'
  <2>1. \A s : /\ InFlight(s)' = {}
               /\ \A r \in Slots : ~Logging(r, s)' /\ ~Renewing(r, s)'
    BY <1>6 DEF InFlight, Logging, Renewing
  <2>2. ASSUME NEW s \in Sids PROVE JarKept(s)'
    <3>1. SUFFICES ASSUME jar.session.sid = s
                   PROVE  /\ jar.session.token <= grants[s].last
                          /\ s \notin spoiled' => Accepts(s, jar.session.token)
      BY <1>1 DEF JarKept, Accepts
    <3>2. s \notin spoiled' => s \notin spoiled /\ \A r \in Slots : ~Renewing(r, s)
      BY <1>1 DEF InFlight, Renewing
    <3> QED
      BY <3>1, <3>2 DEF IInv, Sessions, JarKept
  <2>3. ASSUME NEW s \in Sids PROVE Over(s)'
    BY <1>1, <2>1 DEF IInv, Sessions, Over, Final
  <2>4. ASSUME NEW s \in Sids, Unborn(s)' PROVE Hidden(s)'
    <3>1. Unborn(s)
      BY <1>1, <2>1, <2>4 DEF Unborn, Unasked
    <3> QED
      BY <1>1, <2>1, <3>1 DEF IInv, Sessions, Hidden
  <2>5. \A s \in Sids : Unasked(s)' => ~grants'[s].live /\ s \notin silenced'
    BY <1>1 DEF IInv, Sessions, Unasked
  <2> QED
    BY <2>2, <2>3, <2>4, <2>5 DEF Sessions
<1>10. CacheBounded'
  <2>1. -1 <= now + AccessTtl /\ -1 <= GrantGone
    BY <1>3, Bounds DEF GrantGone
  <2> QED
    BY <1>1, <1>4, <2>1 DEF IInv, CacheBounded, GrantGone
<1> QED
  BY <1>2, <1>5, <1>7, <1>8, <1>9, <1>10 DEF IInv, Shape

(* The operator ends every grant, or the call to rauthy fails.             *)
LEMMA EndSessionsKeeps ==
    ASSUME IInv, scene' = scene, NEW r \in Slots, EndSessions(r)
    PROVE  IInv'
<1>1. /\ reqs[r].kind = "operator" /\ Done(r) /\ (Fault \/ NoFault) /\ Shape
      /\ UNCHANGED <<now, lost, codes, signing, tokens, cache, keys, counted, rows, jar, logins,
                     revokes, logouts, retired>>
      /\ \/ UNCHANGED <<grants, spoiled, silenced, ended>>
         \/ /\ grants' = [s \in Sids |-> [grants[s] EXCEPT !.live = FALSE]]
            /\ spoiled' = spoiled \cup Live /\ silenced' = silenced \cup Live /\ ended' = now
  BY DEF EndSessions, Is, cell, IInv
<1>2. /\ GrantsOK /\ HistoryOK /\ now \in Nat /\ ended \in Int /\ ended <= now
      /\ faults' \in 0..scene.faults
  BY <1>1, Bounds DEF Shape, Records, Instants, Fault, NoFault
<1>3. /\ Requests' /\ OneSlot(r) /\ reqs'[r].kind = "none"
  BY <1>1, DoneIsIdle
<1>4. reqs[r].kind \notin Routes /\ reqs'[r].kind \notin Routes
  BY <1>1, <1>3 DEF Routes
<1>5. CASE UNCHANGED <<grants, spoiled, silenced, ended>>
  <2>1. Instants' /\ Records'
    BY <1>1, <1>5, ServerShape DEF Shape, Records, KeysOK, RowsOK
  <2> QED
    BY <1>1, <1>3, <1>4, <1>5, <2>1, RowsAlike, NotOfBrowser
<1>6. CASE /\ grants' = [s \in Sids |-> [grants[s] EXCEPT !.live = FALSE]]
           /\ spoiled' = spoiled \cup Live /\ silenced' = silenced \cup Live /\ ended' = now
  <2>1. /\ GrantsOK'
        /\ \A s \in Sids : grants'[s].last = grants[s].last /\ ~grants'[s].live
    <3>1. \A s \in Sids : /\ [grants[s] EXCEPT !.live = FALSE] \in [last : 0..MaxGrants, live : BOOLEAN]
                          /\ [grants[s] EXCEPT !.live = FALSE].last = grants[s].last
                          /\ [grants[s] EXCEPT !.live = FALSE].live = FALSE
      BY <1>2 DEF GrantsOK
    <3> QED
      BY <1>6, <3>1 DEF GrantsOK
  <2>2. HistoryOK'
    BY <1>1, <1>2, <1>6 DEF HistoryOK, Live
  <2>3. Instants' /\ Records'
    BY <1>1, <1>2, <1>6, <2>1, <2>2, RecordsKept
       DEF Shape, Instants, Never, Records, LoginsOK, CacheOK, JarOK
  <2>4. \A q \in Slots : /\ reqs[q].kind \in Routes \/ reqs'[q].kind \in Routes =>
                              reqs'[q] = reqs[q]
                         /\ reqs'[q].kind = "bearer" => reqs'[q] = reqs[q]
    BY <1>3, <1>4 DEF OneSlot
  <2>5. /\ GrantGone' \in Int /\ now < GrantGone' /\ now + AccessTtl <= GrantGone'
        /\ RoleGone' = RoleGone
    <3>1. Flight \in Nat \ {0} /\ AccessTtl \in Nat
      BY Bounds
    <3>2. GrantGone' = now + Flight + AccessTtl /\ RoleGone' = RoleGone
      BY <1>1, <1>6 DEF RoleGone, GrantGone
    <3>3. \A n, f, a \in Nat : f # 0 => /\ n + f + a \in Int /\ n < n + f + a
                                        /\ n + a <= n + f + a
      OBVIOUS
    <3> QED
      BY <1>2, <3>1, <3>2, <3>3
  <2>6. Fits'
    <3>1. ASSUME NEW q \in Slots, reqs[q].kind \in Routes PROVE Fit(reqs[q])'
      <4>1. /\ Fit(reqs[q]) /\ reqs[q].from \in Nat /\ reqs[q].from <= now
            /\ reqs[q].code # 0 => reqs[q].code \in Sids
        BY <3>1, BrowsedFacts
      <4>2. reqs'[q] = reqs[q]
        BY <2>4, <3>1
      <4>3. Phase(reqs[q])'
        BY <4>1, <4>2 DEF Fit, Phase
      <4>4. Backed(reqs[q])'
        BY <1>6, <2>1, <4>1, <4>2 DEF Fit, Backed, Accepts, Live
      <4>5. Booked(reqs[q])'
        BY <1>1, <1>6, <2>1, <4>1, <4>2 DEF Fit, Booked, Live
      <4>6. Timely(reqs[q])'
        <5>1. reqs[q].from < GrantGone'
          BY <1>2, <2>5, <4>1
        <5> QED
          BY <1>1, <1>6, <2>5, <4>1, <4>2, <5>1 DEF Fit, Timely
      <4>7. Left(reqs[q])'
        BY <1>1, <4>1, <4>2 DEF Fit, Left
      <4> QED
        BY <4>3, <4>4, <4>5, <4>6, <4>7 DEF Fit
    <3> QED
      BY <2>4, <3>1 DEF Fits
  <2>7. Apart'
    BY <2>4 DEF IInv, Apart
  <2>8. \A s : /\ InFlight(s)' = InFlight(s)
               /\ \A q \in Slots : /\ Logging(q, s)' <=> Logging(q, s)
                                   /\ Renewing(q, s)' <=> Renewing(q, s)
    BY <2>4 DEF InFlight, Logging, Renewing
  <2>9. Sessions'
    <3>1. ASSUME NEW s \in Sids
          PROVE  (Unasked(s)' <=> Unasked(s)) /\ (Unborn(s)' <=> Unborn(s)) /\ (Hidden(s)' <=> Hidden(s))
                 /\ (Over(s)' <=> Over(s))
      BY <1>1, <2>8 DEF Unasked, Unborn, Hidden, Over, Final
    <3>2. ASSUME NEW s \in Sids, Unasked(s) PROVE ~grants'[s].live /\ s \notin silenced'
      BY <1>6, <2>1, <3>2 DEF IInv, Sessions, Live
    <3>3. ASSUME NEW s \in Sids PROVE JarKept(s)'
      <4>1. SUFFICES ASSUME jar.session.sid = s
                     PROVE  /\ jar.session.token <= grants[s].last
                            /\ s \notin spoiled' => \E q \in Slots : Renewing(q, s)
        BY <1>1, <2>1, <2>8 DEF JarKept
      <4>2. s \notin spoiled' => s \notin spoiled /\ ~grants[s].live
        BY <1>6 DEF Live
      <4> QED
        BY <4>1, <4>2 DEF IInv, Sessions, JarKept, Accepts
    <3> QED
      BY <3>1, <3>2, <3>3 DEF IInv, Sessions
  <2>10. CacheBounded'
    <3>1. ASSUME NEW s \in Sids PROVE cache[s].expires <= GrantGone' /\ ~grants'[s].live
      <4>1. cache[s].expires \in Int /\ cache[s].expires <= now + AccessTtl
        BY <1>1, Times DEF IInv, CacheBounded
      <4> QED
        BY <1>2, <2>1, <2>5, <4>1, Bounds
    <3> QED
      BY <1>1, <2>5, <3>1 DEF IInv, CacheBounded
  <2>11. Judged'
    <3>1. \A q \in Slots : reqs[q].kind = "bearer" \/ reqs'[q].kind = "bearer" => reqs'[q] = reqs[q]
      BY <1>1, <1>3, <2>4 DEF OneSlot
    <3> QED
      BY <1>1, <3>1, BearerFrame
  <2> QED
    BY <1>3, <2>3, <2>6, <2>7, <2>9, <2>10, <2>11 DEF IInv, Shape
<1> QED
  BY <1>1, <1>5, <1>6

----------------------------------------------------------------------------
LEMMA InitIInv ==
    ASSUME Init
    PROVE  IInv
<1>1. /\ scene \in Scenes /\ now = 0 /\ faults = 0 /\ lost = Never /\ ended = -1 /\ signing = 1
      /\ grants = [s \in Sids |-> [last |-> 0, live |-> FALSE]] /\ codes = {} /\ tokens = <<>>
      /\ cache = [s \in Sids |-> Unheld] /\ logins = 0
      /\ keys = [current |-> {1}, previous |-> {}, refreshed |-> 0]
      /\ rows = [jti |-> {}, sub |-> -1, floor |-> -1]
      /\ jar = [session |-> NoCookie, login |-> NoLogin]
      /\ reqs = [r \in Slots |-> Idle] /\ spoiled = {} /\ silenced = {}
      /\ logouts = [s \in Sids |-> "open"]
  BY DEF Init
<1>2. MaxTime \in Nat /\ scene.time \in 0..MaxTime /\ scene.logins \in Nat /\ scene.faults \in Nat
      /\ MaxKids \in Nat /\ scene.kids \in 1..MaxKids
  BY <1>1, Bounds
<1>3. Unheld \in [as : Who, expires : Int] /\ Unheld.expires = -1 /\ Unheld.as # Holder
  BY DEF Unheld, Who, Nobody, Holder
<1>4. \A r \in Slots : reqs[r] = Idle /\ reqs[r].kind = "none" /\ reqs[r].kind \notin Routes
  BY <1>1 DEF Idle, Routes
<1>5. Instants
  BY <1>1, <1>2 DEF Instants
<1>6. Records
  <2>1. GrantsOK /\ CacheOK
    BY <1>1, <1>3, Bounds DEF GrantsOK, CacheOK
  <2>2. LoginsOK /\ TokensOK /\ KeysOK /\ RowsOK
    BY <1>1, <1>2 DEF LoginsOK, TokensOK, KeysOK, RowsOK
  <2>3. JarOK /\ HistoryOK
    BY <1>1 DEF JarOK, HistoryOK, NoLogin, Envelope
  <2> QED
    BY <2>1, <2>2, <2>3 DEF Records
<1>7. Requests
  BY <1>1, <1>4 DEF Requests, Request
<1>8. Fits /\ Apart /\ Judged
  BY <1>4 DEF Fits, Apart, Judged
<1>9. Sessions
  <2>1. \A s : InFlight(s) = {}
    BY <1>4 DEF InFlight
  <2>2. jar.session.sid \notin Sids
    BY <1>1, CookieSids
  <2> QED
    BY <1>1, <2>1, <2>2 DEF Sessions, Hidden, JarKept, Over, Final
<1>10. CacheBounded
  <2>1. -1 <= now + AccessTtl
    BY <1>1, Bounds
  <2> QED
    BY <1>1, <1>3, <2>1 DEF CacheBounded
<1> QED
  BY <1>5, <1>6, <1>7, <1>8, <1>9, <1>10 DEF IInv, Shape

LEMMA StutterKeeps ==
    ASSUME IInv, UNCHANGED vars
    PROVE  IInv'
<1>1. /\ reqs' = reqs /\ Shape
      /\ UNCHANGED <<scene, now, faults, lost, grants, codes, signing, tokens, cache, keys,
                     rows, jar, logins, spoiled, logouts, silenced, ended>>
  BY DEF vars, IInv
<1>2. Instants' /\ Records'
  BY <1>1, ServerShape DEF NoFault, Shape, Records, KeysOK, RowsOK
<1> QED
  BY <1>1, <1>2, RowsAlike, TokensAlike, WorldFrame

LEMMA NextIInv ==
    ASSUME IInv, [Next /\ UNCHANGED scene]_vars
    PROVE  IInv'
<1>1. CASE UNCHANGED vars
  BY <1>1, StutterKeeps
<1>2. CASE /\ scene' = scene
           /\ \/ Tamper \/ IssueToken \/ RevokeToken
              \/ Tick \/ LoseRole \/ RotateKey \/ Restart
  BY <1>2, TamperKeeps, IssueTokenKeeps, RevokeTokenKeeps, TickKeeps, LoseRoleKeeps,
     RotateKeyKeeps, RestartKeeps
<1>3. ASSUME NEW r \in Slots, scene' = scene,
             \/ StartPage(r) \/ StartLogin(r) \/ StartCallback(r) \/ StartLogout(r)
             \/ Load(r) \/ Grant(r) \/ Userinfo(r) \/ Renewed(r) \/ DropAssertion(r)
      PROVE  IInv'
  BY <1>3, StartPageKeeps, StartLoginKeeps, StartCallbackKeeps, StartLogoutKeeps,
     LoadKeeps, GrantKeeps, UserinfoKeeps, RenewedKeeps, DropAssertionKeeps
<1>4. ASSUME NEW r \in Slots, scene' = scene,
             \/ Exchange(r) \/ Claims(r) \/ Establish(r)
             \/ LogoutRevoke(r) \/ LogoutDrop(r) \/ Reply(r)
             \/ RevokeSubject(r) \/ RecordSubject(r) \/ EndSessions(r)
      PROVE  IInv'
  BY <1>4, ExchangeKeeps, ClaimsKeeps, EstablishKeeps, LogoutRevokeKeeps, LogoutDropKeeps, ReplyKeeps,
     RevokeSubjectKeeps, RecordSubjectKeeps, EndSessionsKeeps
<1>5. ASSUME NEW r \in Slots, scene' = scene,
             \/ StartBearer(r) \/ Verify(r) \/ CheckFloor(r) \/ CheckJti(r) \/ CheckSubject(r)
             \/ Count(r) \/ BearerHandler(r) \/ BearerReply(r)
      PROVE  IInv'
  BY <1>5, StartBearerKeeps, VerifyKeeps, ChecksKeep, CountKeeps, BearerHandlerKeeps, BearerReplyKeeps
<1>6. CASE Next /\ scene' = scene
  BY <1>2, <1>3, <1>4, <1>5, <1>6 DEF Next
<1> QED
  BY <1>1, <1>6

(* What the run checks, from the invariant.                                *)
LEMMA InvariantSays ==
    ASSUME IInv
    PROVE  SessionSound /\ TakesEffect /\ LogoutIsFinal /\ RevokedIsRefused
<1>0. Shape /\ Fits /\ Sessions /\ CacheBounded /\ Judged
  BY DEF IInv
<1>1. TypeOK
  <2>1. /\ now \in 0..MaxTime /\ faults \in 0..scene.faults /\ lost \in 0..Never
        /\ signing \in 1..MaxKids /\ keys.current \subseteq 1..signing
        /\ keys.previous \subseteq 1..signing /\ keys.refreshed \in 0..now
        /\ rows.jti \subseteq DOMAIN tokens /\ rows.sub \in -1..now /\ rows.floor \in -1..now
        /\ spoiled \subseteq Sids
    BY <1>0, Bounds DEF Shape, Instants, Records, TokensOK, KeysOK, RowsOK, HistoryOK, Never
  <2>2. \A s \in Sids :
          /\ grants[s].last \in 0..MaxGrants /\ grants[s].live \in BOOLEAN
          /\ cache[s].expires <= now + AccessTtl
    BY <1>0 DEF Shape, Records, GrantsOK, CacheBounded
  <2>3. ASSUME NEW r \in Slots, reqs[r] # Idle
        PROVE  reqs[r].pc \in Pcs[reqs[r].kind] /\ now - reqs[r].from <= Flight
    <3>1. /\ reqs[r].from <= now /\ now <= reqs[r].from + Flight /\ reqs[r] \in Request
      BY <1>0, <2>3 DEF Shape, Requests
    <3>2. reqs[r].from \in Nat
      BY <2>3, <3>1, Kinds, Bounds
    <3>3. now - reqs[r].from <= Flight
      BY <2>1, <3>1, <3>2, Bounds
    <3>4. reqs[r].pc \in Pcs[reqs[r].kind]
      <4>1. CASE reqs[r].kind \in Routes
        BY <4>1, BrowsedFacts DEF Fit, Phase
      <4>2. CASE reqs[r].kind = "bearer"
        BY <3>1, <4>2, Kinds DEF Bearer, Pcs
      <4>3. CASE reqs[r].kind = "operator"
        BY <3>1, <4>3, Kinds DEF Operator, Pcs
      <4> QED
        BY <2>3, <3>1, <4>1, <4>2, <4>3, Kinds
    <3> QED
      BY <3>3, <3>4
  <2>4. jar.session \in {NoCookie, Foreign}
          \/ jar.session.token \in 1..grants[jar.session.sid].last
    <3>1. ASSUME jar.session \in Cookie PROVE jar.session.token \in 1..grants[jar.session.sid].last
      <4>1. jar.session.sid \in Sids /\ jar.session.token \in 1..MaxGrants
        BY <3>1 DEF Cookie
      <4>2. jar.session.token <= grants[jar.session.sid].last
        BY <1>0, <4>1 DEF Sessions, JarKept
      <4> QED
        BY <2>2, <4>1, <4>2, Bounds
    <3> QED
      BY <1>0, <3>1 DEF Shape, Records, JarOK, Envelope
  <2> QED
    BY <2>1, <2>2, <2>3, <2>4 DEF TypeOK
<1>2. CookieIsLive
  <2>1. ASSUME jar.session.sid \in Sids \ spoiled, InFlight(jar.session.sid) = {}
        PROVE  Accepts(jar.session.sid, jar.session.token)
    <3>1. \A r \in Slots : ~Renewing(r, jar.session.sid)
      BY <2>1 DEF Renewing, InFlight
    <3> QED
      BY <1>0, <2>1, <3>1 DEF Sessions, JarKept
  <2> QED
    BY <2>1 DEF CookieIsLive
<1>3. TakesEffect
  <2>1. ASSUME NEW s \in Sids
        PROVE  /\ cache[s].as = Holder => cache[s].expires <= lost + Flight + AccessTtl
               /\ s \in silenced => cache[s].expires <= ended + Flight + AccessTtl
    BY <1>0 DEF CacheBounded, RoleGone, GrantGone
  <2>2. ASSUME NEW r \in Slots, reqs[r].kind = "page", reqs[r].pc = "handle"
        PROVE  /\ reqs[r].as = Holder => now < lost + 2 * Flight + AccessTtl
               /\ reqs[r].env.sid \in silenced => now < ended + 2 * Flight + AccessTtl
    <3>0. reqs[r].kind \in Routes
      BY <2>2 DEF Routes
    <3>1. /\ reqs[r].as = Holder => reqs[r].from < RoleGone
          /\ reqs[r].env.sid \in silenced => reqs[r].from < GrantGone
      BY <2>2, <3>0, BrowsedFacts DEF Fit, Timely
    <3>2. /\ now \in Int /\ lost \in Int /\ ended \in Int /\ reqs[r].from \in Int
          /\ Flight \in Int /\ AccessTtl \in Int /\ now <= reqs[r].from + Flight
      BY <1>0, <3>0, BrowsedFacts, Bounds, Times
    <3>3. \A n, b, l, f, a \in Int : n <= b + f /\ b < l + f + a => n < l + 2 * f + a
      OBVIOUS
    <3> QED
      BY <3>1, <3>2, <3>3 DEF RoleGone, GrantGone
  <2> QED
    BY <2>1, <2>2 DEF TakesEffect, Is
<1>4. LogoutIsFinal
  BY <1>0 DEF Sessions, Over, Final, LogoutIsFinal
<1>5. RevokedIsRefused
  <2>1. ASSUME NEW r \in Slots, reqs[r].kind = "bearer"
        PROVE  /\ reqs[r].pc = "admitted" => ~reqs[r].barred
               /\ reqs[r].pc = "unkeyed" => KeyOf(reqs[r].jti) # signing
    <3>1. Trial(reqs[r]) /\ Shape
      BY <1>0, <2>1 DEF Judged
    <3>2. KeyOf(reqs[r].jti) \in Int /\ signing \in Int
      BY <3>1, RowsTyped DEF KeyOf, Trial
    <3> QED
      BY <3>1, <3>2 DEF Trial, Barring
  <2> QED
    BY <2>1 DEF RevokedIsRefused, Is
<1> QED
  BY <1>1, <1>2, <1>3, <1>4, <1>5 DEF SessionSound

LEMMA IInvHolds == Spec => []IInv
<1>1. Init => IInv
  BY InitIInv
<1>2. IInv /\ [Next /\ UNCHANGED scene]_vars => IInv'
  BY NextIInv
<1> QED
  BY <1>1, <1>2, PTL DEF Spec


----------------------------------------------------------------------------
(* Every variable keeps its type, no request outlives its allowance, no    *)
(* assertion the ceiling, and no cookie names a token rauthy did not issue *)
(* (session.rs, jwks.rs, revoke.rs).                                       *)
THEOREM SessionTypeCorrect == Spec => []TypeOK
<1>1. IInv => TypeOK
  BY InvariantSays DEF SessionSound
<1> QED
  BY <1>1, IInvHolds, PTL

(* Rotation never strands the browser: of a session nothing else touched,  *)
(* the cookie in the jar holds the refresh token rauthy accepts, once no   *)
(* request of the session is under way (refresh.rs, `renew`).              *)
THEOREM CookieIsLiveHolds == Spec => []CookieIsLive
<1>1. IInv => CookieIsLive
  BY InvariantSays DEF SessionSound
<1> QED
  BY <1>1, IInvHolds, PTL

(* Both together: what the cell and the browser hold of a session agrees   *)
(* with what rauthy holds of it (session.rs, refresh.rs).                  *)
THEOREM SessionSoundHolds == Spec => []SessionSound
<1>1. IInv => SessionSound
  BY InvariantSays
<1> QED
  BY <1>1, IInvHolds, PTL

(* A role rauthy took away and grants an operator ended are gone within    *)
(* one access lifetime and the requests in flight, whatever was cached,    *)
(* renewed or under way at that moment (refresh.rs, `mint` and `resolve`). *)
THEOREM TakesEffectHolds == Spec => []TakesEffect
<1>1. IInv => TakesEffect
  BY InvariantSays
<1> QED
  BY <1>1, IInvHolds, PTL

(* A logout that nothing overlapped and that the layer did not renew on    *)
(* its way in is final: no reply, renewal or late answer brings its        *)
(* session back, and the assertion is gone where the cache answered        *)
(* (login.rs, `logout`; extractor.rs, the layer).                          *)
THEOREM LogoutIsFinalHolds == Spec => []LogoutIsFinal
<1>1. IInv => LogoutIsFinal
  BY InvariantSays
<1> QED
  BY <1>1, IInvHolds, PTL

(* A token revoked before its request began is not admitted, across any    *)
(* restart and any other revocation, and none is refused for the key       *)
(* rauthy signs with (revoke.rs, bearer.rs, jwks.rs).                      *)
THEOREM RevokedIsRefusedHolds == Spec => []RevokedIsRefused
<1>1. IInv => RevokedIsRefused
  BY InvariantSays
<1> QED
  BY <1>1, IInvHolds, PTL
=============================================================================
