------------------------------ MODULE Session ------------------------------
(***************************************************************************)
(* Who a request is.  A browser holds a sealed session cookie (an envelope *)
(* with the session id and rauthy's refresh token); the cell holds a short *)
(* assertion under that id in its memory-resident cache and asks rauthy    *)
(* again when it is gone.  A client that is no browser presents an access  *)
(* token, which the resource server checks against rauthy's keys and the   *)
(* cell's durable revocation rows.                                         *)
(*                                                                         *)
(* Requests run interleaved: every await of a handler (a cache call, a     *)
(* call to rauthy, a query of the store) is a step of its own, and a reply *)
(* reaches the browser in a step of its own, so replies overtake each      *)
(* other.  rauthy (what it issues, rotates and ends) is external.  There   *)
(* is one person; what rauthy says of them is one role, held or not.       *)
(***************************************************************************)
EXTENDS Integers, FiniteSets, SequencesExt

CONSTANTS
  Slots,         \* requests in flight at once
  MaxTime,       \* bound: the clock
  Flight,        \* assumption: no request lives longer than this
  AccessTtl,     \* access_ttl, the ceiling of an assertion's life
  LoginTtl,      \* login_ttl
  ExpiresIn,     \* the lifetimes rauthy puts on a grant
  Lifetime,      \* the resource server's L, its ceiling on exp - iat
  Lifetimes,     \* the lifetimes rauthy puts on an access token
  Leeway,        \* LEEWAY_SECONDS
  KeyInterval,   \* how long a key set is current
  RateLimit,     \* bearer requests admitted in one window
  MaxLogins,     \* bound: logins the browser begins
  MaxGrants,     \* bound: refresh tokens of one session
  MaxKids,       \* bound: signing keys
  Scenes         \* bounds of one behaviour, see `scene`

ASSUME SessionAssumption ==
  /\ {MaxTime, AccessTtl, LoginTtl, Lifetime, Leeway, KeyInterval, RateLimit,
      MaxLogins, MaxKids} \subseteq Nat
  /\ Flight \in Nat \ {0} /\ MaxGrants \in Nat \ {0}
  /\ Scenes \subseteq [time : 0..MaxTime, logins : 0..MaxLogins, roles : 0..1,
                       tokens : Nat, kids : 1..MaxKids, faults : Nat, revokes : Nat]
  /\ ExpiresIn \subseteq Nat /\ Lifetimes \subseteq Nat

Never == MaxTime + 1
Sids == 1..MaxLogins               \* a login makes one session id
Nobody == "nobody"                 \* no principal
Bare == "bare"                     \* the principal without the role
Holder == "holder"                 \* the principal with the role
Unheld == [as |-> Nobody, expires |-> -1]
NoCookie == [sid |-> 0, token |-> 0]
Foreign == [sid |-> -1, token |-> 0]     \* a cookie this cell did not seal
NoLogin == [login |-> 0, issued |-> 0]
Idle == [kind |-> "none", pc |-> "idle"]

VARIABLES
  scene,      \* what this behaviour may do: time, logins, roles lost, access tokens,
              \* signing keys, revocations, and faults (calls and replies lost,
              \* cookies rewritten, restarts)
  now,        \* the clock
  faults,     \* faults so far
  \* rauthy
  lost,       \* when the person lost the role, Never while it is held
  grants,     \* per session: the refresh token issued last, and whether it is live
  codes,      \* authorization codes approved and not yet exchanged
  signing,    \* the key rauthy signs with, the only one it publishes
  tokens,     \* access tokens issued: a sequence, the index is the jti
  \* the cell
  cache,      \* the assertion under each session id
  keys,       \* the cached key sets of jwks.rs
  counted,    \* bearer requests counted in the current window
  rows,       \* the durable revocations: jti set, subject instant, floor
  \* the browser
  jar,        \* its session cookie and its login cookie
  logins,     \* logins begun
  reqs,       \* the requests in flight
  revokes,    \* revocations asked for
  \* history, read by the properties only
  spoiled,    \* sessions whose cookie rauthy or the network spent
  logouts,    \* how a logout nothing overlapped left each session, or that none did
  silenced,   \* sessions whose grants an operator ended,
  ended,      \* and when
  retired     \* when rauthy stopped publishing each key

rauthy == <<lost, grants, codes, signing, tokens>>
cell == <<cache, keys, counted, rows>>
history == <<spoiled, logouts, silenced, ended, retired>>
vars == <<scene, now, faults, lost, grants, codes, signing, tokens, cache, keys,
          counted, rows, jar, logins, reqs, revokes, spoiled, logouts, silenced, ended, retired>>

Latest(a, b) == IF a > b THEN a ELSE b
Routes == {"page", "login", "callback", "logout"}    \* what a browser asks for
Replies == {"handle", "begun", "welcome", "refuse", "leave", "clear"}
InFlight(sid) == {r \in Slots : reqs[r].kind \in Routes /\ reqs[r].env.sid = sid}
Is(r, kind, pc) == reqs[r].kind = kind /\ reqs[r].pc = pc
Becomes(r, q) == reqs' = [reqs EXCEPT ![r] = q]
Go(r, pc) == reqs' = [reqs EXCEPT ![r].pc = pc]
Done(r) == reqs' = [reqs EXCEPT ![r] = Idle]

Init ==
  /\ scene \in Scenes
  /\ now = 0 /\ faults = 0
  /\ lost = Never
  /\ grants = [s \in Sids |-> [last |-> 0, live |-> FALSE]]
  /\ codes = {} /\ signing = 1 /\ tokens = <<>>
  /\ cache = [s \in Sids |-> Unheld]
  /\ keys = [current |-> {1}, previous |-> {}, refreshed |-> 0]
  /\ counted = 0
  /\ rows = [jti |-> {}, sub |-> -1, floor |-> -1]
  /\ jar = [session |-> NoCookie, login |-> NoLogin]
  /\ logins = 0 /\ revokes = 0
  /\ reqs = [r \in Slots |-> Idle]
  /\ spoiled = {} /\ silenced = {} /\ ended = -1
  /\ logouts = [s \in Sids |-> "open"]
  /\ retired = [k \in 1..MaxKids |-> Never]

-----------------------------------------------------------------------------
\* The back channel to rauthy.

\* A call that does not come back: rauthy was unreachable, or it acted and
\* the answer was lost.  Either is Upstream, a failure of the cell.
Fault == faults < scene.faults /\ faults' = faults + 1
NoFault == UNCHANGED faults

\* rauthy's token endpoint for a refresh grant: only the token issued last is
\* live, and the grant rotates it, or answers without one and leaves it.
Accepts(sid, token) == grants[sid].live /\ grants[sid].last = token
Rotations(sid, token) ==
  {token} \cup IF token < MaxGrants THEN {token + 1} ELSE {}

\* What makes a cookie's refresh token spent through no fault of this code:
\* another request of the session is in flight while this one rotates it.
Crowded(r, sid) == InFlight(sid) \ {r} # {}
Spoil(sid) == spoiled' = spoiled \cup ({sid} \cap Sids)

-----------------------------------------------------------------------------
\* The layer `with_sessions` puts around every route a browser asks for, those
\* under /session included: `resolve`, and `renewed` when the assertion is gone.

\* The checks of `establish` before it calls anyone: the cookie is there, is
\* not too old, and is the login whose state rauthy echoed.
Matches(cookie, echoed) ==
  /\ cookie # NoLogin
  /\ now - cookie.issued <= LoginTtl
  /\ cookie.login = echoed

\* The request reaches its handler: `LoginState::fresh`, the checks of
\* `establish`, or the envelope `logout` opens again, the one presented.
Entered(q) ==
  CASE q.kind = "page" -> [q EXCEPT !.pc = "handle"]
    [] q.kind = "login" -> [q EXCEPT !.pc = "begun",
                                     !.login = [login |-> q.code, issued |-> now]]
    [] q.kind = "callback" ->
         [q EXCEPT !.pc = IF Matches(q.login, q.code) THEN "exchange" ELSE "refuse"]
    [] q.kind = "logout" -> [q EXCEPT !.pc = "revoke"]

\* A request of the session overlaps the logouts of it in flight.
Overlapped(sid) ==
  [q \in Slots |-> IF reqs[q].kind = "logout" /\ reqs[q].env.sid = sid
                   THEN [reqs[q] EXCEPT !.alone = FALSE] ELSE reqs[q]]

\* A request as the browser sends it, with the cookies of its jar.
Sent(kind, code) ==
  [kind |-> kind, pc |-> "load", from |-> now, env |-> jar.session, code |-> code,
   login |-> IF kind = "callback" THEN jar.login ELSE NoLogin, as |-> Nobody, token |-> 0,
   bought |-> 0, fresh |-> NoCookie, dropped |-> FALSE,
   alone |-> kind = "logout" /\ InFlight(jar.session.sid) = {}]

\* `resolve`: without a cookie the handler runs, one that does not open is
\* refused and cleared, and one that does is looked up.
Arrives(q) ==
  CASE q.env = NoCookie -> Entered(q)
    [] q.env = Foreign -> [q EXCEPT !.pc = "clear"]
    [] OTHER -> q

Start(r, kind, code) ==
  /\ reqs[r] = Idle
  /\ reqs' = [Overlapped(jar.session.sid) EXCEPT ![r] = Arrives(Sent(kind, code))]
  /\ UNCHANGED <<now, faults, lost, grants, signing, tokens, cell, jar, revokes, history>>

StartPage(r) ==
  /\ jar.session # NoCookie
  /\ Start(r, "page", 0)
  /\ UNCHANGED <<codes, logins>>

\* `GET /session/login` begins the next login, ...
StartLogin(r) ==
  /\ logins < scene.logins
  /\ logins' = logins + 1
  /\ Start(r, "login", logins + 1)
  /\ UNCHANGED codes

\* ... and the code rauthy gives for it comes back once.
StartCallback(r) ==
  \E code \in codes :
    /\ codes' = codes \ {code}
    /\ Start(r, "callback", code)
    /\ UNCHANGED logins

StartLogout(r) ==
  /\ jar.session # NoCookie
  /\ Start(r, "logout", 0)
  /\ UNCHANGED <<codes, logins>>

\* `load_assertion`: current, or absent whatever the reason; a cache that
\* cannot answer is an error, and nothing is cleared.
\* Mutant of Current: an expired assertion still answers.
CurrentIfPresent(sid) == cache[sid] # Unheld
Current(sid) == cache[sid].expires > now

Load(r) ==
  /\ reqs[r].kind \in Routes /\ reqs[r].pc = "load"
  /\ LET sid == reqs[r].env.sid
     IN \/ /\ NoFault
           /\ Becomes(r, IF Current(sid) THEN Entered([reqs[r] EXCEPT !.as = cache[sid].as])
                         ELSE [reqs[r] EXCEPT !.pc = "grant"])
        \/ Fault /\ Done(r)
  /\ UNCHANGED <<now, rauthy, cell, jar, logins, revokes, history>>

\* `renew`, the grant: refused ends the session, unreachable does not.
Grant(r) ==
  /\ reqs[r].kind \in Routes /\ reqs[r].pc = "grant"
  /\ LET sid == reqs[r].env.sid
         token == reqs[r].env.token
     IN \/ /\ Accepts(sid, token) /\ NoFault
           /\ \E next \in Rotations(sid, token) :
                /\ grants' = [grants EXCEPT ![sid].last = next]
                /\ Becomes(r, [reqs[r] EXCEPT !.token = next, !.pc = "userinfo"])
                /\ IF next # token /\ Crowded(r, sid) THEN Spoil(sid) ELSE UNCHANGED spoiled
        \/ /\ ~Accepts(sid, token) /\ NoFault
           /\ Becomes(r, [reqs[r] EXCEPT !.pc = "drop"])
           /\ UNCHANGED <<grants, spoiled>>
        \/ /\ Fault                                   \* Upstream
           /\ Done(r)
           /\ \/ UNCHANGED <<grants, spoiled>>
              \/ /\ Accepts(sid, token) /\ token < MaxGrants
                 /\ grants' = [grants EXCEPT ![sid].last = token + 1]
                 /\ Spoil(sid)
  /\ UNCHANGED <<now, lost, codes, signing, tokens, cell, jar, logins, revokes, logouts,
                 silenced, ended, retired>>

\* `userinfo`: the claims as rauthy has them at this moment.  rauthy refuses
\* once it ended the grant.
Claimed == IF lost = Never THEN Holder ELSE Bare

Userinfo(r) ==
  /\ reqs[r].kind \in Routes /\ reqs[r].pc = "userinfo"
  /\ LET sid == reqs[r].env.sid
     IN \/ /\ NoFault /\ UNCHANGED spoiled
           /\ Becomes(r, [reqs[r] EXCEPT !.as = Claimed, !.pc = "mint"])
        \/ /\ NoFault /\ ~grants[sid].live /\ UNCHANGED spoiled
           /\ Becomes(r, [reqs[r] EXCEPT !.pc = "drop"])
        \/ Fault /\ Spoil(sid) /\ Done(r)
  /\ UNCHANGED <<now, rauthy, cell, jar, logins, revokes, logouts, silenced, ended, retired>>

\* `mint`: the assertion is cached, for no longer than the ceiling.
\* Mutant of Expiry: the lifetime rauthy answered, uncapped.
ExpiryAsTold(ttl) == now + ttl
Expiry(ttl) == now + IF ttl < AccessTtl THEN ttl ELSE AccessTtl

Mint(sid, as) ==
  \E ttl \in ExpiresIn : cache' = [cache EXCEPT ![sid] = [as |-> as, expires |-> Expiry(ttl)]]

\* `renew`, the mint: the assertion goes under the same session id, the
\* envelope is rotated onto the token the grant answered with, and the handler
\* runs.
\* Mutant of RotatedOnto: the envelope keeps its refresh token.
Unrotated(env, token) == env
RotatedOnto(env, token) == [env EXCEPT !.token = token]

Renewed(r) ==
  /\ reqs[r].kind \in Routes /\ reqs[r].pc = "mint"
  /\ \/ /\ NoFault /\ UNCHANGED spoiled
        /\ Mint(reqs[r].env.sid, reqs[r].as)
        /\ Becomes(r, Entered([reqs[r] EXCEPT
                                 !.fresh = RotatedOnto(reqs[r].env, reqs[r].token)]))
     \/ /\ Fault /\ Spoil(reqs[r].env.sid) /\ Done(r)
        /\ UNCHANGED cache
  /\ UNCHANGED <<now, rauthy, keys, counted, rows, jar, logins, revokes, logouts,
                 silenced, ended, retired>>

\* A session rauthy refused is over: its assertion goes, or stays if the cache
\* does not answer, and then its cookies.
DropAssertion(r) ==
  /\ reqs[r].kind \in Routes /\ reqs[r].pc = "drop"
  /\ \/ NoFault /\ cache' = [cache EXCEPT ![reqs[r].env.sid] = Unheld]
     \/ Fault /\ UNCHANGED cache
  /\ Becomes(r, [reqs[r] EXCEPT !.pc = "clear"])
  /\ UNCHANGED <<now, rauthy, keys, counted, rows, jar, logins, revokes, history>>

\* The cookies of a reply: what the handler sets, or the refusal's two
\* cleared ones, and after them the rotated envelope of a renewed request.
Handled(q) ==
  CASE q.pc = "handle" -> jar
    [] q.pc = "begun" -> [jar EXCEPT !.login = q.login]
    [] q.pc = "welcome" -> [session |-> [sid |-> q.code, token |-> q.bought], login |-> NoLogin]
    [] q.pc = "refuse" -> [jar EXCEPT !.login = NoLogin]
    [] q.pc \in {"leave", "clear"} -> [session |-> NoCookie, login |-> NoLogin]
Cookies(q) ==
  IF q.fresh = NoCookie THEN Handled(q) ELSE [Handled(q) EXCEPT !.session = q.fresh]

\* How a logout nothing overlapped left its session.
LeftAs(q) == IF q.fresh # NoCookie THEN "renewed" ELSE IF q.dropped THEN "dropped" ELSE "kept"

\* The handler ran, and its reply reaches the browser or is lost.  A login
\* that does reach it sends the browser to rauthy, for a code.
Reply(r) ==
  /\ reqs[r].kind \in Routes /\ reqs[r].pc \in Replies
  /\ LET q == reqs[r]
     IN \/ /\ NoFault /\ UNCHANGED spoiled
           /\ jar' = Cookies(q)
           /\ codes' = IF q.pc = "begun" THEN codes \cup {q.code} ELSE codes
           /\ logouts' = IF q.pc = "leave" /\ q.alone
                         THEN [logouts EXCEPT ![q.env.sid] = LeftAs(q)] ELSE logouts
        \/ /\ Fault /\ UNCHANGED <<jar, codes, logouts>>
           /\ IF q.fresh # NoCookie \/ q.pc = "clear" THEN Spoil(q.env.sid) ELSE UNCHANGED spoiled
  /\ Done(r)
  /\ UNCHANGED <<now, lost, grants, signing, tokens, cell, logins, revokes, silenced, ended, retired>>

\* Something rewrote the cookie in the browser.
Tamper ==
  /\ Fault
  /\ jar.session \notin {NoCookie, Foreign}
  /\ jar' = [jar EXCEPT !.session = Foreign]
  /\ UNCHANGED <<now, rauthy, cell, logins, reqs, revokes, history>>

-----------------------------------------------------------------------------
\* The callback's handler: establish.

\* The code exchange and `verify_id_token`: the code buys the session's first
\* refresh token.  A failure spends the code; an answer may carry no refresh
\* token, which is found out only after the assertion is cached.
Exchange(r) ==
  /\ Is(r, "callback", "exchange")
  /\ \/ /\ NoFault
        /\ \E refresh \in {0, 1} :
             /\ grants' = [grants EXCEPT ![reqs[r].code] = [last |-> refresh, live |-> refresh = 1]]
             /\ Becomes(r, [reqs[r] EXCEPT !.bought = refresh, !.pc = "claims"])
     \/ Fault /\ Becomes(r, [reqs[r] EXCEPT !.pc = "refuse"]) /\ UNCHANGED grants
  /\ UNCHANGED <<now, lost, codes, signing, tokens, cell, jar, logins, revokes, history>>

Claims(r) ==
  /\ Is(r, "callback", "claims")
  /\ \/ /\ NoFault
        /\ Becomes(r, [reqs[r] EXCEPT !.as = Claimed, !.pc = "establish"])
     \/ /\ IF grants[reqs[r].code].live THEN Fault ELSE NoFault
        /\ Becomes(r, [reqs[r] EXCEPT !.pc = "refuse"])
  /\ UNCHANGED <<now, rauthy, cell, jar, logins, revokes, history>>

\* `mint` for a login: `pinned` held, the assertion is cached, and only then
\* is a missing refresh token an error.
Establish(r) ==
  /\ Is(r, "callback", "establish")
  /\ \/ /\ NoFault
        /\ Mint(reqs[r].code, reqs[r].as)
        /\ Becomes(r, [reqs[r] EXCEPT !.pc = IF reqs[r].bought = 0 THEN "refuse" ELSE "welcome"])
     \/ Fault /\ Becomes(r, [reqs[r] EXCEPT !.pc = "refuse"]) /\ UNCHANGED cache
  /\ UNCHANGED <<now, rauthy, keys, counted, rows, jar, logins, revokes, history>>

-----------------------------------------------------------------------------
\* The logout's handler: revoke, drop, clear; the first two may fail and are
\* not retried, and both take the envelope the request presented, not the one
\* the layer has rotated it onto.

\* `revoke` at rauthy ends the session's grant if the token is the live one.
LogoutRevoke(r) ==
  /\ Is(r, "logout", "revoke")
  /\ LET sid == reqs[r].env.sid
     IN \/ /\ Accepts(sid, reqs[r].env.token) /\ (NoFault \/ Fault)
           /\ grants' = [grants EXCEPT ![sid].live = FALSE]
           /\ Spoil(sid)
        \/ /\ IF Accepts(sid, reqs[r].env.token) THEN Fault ELSE NoFault
           /\ UNCHANGED <<grants, spoiled>>
  /\ Becomes(r, [reqs[r] EXCEPT !.pc = "forget"])
  /\ UNCHANGED <<now, lost, codes, signing, tokens, cell, jar, logins, revokes, logouts,
                 silenced, ended, retired>>

\* Mutant of LogoutDrop: the assertion is left to expire.
LogoutKeeps(r) ==
  /\ Is(r, "logout", "forget") /\ NoFault
  /\ Becomes(r, [reqs[r] EXCEPT !.dropped = TRUE, !.pc = "leave"])
  /\ UNCHANGED <<now, rauthy, cell, jar, logins, revokes, history>>

LogoutDrop(r) ==
  /\ Is(r, "logout", "forget")
  /\ \/ /\ NoFault
        /\ cache' = [cache EXCEPT ![reqs[r].env.sid] = Unheld]
        /\ Becomes(r, [reqs[r] EXCEPT !.dropped = TRUE, !.pc = "leave"])
     \/ Fault /\ Becomes(r, [reqs[r] EXCEPT !.pc = "leave"]) /\ UNCHANGED cache
  /\ UNCHANGED <<now, rauthy, keys, counted, rows, jar, logins, revokes, history>>

-----------------------------------------------------------------------------
\* The resource server: an access token is validated, counted and admitted.

\* rauthy issues an access token, signed with the key it uses now.
IssueToken ==
  /\ Len(tokens) < scene.tokens
  /\ \E life \in Lifetimes :
       tokens' = Append(tokens, [iat |-> now, exp |-> now + life, kid |-> signing])
  /\ UNCHANGED <<now, faults, lost, grants, codes, signing, cell, jar, logins, reqs, revokes, history>>

\* A token the cell's revocations cover, by id, by person or by the floor.
Covered(jti) ==
  \/ jti \in rows.jti
  \/ tokens[jti].iat <= rows.sub
  \/ tokens[jti].iat <= rows.floor

\* A request with a token of rauthy's, or one naming a key nobody published.
StartBearer(r) ==
  /\ reqs[r] = Idle /\ scene.tokens > 0
  /\ \E jti \in 0..Len(tokens) :
       reqs' = [reqs EXCEPT ![r] =
         [kind |-> "bearer", pc |-> "key", from |-> now, jti |-> jti,
          barred |-> jti # 0 /\ Covered(jti)]]
  /\ UNCHANGED <<now, faults, rauthy, cell, jar, logins, revokes, history>>

\* `Jwks::key`.  A set past its interval is refreshed first; a key in neither
\* set buys one refresh.  A refresh moves the current set into the previous
\* slot, whatever that slot held, and starts the interval again.
KeyOf(jti) == IF jti = 0 THEN 0 ELSE tokens[jti].kid
Rotated(k) == [current |-> {signing}, previous |-> k.current, refreshed |-> now]
Stale(k) == now - k.refreshed >= KeyInterval
Holds(k, kid) ==
  \/ kid \in k.current
  \/ now < k.refreshed + KeyInterval /\ kid \in k.previous

\* `admit_lifetime`, on the clock read when the key is found.
AdmitLifetime(t) ==
  /\ t.exp >= t.iat
  /\ t.exp - t.iat <= Lifetime
  /\ t.iat <= now + Leeway
  /\ now < t.exp + Leeway

Verify(r) ==
  /\ Is(r, "bearer", "key")
  /\ LET jti == reqs[r].jti
         timed == IF Stale(keys) THEN Rotated(keys) ELSE keys
         sets == IF Holds(timed, KeyOf(jti)) THEN timed ELSE Rotated(timed)
     IN \/ /\ NoFault
           /\ keys' = sets
           /\ Go(r, IF ~Holds(sets, KeyOf(jti)) THEN "unkeyed"
                    ELSE IF AdmitLifetime(tokens[jti]) THEN "floor" ELSE "end")
        \/ /\ keys # sets /\ Fault                    \* the refresh failed: Upstream
           /\ UNCHANGED keys
           /\ Go(r, "end")
  /\ UNCHANGED <<now, rauthy, cache, counted, rows, jar, logins, revokes, history>>

\* The three reads of the durable rows, one query each.
CheckFloor(r) ==
  /\ Is(r, "bearer", "floor")
  /\ Go(r, IF tokens[reqs[r].jti].iat <= rows.floor THEN "end" ELSE "jti")
  /\ UNCHANGED <<now, faults, rauthy, cell, jar, logins, revokes, history>>

CheckJti(r) ==
  /\ Is(r, "bearer", "jti")
  /\ Go(r, IF reqs[r].jti \in rows.jti THEN "end" ELSE "subject")
  /\ UNCHANGED <<now, faults, rauthy, cell, jar, logins, revokes, history>>

SubjectDenied(iat) == iat <= rows.sub

CheckSubject(r) ==
  /\ Is(r, "bearer", "subject")
  /\ Go(r, IF SubjectDenied(tokens[reqs[r].jti].iat) THEN "end" ELSE "count")
  /\ UNCHANGED <<now, faults, rauthy, cell, jar, logins, revokes, history>>

\* `count`: the window's counter goes up, and past the ceiling answers 429.
Count(r) ==
  /\ Is(r, "bearer", "count")
  /\ counted' = Latest(counted, IF counted > RateLimit THEN counted ELSE counted + 1)
  /\ Go(r, IF counted' > RateLimit THEN "end" ELSE "admitted")
  /\ UNCHANGED <<now, faults, rauthy, cache, keys, rows, jar, logins, revokes, history>>

\* The handler under the bearer: any route, or the one that revokes the very
\* token the request presented.
BearerHandler(r) ==
  /\ Is(r, "bearer", "admitted")
  /\ \/ UNCHANGED <<rows, revokes>>
     \/ /\ revokes < scene.revokes /\ revokes' = revokes + 1
        /\ rows' = [rows EXCEPT !.jti = @ \cup {reqs[r].jti}]
  /\ Go(r, "end")
  /\ UNCHANGED <<now, faults, rauthy, cache, keys, counted, jar, logins, history>>

BearerReply(r) ==
  /\ reqs[r].kind = "bearer" /\ reqs[r].pc \in {"end", "unkeyed"}
  /\ Done(r)
  /\ UNCHANGED <<now, faults, rauthy, cell, jar, logins, revokes, history>>

-----------------------------------------------------------------------------
\* The operator's revocations.

\* `revoke_named` by jti: one row, kept at its first instant.
RevokeToken ==
  /\ revokes < scene.revokes /\ revokes' = revokes + 1
  /\ \E jti \in DOMAIN tokens : rows' = [rows EXCEPT !.jti = @ \cup {jti}]
  /\ UNCHANGED <<now, faults, rauthy, cache, keys, counted, jar, logins, reqs, history>>

\* `revoke_subject`: the clock is read, ...
RevokeSubject(r) ==
  /\ reqs[r] = Idle
  /\ revokes < scene.revokes /\ revokes' = revokes + 1
  /\ reqs' = [reqs EXCEPT ![r] = [kind |-> "operator", pc |-> "record", from |-> now]]
  /\ UNCHANGED <<now, faults, rauthy, cell, jar, logins, history>>

\* ... the row is written, whose instant only rises, ...
\* Mutant of Raised: the last writer's instant stands.
Overwritten(instant) == [rows EXCEPT !.sub = instant]
Raised(instant) == [rows EXCEPT !.sub = Latest(@, instant)]

RecordSubject(r) ==
  /\ Is(r, "operator", "record")
  /\ rows' = Raised(reqs[r].from)
  /\ Go(r, "end")
  /\ UNCHANGED <<now, faults, rauthy, cache, keys, counted, jar, logins, revokes, history>>

\* ... then the grants at rauthy, all of them; a failure is the operator's to
\* see, and the row stays.
Live == {s \in Sids : grants[s].live}

EndSessions(r) ==
  /\ Is(r, "operator", "end")
  /\ \/ /\ NoFault
        /\ grants' = [s \in Sids |-> [grants[s] EXCEPT !.live = FALSE]]
        /\ spoiled' = spoiled \cup Live
        /\ silenced' = silenced \cup Live
        /\ ended' = now
     \/ Fault /\ UNCHANGED <<grants, spoiled, silenced, ended, retired>>
  /\ Done(r)
  /\ UNCHANGED <<now, lost, codes, signing, tokens, cell, jar, logins, revokes, logouts, retired>>

-----------------------------------------------------------------------------
\* The world.

\* The clock ticks while no request is older than the assumption allows; the
\* rate window is one tick.
Tick ==
  /\ now < scene.time
  /\ \A r \in Slots : reqs[r] # Idle => now - reqs[r].from < Flight
  /\ now' = now + 1
  /\ counted' = 0
  /\ UNCHANGED <<faults, rauthy, cache, keys, rows, jar, logins, reqs, revokes, history>>

LoseRole ==
  /\ scene.roles = 1 /\ lost = Never /\ lost' = now
  /\ UNCHANGED <<now, faults, grants, codes, signing, tokens, cell, jar, logins, reqs, revokes, history>>

RotateKey ==
  /\ Len(tokens) > 0 /\ signing < scene.kids /\ signing' = signing + 1
  /\ retired' = [retired EXCEPT ![signing] = now]
  /\ UNCHANGED <<now, faults, lost, grants, codes, tokens, cell, jar, logins, reqs, revokes,
                 spoiled, logouts, silenced, ended>>

\* The cell restarts: requests and the cache group go, the rows stay, the key
\* set is fetched again.  A recovery run before it starts raises the floor.
Restart ==
  /\ Fault
  /\ reqs' = [r \in Slots |-> Idle]
  /\ cache' = [s \in Sids |-> Unheld]
  /\ counted' = 0
  /\ keys' = [current |-> {signing}, previous |-> {}, refreshed |-> now]
  /\ \/ UNCHANGED rows
     \/ rows' = [rows EXCEPT !.floor = Latest(@, now)]
  /\ spoiled' = spoiled \cup {s \in Sids : InFlight(s) # {}}
  /\ UNCHANGED <<now, rauthy, jar, logins, revokes, logouts, silenced, ended, retired>>

Next ==
  \/ Tamper \/ IssueToken \/ RevokeToken
  \/ Tick \/ LoseRole \/ RotateKey \/ Restart
  \/ \E r \in Slots :
       \/ StartPage(r) \/ StartLogin(r) \/ StartCallback(r) \/ StartLogout(r)
       \/ Load(r) \/ Grant(r) \/ Userinfo(r) \/ Renewed(r) \/ DropAssertion(r)
       \/ Exchange(r) \/ Claims(r) \/ Establish(r)
       \/ LogoutRevoke(r) \/ LogoutDrop(r) \/ Reply(r)
       \/ StartBearer(r) \/ Verify(r) \/ CheckFloor(r)
       \/ CheckJti(r) \/ CheckSubject(r) \/ Count(r) \/ BearerHandler(r) \/ BearerReply(r)
       \/ RevokeSubject(r) \/ RecordSubject(r) \/ EndSessions(r)

Spec == Init /\ [][Next /\ UNCHANGED scene]_vars

-----------------------------------------------------------------------------
Layer == {"load", "grant", "userinfo", "mint", "drop", "clear"}
Pcs == [page |-> Layer \cup {"handle"},
        login |-> Layer \cup {"begun"},
        callback |-> Layer \cup {"exchange", "claims", "establish", "welcome", "refuse"},
        logout |-> Layer \cup {"revoke", "forget", "leave"},
        bearer |-> {"key", "floor", "jti", "subject", "count", "admitted", "end", "unkeyed"},
        operator |-> {"record", "end"}]

\* The state's shape, and what the rotation keeps true of it: no assertion
\* outlives the ceiling, no cookie names a token rauthy did not issue.
TypeOK ==
  /\ now \in 0..MaxTime /\ faults \in 0..scene.faults /\ lost \in 0..Never
  /\ \A s \in Sids :
       /\ grants[s].last \in 0..MaxGrants /\ grants[s].live \in BOOLEAN
       /\ cache[s].expires <= now + AccessTtl
  /\ signing \in 1..MaxKids /\ keys.current \subseteq 1..signing
  /\ keys.previous \subseteq 1..signing /\ keys.refreshed \in 0..now
  /\ \A r \in Slots :
       reqs[r] # Idle => reqs[r].pc \in Pcs[reqs[r].kind] /\ now - reqs[r].from <= Flight
  /\ jar.session \in {NoCookie, Foreign}
       \/ jar.session.token \in 1..grants[jar.session.sid].last
  /\ rows.jti \subseteq DOMAIN tokens /\ rows.sub \in -1..now /\ rows.floor \in -1..now
  /\ spoiled \subseteq Sids

\* What rauthy took away is gone within one access lifetime, give or take the
\* requests in flight: no assertion and no handler still holds a role the
\* person lost, and no session whose grants an operator ended is still served.
TakesEffect ==
  /\ \A s \in Sids :
       /\ cache[s].as = Holder => cache[s].expires <= lost + Flight + AccessTtl
       /\ s \in silenced => cache[s].expires <= ended + Flight + AccessTtl
  /\ \A r \in Slots :
       Is(r, "page", "handle") =>
         /\ reqs[r].as = Holder => now < lost + 2 * Flight + AccessTtl
         /\ reqs[r].env.sid \in silenced =>
              now < ended + 2 * Flight + AccessTtl

\* While nothing but this code touched a session, the cookie in the browser
\* holds the refresh token rauthy would accept: rotation never strands it.
CookieIsLive ==
  jar.session.sid \in Sids \ spoiled /\ InFlight(jar.session.sid) = {} =>
    Accepts(jar.session.sid, jar.session.token)

(* Sessions and what rauthy holds of them agree (session.rs, refresh.rs).  *)
SessionSound == TypeOK /\ CookieIsLive

\* A logout that no other request of its session overlapped, and that the
\* layer did not renew on its way in, is final: neither a reply nor a renewal
\* brings the session back, and where the cache answered the assertion is gone.
LogoutIsFinal ==
  \A s \in Sids :
    /\ logouts[s] \in {"kept", "dropped"} => jar.session.sid # s
    /\ logouts[s] = "dropped" => cache[s] = Unheld

\* "The session ends here whatever rauthy says" (login.rs): a logout nothing
\* overlapped leaves no cookie of its session in the browser.
LogoutEnds == \A s \in Sids : logouts[s] # "open" => jar.session.sid # s

\* A login whose reply reaches the browser leaves it in the session it bought.
LoginLands ==
  [][\A r \in Slots :
       Is(r, "callback", "welcome") /\ reqs'[r] = Idle /\ jar' # jar =>
         jar'.session.sid = reqs[r].code]_vars

\* A token revoked before a request began, by id, by person or by the floor,
\* is never admitted, whatever restarted in between; and a token is refused
\* for its key only if rauthy no longer publishes it.
RevokedIsRefused ==
  \A r \in Slots :
    /\ Is(r, "bearer", "admitted") => ~reqs[r].barred
    /\ Is(r, "bearer", "unkeyed") => KeyOf(reqs[r].jti) # signing

\* "A key that rauthy has rotated away still verifies for one interval"
\* (jwks.rs): a token signed with it is not refused for its key before.
KeyIsKept ==
  \A r \in Slots :
    Is(r, "bearer", "unkeyed") /\ reqs[r].jti # 0 =>
      now >= retired[KeyOf(reqs[r].jti)] + KeyInterval
=============================================================================
