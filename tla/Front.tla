-------------------------------- MODULE Front --------------------------------
(***************************************************************************)
(* A request on its way through a serving cell: the layers of the composed *)
(* router (src/crates/rahi-cli/src/serve.rs, Assembly; rahi-edge; the      *)
(* bearer gate and the session layer of rahi-idp), the governed calls of   *)
(* its handler (rahi-kernel), and the queue its refusal is recorded        *)
(* through (Denials).                                                      *)
(*                                                                         *)
(* A scene is what was fixed before the first request: the manifest, the   *)
(* manifest the chain is committed to, the app's facades, how identity is  *)
(* composed, the ceilings, and the requests that may arrive.  A request is *)
(* named as its denial is: it is refused at most once, because a handler   *)
(* answers with the first error.  Whether a token or a session is good is  *)
(* an input here (Session models it).                                      *)
(***************************************************************************)
EXTENDS Denials, Gate

CONSTANTS
    Scenes       \* what is fixed beforehand, in a sequence

ASSUME ScenesAssumption ==
    \A i \in DOMAIN Scenes :
        LET c == Scenes[i]
        IN  /\ ManifestShaped(c.manifest)
            /\ c.mode \in {"local", "remote", "none"}
            /\ {c.hops, c.windows, c.limit, c.bearerLimit} \subseteq Nat
            /\ \A e \in c.groups \cup c.bearer : e # Absent /\ IsList(e.prefix)
            /\ \A g \in c.groups : g.limit \in Nat
            /\ \A g, h \in c.groups : g.prefix = h.prefix => g = h     \* RateLimits::group
            /\ DOMAIN c.requests \subseteq Denial
            /\ \A r \in DOMAIN c.requests :
                  LET s == c.requests[r]
                  IN  /\ IsList(s.path) /\ IsList(s.forged) /\ IsList(s.calls)
                      /\ \A call \in Elements(s.calls) : CallShaped(call, c.sites)

VARIABLES
    picked,      \* which scene it is
    cell,        \* the app: its source, its build, its boot
    slot,        \* the router arriving requests are given
    now,         \* the limiter's clock, in windows
    counts,      \* the store's counters, by key
    req,         \* where each request is
    performed    \* what governed operations touched

front == <<picked, cell, slot, now, counts, req, performed>>
allVars == <<vars, front>>

Router == {"probes", "bare", "whole"}
Answer == {"none", "served", "unauthorized", "ambiguous", "invalid", "csrf", "limited",
           "notFound", "failed", "refused", "cut"}
Stage == {"idle", "bearer", "validate", "count", "counting", "session", "edge", "csrf",
          "limit", "limiting", "role", "handler", "done"}

scene == Scenes[picked]
Script(r) == scene.requests[r]
Arriving == DOMAIN scene.requests

Fresh == [at |-> "idle", router |-> "probes", principal |-> "none", window |-> 0,
          call |-> 1, admitted |-> {}, answer |-> "none", why |-> "none"]

FrontInit ==
    /\ Init
    /\ picked \in DOMAIN Scenes
    /\ cell = "source"
    /\ slot = "probes"
    /\ now = 0
    /\ counts = [key \in {} |-> 0]
    /\ req = [r \in Denial |-> Fresh]
    /\ performed = {}

----------------------------------------------------------------------------
(* What the configuration says of a request.                               *)

(* The entry of the longest declared prefix, or Absent.                    *)
Longest(entries, path) ==
    LET fitting == {e \in entries : StartsWith(path, e.prefix)}
    IN  IF fitting = {} THEN Absent
        ELSE CHOOSE e \in fitting : \A f \in fitting : Len(f.prefix) <= Len(e.prefix)

(* BearerRoutes::covers.                                                   *)
Declared(path) == Longest(scene.bearer, path)

(* RateLimits::limit_for.                                                  *)
GroupOf(path) ==
    LET declared == Longest(scene.groups, path)
    IN  IF declared = Absent THEN [prefix |-> <<>>, limit |-> scene.limit] ELSE declared

UnderAuth(path) == StartsWith(path, <<"auth">>)
Probed(path) == path = <<"healthz">>
OnOperatorMount(path) == StartsWith(path, <<"ops">>)
RoleGated(path) == OnOperatorMount(path) \/ StartsWith(path, <<"admin">>)

(* both_credentials.                                                       *)
Both(s) == s.authorization # "none" /\ s.session # "none"

(* X-Forwarded-For as the declared proxies leave it: each appends the      *)
(* address it was reached from.                                            *)
Header(s) ==
    IF scene.hops = 0 THEN s.forged
    ELSE s.forged \o <<s.client>> \o [i \in 1 .. scene.hops - 1 |-> "proxy"]
Peer(s) == IF scene.hops = 0 THEN s.client ELSE "proxy"

(* Mutant of Identify: the entry the client wrote first is believed.       *)
IdentifyFirst(s) == IF scene.hops = 0 THEN Peer(s) ELSE Head(Header(s))

(* client_identity::identify.                                              *)
Identify(s) ==
    IF scene.hops = 0 \/ Len(Header(s)) < scene.hops THEN Peer(s)
    ELSE Header(s)[Len(Header(s)) - scene.hops + 1]

(* Mutant of Exempt: a declared route is enough.                           *)
ExemptRoute(s) == UnderAuth(s.path) \/ Declared(s.path) # Absent

(* Csrf::exempts, with the composer's predicate.                           *)
Exempt(s) ==
    \/ UnderAuth(s.path)
    \/ Declared(s.path) # Absent /\ s.authorization # "none" /\ ~Both(s)

----------------------------------------------------------------------------
(* Before the first request.                                               *)

Build ==
    /\ cell = "source"
    /\ cell' = IF Scans(scene.sites) /\ Verified(scene.manifest, scene.sites)
               THEN "built" ELSE "unbuilt"
    /\ UNCHANGED <<vars, picked, slot, now, counts, req, performed>>

(* Manifest::parse, Kernel::boot, the facades, and the router.             *)
Boot ==
    /\ cell = "built"
    /\ IF /\ Valid(scene.manifest)
          /\ scene.adopted = scene.manifest
          /\ Constructs(scene.manifest, scene.sites)
          /\ scene.classified
       THEN /\ cell' = "up"
            /\ slot' = CASE scene.mode = "local"  -> "whole"
                         [] scene.mode = "remote" -> "probes"
                         [] scene.mode = "none"   -> "bare"
       ELSE /\ cell' = "refused"
            /\ UNCHANGED slot
    /\ UNCHANGED <<vars, picked, now, counts, req, performed>>

(* The remote identity composes, and the router is replaced.               *)
Switch ==
    /\ cell = "up"
    /\ scene.mode = "remote"
    /\ slot = "probes"
    /\ stop \in {"serving", "draining"}
    /\ slot' = "whole"
    /\ UNCHANGED <<vars, picked, cell, now, counts, req, performed>>

Tick ==
    /\ cell = "up"
    /\ now < scene.windows
    /\ now' = now + 1
    /\ UNCHANGED <<vars, picked, cell, slot, counts, req, performed>>

----------------------------------------------------------------------------
(* Requests.                                                               *)

(* A request moves on; what its layers share is left alone.                *)
Pass(r, stage) == req' = [req EXCEPT ![r].at = stage]
Reply(r, answer) == req' = [req EXCEPT ![r] = [@ EXCEPT !.at = "done", !.answer = answer]]

(* A store or an issuer that answers nothing; always so once it is shut.   *)
MayFail == scene.faults \/ ~StoreUp

Local == UNCHANGED <<vars, picked, cell, slot, now, counts, performed>>

(* A layer refuses through the kernel: the refusal is queued.              *)
ReplyRefused(r, why) ==
    /\ Refuse(r)
    /\ req' = [req EXCEPT ![r] = [@ EXCEPT !.at = "done", !.answer = "refused", !.why = why]]
    /\ UNCHANGED <<picked, cell, slot, now, counts, performed>>

Arrive(r) ==
    /\ cell = "up"
    /\ stop = "serving"
    /\ r \in Arriving
    /\ req[r].at = "idle"
    /\ req' = [req EXCEPT ![r] = [@ EXCEPT !.at = IF slot = "whole" THEN "bearer" ELSE "edge",
                                           !.router = slot]]
    /\ Local

(* The bearer gate, up to the token.                                       *)
BearerGate(r) ==
    /\ req[r].at = "bearer"
    /\ LET s == Script(r)
           declared == Declared(s.path) # Absent
       IN  CASE UnderAuth(s.path)           -> Pass(r, "session")
             [] ~UnderAuth(s.path) /\ Both(s) -> Reply(r, "ambiguous")
             [] OTHER ->
                  CASE s.authorization = "none" -> Pass(r, "session")
                    [] s.authorization # "none" /\ ~declared -> Reply(r, "invalid")
                    [] s.authorization = "other" /\ declared -> Reply(r, "unauthorized")
                    [] OTHER -> Pass(r, "validate")
    /\ Local

(* The token is judged: bad, not to be judged now, a service's on a route  *)
(* for a person, or its holder's.                                          *)
Validate(r) ==
    /\ req[r].at = "validate"
    /\ LET s == Script(r)
       IN  \/ s.authorization = "stale" /\ Reply(r, "unauthorized") /\ Local
           \/ MayFail /\ Reply(r, "failed") /\ Local
           \/ /\ s.authorization = "service"
              /\ ~Declared(s.path).service
              /\ ReplyRefused(r, "service")
           \/ /\ \/ s.authorization = "person"
                 \/ s.authorization = "service" /\ Declared(s.path).service
              /\ req' = [req EXCEPT ![r] = [@ EXCEPT !.at = "count", !.principal = "token"]]
              /\ Local

(* Either limiter reads the clock.                                         *)
ReadClock(r) ==
    /\ req[r].at \in {"count", "limit"}
    /\ req' = [req EXCEPT ![r] = [@ EXCEPT
                  !.at = IF req[r].at = "count" THEN "counting" ELSE "limiting",
                  !.window = now]]
    /\ Local

(* The key a limiter counts under, and its ceiling.                        *)
KeyOf(r) ==
    LET s == Script(r)
    IN  IF req[r].at = "counting" THEN <<"bearer", <<>>, s.who, req[r].window>>
        ELSE <<"edge", GroupOf(s.path).prefix, Identify(s), req[r].window>>
Ceiling(r) == IF req[r].at = "counting" THEN scene.bearerLimit
                                        ELSE GroupOf(Script(r).path).limit
Spent(key) == IF key \in DOMAIN counts THEN counts[key] ELSE 0

(* Mutant of Admitted: one more than the ceiling.                          *)
AdmittedAtCeiling(count, limit) == count <= limit + 1

Admitted(count, limit) == count <= limit

(* counter_add, and the answer to what it returned.                        *)
CountAdd(r) ==
    /\ req[r].at \in {"counting", "limiting"}
    /\ \/ /\ MayFail
          /\ Reply(r, "failed")
          /\ UNCHANGED counts
       \/ LET key == KeyOf(r)
          IN  /\ StoreUp
              /\ counts' = [k \in DOMAIN counts \cup {key} |->
                               Spent(k) + IF k = key THEN 1 ELSE 0]
              /\ IF Admitted(Spent(key) + 1, Ceiling(r))
                 THEN req' = [req EXCEPT
                          ![r] = [@ EXCEPT
                               !.admitted = req[r].admitted \cup {key},
                               !.at = IF req[r].at = "counting" THEN "session"
                                      ELSE IF RoleGated(Script(r).path) THEN "role"
                                      ELSE "handler"]]
                 ELSE Reply(r, "limited")
    /\ UNCHANGED <<vars, picked, cell, slot, now, performed>>

(* The session layer.                                                      *)
SessionLayer(r) ==
    /\ req[r].at = "session"
    /\ LET s == Script(r)
       IN  \/ Both(s) /\ Reply(r, "ambiguous")
           \/ ~Both(s) /\ s.session = "none" /\ Pass(r, "edge")
           \/ ~Both(s) /\ s.session = "ended" /\ Reply(r, "unauthorized")
           \/ ~Both(s) /\ s.session # "none" /\ MayFail /\ Reply(r, "failed")
           \/ /\ ~Both(s)
              /\ s.session = "live"
              /\ req' = [req EXCEPT ![r] = [@ EXCEPT !.at = "edge", !.principal = "session"]]
    /\ Local

(* The edge's own routes answer outside the guards; until identity is      *)
(* composed there are no others.                                           *)
EnterEdge(r) ==
    /\ req[r].at = "edge"
    /\ IF Probed(Script(r).path) THEN Reply(r, "served")
       ELSE IF req[r].router = "probes" THEN Reply(r, "notFound")
       ELSE Pass(r, "csrf")
    /\ Local

CsrfCheck(r) ==
    /\ req[r].at = "csrf"
    /\ LET s == Script(r)
       IN  IF ~Exempt(s) /\ s.unsafe /\ ~s.pair THEN Reply(r, "csrf")
           ELSE Pass(r, IF OnOperatorMount(s.path) THEN "role" ELSE "limit")
    /\ Local

(* Mutant of RoleHeld: a principal is enough.                              *)
RoleHeldByAnyone(r) == req[r].principal # "none"

RoleHeld(r) == req[r].principal # "none" /\ Script(r).role

(* operator::enforce and extractor::enforce_role.                          *)
RoleGate(r) ==
    /\ req[r].at = "role"
    /\ \/ req[r].principal = "none" /\ Reply(r, "unauthorized") /\ Local
       \/ RoleHeld(r) /\ Pass(r, "handler") /\ Local
       \/ req[r].principal # "none" /\ ~RoleHeld(r) /\ ReplyRefused(r, "role")

----------------------------------------------------------------------------
(* The handler's governed calls, in order.                                 *)

(* What an operation touches once it runs.                                 *)
Touched(facade, call) ==
    [service |-> facade.service,
     kind    |-> IF call.method = "fenced" THEN "db.txn" ELSE call.method,
     on      |-> CASE call.method = "fenced" -> call.table
                   [] call.method = "http.egress" -> call.host
                   [] OTHER -> facade.resource,
     key     |-> IF call.method \in TableKind \cup {"http.egress", "secret.read", "notify.listen"}
                 THEN Absent ELSE call.key]

Finish(r) ==
    /\ req[r].at = "handler"
    /\ req[r].call > Len(Script(r).calls)
    /\ Reply(r, "served")
    /\ Local

(* Governed::call and its like: adjudicated, then run or recorded.         *)
Call(r) ==
    /\ req[r].at = "handler"
    /\ req[r].call <= Len(Script(r).calls)
    /\ LET call == Script(r).calls[req[r].call]
           facade == scene.sites[call.site]
           verdict == Verdict(scene.manifest, RequestOf(facade, call))
       IN  \/ ~Fits(facade, call) /\ Reply(r, "invalid") /\ Local
           \/ Fits(facade, call) /\ verdict # "allow" /\ ReplyRefused(r, verdict)
           \/ Fits(facade, call) /\ verdict = "allow" /\ MayFail /\ Reply(r, "failed") /\ Local
           \/ /\ Fits(facade, call)
              /\ verdict = "allow"
              /\ StoreUp
              /\ performed' = performed \cup {Touched(facade, call)}
              /\ req' = [req EXCEPT ![r].call = @ + 1]
              /\ UNCHANGED <<vars, picked, cell, slot, now, counts>>

----------------------------------------------------------------------------
(* The queue and the stop.                                                 *)

InFlight == {r \in Denial : req[r].at \notin {"idle", "done"}}

Queue ==
    /\ cell = "up"
    /\ \/ Appender
       \/ \E d \in Denial : LandsLate(d)
       \/ BeginDrain \/ Flush \/ DrainAbandons \/ ShutStore
       \/ InFlight = {} /\ DropKernel      \* a request holds a kernel
    /\ UNCHANGED front

(* The end of the runtime ends the requests still on it.                   *)
Ends ==
    /\ cell = "up"
    /\ EndRuntime
    /\ req' = [r \in Denial |-> IF r \in InFlight
                                THEN [req[r] EXCEPT !.at = "done", !.answer = "cut"]
                                ELSE req[r]]
    /\ UNCHANGED <<picked, cell, slot, now, counts, performed>>

Handle(r) ==
    \/ Arrive(r) \/ BearerGate(r) \/ Validate(r) \/ ReadClock(r) \/ CountAdd(r)
    \/ SessionLayer(r) \/ EnterEdge(r) \/ CsrfCheck(r) \/ RoleGate(r)
    \/ Finish(r) \/ Call(r)

FrontNext ==
    \/ Build \/ Boot \/ Switch \/ Tick
    \/ \E r \in Denial : Handle(r)
    \/ Queue
    \/ Ends

FrontSpec == FrontInit /\ [][FrontNext]_allVars /\ Fairness

----------------------------------------------------------------------------
Arrived == {r \in Denial : req[r].at # "idle"}

FrontTypeOK ==
    /\ picked \in DOMAIN Scenes
    /\ cell \in {"source", "built", "unbuilt", "refused", "up"}
    /\ slot \in Router
    /\ now \in 0 .. scene.windows
    /\ \A key \in DOMAIN counts : counts[key] \in 1 .. Cardinality(Arrived)
    /\ \A r \in Denial :
           /\ req[r].at \in Stage
           /\ req[r].router \in Router
           /\ req[r].principal \in {"none", "session", "token"}
           /\ req[r].window \in 0 .. now
           /\ req[r].answer \in Answer
           /\ (req[r].answer = "refused") = (r \in answered)

(* Within the declared ceiling, read from the manifest alone.              *)
Permitted(m, t) ==
    \E i \in DOMAIN m.capabilities :
        LET cap == m.capabilities[i]
        IN  /\ \E j \in DOMAIN m.services[t.service] : m.services[t.service][j] = cap.id
            /\ cap.kind = t.kind
            /\ IF t.kind = "http.egress" /\ cap.resource[1] = "*"
               THEN \E sub \in 1 .. Len(t.on) :
                        t.on = SubSeq(t.on, 1, sub) \o Tail(cap.resource)
               ELSE t.on = cap.resource
            /\ cap.prefix # Absent =>
                   t.key # Absent /\ \E n \in 0 .. Len(t.key) : SubSeq(t.key, 1, n) = cap.prefix

(* Nothing a handler touched lies outside the ceiling the chain is         *)
(* committed to: not by another service's grant, by a lease whose writes   *)
(* nobody granted, or by a call that leaves out what a constraint reads    *)
(* (adjudicate.rs, facade.rs; specs/015 B-4, B-5).                         *)
CeilingKept == \A t \in performed : Permitted(scene.adopted, t)

(* A facade whose triple stands in the source is refused for its arguments *)
(* only: what the build verified, the gate grants (verify.rs; specs/015    *)
(* B-7).  A fenced write and an egress host are arguments.                 *)
VerifiedIsAdmitted ==
    \A r \in Denial : req[r].why \in {"unknown_service", "no_grant"} =>
        LET call == Script(r).calls[req[r].call]
            facade == scene.sites[call.site]
        IN  \/ call.method \in {"fenced", "http.egress"}
            \/ facade.named # [service |-> facade.service, kind |-> facade.kind,
                               resource |-> facade.resource]

(* The gate refuses what was not granted and nothing that the build had    *)
(* verified (adjudicate.rs, verify.rs).                                    *)
Adjudicated == FrontTypeOK /\ CeilingKept /\ VerifiedIsAdmitted

(* The request went past every layer of its route.                         *)
Reached(r) ==
    \/ req[r].at = "handler"
    \/ req[r].why \in {"no_grant", "constraint", "secrets"}
    \/ req[r].answer = "served" /\ ~Probed(Script(r).path)

(* A handler never acts for a confused deputy: a write under the session   *)
(* of a cookie proved the pair; a request with two credentials reaches no  *)
(* handler; a token acts on declared routes only, and a service's on its   *)
(* own; a gated route is reached by its role (serve.rs, Assembly::build;   *)
(* specs/025 B-10, specs/038 B-1).                                         *)
CredentialsKept ==
    \A r \in Arriving : Reached(r) =>
        LET s == Script(r)
        IN  /\ req[r].router # "probes"
            /\ req[r].principal = "session" =>
                   s.session = "live" /\ (s.unsafe /\ ~UnderAuth(s.path) => s.pair)
            /\ req[r].principal = "token" =>
                   /\ Declared(s.path) # Absent
                   /\ s.authorization \in {"person", "service"}
                   /\ s.authorization = "service" => Declared(s.path).service
            /\ req[r].router = "whole" => ~Both(s)
            /\ RoleGated(s.path) => req[r].principal # "none" /\ s.role

(* The requests a limiter let through, by whose they really are.           *)
Through(client, group, window) ==
    {r \in Arriving : /\ Script(r).client = client
                      /\ GroupOf(Script(r).path).prefix = group
                      /\ \E key \in req[r].admitted :
                            key[1] = "edge" /\ key[2] = group /\ key[4] = window}

(* However requests, the clock and each other's counting interleave, and   *)
(* whatever a client writes into the header, a client's requests of one    *)
(* window that pass the limiter are at most its group's ceiling, and only  *)
(* an operator's go around it (rate_limit.rs, enforce; client_identity.rs; *)
(* specs/020 B-5, specs/024 B-2).                                          *)
LimitHolds ==
    /\ \A r \in Arriving, window \in 0 .. now :
           LET group == GroupOf(Script(r).path)
           IN  Cardinality(Through(Script(r).client, group.prefix, window)) <= group.limit
    /\ \A r \in Arriving : Reached(r) /\ ~OnOperatorMount(Script(r).path) =>
           \E key \in req[r].admitted : key[1] = "edge"
==============================================================================
