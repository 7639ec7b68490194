------------------------------- MODULE MCFront -------------------------------
(* A small instance of Front for TLC.                                      *)
EXTENDS Front

MCDenial == 1 .. 3

----------------------------------------------------------------------------
Cap(id, kind, resource) ==
    [id |-> id, kind |-> kind, resource |-> resource, prefix |-> Absent, table |-> Absent,
     host |-> Absent]

Names == [tables |-> <<"docs", "audit">>, kv |-> <<"cache">>, counters |-> <<"hits">>,
          secrets |-> <<"smtp">>, egress |-> <<<<"*", "example">>>>]

Manifest ==
    [schemaIsOurs |-> TRUE, resources |-> Names, checks |-> <<"secrets">>,
     capabilities |-> <<Cap("read", "db.read", "docs"),
                        Cap("write", "db.txn", "docs"),
                        [Cap("mine", "kv.put", "cache") EXCEPT !.prefix = <<"mine">>],
                        [Cap("count", "counter.add", "hits") EXCEPT !.prefix = <<"mine">>],
                        Cap("lock", "lock.acquire", "rebuild"),
                        Cap("mail", "secret.read", "smtp"),
                        Cap("call", "http.egress", <<"*", "example">>),
                        Cap("tell", "notify.publish", "docs")>>,
     services |-> [web |-> <<"read", "mine", "lock", "call", "tell">>,
                   jobs |-> <<"write", "mail", "read">>]]

Triple(service, kind, resource) == [service |-> service, kind |-> kind, resource |-> resource]
Site(service, kind, resource) ==
    [service |-> service, kind |-> kind, resource |-> resource,
     named |-> Triple(service, kind, resource)]

Sites == <<Site("web", "db.read", "docs"), Site("web", "kv.put", "cache"),
           Site("web", "lock.acquire", "rebuild"),
           Site("web", "http.egress", <<"*", "example">>),
           Site("web", "notify.publish", "docs"), Site("jobs", "secret.read", "smtp")>>

Use(site, method) ==
    [site |-> site, method |-> method, key |-> <<"mine", "a">>, table |-> "docs",
     host |-> <<"api", "example">>, topic |-> "docs", payload |-> FALSE]

Read == Use(1, "db.read")
Put == Use(2, "kv.put")
PutOther == [Put EXCEPT !.key = <<"yours">>]
Lock == Use(3, "lock.acquire")
Fenced == Use(3, "fenced")
Egress == Use(4, "http.egress")
EgressBare == [Egress EXCEPT !.host = <<"example">>]
Publish == Use(5, "notify.publish")
PublishOther == [Publish EXCEPT !.topic = "audit"]
Misused == Use(1, "db.txn")
Telling == [Read EXCEPT !.payload = TRUE]
Secret == Use(6, "secret.read")

Get(path, calls) ==
    [path |-> path, authorization |-> "none", session |-> "none", who |-> "alice",
     role |-> FALSE, unsafe |-> FALSE, pair |-> FALSE, client |-> "c1", forged |-> <<>>,
     calls |-> calls]
Signed(q) == [q EXCEPT !.session = "live"]
Posted(q) == [q EXCEPT !.unsafe = TRUE]
Paired(q) == [q EXCEPT !.unsafe = TRUE, !.pair = TRUE]

Base ==
    [manifest |-> Manifest, adopted |-> Manifest, sites |-> Sites, classified |-> TRUE,
     mode |-> "none", bearer |-> {[prefix |-> <<"api">>, service |-> FALSE],
                                  [prefix |-> <<"api", "feed">>, service |-> TRUE]},
     groups |-> {[prefix |-> <<"api">>, limit |-> 1]}, limit |-> 3, bearerLimit |-> 2,
     hops |-> 0, windows |-> 0, faults |-> FALSE, requests |-> <<>>]

App == <<"app">>
Api == <<"api", "docs">>
Feed == <<"api", "feed">>

(* Three refusals at once, a queue of one.                                 *)
Flood == [Base EXCEPT !.requests = <<Get(App, <<PutOther>>), Get(App, <<Fenced>>),
                                     Get(App, <<EgressBare>>)>>]
Calls == LET lists == <<<<Read, Put, Lock, Fenced>>, <<Egress, Publish, Secret, PublishOther>>,
                        <<Put, Misused>>, <<Read, Telling>>>>
         IN  [i \in DOMAIN lists |-> [Base EXCEPT !.faults = TRUE,
                                                  !.requests = <<Get(App, lists[i])>>]]
Builds == <<[Base EXCEPT !.sites[1].named = Absent],
            [Base EXCEPT !.sites[1] = Site("web", "db.txn", "docs"),
                         !.requests = <<Get(App, <<Use(1, "db.txn")>>)>>],
            [Base EXCEPT !.sites[1].named = Triple("jobs", "db.txn", "docs"),
                         !.sites[1].kind = "db.txn",
                         !.requests = <<Get(App, <<Use(1, "db.txn")>>)>>],
            [Base EXCEPT !.manifest.capabilities[1].resource = "other"],
            [Base EXCEPT !.manifest.services.jobs = <<"write", "mail">>],
            [Base EXCEPT !.classified = FALSE],
            [Base EXCEPT !.manifest.capabilities[1].prefix = <<"mine">>,
                         !.adopted.capabilities[1].prefix = <<"mine">>,
                         !.requests = <<Get(App, <<Read>>)>>]>>

Admin == <<"admin">>
Ops == <<"ops">>
Auth == <<"auth">>
Reading(path) == Get(path, <<Read>>)
Headed(path, a) == [Posted(Reading(path)) EXCEPT !.authorization = a]
HeldRole(q) == [q EXCEPT !.role = TRUE]
Queries ==
    <<Posted(Signed(Reading(App))), Posted(Signed(Reading(Api))), Posted(Signed(Reading(Ops))),
      Paired(Signed(Reading(Api))), Paired(Signed(Reading(Admin))), Paired(Signed(Reading(Ops))),
      HeldRole(Paired(Signed(Reading(Admin)))), HeldRole(Paired(Signed(Reading(Ops)))),
      Headed(App, "person"), Headed(Api, "person"), Signed(Headed(Api, "person")),
      Signed(Headed(App, "person")), Signed(Headed(Auth, "person")),
      Headed(Api, "service"), Headed(Feed, "service"), Headed(Api, "stale"), Headed(Api, "other"),
      [Get(App, <<>>) EXCEPT !.session = "ended"], Get(<<"healthz">>, <<>>),
      Posted(Get(Auth, <<>>)), Get(Ops, <<>>)>>
Credentials ==
    [i \in DOMAIN Queries |-> [Base EXCEPT !.mode = "local", !.faults = TRUE,
                                           !.requests = <<Queries[i]>>]]

Remote == [Base EXCEPT !.mode = "remote",
                       !.requests = <<Get(<<"healthz">>, <<>>), Signed(Get(Api, <<Read>>))>>]
Crowd == [Base EXCEPT !.windows = 1, !.requests = [i \in 1 .. 3 |-> Get(Api, <<>>)]]
Tokens == [Base EXCEPT !.mode = "local", !.bearerLimit = 1, !.windows = 1,
                       !.requests = [i \in 1 .. 2 |-> Headed(Feed, "person")]]
Forged == [Base EXCEPT !.hops = 2,
                       !.requests = <<[Get(Api, <<>>) EXCEPT !.forged = <<"x">>],
                                      [Get(Api, <<>>) EXCEPT !.forged = <<"y", "x">>]>>]

MCScenes == <<Flood, Remote, Crowd, Tokens, Forged>> \o Calls \o Builds \o Credentials
==============================================================================
