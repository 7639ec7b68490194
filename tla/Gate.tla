-------------------------------- MODULE Gate --------------------------------
(***************************************************************************)
(* The manifest and the gate over it (src/crates/rahi-kernel/src): what a  *)
(* manifest must satisfy to be parsed, how a request is adjudicated, which *)
(* calls a facade lets through to the gate, and what the build-time scan   *)
(* verifies.  Everything here is a function of its arguments.              *)
(*                                                                         *)
(* A key is a sequence of pieces, so that one may begin with another; a    *)
(* host is the sequence of its labels, and "*" as a first label makes it a *)
(* pattern.  Every other name is a string.                                 *)
(***************************************************************************)
EXTENDS Naturals, Sequences, FiniteSets

CONSTANT Absent   \* a field the request or the grant does not have

Elements(s) == {s[i] : i \in 1 .. Len(s)}
IsList(s) == s \in Seq(Elements(s))
Distinct(s) == Cardinality(Elements(s)) = Len(s)
StartsWith(s, prefix) == Len(prefix) <= Len(s) /\ SubSeq(s, 1, Len(prefix)) = prefix

(* CapabilityKind::family.                                                 *)
TableKind == {"db.read", "db.write", "db.txn", "db.migrate"}
KvKind == {"kv.get", "kv.put", "kv.delete"}
CounterKind == {"counter.get", "counter.add"}
FreeKind == {"lock.acquire", "notify.publish", "notify.listen"}
Kind == TableKind \cup KvKind \cup CounterKind \cup FreeKind
            \cup {"secret.read", "http.egress"}

(* Resources::family, for a kind: a free kind has no list.                 *)
Listed(resources, kind) ==
    CASE kind \in TableKind     -> resources.tables
      [] kind \in KvKind        -> resources.kv
      [] kind \in CounterKind   -> resources.counters
      [] kind = "secret.read"   -> resources.secrets
      [] kind = "http.egress"   -> resources.egress

----------------------------------------------------------------------------
(* Manifest::validate.                                                     *)

ResourcesValid(m) == \A family \in DOMAIN m.resources : Distinct(m.resources[family])

CapabilitiesValid(m) ==
    /\ Distinct([i \in DOMAIN m.capabilities |-> m.capabilities[i].id])
    /\ \A cap \in Elements(m.capabilities) :
           /\ cap.kind \notin FreeKind => cap.resource \in Elements(Listed(m.resources, cap.kind))
           /\ cap.table = Absent \/ cap.table \in Elements(m.resources.tables)

ServicesValid(m) ==
    \A service \in DOMAIN m.services :
        /\ Distinct(m.services[service])
        /\ \A id \in Elements(m.services[service]) :
               \E cap \in Elements(m.capabilities) : cap.id = id

OptionalCheck == {"secrets"}

RosterValid(m) == Distinct(m.checks) /\ Elements(m.checks) \subseteq OptionalCheck

Valid(m) ==
    m.schemaIsOurs /\ ResourcesValid(m) /\ CapabilitiesValid(m) /\ ServicesValid(m)
        /\ RosterValid(m)

(* What any manifest is once its text is read: lists, of keys and of hosts *)
(* that have a label.                                                      *)
ManifestShaped(m) ==
    /\ IsList(m.capabilities)
    /\ \A cap \in Elements(m.capabilities) :
           /\ cap.prefix # Absent => IsList(cap.prefix)
           /\ cap.kind = "http.egress" => IsList(cap.resource) /\ cap.resource # <<>>
    /\ \A service \in DOMAIN m.services : IsList(m.services[service])

(* Manifest::granted: the service's own order.                             *)
Granted(m, service) ==
    [i \in DOMAIN m.services[service] |->
        CHOOSE cap \in Elements(m.capabilities) : cap.id = m.services[service][i]]

----------------------------------------------------------------------------
(* Capability::covers and Constraints::admits.                             *)

(* Mutant of MatchesHost: the bare domain is covered too.                  *)
MatchesBareHost(pattern, host) ==
    IF Head(pattern) = "*"
    THEN \E i \in 1 .. Len(host) : SubSeq(host, i, Len(host)) = Tail(pattern)
    ELSE pattern = host

MatchesHost(pattern, host) ==
    IF Head(pattern) = "*"
    THEN /\ Len(pattern) > 1
         /\ \E i \in 2 .. Len(host) : SubSeq(host, i, Len(host)) = Tail(pattern)
    ELSE pattern = host

Covers(cap, kind, resource) ==
    /\ cap.kind = kind
    /\ IF kind = "http.egress" THEN MatchesHost(cap.resource, resource)
                               ELSE cap.resource = resource

(* Mutant of Admits: a field the request does not have narrows nothing.    *)
AdmitsSilence(cap, q) ==
    /\ Absent \in {cap.prefix, q.key} \/ StartsWith(q.key, cap.prefix)
    /\ Absent \in {cap.table, q.table} \/ q.table = cap.table
    /\ Absent \in {cap.host, q.host} \/ MatchesHost(cap.host, q.host)

Admits(cap, q) ==
    /\ cap.prefix # Absent => q.key # Absent /\ StartsWith(q.key, cap.prefix)
    /\ cap.table # Absent => q.table = cap.table
    /\ cap.host # Absent => q.host # Absent /\ MatchesHost(cap.host, q.host)

(* GrantCheck::evaluate, then the roster.                                  *)
Verdict(m, q) ==
    IF q.service \notin DOMAIN m.services THEN "unknown_service"
    ELSE LET covering == {cap \in Elements(Granted(m, q.service)) :
                             Covers(cap, q.kind, q.resource)}
         IN  IF covering = {} THEN "no_grant"
             ELSE IF \A cap \in covering : ~Admits(cap, q) THEN "constraint"
             ELSE IF "secrets" \in Elements(m.checks) /\ q.secret THEN "secrets"
             ELSE "allow"

----------------------------------------------------------------------------
(* The build: verify_crate over the governed sites of the app's source.    *)
(* A site constructs a facade for a triple; what names it to the scan is   *)
(* its own literals, a marker near it (which may name another triple), or  *)
(* nothing.                                                                *)

(* scan_source.                                                            *)
Scans(sites) == \A i \in DOMAIN sites : sites[i].named # Absent

(* Mutant of Verified: a grant to any service will do.                     *)
VerifiedForAny(m, sites) ==
    \A i \in DOMAIN sites : \E cap \in Elements(m.capabilities) :
        Covers(cap, sites[i].named.kind, sites[i].named.resource)

(* verify_usage: Manifest::covers for each triple.                         *)
Verified(m, sites) ==
    \A i \in DOMAIN sites :
        LET used == sites[i].named
        IN  /\ used.service \in DOMAIN m.services
            /\ \E cap \in Elements(Granted(m, used.service)) :
                   Covers(cap, used.kind, used.resource)

----------------------------------------------------------------------------
(* The facades.  A call names the facade, the method and its arguments.    *)

(* Governed::new.                                                          *)
Constructs(m, sites) == \A i \in DOMAIN sites : sites[i].service \in DOMAIN m.services

(* A call is of one of the facades that were constructed.                  *)
CallShaped(call, sites) ==
    /\ call.site \in DOMAIN sites
    /\ call.key # Absent => IsList(call.key)
    /\ IsList(call.host)

(* Governed::expect; publish checks the envelope's kind before the gate.   *)
Fits(facade, call) ==
    /\ call.method = "fenced" \/ facade.kind = call.method
    /\ call.method = "notify.publish" => call.topic = facade.resource

(* The request a method builds; a payload is what the caller has the       *)
(* roster look at.                                                         *)
RequestOf(facade, call) ==
    LET asked == [service |-> facade.service, kind |-> facade.kind,
                  resource |-> facade.resource, key |-> Absent, table |-> Absent,
                  host |-> Absent, secret |-> call.payload]
    IN  CASE call.method \in TableKind -> [asked EXCEPT !.table = facade.resource]
          [] call.method \in KvKind \cup CounterKind \cup {"lock.acquire", "notify.publish"}
                 -> [asked EXCEPT !.key = call.key]
          [] call.method = "http.egress"
                 -> [asked EXCEPT !.resource = call.host, !.host = call.host]
          [] call.method = "fenced"
                 -> [asked EXCEPT !.kind = "db.txn", !.resource = call.table,
                                  !.table = call.table, !.key = call.key]
          [] OTHER -> asked
=============================================================================
