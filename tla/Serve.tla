------------------------------- MODULE Serve -------------------------------
(***************************************************************************)
(* One container's process: `serve` alone (src/crates/rahi-cli/src/        *)
(* serve.rs) or under `supervise` (src/crates/rahi-ops/src/supervise.rs),  *)
(* the managed services of service.rs, the Rauthy child, and the stop      *)
(* record stop.rs keeps across boots.                                      *)
(*                                                                         *)
(* `sup` is where the entry point is, `serve` where its serve is; the      *)
(* services, requests, streams, the denial writer and Rauthy run beside    *)
(* both.  Every bound (window, drains, join, graces) is a timer that may   *)
(* fire at any moment once it is armed, and does in the end.  A request or *)
(* a stream outlives the server future that is dropped: axum runs each     *)
(* connection as a task of its own.                                        *)
(***************************************************************************)
EXTENDS Naturals, FiniteSets

CONSTANTS
    Services,     \* the managed services the cell declares
    MaxBoots,     \* starts of the container
    MaxKills,     \* SIGKILLs, crashes and power losses
    MaxRequests   \* MaxRequests[b]: requests in flight, and denials owed, at
                  \* once in boot b; 0: no streams either

ASSUME BoundsAssumption ==
    /\ IsFiniteSet(Services)
    /\ MaxBoots \in Nat /\ MaxKills \in Nat /\ MaxRequests \in [1..MaxBoots -> Nat]

VARIABLES
    entry,     \* the entry point that runs
    sup,       \* where it is
    serve,     \* where its serve is
    seq,       \* <data>/boot.seq
    rec,       \* <data>/stop.json
    prev,      \* how this boot classified the previous stop, when it did
    past,      \* history: what happened to the last boot that was counted
    signal,    \* SIGTERM reached this process
    asked,     \* the supervisor told its serve to stop
    store,     \* the app node
    rauthy,    \* the child
    identity,  \* a remote cell's background composition
    server,    \* the listener
    reqs, streams, owed,
    svc,       \* each service
    cancel,    \* the stop was broadcast to the services
    timedOut,  \* the join bound aborted the stragglers
    until,     \* the future whose end stops the listener
    wake,      \* a service failure wakes it
    first,     \* a service failure was the first stop cause
    watched,   \* the watch's terminal failure was the stop cause
    result,    \* serve's own result
    observed,  \* the reasons serve observed
    reasons,   \* the reasons the record will carry
    failed,    \* an exit code of its own stands
    cut,       \* history: what this stop lost
    kills

record == <<seq, rec>>
world == <<store, rauthy, reqs, streams, owed>>
run == <<server, svc, cancel, timedOut, until, wake, first, watched, identity>>
judged == <<result, observed, reasons, failed, cut>>
vars == <<entry, sup, serve, record, prev, past, signal, asked, world, run, judged, kills>>

(* serve alone, and under the supervisor.                                  *)
Entries == {"serve", "supervise"}
Supervised == entry = "supervise"

Unready == {"health", "healthy", "client", "widen", "again"}
Sup == Unready \cup {"down", "begin", "mark", "start", "serving", "grace", "rauthy_gone",
        "rauthy_stop", "finish", "exit"}
ServeAt == {"none", "open", "compose", "declare", "bind", "run", "denials", "store", "done",
            "dropped"}

(* How a service ended, before it is joined; an error and a panic are both *)
(* "failed".                                                               *)
Ended == {"ok", "early", "failed", "aborted"}

Reason == {"store_timeout", "store_error", "stream_drain_overrun", "connection_drain_overrun",
           "denials_abandoned", "serve_grace_overrun", "rauthy_nonzero", "rauthy_killed",
           "storage_terminal", "serve_error", "service_exited", "service_failed",
           "service_join_timeout"}

Fresh == [boot |-> 0, received |-> FALSE, outcome |-> "none", code |-> "none"]
NoPast == [ended |-> "none", clean |-> TRUE, signalled |-> FALSE]

TypeOK ==
    /\ entry \in Entries \cup {"none"} /\ sup \in Sup /\ serve \in ServeAt
    /\ seq \in 0..MaxBoots
    /\ rec \in [boot : 0..MaxBoots, received : BOOLEAN,
                outcome : {"none", "confirmed", "unconfirmed"}, code : {"none", "zero", "infra", "own"}]
    /\ prev \in {"unread", "confirmed", "unconfirmed", "stopped_without_signal",
                 "incomplete_after_sigterm", "no_record"}
    /\ past \in [ended : {"none", "killed", "finished", "quit"}, clean : BOOLEAN,
                 signalled : BOOLEAN]
    /\ signal \in BOOLEAN /\ asked \in BOOLEAN
    /\ store \in {"shut", "open", "fault", "closed", "stuck"}
    /\ rauthy \in {"off", "up", "zero", "nonzero", "killed"}
    /\ identity \in {"off", "composing", "composed"}
    /\ server \in {"off", "up", "returned", "failed", "cut"}
    /\ streams \in 0..1
    /\ reqs \in Nat /\ (reqs > 0 => reqs <= MaxRequests[seq])
    /\ owed \in Nat /\ (owed > 0 => owed <= MaxRequests[seq])
    /\ svc \in [Services -> {"off", "running", "aborting", "joined"} \cup Ended]
    /\ cancel \in BOOLEAN /\ timedOut \in BOOLEAN
    /\ until \in {"wait", "drain", "window", "late", "done", "over"}
    /\ wake \in BOOLEAN /\ first \in BOOLEAN /\ watched \in BOOLEAN
    /\ result \in {"ok", "error"}
    /\ observed \subseteq Reason /\ reasons \subseteq Reason /\ failed \in BOOLEAN
    /\ cut \subseteq {"stream", "request", "service", "denial", "store", "rauthy"}
    /\ kills \in 0..MaxKills

(* A process that has not composed anything.                               *)
Idle ==
    /\ sup = "down" /\ serve = "none" /\ entry = "none" /\ prev = "unread"
    /\ signal = FALSE /\ asked = FALSE
    /\ store = "shut" /\ rauthy = "off" /\ reqs = 0 /\ streams = 0 /\ owed = 0
    /\ server = "off" /\ svc = [s \in Services |-> "off"] /\ cancel = FALSE
    /\ timedOut = FALSE /\ until = "wait" /\ wake = FALSE /\ first = FALSE
    /\ watched = FALSE /\ identity = "off"
    /\ result = "ok" /\ observed = {} /\ reasons = {} /\ failed = FALSE /\ cut = {}

Init ==
    /\ Idle
    /\ seq = 0 /\ rec = Fresh /\ past = NoPast /\ kills = 0

(* The process is gone: its tasks, its child and its node with it.         *)
Gone ==
    /\ sup' = "down" /\ serve' = "none" /\ entry' = "none" /\ prev' = "unread"
    /\ signal' = FALSE /\ asked' = FALSE
    /\ store' = "shut" /\ rauthy' = "off" /\ reqs' = 0 /\ streams' = 0 /\ owed' = 0
    /\ server' = "off" /\ svc' = [s \in Services |-> "off"] /\ cancel' = FALSE
    /\ timedOut' = FALSE /\ until' = "wait" /\ wake' = FALSE /\ first' = FALSE
    /\ watched' = FALSE /\ identity' = "off"
    /\ result' = "ok" /\ observed' = {} /\ reasons' = {} /\ failed' = FALSE /\ cut' = {}

-----------------------------------------------------------------------------
(* The stop record.                                                        *)

(* Mutant of Classify: any record stands for the previous boot.            *)
ClassifyAnyBoot ==
    IF rec.boot = 0 THEN "no_record"
    ELSE IF rec.outcome # "none" THEN rec.outcome
    ELSE IF rec.received THEN "incomplete_after_sigterm"
    ELSE "stopped_without_signal"

(* Mutant of Classify: the record's outcome is read without asking whether *)
(* it has one.                                                             *)
ClassifyOutcome == IF rec.boot # seq \/ seq = 0 THEN "no_record" ELSE rec.outcome

(* classify: what the boot sequence and the record say of the last boot.   *)
Classify ==
    IF rec.boot # seq \/ seq = 0 THEN "no_record"
    ELSE IF rec.outcome # "none" THEN rec.outcome
    ELSE IF rec.received THEN "incomplete_after_sigterm"
    ELSE "stopped_without_signal"

(* A container starts on the volume; the gate of Transition let it in.     *)
Boot(e) ==
    /\ sup = "down" /\ seq < MaxBoots
    /\ entry' = e /\ sup' = "begin"
    /\ UNCHANGED <<serve, record, prev, past, signal, asked, world, run, judged, kills>>

(* Recorder::begin, up to the boot sequence.                               *)
Begin ==
    /\ sup = "begin"
    /\ prev' = Classify
    /\ seq' = seq + 1
    /\ sup' = "mark"
    /\ UNCHANGED <<entry, serve, rec, past, signal, asked, world, run, judged, kills>>

(* Recorder::begin's flush: a record of this boot.                         *)
Mark ==
    /\ sup = "mark"
    /\ rec' = [Fresh EXCEPT !.boot = seq]
    /\ prev' = "unread" /\ past' = NoPast
    /\ IF Supervised
       THEN sup' = "start" /\ UNCHANGED serve
       ELSE sup' = "serving" /\ serve' = "open"
    /\ UNCHANGED <<entry, seq, signal, asked, world, run, judged, kills>>

(* SIGTERM.  `serve` arms its handler before anything else, `supervise`    *)
(* when it first polls its shutdown, beside the readiness wait; earlier it *)
(* ends the process, which is Kill.                                        *)
Sigterm ==
    /\ sup \notin {"down", "exit"} /\ ~signal
    /\ Supervised => sup \notin {"begin", "mark", "start"}
    /\ signal' = TRUE
    /\ UNCHANGED <<entry, sup, serve, record, prev, past, asked, world, run, judged, kills>>

(* The process is killed, at any point.                                    *)
Kill ==
    /\ sup # "down" /\ kills < MaxKills
    /\ kills' = kills + 1
    /\ past' = IF sup \in {"begin", "exit"} THEN past
               ELSE [ended |-> "killed", clean |-> FALSE, signalled |-> signal]
    /\ Gone
    /\ UNCHANGED record

-----------------------------------------------------------------------------
(* serve: boot, compose, listen.                                           *)

(* failed: an error of its own, the terminal one already named.            *)
FailsBefore(next) ==
    /\ result' = "error"
    /\ \E r \in {{}, {"storage_terminal"}} : observed' = r
    /\ serve' = next

(* boot_inner: the node opens and the floor a restore owes is raised, or   *)
(* it is shut again and the run fails.                                     *)
Open ==
    /\ serve = "open"
    /\ \/ store' = "open" /\ serve' = "compose" /\ UNCHANGED <<result, observed>>
       \/ FailsBefore("done") /\ store' \in {"shut", "closed", "stuck"}
    /\ UNCHANGED <<entry, sup, record, prev, past, signal, asked, rauthy, reqs, streams, owed,
                   run, reasons, failed, cut, kills>>

(* compose_parts: the sets, the chain, the kernel and the router.  Alone,  *)
(* serve may have a remote Rauthy and leave identity to a task, serving    *)
(* its probes meanwhile; without one it is as if the task had ended.       *)
Compose ==
    /\ serve = "compose"
    /\ \/ /\ serve' = "declare"
          /\ identity' = IF Supervised THEN "off" ELSE "composing"
          /\ UNCHANGED <<result, observed>>
       \/ FailsBefore("store") /\ UNCHANGED identity
    /\ UNCHANGED <<entry, sup, record, prev, past, signal, asked, world, server, svc, cancel,
                   timedOut, until, wake, first, watched, reasons, failed, cut, kills>>

(* The services are declared and validated, and the address bound; either  *)
(* may fail, before anything listens.                                      *)
Declare ==
    /\ serve = "declare"
    /\ \/ serve' = "bind" /\ UNCHANGED <<result, observed>>
       \/ FailsBefore("denials")
    /\ UNCHANGED <<entry, sup, record, prev, past, signal, asked, world, run, reasons, failed,
                   cut, kills>>

(* The listener is bound and every service is spawned, once.               *)
Listen ==
    /\ serve = "bind"
    /\ \/ /\ serve' = "run" /\ server' = "up"
          /\ svc' = [s \in Services |-> "running"]
          /\ UNCHANGED <<result, observed>>
       \/ FailsBefore("denials") /\ UNCHANGED <<server, svc>>
    /\ UNCHANGED <<entry, sup, record, prev, past, signal, asked, world, cancel, timedOut,
                   until, wake, first, watched, identity, reasons, failed, cut, kills>>

(* A remote cell's background composition succeeds: the full router takes  *)
(* the slot and readiness may say so.                                      *)
Composed ==
    /\ serve \in {"declare", "bind", "run"} /\ identity = "composing"
    /\ identity' = "composed"
    /\ UNCHANGED <<entry, sup, serve, record, prev, past, signal, asked, world, server, svc,
                   cancel, timedOut, until, wake, first, watched, judged, kills>>

-----------------------------------------------------------------------------
(* What runs beside the loop.                                              *)

(* The listener accepts until `until` ends it; a remote cell routes only   *)
(* its probes before its identity is mounted.                              *)
Accepting == server = "up" /\ until \in {"wait", "drain", "window", "late"} /\ identity # "composing"

RequestBegins ==
    /\ Accepting /\ reqs < MaxRequests[seq]
    /\ reqs' = reqs + 1
    /\ UNCHANGED <<entry, sup, serve, record, prev, past, signal, asked, store, rauthy,
                   streams, owed, run, judged, kills>>

(* The kernel's queue takes a denial until its drain ended; a later one    *)
(* has no writer left.                                                     *)
RequestEnds ==
    /\ reqs > 0
    /\ reqs' = reqs - 1
    /\ \/ UNCHANGED <<owed, cut>>
       \/ /\ serve \in {"run", "denials"} /\ owed < MaxRequests[seq]
          /\ owed' = owed + 1 /\ UNCHANGED cut
       \/ serve \notin {"run", "denials"} /\ cut' = cut \cup {"denial"} /\ UNCHANGED owed
    /\ UNCHANGED <<entry, sup, serve, record, prev, past, signal, asked, store, rauthy,
                   streams, run, result, observed, reasons, failed, kills>>

(* The hub attaches a stream whenever a request of it is routed.           *)
StreamOpens ==
    /\ Accepting /\ streams = 0 /\ MaxRequests[seq] > 0
    /\ streams' = 1
    /\ UNCHANGED <<entry, sup, serve, record, prev, past, signal, asked, store, rauthy, reqs,
                   owed, run, judged, kills>>

StreamCloses ==
    /\ streams = 1
    /\ streams' = 0
    /\ UNCHANGED <<entry, sup, serve, record, prev, past, signal, asked, store, rauthy, reqs,
                   owed, run, judged, kills>>

(* The kernel's writer ledgers one denial.                                 *)
Ledgered ==
    /\ owed > 0 /\ store = "open" /\ serve \in {"run", "denials"}
    /\ owed' = owed - 1
    /\ UNCHANGED <<entry, sup, serve, record, prev, past, signal, asked, store, rauthy, reqs,
                   streams, run, judged, kills>>

(* A service returns or panics; the broadcast is read as it returns.       *)
ServiceEnds(s) ==
    /\ svc[s] \in {"running", "aborting"}
    /\ \E how \in {IF cancel THEN "ok" ELSE "early", "failed"} :
          svc' = [svc EXCEPT ![s] = how]
    /\ UNCHANGED <<entry, sup, serve, record, prev, past, signal, asked, world, server, cancel,
                   timedOut, until, wake, first, watched, identity, judged, kills>>

(* The abort of a service lands at its next await.                         *)
AbortLands(s) ==
    /\ svc[s] = "aborting"
    /\ svc' = [svc EXCEPT ![s] = "aborted"]
    /\ UNCHANGED <<entry, sup, serve, record, prev, past, signal, asked, world, server, cancel,
                   timedOut, until, wake, first, watched, identity, judged, kills>>

(* The app node fails terminally.                                          *)
StoreFails ==
    /\ store = "open" /\ serve = "run"
    /\ store' = "fault"
    /\ UNCHANGED <<entry, sup, serve, record, prev, past, signal, asked, rauthy, reqs, streams,
                   owed, run, judged, kills>>

(* Rauthy exits, unasked or because it was asked to.                       *)
RauthyExits ==
    /\ rauthy = "up"
    /\ rauthy' \in {"zero", "nonzero"}
    /\ UNCHANGED <<entry, sup, serve, record, prev, past, signal, asked, store, reqs, streams,
                   owed, run, judged, kills>>

-----------------------------------------------------------------------------
(* serve: the stop.                                                        *)

(* Whether serve's `stop` resolved.                                        *)
Told == IF Supervised THEN asked ELSE signal

(* `until`: the first stop cause broadcasts, turns readiness away and      *)
(* starts the readiness window and the streams' drain.  Alone, serve's     *)
(* stop marks the record.                                                  *)
StopBegins ==
    /\ serve = "run" /\ until = "wait"
    /\ \/ /\ Told
          /\ rec' = IF Supervised THEN rec ELSE [rec EXCEPT !.received = TRUE]
          /\ UNCHANGED watched
       \/ store = "fault" /\ watched' = TRUE /\ UNCHANGED rec
       \/ wake /\ UNCHANGED <<watched, rec>>
    /\ until' = "drain" /\ cancel' = TRUE
    /\ UNCHANGED <<entry, sup, serve, seq, prev, past, signal, asked, world, server, svc,
                   timedOut, wake, first, identity, judged, kills>>

(* StreamHub::drain: the streams closed, or were closed at S.              *)
StreamsDrain ==
    /\ until = "drain" /\ serve \notin {"none", "dropped"}
    /\ until' = IF streams = 0 THEN "window" ELSE "late"
    /\ cut' = IF streams = 0 THEN cut ELSE cut \cup {"stream"}
    /\ streams' = 0
    /\ UNCHANGED <<entry, sup, serve, record, prev, past, signal, asked, store, rauthy, reqs,
                   owed, server, svc, cancel, timedOut, wake, first, watched, identity, result,
                   observed, reasons, failed, kills>>

(* The readiness window beside it is over too: the listener stops.         *)
WindowEnds ==
    /\ until \in {"window", "late"} /\ serve \notin {"none", "dropped"}
    /\ until' = IF until = "window" THEN "done" ELSE "over"
    /\ UNCHANGED <<entry, sup, serve, record, prev, past, signal, asked, world, server, svc,
                   cancel, timedOut, wake, first, watched, identity, judged, kills>>

(* The server returns once every connection closed.                        *)
ServerReturns ==
    /\ serve = "run" /\ server = "up" /\ until \in {"done", "over"} /\ reqs + streams = 0
    /\ server' = "returned"
    /\ UNCHANGED <<entry, sup, serve, record, prev, past, signal, asked, world, svc, cancel,
                   timedOut, until, wake, first, watched, identity, judged, kills>>

(* The listener fails: the services are told at once.                      *)
ServerFails ==
    /\ serve = "run" /\ server = "up"
    /\ server' = "failed" /\ cancel' = TRUE
    /\ UNCHANGED <<entry, sup, serve, record, prev, past, signal, asked, world, svc, timedOut,
                   until, wake, first, watched, identity, judged, kills>>

(* C is over: the server is dropped, its connections are not waited for.   *)
BudgetExpires ==
    /\ serve = "run" /\ server = "up" /\ until \in {"done", "over"} /\ reqs + streams > 0
    /\ server' = "cut"
    /\ observed' = observed \cup {"connection_drain_overrun"}
    /\ cut' = cut \cup {"request"}
    /\ UNCHANGED <<entry, sup, serve, record, prev, past, signal, asked, world, svc, cancel,
                   timedOut, until, wake, first, watched, identity, result, reasons, failed,
                   kills>>

(* Mutant of JoinReason: an early Ok(()) is a normal end.                  *)
JoinReasonOkIsFine(how) ==
    CASE how = "failed" -> {"service_failed"}
      [] OTHER -> {}

(* join_next: the reason a service's end is given.                         *)
JoinReason(how) ==
    CASE how = "early" -> {"service_exited"}
      [] how = "failed" -> {"service_failed"}
      [] OTHER -> {}

(* A service is joined; the first failure is a stop cause.                 *)
Join(s) ==
    /\ serve = "run" /\ svc[s] \in Ended
    /\ LET why == JoinReason(svc[s]) IN
       /\ observed' = observed \cup why
       /\ IF why # {} /\ ~cancel
          THEN cancel' = TRUE /\ first' = TRUE /\ wake' = TRUE
          ELSE UNCHANGED <<cancel, first, wake>>
    /\ cut' = IF svc[s] = "ok" THEN cut ELSE cut \cup {"service"}
    /\ svc' = [svc EXCEPT ![s] = "joined"]
    /\ UNCHANGED <<entry, sup, serve, record, prev, past, signal, asked, world, server,
                   timedOut, until, watched, identity, result, reasons, failed, kills>>

(* Mutant of JoinBoundArmed: J counts from the end of the drains.          *)
JoinBoundArmedDrained == until \in {"done", "over"}

(* The join bound J counts from the broadcast.                             *)
JoinBoundArmed == cancel

(* J is over: the stragglers are aborted.                                  *)
Deadline ==
    /\ serve = "run" /\ JoinBoundArmed /\ ~timedOut
    /\ \E s \in Services : svc[s] # "joined"
    /\ timedOut' = TRUE
    /\ svc' = [s \in Services |-> IF svc[s] = "running" THEN "aborting" ELSE svc[s]]
    /\ observed' = observed \cup (IF \E s \in Services : svc[s] = "running"
                                  THEN {"service_join_timeout"} ELSE {})
    /\ UNCHANGED <<entry, sup, serve, record, prev, past, signal, asked, world, server, cancel,
                   until, wake, first, watched, identity, result, reasons, failed, cut, kills>>

(* Mutant of LoopOver: the loop ends with the server.                      *)
LoopOverServer == server # "up"

(* The loop's condition, negated: the server is over and every service is  *)
(* joined.                                                                 *)
LoopOver == server # "up" /\ \A s \in Services : svc[s] = "joined"

(* The loop ends; what the streams' drain left is named, and the loop's    *)
(* own state is gone.                                                      *)
LoopEnds ==
    /\ serve = "run" /\ LoopOver
    /\ observed' = observed \cup (IF until = "over" THEN {"stream_drain_overrun"} ELSE {})
    /\ identity' = "off" /\ until' = "done" /\ timedOut' = FALSE /\ wake' = FALSE
    /\ serve' = "denials"
    /\ UNCHANGED <<entry, sup, record, prev, past, signal, asked, world, server, svc, cancel,
                   first, watched, result, reasons, failed, cut, kills>>

(* drain_denials: the queue is empty, or its bound expired.                *)
DrainDenials ==
    /\ serve = "denials"
    /\ observed' = observed \cup (IF owed = 0 THEN {} ELSE {"denials_abandoned"})
    /\ cut' = cut \cup (IF owed = 0 THEN {} ELSE {"denial"})
    /\ owed' = 0
    /\ serve' = "store"
    /\ UNCHANGED <<entry, sup, record, prev, past, signal, asked, store, rauthy, reqs, streams,
                   run, result, reasons, failed, kills>>

(* shut_store's reasons for how the node's shutdown ended.                 *)
Shutting(how) ==
    CASE how = "ok" -> {} [] how = "timeout" -> {"store_timeout"} [] OTHER -> {"store_error"}

(* shut_store, and the run's result: a service failure that came first is  *)
(* not replaced by a later listener failure.                               *)
ShutStore ==
    /\ serve = "store"
    /\ \E how \in IF store = "open" THEN {"ok", "timeout", "error"} ELSE {"timeout", "error"} :
          /\ store' = IF how = "ok" THEN "closed" ELSE "stuck"
          /\ LET failing == server = "failed"
                 masked == failing /\ first
             IN /\ result' = IF masked THEN "ok"
                             ELSE IF failing \/ watched THEN "error" ELSE result
                /\ observed' = observed \cup Shutting(how)
                     \cup (IF masked THEN {"serve_error"} ELSE {})
                     \cup (IF watched /\ (masked \/ ~failing) THEN {"storage_terminal"} ELSE {})
          /\ cut' = cut \cup (IF how = "ok" THEN {} ELSE {"store"})
    /\ serve' = "done"
    /\ UNCHANGED <<entry, sup, record, prev, past, signal, asked, rauthy, reqs, streams, owed,
                   run, reasons, failed, kills>>

-----------------------------------------------------------------------------
(* The entry point around it.                                              *)

(* Mutant of Named: serve's own error is not a reason of the stop.         *)
NamedObserved == observed

(* What the end of serve adds: its reasons, and its own error unless the   *)
(* terminal failure already names it.                                      *)
Named ==
    observed \cup (IF result = "error" /\ "storage_terminal" \notin observed
                   THEN {"serve_error"} ELSE {})

(* serve_gated: serve alone ends.                                          *)
ServeAlone ==
    /\ ~Supervised /\ sup = "serving" /\ serve = "done"
    /\ reasons' = Named /\ failed' = (result = "error")
    /\ sup' = "finish"
    /\ UNCHANGED <<entry, serve, record, prev, past, signal, asked, world, run, result,
                   observed, cut, kills>>

(* The keys, the manifest or Rauthy's environment refuse: the process ends *)
(* with its record as it is.                                               *)
Refuse ==
    /\ sup = "start"
    /\ past' = [ended |-> "quit", clean |-> TRUE, signalled |-> FALSE]
    /\ Gone
    /\ UNCHANGED <<record, kills>>

(* Rauthy is spawned, or cannot be.                                        *)
Spawn ==
    /\ sup = "start"
    /\ \/ rauthy' = "up" /\ sup' = "health" /\ UNCHANGED failed
       \/ sup' = "finish" /\ failed' = TRUE /\ UNCHANGED rauthy
    /\ UNCHANGED <<entry, serve, record, prev, past, signal, asked, store, reqs, streams, owed,
                   run, result, observed, reasons, cut, kills>>

(* Rauthy's exit, as its reasons.                                          *)
RauthyReason ==
    CASE rauthy = "nonzero" -> {"rauthy_nonzero"}
      [] rauthy = "killed" -> {"rauthy_killed"}
      [] OTHER -> {}

RauthyCut == IF rauthy \in {"nonzero", "killed"} THEN {"rauthy"} ELSE {}

(* Rauthy exits before it was healthy.                                     *)
GoneUnready ==
    /\ sup \in Unready /\ rauthy # "up"
    /\ reasons' = reasons \cup RauthyReason /\ cut' = cut \cup RauthyCut
    /\ failed' = (rauthy # "zero")
    /\ sup' = "finish"
    /\ UNCHANGED <<entry, serve, record, prev, past, signal, asked, world, run, result,
                   observed, kills>>

(* A step of the readiness wait succeeds, or Rauthy is stopped and the     *)
(* error's code stands.                                                    *)
ReadyStep(from, to) ==
    /\ sup = from
    /\ \/ sup' = to /\ serve' = (IF to = "serving" THEN "open" ELSE serve) /\ UNCHANGED failed
       \/ sup' = "rauthy_stop" /\ failed' = TRUE /\ UNCHANGED serve
    /\ UNCHANGED <<entry, record, prev, past, signal, asked, world, run, result, observed,
                   reasons, cut, kills>>

(* wait_healthy: Rauthy answers within its budget.                         *)
WaitHealthy == ReadyStep("health", "healthy")

(* ready_after_health: the restore marker is written; a backup admin that  *)
(* cannot be provisioned is only reported.                                 *)
ReadyAfterHealth == ReadyStep("healthy", "client")

(* custody_client: the client, its secret and the native clients.          *)
CustodyClient == ReadyStep("client", "serving")

(* Rauthy refuses the key: the backup admin widens it, and the custody     *)
(* runs once more.                                                         *)
CustodyRefused ==
    /\ sup = "client" /\ sup' = "widen"
    /\ UNCHANGED <<entry, serve, record, prev, past, signal, asked, world, run, judged, kills>>

ReapplyAccess == ReadyStep("widen", "again")

CustodyAgain == ReadyStep("again", "serving")

ShutdownUnready ==
    /\ sup \in Unready /\ signal
    /\ rec' = [rec EXCEPT !.received = TRUE]
    /\ sup' = "rauthy_stop"
    /\ UNCHANGED <<entry, serve, seq, prev, past, signal, asked, world, run, judged, kills>>

(* Rauthy exits: serve is told to stop and has its grace.                  *)
GoneServing ==
    /\ Supervised /\ sup = "serving" /\ rauthy # "up"
    /\ reasons' = reasons \cup RauthyReason /\ cut' = cut \cup RauthyCut
    /\ failed' = (rauthy # "zero")
    /\ asked' = TRUE
    /\ sup' = "rauthy_gone"
    /\ UNCHANGED <<entry, serve, record, prev, past, signal, world, run, result, observed,
                   kills>>

(* SIGTERM reaches the supervisor: serve first, Rauthy after it.           *)
Shutdown ==
    /\ Supervised /\ sup = "serving" /\ signal
    /\ rec' = [rec EXCEPT !.received = TRUE]
    /\ asked' = TRUE
    /\ sup' = "grace"
    /\ UNCHANGED <<entry, serve, seq, prev, past, signal, world, run, judged, kills>>

AfterServe == IF sup = "rauthy_gone" THEN "finish" ELSE "rauthy_stop"

(* absorb_serve, when serve ended.                                         *)
AbsorbServe ==
    /\ Supervised /\ sup \in {"serving", "grace", "rauthy_gone"} /\ serve = "done"
    /\ reasons' = reasons \cup Named
    /\ failed' = (failed \/ result = "error")
    /\ sup' = AfterServe
    /\ UNCHANGED <<entry, serve, record, prev, past, signal, asked, world, run, result,
                   observed, cut, kills>>

(* absorb_serve, when the serve grace elapsed: its future is polled no     *)
(* more.  What the tasks it spawned still do is not followed.              *)
GraceExpires ==
    /\ sup \in {"grace", "rauthy_gone"} /\ serve # "done"
    /\ reasons' = reasons \cup {"serve_grace_overrun"}
    /\ cut' = cut \cup {"store"}
    /\ serve' = "dropped"
    /\ reqs' = 0 /\ streams' = 0 /\ owed' = 0
    /\ server' = "off" /\ svc' = [s \in Services |-> "off"]
    /\ timedOut' = FALSE /\ until' = "wait" /\ wake' = FALSE /\ first' = FALSE
    /\ watched' = FALSE /\ identity' = "off" /\ observed' = {} /\ result' = "ok"
    /\ sup' = AfterServe
    /\ UNCHANGED <<entry, record, prev, past, signal, asked, store, rauthy, cancel, failed,
                   kills>>

(* stop_rauthy: SIGTERM, its grace, SIGKILL.                               *)
StopRauthy ==
    /\ sup = "rauthy_stop"
    /\ \E how \in IF rauthy = "up" THEN {"zero", "nonzero", "killed"} ELSE {rauthy} :
          /\ rauthy' = how
          /\ reasons' = reasons \cup (CASE how = "killed" -> {"rauthy_killed"}
                                        [] how = "nonzero" -> {"rauthy_nonzero"}
                                        [] OTHER -> {})
          /\ cut' = cut \cup (IF how = "zero" THEN {} ELSE {"rauthy"})
    /\ sup' = "finish"
    /\ UNCHANGED <<entry, serve, record, prev, past, signal, asked, store, reqs, streams, owed,
                   run, result, observed, failed, kills>>

(* Mutant of ExitCode: a stop that ran to its end leaves with 0.           *)
ExitCodeRan == IF failed THEN "own" ELSE "zero"

(* The exit status: an own code first, else what the reasons give.         *)
ExitCode == IF failed THEN "own" ELSE IF reasons = {} THEN "zero" ELSE "infra"

(* Recorder::finish.                                                       *)
Finish ==
    /\ sup = "finish"
    /\ rec' = [rec EXCEPT !.outcome = IF reasons = {} THEN "confirmed" ELSE "unconfirmed",
                          !.code = ExitCode]
    /\ past' = [ended |-> "finished", clean |-> cut = {}, signalled |-> signal]
    /\ sup' = "exit"
    /\ UNCHANGED <<entry, serve, seq, prev, signal, asked, world, run, judged, kills>>

Exit ==
    /\ sup = "exit"
    /\ Gone
    /\ UNCHANGED <<record, past, kills>>

-----------------------------------------------------------------------------
ServeStep ==
    \/ Open \/ Compose \/ Declare \/ Listen \/ StopBegins \/ StreamsDrain \/ WindowEnds
    \/ ServerReturns
    \/ BudgetExpires \/ Deadline \/ LoopEnds \/ DrainDenials \/ ShutStore
    \/ \E s \in Services : Join(s)

SupStep ==
    \/ Begin \/ Mark \/ ServeAlone \/ Spawn \/ GoneUnready \/ WaitHealthy \/ ReadyAfterHealth
    \/ CustodyClient \/ CustodyRefused \/ ReapplyAccess \/ CustodyAgain \/ ShutdownUnready
    \/ GoneServing \/ Shutdown \/ AbsorbServe \/ GraceExpires \/ StopRauthy \/ Finish \/ Exit

(* What nothing in the chassis decides.                                    *)
Environment ==
    \/ \E e \in Entries : Boot(e)
    \/ Sigterm \/ Kill \/ Refuse \/ RequestBegins \/ RequestEnds \/ StreamOpens \/ StreamCloses
    \/ Ledgered \/ StoreFails \/ RauthyExits \/ ServerFails \/ Composed
    \/ \E s \in Services : ServiceEnds(s)

Next ==
    \/ ServeStep \/ SupStep \/ Environment
    \/ \E s \in Services : AbortLands(s)

Spec == Init /\ [][Next]_vars

(* The runtime polls what is ready and the timers fire; an aborted service *)
(* reaches an await.  Nothing is assumed of clients, services or Rauthy.   *)
FairSpec ==
    /\ Spec
    /\ WF_vars(ServeStep)
    /\ WF_vars(SupStep)
    /\ \A s \in Services : WF_vars(AbortLands(s))

-----------------------------------------------------------------------------
(* Properties.                                                             *)

(* A record that says confirmed tells of a stop that lost nothing: no      *)
(* stream, request, service or denial was cut, the node shut down, Rauthy  *)
(* ended with 0.  Exit status 0 is left only with such a record.  And the  *)
(* next boot reads a finished outcome only of a boot that finished it, and *)
(* an unfinished one only of a boot that did not.  (stop.rs begin, finish, *)
(* classify; serve.rs serve_observed.)                                     *)
RecordIsTrue ==
    /\ past.ended = "finished" =>
          /\ rec.outcome = "confirmed" => past.clean
          /\ rec.code = "zero" => rec.outcome = "confirmed"
    /\ prev = "confirmed" => past.ended = "finished" /\ past.clean
    /\ prev = "unconfirmed" => past.ended = "finished"
    /\ prev = "incomplete_after_sigterm" => past.ended = "killed" /\ past.signalled
    /\ prev = "stopped_without_signal" => past.ended \in {"killed", "quit"}

(* The two records a volume keeps of its boots say what happened           *)
(* (stop.rs).                                                              *)
ServeSound == TypeOK /\ RecordIsTrue

(* The phases of the stop keep their order whatever came first: the denial *)
(* queue drains and the node is shut only when every service is joined and *)
(* the server is over, with requests left behind only when that is named;  *)
(* Rauthy is stopped only when serve is over or its overrun is named.      *)
(* (serve_observed, supervise_observed.)                                   *)
StopOrder ==
    /\ serve \in {"denials", "store", "done"} =>
          /\ \A s \in Services : svc[s] \in {"off", "joined"}
          /\ server # "up"
          /\ reqs + streams > 0 =>
                server = "failed" \/ "connection_drain_overrun" \in observed
    /\ sup = "rauthy_stop" =>
          /\ serve \in {"none", "done", "dropped"}
          /\ serve = "dropped" => "serve_grace_overrun" \in reasons
    /\ store = "closed" => owed = 0

(* A confirmed stop is left with exit status 0 (specs/043, B-10).          *)
ConfirmedExitsZero == rec.outcome = "confirmed" => rec.code = "zero"

(* One lifetime: once SIGTERM came, a service failed, the node failed      *)
(* under a running serve, or Rauthy exited, the process ends, whatever the *)
(* clients and services still do.  (supervise.rs, serve.rs.)               *)
StopCause ==
    \/ signal \/ cancel \/ rauthy \in {"zero", "nonzero"}
    \/ store = "fault" /\ serve = "run"

Stops == StopCause ~> sup = "down"
=============================================================================
