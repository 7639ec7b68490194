------------------------------- MODULE Stream -------------------------------
(***************************************************************************)
(* Streaming responses of the edge (src/crates/rahi-edge/src/stream.rs):   *)
(* the bounded channel between a producer task and the response body, the  *)
(* producer's cancelled(), the hub's slots per client identity, and the    *)
(* drain that ends the streams when the process stops                      *)
(* (src/crates/rahi-cli/src/serve.rs).                                     *)
(*                                                                         *)
(* Every statement under a mutex is one step, and so is a wait of the      *)
(* runtime's Notify: looking at the state, enabling the wait and looking   *)
(* again are three steps.                                                  *)
(***************************************************************************)
EXTENDS Naturals, FiniteSets

CONSTANTS
    Request,                \* requests of declared streaming routes
    Identity,               \* client identities
    IdentityOf,             \* IdentityOf[r]: who sends r
    MaxConcurrentStreams,   \* StreamOptions::max_concurrent_streams
    ChannelCapacity         \* StreamOptions::channel_capacity

ASSUME RequestAssumption == IsFiniteSet(Request)
ASSUME IdentityOfAssumption == IdentityOf \in [Request -> Identity]
ASSUME MaxConcurrentAssumption == MaxConcurrentStreams \in Nat
ASSUME ChannelCapacityAssumption == ChannelCapacity \in Nat \ {0}

VARIABLES
    request,     \* where declared_route is with a request
    flags,       \* StreamState::{overflow, shutdown, closed}
    attached,    \* StreamState::attachment is there
    waker,       \* StreamState::waker is there
    source,      \* where Source::poll_next is
    woken,       \* the body's task is to be polled
    buffer,      \* events in the channel
    producer,    \* the producer task
    waiter,      \* where Producer::cancelled is
    nudged,      \* its Notified has been notified
    open,        \* HubInner::open
    hub,         \* where StreamHub::drain is
    notified,    \* its Notified has been notified
    accepting    \* the listener accepts requests

stream == <<flags, attached, waker, source, woken, buffer, producer, waiter, nudged>>
streamVars == <<request, stream, open, hub, notified, accepting>>

Flag == {"overflow", "shutdown", "closed"}

StreamTypeOK ==
    /\ request \in [Request -> {"none", "refused", "handling", "answered", "counted",
                                "listed", "open"}]
    /\ flags \in [Request -> SUBSET Flag]
    /\ attached \in [Request -> BOOLEAN]
    /\ waker \in [Request -> BOOLEAN]
    /\ source \in [Request -> {"none", "idle", "checked", "pending", "ended", "dropped"}]
    /\ woken \in [Request -> BOOLEAN]
    /\ buffer \in [Request -> 0 .. ChannelCapacity]
    /\ producer \in [Request -> {"none", "up", "gone"}]
    /\ waiter \in [Request -> {"off", "looked", "armed", "asleep", "told"}]
    /\ nudged \in [Request -> BOOLEAN]
    /\ open \in [Identity -> Nat]
    /\ hub \in {"serving", "telling", "counting", "arming", "armed", "waiting", "drained",
                "overran"}
    /\ notified \in BOOLEAN
    /\ accepting \in BOOLEAN

StreamInit ==
    /\ request = [r \in Request |-> "none"]
    /\ flags = [r \in Request |-> {}]
    /\ attached = [r \in Request |-> FALSE]
    /\ waker = [r \in Request |-> FALSE]
    /\ source = [r \in Request |-> "none"]
    /\ woken = [r \in Request |-> FALSE]
    /\ buffer = [r \in Request |-> 0]
    /\ producer = [r \in Request |-> "none"]
    /\ waiter = [r \in Request |-> "off"]
    /\ nudged = [r \in Request |-> FALSE]
    /\ open = [i \in Identity |-> 0]
    /\ hub = "serving"
    /\ notified = FALSE
    /\ accepting = TRUE

----------------------------------------------------------------------------
(* Statements several operations share.                                    *)

Cancelled(r) == flags[r] # {}
TxClosed(r) == source[r] \in {"ended", "dropped"}

(* producer.notify_waiters: whoever has enabled a wait is told.            *)
Nudge(rs) ==
    nudged' = [r \in Request |-> nudged[r] \/ (r \in rs /\ waiter[r] \in {"armed", "asleep"})]

(* Shared::signal for each stream of rs.                                   *)
Signal(rs, flag) ==
    /\ flags' = [r \in Request |-> IF r \in rs THEN flags[r] \cup {flag} ELSE flags[r]]
    /\ woken' = [r \in Request |-> woken[r] \/ (r \in rs /\ waker[r])]
    /\ waker' = [r \in Request |-> waker[r] /\ r \notin rs]
    /\ Nudge(rs)

(* Mutant of Released: the slot stays taken.                               *)
ReleasedNothing(rs) == open

(* StreamHub::release for each attached stream of rs.                      *)
Released(rs) ==
    [i \in Identity |->
        LET slots == Cardinality({r \in rs : attached[r] /\ IdentityOf[r] = i})
        IN  IF slots < open[i] THEN open[i] - slots ELSE 0]

(* Shared::close for each stream of rs that is not closed yet.             *)
Close(rs) ==
    LET closing == {r \in rs : "closed" \notin flags[r]} IN
    /\ flags' = [r \in Request |-> IF r \in closing THEN flags[r] \cup {"closed"} ELSE flags[r]]
    /\ attached' = [r \in Request |-> attached[r] /\ r \notin closing]
    /\ open' = Released(closing)
    /\ notified' = (notified \/ (hub \in {"armed", "waiting"} /\ \E r \in closing : attached[r]))
    /\ Nudge(closing)

(* StreamHub::live: what is listed and still held by someone.              *)
Live == {r \in Request : /\ request[r] \in {"listed", "open"}
                         /\ source[r] # "dropped" \/ producer[r] = "up"}

----------------------------------------------------------------------------
(* declared_route.                                                         *)

(* Mutant of Admits: one stream too many.                                  *)
AdmitsOneMore(i) == open[i] <= MaxConcurrentStreams

Admits(i) == open[i] < MaxConcurrentStreams

Arrive(r) ==
    /\ request[r] = "none"
    /\ accepting
    /\ request' = [request EXCEPT ![r] =
                      IF Admits(IdentityOf[r]) THEN "handling" ELSE "refused"]
    /\ UNCHANGED <<stream, open, hub, notified, accepting>>

(* The handler answers with stream(rx) and has spawned the producer.       *)
Answer(r) ==
    /\ request[r] = "handling"
    /\ request' = [request EXCEPT ![r] = "answered"]
    /\ source' = [source EXCEPT ![r] = "idle"]
    /\ woken' = [woken EXCEPT ![r] = TRUE]
    /\ producer' = [producer EXCEPT ![r] = "up"]
    /\ UNCHANGED <<flags, attached, waker, buffer, waiter, nudged, open, hub, notified,
                   accepting>>

(* The first-byte budget passes, or the answer is not a stream.            *)
AnswerLate(r) ==
    /\ request[r] = "handling"
    /\ request' = [request EXCEPT ![r] = "refused"]
    /\ UNCHANGED <<stream, open, hub, notified, accepting>>

(* StreamHub::attach in its three steps: the count, the list, the stream.  *)
Count(r) ==
    /\ request[r] = "answered"
    /\ request' = [request EXCEPT ![r] = "counted"]
    /\ open' = [open EXCEPT ![IdentityOf[r]] = @ + 1]
    /\ UNCHANGED <<stream, hub, notified, accepting>>

List(r) ==
    /\ request[r] = "counted"
    /\ request' = [request EXCEPT ![r] = "listed"]
    /\ UNCHANGED <<stream, open, hub, notified, accepting>>

Attach(r) ==
    /\ request[r] = "listed"
    /\ request' = [request EXCEPT ![r] = "open"]
    /\ attached' = [attached EXCEPT ![r] = TRUE]
    /\ UNCHANGED <<flags, waker, source, woken, buffer, producer, waiter, nudged, open, hub,
                   notified, accepting>>

----------------------------------------------------------------------------
(* Source: the response body, polled by the connection's task.             *)

Terminal(r) == flags[r] \cap {"shutdown", "overflow"} # {}

(* poll_next looks at the flags, under the stream's mutex.                 *)
Poll(r) ==
    /\ request[r] = "open"
    /\ source[r] = "idle"
    /\ woken[r]
    /\ woken' = [woken EXCEPT ![r] = FALSE]
    /\ IF Terminal(r)
         THEN /\ source' = [source EXCEPT ![r] = "ended"]
              /\ Close({r})
         ELSE /\ source' = [source EXCEPT ![r] = "checked"]
              /\ UNCHANGED <<flags, attached, open, notified, nudged>>
    /\ UNCHANGED <<request, waker, buffer, producer, waiter, hub, accepting>>

(* Then at the channel: an event, its end, or nothing yet.                 *)
Receive(r) ==
    /\ request[r] = "open"
    /\ source[r] = "checked"
    /\ \/ /\ buffer[r] > 0
          /\ buffer' = [buffer EXCEPT ![r] = @ - 1]
          /\ source' = [source EXCEPT ![r] = "idle"]
          /\ woken' = [woken EXCEPT ![r] = TRUE]
          /\ UNCHANGED <<flags, attached, open, notified, nudged>>
       \/ /\ buffer[r] = 0
          /\ producer[r] = "gone"
          /\ source' = [source EXCEPT ![r] = "ended"]
          /\ Close({r})
          /\ UNCHANGED <<buffer, woken>>
       \/ /\ buffer[r] = 0
          /\ producer[r] # "gone"
          /\ source' = [source EXCEPT ![r] = "pending"]
          /\ UNCHANGED <<flags, attached, open, notified, nudged, buffer, woken>>
    /\ UNCHANGED <<request, waker, producer, waiter, hub, accepting>>

(* And leaves its waker, under the mutex again.                            *)
Park(r) ==
    /\ source[r] = "pending"
    /\ source' = [source EXCEPT ![r] = "idle"]
    /\ waker' = [waker EXCEPT ![r] = TRUE]
    /\ UNCHANGED <<request, flags, attached, woken, buffer, producer, waiter, nudged, open,
                   hub, notified, accepting>>

(* The keep-alive interval passes: the body is polled again.               *)
KeepAlive(r) ==
    /\ request[r] = "open"
    /\ source[r] = "idle"
    /\ ~woken[r]
    /\ woken' = [woken EXCEPT ![r] = TRUE]
    /\ UNCHANGED <<request, flags, attached, waker, source, buffer, producer, waiter, nudged,
                   open, hub, notified, accepting>>

(* The connection is gone, or the answer is written: the body is dropped.  *)
DropSource(r) ==
    /\ request[r] = "open"
    /\ source[r] \in {"idle", "ended"}
    /\ source' = [source EXCEPT ![r] = "dropped"]
    /\ woken' = [woken EXCEPT ![r] = FALSE]
    /\ buffer' = [buffer EXCEPT ![r] = 0]
    /\ Close({r})
    /\ UNCHANGED <<request, waker, producer, waiter, hub, accepting>>

----------------------------------------------------------------------------
(* Producer.                                                               *)

(* The channel wakes a body that found it empty.                           *)
ChannelWakes(r) ==
    woken' = [woken EXCEPT ![r] = @ \/ source[r] \in {"pending", "idle"}]

(* Mutant of Fits: the channel takes one too many.                         *)
FitsOneMore(r) == buffer[r] <= ChannelCapacity

Fits(r) == buffer[r] < ChannelCapacity

(* emit to a stream that is not cancelled.                                 *)
Emit(r) ==
    /\ producer[r] = "up"
    /\ ~Cancelled(r)
    /\ \/ /\ Fits(r)
          /\ buffer' = [buffer EXCEPT ![r] = @ + 1]
          /\ ChannelWakes(r)
          /\ UNCHANGED <<flags, waker, nudged>>
       \/ /\ ~Fits(r)
          /\ Signal({r}, "overflow")
          /\ UNCHANGED buffer
    /\ UNCHANGED <<request, attached, source, producer, waiter, open, hub, notified, accepting>>

(* The producer returns, and what it waits for goes with it.               *)
ProducerEnds(r) ==
    /\ producer[r] = "up"
    /\ producer' = [producer EXCEPT ![r] = "gone"]
    /\ waiter' = [waiter EXCEPT ![r] = "off"]
    /\ nudged' = [nudged EXCEPT ![r] = FALSE]
    /\ ChannelWakes(r)
    /\ UNCHANGED <<request, flags, attached, waker, source, buffer, open, hub, notified,
                   accepting>>

Goto(r, pc) == waiter' = [waiter EXCEPT ![r] = pc]

(* cancelled(): it looks, enables its wait, looks again, and sleeps.       *)
Look(r) ==
    /\ producer[r] = "up"
    /\ waiter[r] = "off"
    /\ Goto(r, IF Cancelled(r) \/ TxClosed(r) THEN "told" ELSE "looked")
    /\ UNCHANGED nudged

EnableWait(r) ==
    /\ waiter[r] = "looked"
    /\ Goto(r, "armed")
    /\ nudged' = [nudged EXCEPT ![r] = FALSE]

(* Mutant of LookAgain: it sleeps on what it saw before.                   *)
LookAgainNever(r) ==
    /\ waiter[r] = "armed"
    /\ Goto(r, "asleep")
    /\ UNCHANGED nudged

LookAgain(r) ==
    /\ waiter[r] = "armed"
    /\ Goto(r, IF Cancelled(r) \/ TxClosed(r) THEN "told" ELSE "asleep")
    /\ UNCHANGED nudged

WakeUp(r) ==
    /\ waiter[r] = "asleep"
    /\ nudged[r] \/ TxClosed(r)
    /\ Goto(r, "off")
    /\ nudged' = [nudged EXCEPT ![r] = FALSE]

Wait(r) ==
    /\ Look(r) \/ EnableWait(r) \/ LookAgain(r) \/ WakeUp(r)
    /\ UNCHANGED <<request, flags, attached, waker, source, woken, buffer, producer, open, hub,
                   notified, accepting>>

----------------------------------------------------------------------------
(* The stop: StreamHub::drain beside the readiness window, and then the    *)
(* listener.                                                               *)

NoneOpen == \A i \in Identity : open[i] = 0

BeginStop ==
    /\ hub = "serving"
    /\ hub' = "telling"
    /\ UNCHANGED <<request, stream, open, notified, accepting>>

(* One pass over the live streams.                                         *)
TellAll ==
    /\ hub = "telling"
    /\ Signal(Live, "shutdown")
    /\ hub' = "counting"
    /\ UNCHANGED <<request, attached, source, buffer, producer, waiter, open, notified,
                   accepting>>

CountOpen ==
    /\ hub = "counting"
    /\ hub' = IF NoneOpen THEN "drained" ELSE "arming"
    /\ UNCHANGED <<request, stream, open, notified, accepting>>

EnableDrain ==
    /\ hub = "arming"
    /\ hub' = "armed"
    /\ notified' = FALSE
    /\ UNCHANGED <<request, stream, open, accepting>>

(* Mutant of CountAgain: it waits on the count it saw before.              *)
CountAgainNever ==
    /\ hub = "armed"
    /\ hub' = "waiting"
    /\ UNCHANGED <<request, stream, open, notified, accepting>>

CountAgain ==
    /\ hub = "armed"
    /\ hub' = IF NoneOpen THEN "drained" ELSE "waiting"
    /\ UNCHANGED <<request, stream, open, notified, accepting>>

DrainWakes ==
    /\ hub = "waiting"
    /\ notified
    /\ hub' = "telling"
    /\ UNCHANGED <<request, stream, open, notified, accepting>>

DrainTimesOut ==
    /\ hub = "waiting"
    /\ Close(Live)
    /\ hub' = "overran"
    /\ UNCHANGED <<request, waker, source, woken, buffer, producer, waiter, accepting>>

(* Both the drain and the readiness window are over.                       *)
StopListening ==
    /\ hub \in {"drained", "overran"}
    /\ accepting
    /\ accepting' = FALSE
    /\ UNCHANGED <<request, stream, open, hub, notified>>

----------------------------------------------------------------------------
Body(r) == Poll(r) \/ Receive(r) \/ Park(r) \/ KeepAlive(r)

StreamNext ==
    \/ \E r \in Request :
          \/ Arrive(r) \/ Answer(r) \/ AnswerLate(r) \/ Count(r) \/ List(r) \/ Attach(r)
          \/ Body(r) \/ DropSource(r)
          \/ Emit(r) \/ ProducerEnds(r) \/ Wait(r)
    \/ BeginStop \/ TellAll \/ CountOpen \/ EnableDrain \/ CountAgain \/ DrainWakes
    \/ DrainTimesOut \/ StopListening

StreamSpec == StreamInit /\ [][StreamNext]_streamVars

----------------------------------------------------------------------------
Taken(i) == {r \in Request : /\ request[r] \in {"counted", "listed", "open"}
                             /\ IdentityOf[r] = i
                             /\ "closed" \notin flags[r]}

(* A client's slots are its counted streams that are not closed: however a *)
(* stream ends (complete, client gone, overflow, shutdown), and whoever    *)
(* ends it first, its slot comes back exactly once, until a drain gives up *)
(* (specs/026 B-5, D-5).                                                   *)
SlotsMatch == hub # "overran" => \A i \in Identity : open[i] = Cardinality(Taken(i))

(* What opening, closing, overflow and a drain leave of the counters and   *)
(* the channels (stream.rs).                                               *)
StreamSound == StreamTypeOK /\ SlotsMatch

(* The drain never sleeps through the end of the last stream (stream.rs,   *)
(* StreamHub::drain).                                                      *)
DrainNotAsleep == hub = "waiting" /\ ~notified => ~NoneOpen

(* A producer that waits for its cancellation never sleeps through it,     *)
(* although a client that does not read keeps the body from being polled   *)
(* (specs/026 B-6, B-7).                                                   *)
ProducerNotAsleep ==
    \A r \in Request : waiter[r] = "asleep" /\ ~nudged[r] => ~Cancelled(r)

(* Neither sleeper of the hub misses what it waits for (stream.rs).        *)
NobodySleeps == DrainNotAsleep /\ ProducerNotAsleep

(* A request is turned away when its client holds as many streams as it    *)
(* may, and only then; while the handlers of others run, more may open     *)
(* (specs/026 B-5).                                                        *)
AdmittedAsHeld ==
    [][\A r \in Request :
         request[r] = "none" /\ request'[r] # "none" /\ hub # "overran" =>
             (request'[r] = "handling"
                <=> Cardinality(Taken(IdentityOf[r])) < MaxConcurrentStreams)]_streamVars

(* An idle body has nothing to say: a shutdown or an overflow wakes it     *)
(* (specs/026 D-5).                                                        *)
IdleBodyHeard ==
    \A r \in Request : source[r] = "idle" /\ ~woken[r] => ~Terminal(r)

(* When the listener stops, every stream that is open has heard the        *)
(* shutdown (serve.rs; specs/026 B-7).                                     *)
OpenStreamsHeard ==
    ~accepting => \A r \in Request : attached[r] => "shutdown" \in flags[r]
=============================================================================
