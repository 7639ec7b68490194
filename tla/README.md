# Formal models of rahi

TLA+ models of the parts of rahi in which several callers, replicas, processes
or crashes meet, the TLC configurations that check small instances of them, and
machine-checked proofs (TLAPS) of the results that should hold for instances of
every size. Every definition is translated from the Rust source under
`src/crates`; `PROJECT.json` maps each one to the lines it stands for.

1. [The system](#1-the-system)
2. [The modules](#2-the-modules)
3. [What the runs check and show](#3-what-the-runs-check-and-show)
4. [Where the code and its words disagree](#4-where-the-code-and-its-words-disagree)
5. [What is proved](#5-what-is-proved)
6. [Abstractions and assumptions](#6-abstractions-and-assumptions)
7. [What is not modelled](#7-what-is-not-modelled)
8. [The plan](#8-the-plan)
9. [Running it](#9-running-it)

## 1. The system

A *cell* is one Rust binary: an HTTP edge in front of an application, a kernel
that refuses every capability its manifest does not grant, a hash-chained ledger
of decisions, and a replicated store (hiqlite: SQLite behind a Raft log, inside
the process). Identity is a second process, rauthy, reached through the cell.
N replicas of the binary share one store. Operator verbs (migrate, backup,
restore, upgrade-cache) run as processes of their own on the same volume.

| component | state it keeps | operations | what is hard about it |
|---|---|---|---|
| store: lease and fencing (`lock.rs`) | hiqlite's lock of a key, `lease_fence`, the fence column of guarded rows | `lease`, `mint_token`, `fenced_txn`, `release`, `Drop` | the lock expires unnoticed; the mint is two round trips; a batch outlives its caller; the holder dies |
| store: receipts (`receipt.rs`) | head row and revision rows of an identity | `classify`, `stage_first`, `stage_revision`, `stage_collision`, `stage_erasure` | classification reads outside the batch; redelivery; retention and erasure run beside it |
| store: work claims (`work.rs`) | processing rows, attempt rows, the queue's lease | `stage_work`, `reserve`, `next`, `complete`, `fail`, `renew`, `requeue`, `sweep` | two workers on one row; a claim that expired under its worker; lost replies |
| store: migrations and snapshots (`migrate.rs`, `migration_set.rs`, `backup.rs`) | applied versions with checksums, per named set; snapshot files | apply, ready-together order, trigger, list | a build that skipped or rewrote a version; a crash between two migrations; a snapshot that is older than its request |
| ledger: decision chain (`append.rs`, `chain.rs`) | `kernel_decisions`, its UNIQUE parent | `append`, `classify`, `head`, `open` | compare-and-swap from several replicas; a batch that lands after it was given up |
| ledger: sealing and archive (`seal.rs`, `archive.rs`) | `kernel_segments`, segment bodies | `seal_if_needed`, `Archive::put` | racing sealers; the body and the transaction are two writes; sealing deletes rows the UNIQUE index arbitrates over |
| ledger: lifetime identity (`identity.rs`) | identity, collision and coverage rows | stamped by append and seal; backfill, `recover`, `reindex` | an id must stay spent after its record left the table; binaries that do not stamp share the chain; the reader's two reads straddle a seal |
| ledger: epochs and transitions (`epoch.rs`, `transition.rs`) | records of the chain, headers that inherit them | adopt a manifest, open an epoch | which manifest is in force after a restore or a rollback |
| kernel: denial queue (`lib.rs`) | bounded queue, decision being written, loss counters | `emit`, `refuse`, `append_all`, `flush`, `drain`, `abandon` | the request path never waits; the drain's bound passes during an append; the runtime drops the task |
| kernel: manifest, gate, facades, build | the parsed manifest, the scan of the sources | `validate`, `check`, facade constructors and methods, `verify` | many rules that must agree: what the build admits, what boot admits and what the gate admits |
| edge: streams (`stream.rs`) | per stream: flags, waker, channel; per client: slots | admission, attach, `poll_next`, `emit`, `cancelled`, `drain` | lost wakeups between a mutex and a `Notify`; who closes a stream; the drain's timeout |
| edge: router and middleware | the router in place, counters in the store | client identity, CSRF, limiter, operator gate, switch of the router | which layer answers first; a counter call that fails; a window that ends between clock and count |
| idp: sessions, refresh, revocation | envelope cookie, cached assertion, revocation rows | login, renewal, logout, revoke | replies overtake one another; a renewal rotates the token under a second renewal; logout beside both |
| idp: bearer tokens, keys | current and previous key set | verify, refresh keys | a token whose key has rotated; a refresh interval that has just passed |
| idp: registration, native client (`bootstrap.rs`, `native.rs`) | documents in rauthy, a secret file | read, create, re-read, update | a created client whose answer is lost; an operator editing the document between read and write |
| ops: first boot, keys, rauthy session | key files, rendered environment, backup admin | mint, custody, register a passkey, narrow and widen the API key | a crash between any two files or calls |
| ops: cache transition (`upgrade.rs`, `cell_lock.rs`) | phase record, legacy and app store, fences, locks | `upgrade-cache`, `--abort`, the gate of every entry point | a crash at every fault point, beside an older binary that knows none of it |
| ops: stop and supervision (`serve.rs`, `stop.rs`, `supervise.rs`, `service.rs`) | stop causes, tasks, child process, boot sequence and stop record | serve, drain, join, shut down, restart | the order in which everything ends, whatever came first |
| ops: backup, restore, migrate | archives, restore marker, revocation floor | backup, restore, deploy step, start after a restore | a backup reads four parts at four times; a restore that dies; a restore that is repeated |
| store: outbox, watermark, notify; edge: observability; idp: discovery, proxy; ops: preflight, bindings; cli, harness, types | see section 7 | | |

How they interact: a request passes the layers of the *edge*, which ask the
*idp* who it is, then the governed calls of its handler pass a facade and the
*gate*; a refusal goes to the *denial queue*, whose appender calls
`Ledger::append`; the ledger and the work queues are transactions of the
*store*; work claims take the store's *lease* and put its guard in each batch;
the accepted revision of a *receipt* and its processing row commit in one batch.
Before a cell serves, its start passes the locks and the record of the *cache
transition*, finishes or refuses a *restore*, supervises rauthy, takes *custody*
of what it needs there, and opens the ledger. The *stop* drains the streams,
then the listener, joins the services, drains the denial queue, and only then
shuts the store and rauthy. Replicas share nothing but the store and rauthy.

What makes each component correct:

- *lease*: a token is given to one call of `lease()` only; a batch of a
  superseded lease never commits; a row's stamp names the lease that wrote it.
- *receipts*: concurrent deliveries conflict, they never fork an identity's
  history; a redelivery is never a new revision; what was acknowledged is on
  record; erasure is for good.
- *work*: the domain writes of a job commit once with its row, and without it
  only where the row was deleted beneath a claim; every attempt has one open row
  and one outcome; retention never takes unsettled work.
- *ledger*: one chain, in the table and the archive together, growing at one
  end; an id names one decision for good; every answer is true; nothing is
  deleted before it is archived; coverage is reported complete only if every
  record has its row; `recover` says absent, found or damaged only when it is.
- *denials*: each answered denial lands or is counted, under one cause and once;
  the store is not shut under a denial answered before the drain.
- *gate and edge*: an operation touches only what the manifest grants the
  service; a request with two credentials is served under neither by accident;
  no client exceeds its ceiling in a window the limiter counted.
- *streams*: a slot comes back once, whoever ends the stream; neither the drain
  nor a producer sleeps through what it waits for.
- *sessions and tokens*: the cookie of the newest reply works; a role taken away
  or a token revoked stops working within its bound; a logout that no other
  request overlapped, and that was not itself renewed on its way in, is final.
- *custody*: keys are minted once; a secret the cell kept whole is the one rauthy
  holds; an operator's settings outlive every start; every cell comes to serve
  or is left with something only a person can repair.
- *transition*: the store is whole in one place at every crash point; no older
  node is inside while it moves; what serves is fenced; a transition ends.
- *deploy and restore*: the schema fits the build that serves; each epoch names
  its predecessor; a cell that serves after a completed restore serves all of
  it, each of its key files included; no restart overwrites rauthy's newer state.
- *stop*: the record of the last boot is true; phases keep their order; a stop
  that began ends.

`PROJECT.json` lists under `hazards` the places where this code can go wrong in
ways a test would hardly reach, with the properties aimed at each one.

## 2. The modules

```
FencedRegister  <--implements-- Lease                    MCLease       StoreProofs
                                Receipts \
                                          Intake         MCIntake      StoreProofs
                                Work     /
AppendOnlyChain <--implements-- Ledger                   MCLedger      LedgerProofs
                                Lineage                  MCLineage     LineageProofs
Denials         <--implements-- Front (extends Denials)  MCFront       FrontProofs
                                  with Gate
                                Stream                   MCStream      StopProofs
                                Session                  MCSession     SessionProofs
                                Custody                  MCCustody     CustodyProofs
                                Transition               MCTransition  TransitionProofs
                                Deploy <-- Recovery      MCRecovery    StoreProofs
                                Serve                    MCServe       StopProofs
```

A component that rests on another takes from it what that other is shown to
provide: Work takes from Lease that a mint returns a new larger token and that a
batch commits under the newest only; Lineage and Deploy take from Ledger that
the chain is one sequence; Front takes from Session whether a credential is
good; Serve takes from Denials and Stream that their drains are bounded.

### Store

**Lease** (`rahi-store/src/lock.rs`). `lock` is hiqlite's lock as the code uses
it (owner, queue, whether the TTL passed), `lockUp` its handler task, which a
release of a lock owned by another panics; `leaseFence` is the row of
`lease_fence`; `inflight` are the batches submitted and not yet applied, in no
order. `RequestLock`, `Bump`, `ReadToken` are `lease()`; `AbandonMint` and
`StrayBump` its failure, with a bump that commits after its caller is gone;
`Submit`, `Apply`, `LoseReply` are `fenced_txn`; `HandBack` is `release` and
`Drop`, `HandleRelease` the task that acts on it; `Expire` and `Crash` are the
environment. `author` and the other ghost variables record which call got which
token.

**FencedRegister** says what a fenced lease is for, with no lock, TTL or token:
at any moment at most one lease may write, and one that lost the right never
writes again. `Lease!ImplementsRegister` instantiates it.

**Receipts** (`receipt.rs`). One identity. `ReadHead` and `ReadDigest` are the
two consistent reads of `classify`; `Accept` and `Collide` the batches of
`stage_first`, `stage_revision`, `stage_collision`, with the guards those
batches carry (`HeadGuard`, the INSERT that aborts on an existing revision);
`CompactReceipts`, `DropReceipts`, `EraseReceipts` what retention and erasure do.

**Work** (`work.rs`). `proc` are the processing rows, `attempts` the attempt
rows, `queueFence` the token of the queue's lease. `Pick` and `ClaimCandidate`
are `reserve` and `next`; `Complete`, `Fail`, `Renew` the batches guarded by
`GUARD_CLAIM`, each of which may lose its reply and be submitted again;
`SweepExpired`, `SweepSpent`, `Requeue` the sweep and the operator. `DeleteWork`
is what retention and erasure do to the rows: they ask no claim. `orphaned` and
`strays` record for whom that happened, and whose domain writes committed all
the same.

**Intake** composes the two: their batches commit together (`IntakeAccept`,
`Compact`, `Erase`), and the properties that relate a revision to its work are
stated here.

### Ledger

**Ledger** (`append.rs`, `chain.rs`, `identity.rs`, `seal.rs`, `archive.rs`).
`resident` is `kernel_decisions`, `identity` the identity rows, `segments` the
header rows, `archive` the bodies. `Offer` reads the head and sends the batch;
`Apply` lets the primary keys and the UNIQUE index decide; `Lose` and
`LoseReply` are the network; `ClassifyIdentity` and `ClassifyHead` the two reads
after a failure. `ReadRecords`, `ReadSegments`, `PutBody`, `CommitSeal`,
`AbandonSeal` are `seal_if_needed` with a crash between any two.

**AppendOnlyChain** is what the ledger promises: one chain growing at its end,
an id names one decision, and an answer is true when it is given.

**Lineage** (`identity.rs` with `append.rs`, `seal.rs`, `chain.rs`,
`transition.rs`, `epoch.rs`, `verify.rs`, and `rahi-cli`'s `ledger reindex`).
The chain is a sequence, `log`, of which `headers` say how much is sealed and
what was current there; `identity`, `collisions` and `stamped` are the three
tables of the accounting, `body` and `forged` the health of the bytes. Per
handle `node` holds its cached verdict and how far an `Open`, a `Backfill`, a
`Recheck` or a `ReindexSegment` is; `Offer`, `Apply`, `GiveUp`, `Classify`,
`AskHead` are an append, `SealRead` and `SealCommit` a seal, `LookUp`,
`ReadResident`, `AskAgain`, `ReadBody` one call of `recover`. `OldAppend`,
`OldSeal` and `OldLeaves` are binaries that write records and no rows.

### Kernel and edge

**Denials** (`rahi-kernel/src/lib.rs`, and the end of serve). Statements under
the queue's mutex are single steps; what happens between them is not: `FindNone`
and `Await` are the look at the queue and the wait for the permit. `Refuse` is
the request path, `Appended`, `AppendFails`, `LandsLate` and `Settle` the
append; `BeginDrain`, `Flush`, `DrainAbandons`, `ShutStore`, `DropKernel`,
`EndRuntime` the stop.

**Gate** (`rahi-kernel`: `manifest.rs`, `capability.rs`, `adjudicate.rs`,
`facade.rs`, `verify.rs`). Functions only: `Valid` is `Manifest::validate`;
`Verdict` the answer on a request, with `Covers` and `Admits` the comparison of
a triple and of a grant's constraints; `Constructs` what a facade's constructor
demands; `Fits` what a facade method asks of its arguments before the gate is
asked; `Scans` and `Verified` the build's scan of call sites and of the markers
that name the opaque ones.

**Front** EXTENDS Denials and Gate (`Assembly` of `rahi-cli/src/serve.rs`,
`rahi-edge`'s router and middleware, the bearer gate and session layer of
`rahi-idp`). `Build` and `Boot` admit or
refuse a cell; `slot` is the router new requests get, replaced by `Switch` when
identity has composed. `Handle(r)` is one layer of one request: `Arrive`,
`BearerGate`, `Validate`, `CountAdd`, `SessionLayer`, `EnterEdge`, `CsrfCheck`,
the limiter in two steps (`ReadClock`, `CountAdd`), `RoleGate`, and `Call`, the
governed calls of the handler in order. A refusal is Denials' `Refuse`; every
other step leaves the queue alone.

**Stream** (`rahi-edge/src/stream.rs`, and the readiness window of
`rahi-cli/src/serve.rs`). Three tasks per request share a stream: the body
(`Poll`, `Receive`, `Park`, `KeepAlive`, `DropSource`), the producer (`Emit`,
`ProducerEnds`, and the four steps of `cancelled()`: `Look`, `EnableWait`,
`LookAgain`, `WakeUp`), and the stop (`TellAll`, `CountOpen`, `EnableDrain`,
`CountAgain`, `DrainWakes`, `DrainTimesOut`). `Count`, `List`, `Attach` are the
three steps of `StreamHub::attach`.

### Identity

**Session** (`rahi-idp`: `session.rs`, `login.rs`, `extractor.rs`, `refresh.rs`,
`revoke.rs`, `bearer.rs`, `jwks.rs`). rauthy's `grants`, `codes` and
`tokens` are external; the cell's `cache` holds one assertion per session id,
`keys` its key sets, `rows` the durable revocations, `counted` the limiter; the
browser's `jar` is what the last reply set. A request is a slot whose `pc` moves
one await at a time. Every browser request, be it a page, a login, a callback or
a logout, first passes the session layer (`Load`, `Grant`, `Userinfo`, `Renewed`,
`DropAssertion`) and then its handler: `Exchange`, `Claims`, `Establish` for a
callback, `LogoutRevoke`, `LogoutDrop` for a logout. Its reply carries the cookie
its handler set or cleared and, after it, the one the layer renewed, so that the
renewed one is what the browser keeps. A bearer call is `Verify`, `CheckFloor`,
`CheckJti`, `CheckSubject`, `Count`; `RevokeSubject` is an operator's. A reply
reaches the jar in a step of its own. `Restart` empties what is memory only.
`logouts` records how each logout ended: overlapped or not, renewed on its way in
or not, the assertion dropped or kept because the cache did not answer.

**Custody** (`first_boot.rs`, `keys.rs`, `rauthy_session.rs`, `bootstrap.rs`,
`native.rs`, `supervise.rs`). `rauthy` are its documents, reduced to what the
program decides on; `cell[n]` is a replica: the files on its volume and where its
attempt is. `Runs(n)` is the next file written or the next admin call with the
effect it has on both sides. No file is written atomically: `Crash` ends the
process and may leave the file it was at cut short, be it a key, one of the two
rendered files or the client secret (`torn`, and `Half` for the secret); `Fail`
loses the call or only its answer, or the disk fails the secret. `Upgrade` starts
the next version, and `Operator` edits a document between any two calls.

### Operations

**Transition** (`upgrade.rs`, `cell_lock.rs`). `rec` is `upgrade-cache.json`;
`place` says for each original entry whether it is in the legacy store, the app
store, set aside or gone; `debris` is what a refused older node created at a
legacy path; `marker`, `env`, `hollow`, `dbFiles` and `meta` are the files the
fences are made of. `owner` holds `cell.lock` and where it is, `attacher` runs
beside serve. One disjunct per fault point of the code: `T1Capture` to
`T1Record`, `T2Move` to `T2Done`, `T3Marker` to `T3Shut`, the `Abort` verbs,
`CreateFences` and `Sweep`. `Old` is the pre-043 process, which tests the marker
and reads the environment; `Crash` drops the locks with the process.

**Deploy** (`migrate.rs` of store and ops, `migration_set.rs`, `transition.rs`,
`epoch.rs`) is one deploy step at a time: check the histories (`Behind`,
checksums, requirements), apply per set in the ready-together order, adopt the
manifest, open the epoch. **Recovery** EXTENDS it with `backup.rs`, `archive.rs`,
`restore.rs` and the start of `supervise.rs`: `BackupOpen` to `BackupEnd` read the
app store's snapshot, the key set and rauthy at four times; `RestoreStart` to
`RestoreEnd` replace them in the code's order, the key set one file at a time
(`RestoreKey`), with `RestoreCrash` between any two steps, which may leave the key
file, or the marker, it was at unreadable; `CellPrepare` to `CellBoot` are what a
start checks before it serves. hiqlite's snapshot requests (`hiq`) may be ignored
inside their window and are acknowledged all the same.

**Serve** (`serve.rs`, `supervise.rs`, `service.rs`, `stop.rs`). `entry` is
`serve` or `supervise`, `serve` and `sup` where each is; `svc[s]` a managed
service, `server` the listener, `seq`, `rec` and `prev` the boot sequence, the
stop record and what this boot made of the last one. `ServeStep` and `SupStep`
are the two tasks, `AbortLands(s)` the runtime dropping an aborted service, and
`Environment` SIGTERM, SIGKILL, failures of service, rauthy, store and
requests, and every timer once armed.

### Conventions

Each `MC` module names a small instance; each `.cfg` gives the constants their
values. A *scene* (Front, Lineage, Session, Custody, Recovery) bounds one
behaviour, so that one run covers several families of behaviours, each small.
A property with several named conjuncts (`LeaseSound`, `IntakeSound`,
`DeploySound`, ...) bundles statements that share their hazard. The definitions
commented "Mutant of ..." are plausible errors in that code; each makes a
property, or a conjunct of one, fail, and no next-state relation uses them.

## 3. What the runs check and show

| run | instance | shows |
|---|---|---|
| `lease` | 3 calls, 1 row, tokens to 3, 2 batches on their way | with expiry, zombies, lost replies and crashes, one token is given once, no superseded batch commits, and the register is implemented |
| `intake` | 2 deliveries, 2 contents, 2 workers, 2 revisions; 2 tokens for the first one's work, 3 for the second's | deliveries, workers, sweeps, retention and erasure, beneath held claims too, interleave without forking the history, losing or repeating work, or keeping what was erased |
| `ledger` | 3 appends (two of one id), 2 sealers, hot window 1, segments of 1 | one chain over table and archive, nothing deleted unarchived, true answers |
| `lineage` | 2 nodes and a repairer, 6 calls over 5 ids, 5 records, hot window and segments of 2; 9 scenes | beside binaries that stamp no identities, an id still names one decision, the verdict on coverage is never too good, `recover` finds what is there, and no accounting row is lost |
| `front` | 3 requests, queue of 1; scenes for floods, ceilings, credentials, governed calls and builds | only what was granted is touched; a request is never served with two credentials confused; no client exceeds its ceiling; every refusal, of whichever layer, lands or is counted, and none waits for ever |
| `stream` | 2 requests of 1 client, 1 slot, channel of 1 | slots match, no lost wakeup of drain or producer, admission as counted |
| `session` | 2 requests at once, clock to 4, 2 logins, 3 refresh tokens, 2 signing keys; 6 scenes | with the session layer on every route, the browser's cookie stays live unless two renewals of one token raced or a reply was lost; a lost role and a revocation take effect within their bounds; a logout neither overlapped nor renewed on its way in is final |
| `custody` | 2 replicas, 3 versions; 6 scenes | with files cut short at any write, keys are minted once, secrets kept whole match, an operator's edits outlive every start, a usable backup admin has its passkey, and every cell comes to serve or needs a person |
| `transition` | 4 entries, 3 starts of a pre-043 node, 2 crashes, 2 aborts | the store is whole in one place at every crash point, no old node is inside while it moves, what serves is fenced, a guarded transition ends |
| `recovery` | 6 builds, 2 deploy steps, 2 archives; 13 scenes | the schema fits what serves, epochs are linked, a served restore is all of its archive, an archive is fresh and whole, a restart keeps rauthy |
| `serve` | 1 service, 3 boots, 1 kill, 1 request in the first boot | the record of the last stop is true, phases keep their order whatever came first, a stop that began ends |
| `transition_abort` | no start of an old node, 2 crashes, 1 abort, the verb run after it | a violation: see section 4 |

The denial queue has no run of its own: `front` checks its invariants and its
liveness with the requests that really feed it, and the theorems of section 5
cover the queue alone.

### Bounds, and why they are enough

- *lease*: three calls are the fewest in which a zombie, the current holder and a
  queued request exist together; a fourth adds no new relation because the guards
  compare a token with the newest one only. Token 3 lets the newest be overtaken
  twice. The proofs remove all four bounds.
- *intake*: two revisions give a first, a changed one, and a redelivery of either.
  Tokens are bounded per job, and are minted for a claim and for a renewal: three
  of them on the work of the second revision give a zombie, a claimant and a
  renewal, two on that of the first a claim beside them. `WorkerAttempts = 3` and
  `SweepAttempts = 2` differ so that the two policies cannot hide one another.
- *ledger*: two calls of one id with different contents and one of another give
  every answer of `classify`; `HotWindow = SegmentSize = 1` makes sealing due at
  the second resident record, so that seals race appends and one another.
  `MaxTries = 2` stands for `APPEND_ATTEMPTS`: exhausted and not.
- *lineage*: five records and segments of two give a sealed run, a second one
  becoming due, and a resident tail, so that a record can be asked for before,
  while and after it is sealed; one record is enough to be a duplicate, one body
  to be damaged. Each scene takes the writers and faults of one question (a fleet
  that stamps, a restart, readers, a mixed fleet, its repair, a question during
  the repair, deployments; the repair and the deployments each once with more
  calls and once with more foreign records), since a duplicate, a crash and a
  damaged body together add no step that two of them do not have.
- *front*: three refusals through a queue of one are one written, one waiting and
  one refused; one group limit of 1 and one window step make the limiter's
  boundary; each list of governed calls visits a family of facades, each build
  breaks one rule. The safety of the queue is proved for every capacity.
- *stream*: two requests and one slot make admission bite; a channel of one is
  full after one event. The safety results are proved for every finite set of
  requests, every budget and every capacity.
- *session*: two slots let any two handlers interleave at every await, and a clock
  of four units of the assertion's life gives an expiry, a renewal and another
  expiry. A third request would race as one of the two does, since a handler
  compares its own reading with the present state only.
- *custody*: one crash may fall between any two calls, a second into the recovery
  from the first; two replicas are enough for one to undo the other.
- *transition*: the legacy store has four planned entries, two of them WAL
  directories, so a move can stop before, between and after them; two crashes put
  one into the recovery from the other; three old starts cover one before, one
  during and one after the guard.
- *recovery*: two deploy steps race, once with a crash and once with a rerun; two
  archives let a restore be followed by another, and in one scene the archive is
  one the cell has just taken of itself; the clock runs to 2 where a snapshot's
  second matters, so that a request may fall in the second of the last snapshot,
  in the window after it, and past it. Each scene fixes which builds meet.
- *serve*: two boots are needed to judge a record, and a third because the second
  may be killed before it wrote one. One service is enough because the join treats
  services alike and a proof about several would only repeat it; one request
  stands for any that outlives the server, and it is made in the first boot: the
  later ones are there to judge its record.

`SYMMETRY` is used where the permuted values are interchangeable, and with
safety properties only. Deadlock is checked for `lease` and `intake`. The others
have finitely many calls, boots or faults, after which stopping is what the
system does; their configurations say so.

Each property has in `PROJECT.json` one mutation of a modelled definition that
breaks it. The modules hold more of them, each named for the mistake, where a
bundled property has conjuncts that fail for different reasons.

### Fairness

- *Denials, Front*: weak fairness of the appender task. A woken task is polled
  by the runtime, and an append makes a bounded number of attempts whose calls
  time out, so it returns. Nothing is assumed of requests, of the stop or of the
  end of the runtime.
- *Transition*: a started process takes its steps; an interrupted verb is run
  again, and an interrupted abort is run again, which is what the operator is
  told to do and what the record exists for. Nothing is assumed of older nodes.
- *Serve*: both tasks of the process take their steps (`ServeStep`, `SupStep`:
  every wait of a stop is under a timer, so one of its outcomes comes), and the
  runtime drops an aborted service at its next await (`AbortLands`). Nothing is
  assumed of services, requests, rauthy, or SIGTERM. A boot that never stops is
  no violation: `Stops` speaks of stops that began.
- *Custody*: each replica goes on with its attempt (`Runs(n)`): the start is a
  straight line, and a remote cell retries in a loop. Failures are finitely
  many; rauthy answers in the end.
- The other specifications promise safety only and assume no fairness.

## 4. Where the code and its words disagree

One disagreement has its run, `transition_abort`: each step is said to record
its intent before it acts, and recovery to read the last record
(`upgrade.rs:4-5`), but `abort` moves the entries back one by one and only then
records `aborted` (`upgrade.rs:1268`). In the trace the verb is killed at
`relocated`. An abort returns the two caches and the database and is killed
before the log, so that the log is in the app store, the database at the legacy
path, and the record still says `relocated`. The verb run next resumes there and
does not look where the entries are: it opens the app store, raises the floor in
it and records `floored`, and with that a transition that is done but for its
end. `DatabaseCrossed` says that a transition so recorded has the database in the
app store. From there no verb helps: serve's gate refuses to start, because the
database is at the legacy path (`cell_lock.rs:253-261`, 845-853), and an abort is
refused from `flooring` on (`upgrade.rs:1255-1262`).

The others were met while modelling. Each is shown by the modules as they
stand, with the constants and the property given; they are not among the runs
because a passing run on the same module says more.

| how to see it | what the code does, and what is said of it |
|---|---|
| `Lease`: `SlowMint = TRUE`, `TokenGivenOnce` | when the TTL passes between the bump and the read of the token, two calls read the same one; `lock.rs` says tokens strictly increase because the lock is held |
| `Intake`: `LateDeliveries = TRUE`, `NoRowsWithoutHead` | a delivery classified against a tombstone and staged after the sweep dropped it inserts a revision without a head: the guard is an UPDATE, and no row aborts nothing |
| `Intake.cfg`, `GuardAborts` | retention or erasure deletes a row beneath its claim (`work.rs:888-894`, `receipt.rs:655-711` ask no claim); the completing batch's guard is an UPDATE (`work.rs:286`), matches no row, aborts nothing, and the domain writes commit. The guard is said to abort the whole batch unless the claim still holds the row (`work.rs:447-448`) |
| `Ledger`: `StaleAppends = TRUE`, `Wants <- MCDistinctWants`, `Id <- MCDistinctId`, `NeverForks` | an append that read the head before later records were appended and sealed finds its parent free in the index again, and forks the chain |
| `Ledger.cfg`, `UnreferencedBodyIsInert` | a body left by a sealer that died keeps every later seal of the same run from being made; `seal.rs` calls it inert |
| `Lineage`: `Scenes <- MCTwinScene`, `ReindexClears` | a record an older binary appended with an id already spent stays unaccounted for while it is resident, and `reindex`, which walks sealed segments only (`identity.rs:1248`), leaves the coverage incomplete; it is called the one command that clears it (384-386) |
| `Stream.cfg`, `IdleBodyHeard` | a shutdown signalled between a body's look at the flags and its waker wakes nobody; only the 15 s keep-alive polls it again, after the 10 s drain |
| `Stream.cfg`, `OpenStreamsHeard` | a stream attached in the readiness window after the drain returned is never told of the shutdown |
| `Session.cfg`, `LogoutEnds` | the session layer wraps `/session/logout` as well (`rahi-cli/src/serve.rs:939-947`): if the assertion has expired, a logout is renewed on its way in, and the renewed cookie is appended after the handler's clear (`extractor.rs:160-167`), so the browser keeps a session with a live refresh token; `login.rs` says that the session ends here whatever rauthy says |
| `Session.cfg`, `LoginLands` (a PROPERTY) | in the same way a callback that presented an older session and was renewed on its way in appends that session's cookie after the one it has just bought: the browser logged in and stays in the old session |
| `Session`: `Scenes <- MCKeyScene`, `KeyIsKept` | every refresh moves the current set into the previous slot (`jwks.rs:211`), so a second one soon after a rotation drops the rotated key; the header says it verifies for one interval (3-6) |
| `Serve`: `SPECIFICATION Spec`, `MaxBoots = 1`, `MaxKills = 0`, `ConfirmedExitsZero` | a start that cannot spawn rauthy, or whose rauthy never became healthy, records a confirmed stop and exits with the error's own code (`supervise.rs:664-700`); spec 043 gives a confirmed stop exit 0 (`spec.md:728-731`) |
| `Recovery`: `Scenes <- MCRerunScene`, `AlreadyMeansApplied` | after a restore of A, a restore of B that died once it had begun to replace the key files, or had emptied the store, leaves A's marker; a restore of A then answers that there is nothing to do (`restore.rs:521-526`), where the header says the marker makes a second run of the same archive a no-op because it is in place (10-12) |
| `Transition`: `RenderedOnly = TRUE`, other bounds 1, `FencesPaired` | a fresh volume that already holds a rendered environment is given the legacy fence without the supervisor fence, since that one is placed only where nothing is (`cell_lock.rs:381`); a legacy fence is said to imply a supervisor fence (359-361) |
| `Custody`: `Scenes <- MCStrandScene`, `NeverStranded` | a client that was created and not yet given its settings when the start died is refused by every later start as one that differs (`bootstrap.rs:194-203`); first boot is said to register it and every later boot to find it (3-4) |
| `Custody.cfg`, `NeverHalf` | the client secret is a plain write (`supervise.rs:259-267`); a file cut short is there, so every later start keeps it (`supervise.rs:340`), and serve reads it without a look at what it holds (`rahi-cli/src/serve.rs:818`): a replica serves on half a secret, where the start is said to have custodied the secret before serve |

Seen while reading, without a definition of their own: a crash between a
finished passkey registration and the removal of the password makes
`ensure_backup_admin` refuse its own credential at the next start, although it
calls itself idempotent (`rauthy_session.rs:889`, 925-941; in Custody it is the
state in which only a person can help); a first boot that died while minting
leaves a key set that every rerun refuses (`first_boot.rs:32-61`), and one that
died while rendering an environment that every rerun keeps
(`first_boot.rs:142`; `StrandedEnvironment` of Custody); a remote cell
never widens an API key that is too narrow.

## 5. What is proved

The proofs hold for every value of the constants that satisfies the named
assumptions in the modules.

**StoreProofs.** The first part is about Lease: `LeaseTypeCorrect`,
`OneNewestHolderHolds`, `StampsAreIssuedHolds`, `LeaseSoundHolds` (the invariant
the run checks), `TokenGivenOnceHolds`, `LeaseImplementsRegister`; all but the
first under `~SlowMint`. None of the properties is inductive: whether a token is
given twice depends on who owns the lock while a mint is under way. The inductive
invariant `LeaseInv` adds `MintOwnsLock` (a call between the grant and the token
owns an unexpired lock), `FreshTokens` (the token bumped and not yet read has no
author), `CarriersAreAuthors` (whoever carries a token was given it) and
`RepliesAreAwaited`. The refinement proof maps the abstract writer to the author
of the newest token: `ReadToken` is a take, a bump is the loss of the right, a
committing `Apply` is a write, and every other step a stutter.

The second part is about Intake. Without any assumption on late deliveries: `IntakeTypeCorrect`,
`HolderIsNewestHolds`, `WorkHasReceiptHolds`, `AttemptHistoryHolds`, and
`NothingLostHolds`, the action property the run checks. Their invariant `IInv`
adds what the guards of the batches rely on: a tombstone's revisions are bare
(`TombIsBare`), a compacted or erased identity has no work (`NoWorkAtRest`), two
workers never bear one token (`WorkersNumbered`), and the attempt rows of a job
are numbered from 1 to its counter, each once, an open one being the newest
(`HistoryNumbered`); that the numbered rows are as many as the counter is a
cardinality lemma of its own (`NumberedCounts`). `IntakeSoundHolds` needs
`~LateDeliveries`, because a delivery that outlives its tombstone does break it:
`RInv` relates what a delivery has read to the head as it is now
(`DeliveryKnows`). `DoneOnceHolds` and `WorkSoundHolds` need the same and nothing
of retention and erasure, which may delete a row beneath its claim: `DInv` says
where the domain writes of a deleted row went (`CommitsKept`), and that a claim
has its row or lost it that way (`ClaimedOrOrphaned`). That a job commits *with*
its row once and *without* it only when orphaned is what is left to promise, as
section 4 shows.

The third part is about Deploy and Recovery: `DeploySoundHolds`,
`ServesWhatWasRestoredHolds`, `ArchiveSoundHolds` and the action property
`RauthyIsKeptHolds`, all that the recovery run checks, for every set of builds
and migrations, every scene, any number of deploy steps, archives, restores,
crashes and adoptions. `SetsAssumption` and `StepAssumption` say what a build
carries and who may own the node, `NoneAssumption` that the values for nothing
and for a marker that cannot be read are not markers, and `ScenesAssumption`
what a cell may start from: stores that deploy steps of the judged builds can
have left (`Left`), and builds that agree on what a migration they share
requires (`Agree`).

A deploy step computes a plan and applies it one migration at a time, a manifest
is read in one step and appended in another, an epoch is judged in one and
written in the next, and a store is archived, put back and served long after the
step that made it. The invariant `RecoveryInv` carries the judgement across.
`Stores` says that *every* store there is, live, a snapshot on the disk, one on
its way, or in an archive, is one deploy steps can have left, so that what a
restore puts in place needs no second look. `InPlan` says that each migration
of a plan that is being applied finds what it requires in the store or before it
in the plan; that the plan was in that order is `PlanIsInOrder`, that another
step's records cannot undo it `TopGrows`. `Judged` says that the epoch a step is
about to write bears the next number and the hash of the last, or a number that
stands already, in which case nothing is written. `Holders` says who may be at
work beside whom: the owner of the node is one, and no step and no backup runs
beside a restore. `Restored` says that what is in the data directory is the
marker's archive and stays so until the next restore takes it apart; `Keyed`,
which is proved beside it, that the key files a restore has written so far are
its archive's, and that those of a completed one are whole until a restore begins
a file again; `Started`,
what a start has made sure of at each of its steps, from the marker it read to
the key and the floor it serves with; `Backed`, that a snapshot a backup may take
holds every write that preceded the request, which is where the second in a
snapshot's name matters. The run's instance satisfies `RecoveryInv` and `Keyed`
in each of its 1,061,780 states.

**FrontProofs.** The first part is about Denials: `DenialsTypeCorrect` and
`CountedOnceHolds` without assumptions, from `CInv`: the decision the appender
writes is not also waiting (`WriterAgrees`), what waits was never written nor
counted (`WaitingIsFresh`), what was dropped is gone (`DroppedIsGone`), and a
count is single (`CountsAreSingle`). `AccountedHolds`, `DrainSettlesHolds` and,
from all of them, `DenialsSoundHolds` under `~LateRefusals`, from `AInv` and
`DInv`, which add that an appender that is gone owes nothing, and that what was
owed when the drain began was answered. The lemmas `HeldByAppend` and
`HeldByTail` say what a push and a take do to the set of denials held.

The second part is about Front. `FrontImplementsDenials`: for every scene the
front of a cell, with all its layers, implements the specification of the denial
queue, fairness included. Every layer's step is either one `Refuse` or leaves
the queue alone (`LayerSteps`), and the queue's own steps are its own
(`FrontStepsAreQueueSteps`); the fairness condition is the queue's, over the
queue's variables, so it carries over unchanged. `FrontKeepsDenials` follows
with `DenialsSoundHolds`: whichever layer refuses, every refusal is on the
chain, owed or counted, once.

`FrontTypeCorrect`, `CeilingKeptHolds`, `AdjudicatedHolds`,
`CredentialsKeptHolds` and `LimitHoldsAlways` rest on `ScenesAssumption`, which
gives a scene the shape the code's types give it (lists are lists, a host has a
label, rates are numbers, a call is of a facade that exists) and says that no
two groups share a prefix, which `RateLimits::group` sees to. Neither the number
of requests nor a manifest is bounded, and the set of requests need not be
finite. In the invariant `IInv`, `Proved` says what a request has shown by the
time it is at a layer, one conjunct per layer it has passed, so that the layers
after it may rely on it; `Cleared`, for a request whose handler ran, is then
`CredentialsKept`. `CeilingKept` is inductive given `Booted` (what serves was
verified, and the chain is committed to the same manifest) and
`AllowedIsPermitted`: a verdict to allow names a grant that covers what the call
touches. `RefusalIsRight` is the other half of the gate. For the limiter, `Keyed`
says under which keys a request went past it, and `Exact` that each counter is
the number of requests it counted, let through or not (`CountIsExact`); those
let through saw a count within the ceiling, and all requests under one key have
the same ceiling (`GroupHasOneLimit`). The run's instance satisfies `IInv` in
each of its 374,893 states.

**StopProofs.** The first part is about Stream: `StreamTypeCorrect`,
`ProducerNotAsleepHolds`, `DrainNotAsleepHolds`, `SlotsMatchHolds`,
`StreamSoundHolds`, `NobodySleepsHolds`, `AdmittedAsHeldHolds`, without
assumptions. The slot count is an integer and the streams are a set, so
`SlotsMatch` is proved with the cardinality theorems from `AttachedWhileOpen`:
before a drain gives up, a stream is attached exactly while its request is open
and not closed, hence a close gives back exactly the slots of the streams it
closes. `ProducerNotAsleep` and `DrainNotAsleep` rest on the second look after the
wait is enabled; each is inductive with the state between the two looks.

The second part is about Serve, for every finite set of services and every
number of boots, kills and requests: `ServeTypeCorrect`, `ServeSoundHolds` and
`StopOrderHolds`, from `BoundsAssumption`. A stop loses things at one point of
the code and names them at another: streams at the drain and their reason when
the loop ends, a straggler at the join bound and its loss when it is joined, a
failed listener only in the result of the node's shutdown. `RecordIsTrue`
compares what was lost with what the record says, two tasks later. In the
invariant `ServeInv`, `CutIsNamed` holds that together: whatever was lost is
named by a reason of the record, by one of serve, by its result, or by the loop
state that becomes one of them before serve is done; and what serve names reaches
the record's reasons before they are written. `Placed` says where serve can be for
each place of the entry point, `Bare` that a process which has started nothing
has lost nothing, and `Listening` what of the listener, the services, the
requests and the denials is left at each place of serve; `StopOrder` follows from
`Placed` and `Listening`. `Recorded` follows the volume's two records through a
kill between any two steps: between the boot sequence and the boot's own mark
the record is one boot behind, and is read as such. The run's instance satisfies
`ServeInv` in each of its 463,843 states.

**LedgerProofs.** `LedgerTypeCorrect` and `SegmentsArchivedHolds` without
assumptions. `LedgerSoundHolds`, `NothingDeletedUnarchivedHolds` and
`ImplementsChainHolds`, the refinement of AppendOnlyChain, under
`~StaleAppends`, for every seal policy, set of calls and set of sealers. The
invariant `IInv` says that a log exists (`HasLog`): the records that landed, in
the order of their links, of which a prefix is sealed and the rest is resident
(`Divided`), with an identity row for each (`Stamped`), no batch on its way to a
parent with a sealed successor (`Pending`), and every sealer holding the oldest
run of the resident part unless another has archived that run first
(`Sealing`). From it follow that the head a call reads is the last record
(`HeadIsLast`), so that an admissible batch extends the log at its end
(`ApplyExtends`); and that the run a sealer reads is the log's
(`OldestRuns`, by the least index at which it would differ), so that a
committed seal moves the border and leaves the log alone (`CommitMovesBorder`).
The refinement is then short: the abstract chain is the set of records of the
log, and what `classify` reads in an identity row is true of it.

**LineageProofs.** `LineageTypeCorrect`, `IdentitySoundHolds`,
`RecoverFindsHolds`, `TailIsNewestHolds` and the action property
`RowsAreKeptHolds`: all the lineage run checks, without assumptions on the
fleet, for every set of ids and decisions, every seal policy, every mix of
binaries and any number of losses, crashes and damaged records. The invariant
`IInv` has a part for each thing the code leaves implicit. `Linked` says that the
runs follow one another and that what a seal has read leaves a record resident,
from which `RunsDivide` concludes that each place is in one run or resident.
`DistinctIds` says that what was resident together has different ids, without
which an accounting could not tell a row's record (`AccountIs`). A chain whose
coverage reads complete is complete by counting (`CountIsComplete`,
`CompleteCounter`): a counter counts the rows that name its segment
(`CountersAreExact`), each names another record of the run since rows are true,
so as many rows as records leave no record out. `AllStamped` says what only
stamping binaries wrote has, record by record, and `HandlesKnow` that no handle
of such a chain finds anything missing; both stand for any chain until the first
older binary writes, which nothing undoes (`OldStays`). `ReaderIsRight` follows
`recover` between its two reads: a row it has read is never pointed elsewhere
(`Extends`), so a record that has left the table is in the segment the row names
by then. `HeadersName` says of each header what it leaves current, provided those
before it name theirs. `ChainSteps` shows that every step keeps what is said of
the chain and takes nothing back; the lemmas before it have one case for each
way the chain changes: a record, a backfill, a seal with and without accounting,
a reindexed segment. The run's instance satisfies `IInv` in each of its 682,000
states.

**SessionProofs.** `SessionTypeCorrect`, `CookieIsLiveHolds`,
`SessionSoundHolds`, `TakesEffectHolds`, `LogoutIsFinalHolds` and
`RevokedIsRefusedHolds`: all that the session run checks, for every scene, any
number of requests in flight, sessions, tokens and signing keys, and every
lifetime; assumed are only that a request has some time (`Flight > 0`) and that
rauthy can grant (`MaxGrants > 0`). Each property speaks of a moment when
nothing is under way, or of a request that has been answered, so the inductive
invariant `IInv` says what holds in between.

`Fits` is about each browser request at each of its steps. `Phase` says what it
holds there, and that the cookie its reply will append is the one the layer
renewed; `Backed`, that each token it holds was issued, and is the live one if
nothing else touched its session; `Booked`, that the code of a login is spent and
nothing is granted for it before it is exchanged; `Timely`, that a role or a
grant it goes by still stood when the request began, or is in a cached assertion
whose time has not run out, which with `CacheBounded` gives the bound of
`TakesEffect`. `Apart` says that a login is
known to one callback, and that nobody else is of the session of a logout that
overlaps with no one. `Sessions` is about each session: `JarKept`, that the jar
holds its live token or a reply that does is on its way, for two pages cannot
both hold one, because the loser of that race spoils the session; `Hidden`, that
before its callback is answered no request and no cookie is of it; `Over`, that a
session that ended for good has no cookie, no request and, if the cache answered,
no assertion. A logout that its own layer renewed ends as `"renewed"`, and
`Over` says nothing of it. `Judged` says that what bars a bearer token lies at a
read still ahead of the request, whichever of the three reads it is (`RowsRise`:
no row is ever lowered), so none with a revoked token reaches the handler. The
run's instance satisfies `IInv` in each of its 5.3 million states.

**TransitionProofs.** For any number of pre-043 starts, of kills and of aborts.
`TransitionTypeCorrect` and `StoreInOrderHolds` without assumptions: whatever an
operator runs after an abort, the store leaves the legacy path in the order of
the plan and returns in the reverse one (`NextIsFirst`, `LastIsLast`, and one
lemma for each step that moves an entry). `TransitionSoundHolds` and
`OldNodeShutOutHolds` under `~ResumeAfterAbort`, which the disagreement of
section 4 shows to be needed; `ServedIsFencedHolds` and `FencesPairedHolds`
under `~RenderedOnly` as well. None of them needs `~CrashBeforeRecord`: a crash
between the guard and its record may cost the captured metadata, and with it
`Completes`, but neither the store's place nor the guard.

None of the four is inductive, since each speaks of a phase that was reached by
several looks at a volume others write to. In the invariant `IInv`, `Recorder`
says which phase is recorded at each step of the verb, of an abort and of
`serve`, and `Stored` where the entries are at each phase. `Marked` follows a
pre-043 node through T1: once the guard is linked and the locks were looked at,
only a node that is closing can be left; after the look at the database none;
and a node that took the marker's place in between is seen by the last look at
the guard. `OldSays` ties such a node's progress to the marker and the side
files those looks read. `Untouched` carries the environment of a store that no
pre-043 process was started on through the fence, the evidence and the abort.
`Paired` and `Building` follow two processes that build the fences at once,
each over its own temporary. The run's instance satisfies `IInv` in each of its
330,720 states, and so do the instances with `CrashBeforeRecord` and
`RenderedOnly` set.

**CustodyProofs.** `CustodySoundHolds`, `PasskeySoundHolds` and
`DocumentsKeptHolds`: every safety property of the custody run, for every finite
set of replicas, every set of scopes, every sequence of versions and every
scene, with any number of crashes, failed calls and operator acts.
`CustodyAssumption` says what a manifest can declare, `ScenesAssumption` that
`supervise` is one process and that a scene starts from documents rauthy can
hold, `NoneAssumption` that the value for nothing is none of the others. The
proof first gives each call its effect on a replica's record and on rauthy's
documents (`AdminWrites`, `ClientWrites`, `NativeWrites`, `RestWrites`), so that
each part of the invariant `CustodyInv` looks at what it speaks of and no more.

`Minting` says that a key that is not on the volume was never minted, and that a
run that mints has one left to write; with it `KeysMintedOnce` is inductive, a
crash in the middle of a file included, since the torn file is there and makes
the rerun refuse. A file cut short is there like a whole one, and that is why
`SecretsMatch` excuses a replica whose secret was: every later start keeps it. `Provided` says that one replica provisions the backup admin
and that nothing remakes an account it has reported usable; `PasskeySound` would
not survive two. `Held` is about the secret a replica would present, the one it
has just been told or else its file: a replica that is not excused holds rauthy's
or none. It stands because a client is created only where there is none, and
whoever replaces one excuses the replicas that held a secret of the old one.
`Copied` says that what goes back to rauthy was read since the operator's
addition, which is why a whole document written back keeps it; an addition made
between such a read and its write may be lost, and is not promised. `Ceiling` carries
the declared grants through a rollout: the last of the replicas to leave custody
left the native client as its own version declares it, and a replica of another
version that is still in custody keeps the premise from holding. `Paused` says
that only a remote cell waits before it tries again. The run's instance
satisfies `CustodyInv` in each of its 945,469 states.

Every safety invariant and every action property of the runs is a theorem. Only
model-checked: the liveness properties `EachSettled`, `Completes`, `Stops` and
`Composes`; and the violation. Out of the prover's reach: liveness under fairness, `ENABLED`, and
induction over data by the library's induction theorems; where an induction over
an index was needed, the fact that a set of natural numbers has a least element
(`LeastNumber` of LedgerProofs and of LineageProofs) took its place. No module
uses a RECURSIVE operator.

A record inside a function is updated as `[f EXCEPT ![i] = [@ EXCEPT ...]]`, all
its fields under one index, and where two indices may be equal one update is
applied to the result of the other. TLAPS 1.4.5 translates two updates under
possibly equal indices of one EXCEPT, and an `@` within another `@`'s value,
in a way that is not TLC's, so neither form is used where a proof depends on it.

## 6. Abstractions and assumptions

Data are model values: contents stand for digests, ids for hashes, a decision
for its id. Time is left out wherever the callers' clocks may disagree: a
comparison with `now` may come out either way. Where a bound between two times
is the point (Session, the limiter of Front, the snapshots of Recovery), there
is one clock of few units.

Some Boolean constants name an assumption of the code's design that nothing in
the code enforces. The passing runs set them to FALSE, and section 5 names the
theorems that suppose it; TRUE shows what happens otherwise.

| constant | FALSE means |
|---|---|
| `SlowMint` (Lease) | a bump and a read take less than the ten-second TTL |
| `LateDeliveries` (Receipts) | a tombstone is not dropped while a delivery classified against it is on its way |
| `StaleAppends` (Ledger) | no seal overtakes an append that read the head before the sealed records were appended |
| `LateRefusals` (Denials, Front) | no request outlives the appender the runtime dropped |
| `ResumeAfterAbort` (Transition) | an interrupted abort is run again, not the verb |
| `CrashBeforeRecord` (Transition) | no crash falls between the guard's link and the record that follows it; what T1 captured of the logs is until then in memory only |
| `RenderedOnly` (Transition) | no fresh volume already holds a rendered environment |

Steps that are merged, and why it is sound: in Work the mint of the queue's
lease and the read of a candidate (a mint by another call between them only
makes the later batch abort); in Ledger and Lineage the read of the head and the
sending of the batch (the batch may be applied at any later time, so every state
between the two is reachable); in Denials a push with the count of the loss,
both before the request returns and neither read in between by anyone who acts
on it; in Stream a change of a stream's flags with the notification that follows
it in the same call, and the drain's close of all streams when its timeout
passes. In the last two a task that is not yet notified behaves as one that has
not been polled yet.

Per module:

- *Intake*: `stage_work` is one statement without a guard (`work.rs:334-352`);
  what it stages is the caller's. `Enqueue` is a caller that enqueues accepted
  revisions only, and none that retention has compacted, whose row would be
  pending anew.
- *Ledger*: a seal's two reads of the records, `count()` and `records()`
  (`seal.rs:388`, 393), are one step.
- *Lineage*: an append whose parent was sealed meanwhile is refused; Ledger shows
  the case in which it is not. The ids of one run of calls differ unless a scene
  makes them equal. Damage to the bytes happens before the reader's answer, not
  after it.
- *Front*: the text of an SQL statement is not parsed; a use names the table it
  touches. A marker may name a triple other than the one the code under it uses,
  and covers any opaque site within five lines; the scenes hold both. The session
  layer refuses two credentials under `/auth` too, where the bearer gate passes
  them; a handler answers with its first error. Counters are per node and die with
  it, so the ceiling is too. The requests of the pending router are not counted.
  Of `Manifest::validate`, the rules on the ledger, observability, contract and
  auth settings and on empty ids are left out (`manifest.rs:663`, 508, 420): no
  verdict depends on them. Whether a session or a token is good is an input.
- *Session*: one person, one role. A cookie opens or does not. rauthy may rotate a
  refresh token at each grant, and accepts only the one it issued last, so of two
  renewals that race one is refused; `CookieIsLive` exempts such a session. A
  failure of logout's revocation or of its delete is ignored, as the code ignores
  it. That two credentials in one request are refused is Front's.
- *Custody*: an admin call is one step of rauthy's store. A document is reduced to
  what the program decides on: whether it is sound, what an operator added, which
  version's lifetime it carries. Directories and file modes are left out. A
  replica whose secret was cut short is exempt from `SecretsMatch`.
- *Stream*: `Shared::close` changes its flags, drops the sender and gives the slot
  back in one step.
- *Transition*: the pre-043 binary is external and reduced to what the fences rely
  on: it tests the marker, claims the store, and reads its environment. A step
  after T1 keeps the metadata that was recorded, where the code writes what the
  running verb has in memory, which on a resumed verb was captured again.
- *Deploy, Recovery*: the chain is the sequence of its transitions and epochs. A
  restore does not begin while a deploy step or a backup that outlived its node
  still runs. Of builds that share a migration, the same one by version and
  checksum, each requires the same for it. A row written before checksums is the
  app's, was judged by no requirement, and belongs to a migration that has none;
  `ArchiveSound` speaks of the other rows. A store that a restore left torn is
  exempt from what a served store satisfies until the next restore completes, and
  so is one whose key files a restore had begun. Two key files stand for the set:
  the one the chain is checked against, and one that is only read. A database or a
  rauthy snapshot that a restore left half written is not modelled: such a store
  is among the exempt.
- *Serve*: axum runs a connection as a task, so a request or a stream outlives the
  server future that is dropped; a stream may attach during the drain. A service
  that errors and one that panics are one failure; one that never reaches an await
  is never joined, and is not modelled as stopping. What happens to the tasks
  after rauthy's grace was overrun is not followed. I/O errors of writing the
  record are left out, that of the finished record included (`serve.rs:1150`,
  after which the exit code stands), and so is SIGTERM before its handler is
  armed.

## 7. What is not modelled

- *Outbox, watermark, notify*: the store stages outbox rows and reads them back;
  the publisher that would race is the application's. A watermark is one guarded
  UPDATE.
- *Observability and exposure*: metrics, a ring of log lines, and a check of
  addresses at the start; nothing acts on them.
- *Discovery and proxy*: one HTTP document with a cache and a pass-through of
  requests.
- *Preflight, bindings, cli, harness, types*: read-only checks, rendering,
  argument parsing, test substrate, data types.
- *Cryptography*: hashing, signatures, age, the envelope; canonical encoding;
  the text of SQL. They are functions of their arguments; the models keep what
  they decide.
- *hiqlite, tokio, rauthy and the archive's object store* are external; the
  models take from them what the code relies on: consistent reads, atomic
  batches applied in some order, at most once, and possibly after the caller
  gave up; a lock with a TTL that is looked at only when a request comes in;
  snapshot requests that may be ignored.
- Within modelled components: genesis election between binaries, sealers with
  different policies, `stage_seen`, the paging and backoff arithmetic of the
  work queue, scopes and resource metadata of the bearer gate, issuing the CSRF
  cookie, WebAuthn's bytes, file formats, retention of snapshot files.

## 8. The plan

Written first, because everything else rests on it: Lease with FencedRegister;
Receipts, Work and Intake; Ledger with AppendOnlyChain; then the two drains of
the stop, Denials and Stream. Then the rest of the cell around them: Lineage
over Ledger, Gate and Front over Denials, Session, Custody, and the operator's
side, Transition, Deploy with Recovery, and Serve. What is left:

1. **Sealing under two policies** in Ledger: a sealer that deletes what another
   archived under different bounds.
2. **Genesis** between two binaries that boot an empty store.
3. **Outbox** with the publisher the documentation describes: at-least-once
   beside the lease.

## 9. Running it

    tlc -workers 2 -config Lease.cfg MCLease
    tlapm StoreProofs.tla

`PROJECT.json` names the module and the configuration of each run. On two
workers each run takes between half a minute and two and a half minutes.
