# KetJS, specified

TLA+ specifications of KetJS where it is hard to get right. On the server: the durable job queue and the worker processes
over it, recurring schedules, the connection pool, tenants, a SQLite connection, server function calls under an idempotency
key with the document numbers they take, the context a function is given, rate limits, schema migrations, sessions,
resumable streams, notifications, WebSockets, the shutdown of the HTTP server, and the composition of modules with its upgrades.
In the browser: the mirror, signals, stores, rendering, islands, forms and navigation. TLC checks each
specification on a small instance; TLAPS checks the safety of several of them for every value of their constants (section 4).

Every definition is read off the TypeScript under `src/`. `PROJECT.json` maps each one to
the lines it stands for.

    tlc -config MCTables.cfg MCTables.tla          # model-check one run
    tlapm JobQueueProofs.tla                       # check the proofs of one module

## 1. The system

KetJS composes application modules into a manifest, and serves that manifest from web
processes and worker processes. The processes share nothing but databases: one per tenant,
PostgreSQL or SQLite, each reached through an adapter. A web process answers HTTP by
calling server functions; a function may enqueue jobs, take document numbers, write
streams; a worker process polls the queue of each tenant, executes jobs and fires
schedules. A browser keeps a mirror of what the server answered.

    browser page --HTTP--> web process --callFn--> function --> ket_idem, ket_sequence
                                  |                     |
                              pool.with            enqueue, stream
                                  v                     v
                             adapter pool          ket_job <--claim/settle-- worker process
                                  |                     ^                        |
                                  +---- tenant db ------+---- enqueue ---- sweepSchedules
                                                                             ket_schedule

The components, what each keeps, and what makes it correct (`packages/ketjs/src` unless
another package is named; lines count the source):

| component | source | state | operations | what is hard | what makes it correct |
|---|---|---|---|---|---|
| Durable queue | `server/queue.ts` (655) | table `ket_job` | enqueue, claimBatch, heartbeat, complete, retry, discard, cancel, retryNow, rescue, prune, fail, release | every operation is one or two SQL statements raced by other processes; enqueue and rescue read, then write | a unique key has one active job; an outcome is final; an executing row can always be rescued |
| Worker | `server/worker.ts` (661) | runs in flight, abort controllers, timers | runOnce, execute, close | timeouts, late answers, lost leases, overlapping runs of one job, crashes, shutdown | one run per delivery; no lease without a run; concurrency kept; a job ends unless handlers that do not end stand in its way |
| Schedules | `server/schedule.ts` (86), `kernel/schedule.ts` (87), `sweepSchedules` | table `ket_schedule`; the worker's `sweeping` | claimDue, sweepSchedules | replicas with clocks apart, overlapping sweeps, crash between claim and enqueue | a tick fires at most once, in order, and none goes missing unaccounted |
| Adapter pool | `data/pool.ts` (225) | map of entries, closing set, admission chain | acquire, release, evictIdle, close | check-then-act over awaits, shared failing opens, eviction against leases | cap kept; a leased connection stays open; close leaves nothing |
| Idempotent calls | `server/idem.ts` (98), `server/fn.ts` (416) | table `ket_idem` | claim, complete, release, sweep; runFn | stale takeover, settlement without a token, transactional and plain paths | one holder; receipt and effect together; a receipt answers its own request |
| Sequences | `server/sequence.ts` (134) | table `ket_sequence` | nextSequenceNumber | compare-and-set under transactions that roll back | numbers unique, gaps explained |
| Rate limits | `server/ratelimit.ts` (149) | table `ket_rate` | claimRateSlot, prune | window reset against counting | at most `limit` per window |
| Streams | `server/stream.ts`, `streamstore.ts` (454) | chunks by topic and sequence, writer buffer and chain, tail cursor | write, flush, end, tail, sweep | lost wake-ups, failed appends, resuming readers | a reader misses no chunk, gets them in order, and learns of the end |
| Notification hub | `server/notify.ts` (145) | channels, listeners | subscribe, leave, deliver | last leaver against first joiner, reconnects | no listener left on a dead subscription |
| Sessions | `server/session.ts`, `sessionstore.ts` (670) | table `ket_session` | start, of, update, end, sweep | refresh against expiry, context change against revocation | a revoked or expired session is never revived |
| Tenants | `server/tenants.ts` (381) | prepared adapters, session facades | with, listen | caches that outlive an evicted adapter | no operation on a closed adapter |
| SQLite adapter | `data/sqlite.ts` (404) | operation queue, transaction scope | exec, all, run, tx | statements from outside during an open transaction | a transaction is alone on its connection |
| PostgreSQL adapter | `ketjs-postgres/src/postgres.ts` (226) | connections | exec, all, run, tx, listen | row locks, notification after commit | all or nothing |
| Migrations and fleet | `data/migrate.ts`, `fleet.ts`, `physical.ts`, `changeset.ts` (1219) | `ket_migration` marker, the schema | plan, migrateOne, confirm, migrateFleet | replicas that boot together, failure halfway, shared databases | schema and marker move together |
| Web server | `server/http.ts`, `boot.ts`, `http-binding.ts`, ... (about 4400) | connections; in the browser runtime it serves: slots, history, behaviors | close; navigate, apply, mount | shutdown with requests in every state; navigations that overtake each other | every socket is asked to leave; what was overtaken touches nothing |
| Function context | `server/ctx.ts` (903), `callFn` | per call: scope, effects, recorded writes, notices | find, insert, update, del, enqueue, notify, tx | reference checks before the statement they guard; dry runs; scopes handed on by jobs | nothing outside the scope is read or written; the account of a call is what it did |
| WebSockets | `server/websocket.ts` (440) | one connection's frames and close state | receive, send, close | close handshake, fragments | one close, in order |
| Kernel | `kernel/*` (about 5000) | the manifest, frozen | compose, diff, planMigration, permissions | order and passes of composition; what an upgrade loses | names and orders do not matter; a diff tells every loss |
| Query layer | `data/query.ts`, `expr.ts`, `list-search.ts`, `time.ts` (1189) | none | SQL text | none concurrent | -- |
| Browser mirror | `ketjs-view/src/mirror.ts` (1037) | entries, loads in flight, optimistic patches | read, write, invalidate, restore, attach | answers out of order, rollback over newer data, scope change | no stale answer or rollback replaces newer data |
| Signals and store | `ketjs-view/src/signal.ts`, `store.ts` (598) | dependency graph, call stack, attachment, runs of a task | set, batch, flush, effect, stop; attach, dispose, run | writes inside effects, lifetimes that end inside connect() | at rest every effect has seen the newest values; one attachment, one answer |
| Rendering | `ketjs-view/src/render.ts` (755), `island.ts` | parts and keyed lists of a root; islands of a slot | render, reconcile, hydrate; mount, replace, dispose | moves, adoption of server nodes, islands kept over navigations | shows what a fresh render shows, with the fewest moves; one instance per kept host |
| Forms | `ketjs-view/src/form.ts`, `form-session.ts`, `form-dom.ts`, `server/form-action.ts` (about 1900) | draft, base, revision, pending intents | validate, edit, submit, retry, reset, refresh | answers lost or late, others editing | applied once; a conflict is told; nothing typed is lost |
| Theme, PDF, CLI, storage, transport, logging, tools | rest | -- | -- | -- | out of scope: I/O, text or layout |

`PROJECT.json` repeats the list with what is modelled of each and lists, under `hazards`,
the places in the code that a test would hardly reach.

## 2. What is modelled

### JobQueue -- `server/queue.ts`

`jobs` is the `ket_job` table. A row keeps its state, unique key, queue, priority, attempt
count and maximum, whether `scheduled_at` has come (`due`), and its `worker_id` and lease
(`none`, `live` or `expired`). A clock would only be compared with those two columns, so
that "it comes due" and "the lease expires" are steps (`ComesDue`, `LeaseExpires`).

One action is one SQL statement or one transaction: what the database makes atomic. `enqueue` is
`Enqueue` (the INSERT), then, when the key was taken, up to three rounds of
`EnqueueLookup` (SELECT the holder) and `EnqueueAgain` (INSERT once more), with the caller's
position in `enqueuing`. `rescue` is `RescueSelect`, which leaves a snapshot of the expired
rows in `sweep`, and one `RescueSettle` per row of it, deciding from the snapshot as the code
does; a call that fails stops halfway (`RescueStop`). `ClaimBatch`, `Heartbeat`, `Complete`, `Retry`, `Discard`, `Cancel`,
`RetryNow`, `Prune`, `Fail` and `Release` carry the WHERE clause as their guard;
`Held` is the code's `workerGuard`. The partial unique index is `Occupies`; an empty
string is a key to the index but not to the code (`EmptyKeys`).

Arguments, history, time stamps, the legacy column migration and the read-only operations
are left out. The order of a claim keeps the priority; the order by `scheduled_at` among
equals is left open. `Fail`, `Release` and the single `claim` have no caller under `src/`
and are modelled because the interface offers them.

`JobContract` is what callers are promised, without rows or leases: a job waits, runs, comes
back, ends as closed or failed, may be reopened from failed only, and a key belongs to one
job from admission to end. `KeepsContract` states that `JobQueue` implements it, under the mapping
`Life` and `Slot`.

### JobWorker -- `server/worker.ts`

Extends `JobQueue` with processes. `runs` holds the calls of `execute()` under way, each with the
attempt and maximum of the row its claim returned; `controllers` is the map from job id to
abort controller; `process` goes from `up` through `draining` (close, waiting out the grace
period) and `aborting` to `down`. `lost` records leases whose holder's call to the database
failed, so that `RunsKept` can say exactly which rows may be without a run.

The poll pass is `BeginRescue`, `GoOnRescue`, then `Claim`; each may fail
(`FailRescue`, `ClaimLost`, where the statement committed and its answer was lost). A run
`TimesOut`, `Beats`, `Returns` or `Throws`, then `Completes` or `Fails`, where both the
update and its failure (`CompleteThrows`, `SettleThrows`) are steps and every settlement goes
through the guarded statement of `JobQueue`. A job unknown to the manifest is discarded
(`DiscardsUnknown`). `Close`, `GraceEnds`, `Exit` and `Crash` end a process; a restarted one has
a new id, as `workerId` is random. A producer and the operator (`ketjs jobs`) act beside the workers.

### Schedule -- `server/schedule.ts`, `kernel/schedule.ts`, `sweepSchedules`

`lastTick` is `ket_schedule`. `sweeps` holds the calls of `sweepSchedules` under way: which instant
their clock showed, which job of the manifest they are at, what they read, what they claimed. Each
await is a step: `InsertFirst`, `Select`, `MoveForward` (the compare-and-set), then
`EnqueueClaim` one by one. `StartSweep` does not ask whether the last sweep has ended, as
`setInterval` does not. A replica's clock may be up to `Skew` behind. `sweeping`, `BeginClose`,
`FireWhileClosing`, `AwaitSweep` and `EndClose` are the handle `close()` waits on. `live` is the
set of unique keys of active jobs, the part of `JobQueue` that matters here. `fired`, `first`,
`lost` and `skipped` record history for the properties.

Instants are numbers and ticks multiples of a period; the calendar of a daily schedule is
not modelled, nor are several tenants.

### AdapterPool -- `data/pool.ts`

An action is what runs between two awaits. `entries` is the Map, `entry` the Entry objects
(they outlive their place in the map), `closing` the Set, `admission` the promise chain of
`withAdmission`, `caller` and `sweeper` the position of each caller. A microtask queued by a settled
promise runs before any new call enters; `Settled` is that order, and it matters between
the end of the admitted section and the lease at `pool.ts:129`. Opening and
closing a connection may fail. Which idle entry is evicted (least recently used) and which are
old enough are left open: the properties must hold for any choice.

### FnCall -- `server/idem.ts`, `server/fn.ts`, `server/sequence.ts`

A call claims its key, runs a handler that takes one number and writes one document, and
settles. A plain function's statements commit one by one: `Claim`, `Look`, `TakeOver` of a claim
older than five minutes (`Age`), `ReadNext`, `MoveNext`, `WriteDocument`, `Completes`, or `Throw` and
`ReleaseClaim`. A transactional function's statements take effect at `CommitCall`: until then the
rows it inserted or moved are locked (`keyLock`, `numberLock`), which is how PostgreSQL makes the
second INSERT of a key and the second UPDATE of a sequence wait. SQLite serialises whole
transactions and allows a subset of these behaviours. `SweepReceipt` is `idem.sweep`, which nothing
under `src/` calls. `Ends` is a transaction that rolls back, or the end of the process under any call.

### Stream -- `server/stream.ts`, `server/streamstore.ts`, the SSE endpoint of `server/http.ts`

`log` is `ket_stream` for one topic: which writer a row is of, which of its chunks it holds, or that it is
an end. `writers` holds the closure `open` returns: the next number, how much is buffered, the `chain` of
appends, and whether it was rejected. Each writer is one run; two of them are a retry, or a job taken over while
its first run goes on. `Write` flushes a full buffer as the code does, `Flush` is the timer or `flush()`;
`AppendBatch` sends the head of the chain, `AppendThrows` is a refused INSERT, a failed one, or one whose answer was lost after
it committed. `End` flushes, `MarkEnd` and `EndThrows` are what follows the await. `Crash` takes the closure with it.

`readers` is a client and the tail of its connection. `Read` is one SELECT (`Unread`, and `Done`, which is exempt from the cursor) with
the cursor moved at once, `Yield` one chunk delivered, `Sleep` the return or the wait, `Poll` the end of the wait. `Announce`
wakes any subset of the readers asleep: a notification may be lost, and a reader that is not asleep has no waiter. `Drop` ends a
connection at any of these points (cut, timed out, shut down); `Connect` comes back with the last id received, which is the
only cursor the endpoint hands out. An id `s + i / 1000` is the pair `<<s, i>>`, and `Floor` keeps `s`.

A write after `end()`, a writer opened inside a transaction, `sweep` (no caller under `src/`) and the memory store are left out.

### RateLimit -- `server/ratelimit.ts`

`rtRow` is the row of `ket_rate` for one policy and key. Each call of `claimRateSlot` keeps the `now` it began with and goes
through its statements one by one: `RtSelect`, `RtInsert` when there was no row, `RtMove` (the UPDATE that compares both columns
with what was read), again after a lost race until its attempts are used up. `RtPrune` is `pruneRateSlots`, which may delete the row between any
two of them. `rtGranted` records, per window and clock of the call, what was granted. The source's own ceiling across a boundary, twice the limit
(`RateTwice`), is checked as part of `RateKept` for calls at most an instant behind; further behind it is not so (end of section 3).

### Migration -- `data/fleet.ts`, `data/migrate.ts`, `data/physical.ts`

Two deployments share one PostgreSQL database. `mgPhysical` is the schema there is, `mgMarker` the row of `ket_migration`, `mgRecorded` those of
`ket_migration_deployment`, `mgLock` the advisory lock. A transaction (`mgTx`) takes the lock, plans from the marker
(`Target` is `datastoreSchema`: of what the deployments ask for a table, our release wins and before it the last by `NameRank`; `Difference` is
`planMigration`, and `GoesBefore` the order of its statements), executes its statements one at a time, those of different tables in any order, commits, or rolls back anywhere. `ByHand` and `Confirm` are an operator's DDL and
`confirmManualMigration`. `mgBroken` is set when a statement of a plan cannot be executed on the tables as they are.

### Session -- `server/session.ts`, `server/sessionstore.ts`, `sessionRecordOf` of `server/boot.ts`

`ssRow` is `ket_session` by id, `ssAccount` what `resolveSession` would answer now. A request reads its session, extends or destroys it, resolves the account,
updates the session with the context it read under the revision it read, and reads again; each
statement is a step. Logins (`LoginReads`, `SsStart`), sign-out, `endUser`, the sweep, the clock and changes of the account run between any two of them.

### Notify -- `server/notify.ts`

One channel. `ntCurrent` is what the map has for it, `ntEntries` the entries made so far, which closures hold on to. `NtSubscribe` joins or
starts, `NtAnswers` is the database's answer to LISTEN, `NtForget` the rejection handler, `NtMicrotask` the deferred `onReady`,
`NtLeave` the function `subscribe` returns.

### WebSocket -- `server/websocket.ts`

One connection, one event of its socket or timers per action. `wsServer` is what `acceptWebSocket` closes over; `OnData` takes one frame through
`Handled`: protocol errors, size, reassembly, ping, close. The client sends frames in any order, legal or not, ends or vanishes. `WsAccept` may come after the socket is gone, as the upgrade awaits
the route. `Heartbeat` and `CloseTimeout` are the two timers, `PeerSend` and `PeerClose` what a route does.

### HttpServer -- `server/http.ts`

The connections of one process (`hsConn`) and its `close()`: `Close` asks the sockets and ends the streams there are, `GraceEnds` drops what
`closeAllConnections` reaches, `Closed` is Node's callback. Node's own server is modelled from how `http.ts` uses it.

### Mirror -- `ketjs-view/src/mirror.ts`

One key read by a page. `miMirror` is the closure of `createMirror`: scope and epoch, the entry with its revision, the loads under way, the writes with what their patches undo.
A value is known by the writes it shows, so that "older" means something. Every method an application calls is an
action (`SetScope`, `Attach`, `Invalidate`, `Seed`, `Restore`, `Run`, `DisposeWriter`, ...), and so is each answer: `LoadServed` when the server reads, `LoadLands` when the page
hears. A change of a signal runs the reading's effect in the same step (`Becomes`, `Followed`).

### Signals -- `ketjs-view/src/signal.ts`

The graph is synchronous, so that what matters is what calls what. `sgStack` is the call stack: the program, a batch, a flush, the run of an effect,
a cleanup. The code on top does what it wants (write, read, batch, create or stop an effect), and each return is an action. Values are
left out: a signal is `changed` after it was read, or not. Equal writes, `peek` and untracked reads do nothing and are left out.

### Store -- `ketjs-view/src/store.ts`

One island store: `connect()` for one lifetime after another (`StAttach`, `StConnected`, `StEnds`, `StDispose`), also from inside a `connect()` that is still
running, and the runs of one task under each concurrency mode, whose answers come late (`StRun`, `StAnswers`).

### SqliteQueue -- `data/sqlite.ts`

One connection (`sqConn`). `sqOp` holds the operations asked for, with where a transaction's body is; `sqQueue` is the chain of `serialize`, `sqRunning` whose turn it is, `sqDb` the rows that
are committed and `sqUncommitted` those of the open transaction. A statement that reaches the connection joins the transaction that is open on it, whoever sent it, as in SQLite. Operations come from
outside, from the body, and through a scoped adapter used after its end.

### Tenants -- `server/tenants.ts`

The adapters a pool hands out and takes back at will, and what is remembered of them: prepared or not, the session manager of an adapter, the session facade of a
key. Requests, operations of a facade and listeners are calls that lease, await and work.

### Compose, Upgrade, MCUpgrade -- `kernel/compose.ts`, `graph.ts`, `semver.ts`, `routes.ts`, `permissions.ts`, `diff.ts`, `planMigration`

`Compose` is a function from a world (the modules by name, the rank of names in the order of `sort()`, the options) to a manifest with its error codes, pass by pass. `Upgrade` moves
a checkout to another revision, composes it and deploys it when it is accepted; what `ket diff` and the plan say of the step is compared with what is gone. `MCUpgrade` holds the checkouts:
up to four modules with a few revisions each, for every part of composition. Which string a diagnostic names and what is checked of one string alone is left out.

### Context -- `server/ctx.ts`, `callFn` of `server/fn.ts`

The rows of models of two companies, `cxCalls` the calls and jobs under way with their context, transaction and what they recorded. A handler is arbitrary code: any operation its
declared effects allow may come next (`CxOperates`), references are checked one step before the statement they guard, a transaction commits or rolls back, a call ends or throws,
jobs it enqueued run with the scope they were given. Ids are the caller's to choose, one of a deleted row as well: the rows that can have one id in turn are its `Bearers`, and a reference knows which
of them it was checked against, though the column holds the id alone (`Meant`, `Blind`). A delete reaches every company the request may read, as in the code; an insert or an update only the one it writes to.

### FormContract, FormCheck, FormSession -- `ketjs-view/src/form.ts`, `form-session.ts`, `form-dom.ts`, `server/form-action.ts`

`FormContract` is `validateForm`: rules, values and texts (tokens with what the code asks of them). `FormCheck` sends a value through it on both sides. `FormSession` is an
editor over one record which others edit: entries, intents, posts, answers lost or late, refusals, conflicts, refresh and reset, with the idempotent action that answers.

### Render, Island, Navigation -- `ketjs-view/src/render.ts`, `island.ts`, `browserBootstrap` in `server/http.ts`

`Render` keeps the container's nodes with identities and the parts over them: a first render builds or adopts, later ones write holes and reconcile keyed lists, and a render
may throw halfway. `Island` starts islands over the hosts of a slot, keeps those whose identity a navigation brings again, and disposes the rest; a host may have others inside it. `Navigation` awaits a response, the modules of its islands and
its behaviors, each step of which a later navigation may abort. Where it fails, a document is loaded, unless its caller handles failures itself (`Handled`: `fallback: 'error'`, and `navigation.apply`); a response of another
build loads one whoever asked (`NgOtherBuild`, `NgApplyOtherBuild`). A reconciliation that throws between two slots leaves such a caller the new content in some of them and the old behaviors (`NgTears`).

### How the runs compose them

The modules above share no variable, except that `JobWorker` runs over `JobQueue`. Six MC modules (`MCJobWorker`, `MCTables`, `MCClients`, `MCServer`, `MCPolled`, `MCPages`) put them side by side: a
variable `part` says which one a behaviour exercises, and `Only(p)` keeps the others where they began. A state of one
part is therefore exactly a state of its module, and one run checks several modules. In `MCTables` and `MCClients` the
same interchangeable model values serve as jobs, callers, digests or requests of the different parts; a permutation of them maps every part to
itself, so that one symmetry is sound for all. Runs with a liveness property use no symmetry, and the fair actions of a part are
disabled in its initial state, so that fairness asks nothing of the parts that are not exercised.

## 3. What is checked

| run | states | parts and bounds |
|---|---|---|
| `worker` | 319 k | 1 job, 2 workers of concurrency 2, 2 attempts; one worker mortal and closable |
| `tables` | 832 k | queue: 2 jobs, 2 workers, a real key and an empty one. Calls: 1 transactional and 1 plain key, 2 digests, 2 calls at a time, 2 numbers. Rate: limit 2 per window of 2, rows pruned after 2, clocks 1 behind, 2 attempts, 4 instants. Schema: 2 deployments of 3 releases over 2 tables, 2 columns and 1 index, 2 migrators. Tenants: 2 keys, 3 adapters, 2 calls, 2 policies |
| `clients` | 2.0 M | schedules of periods 1 and 2, 2 replicas, skew 1, instants 0 to 2. Sessions: idle 2, absolute 3, 3 instants, 2 changes of the account, 1 id, 2 requests. Stream: 2 writers of 2 chunks, flushed at 2, 1 reader with 2 connections. Notify: 3 listeners, 4 entries. Mirror: 2 scopes, 2 writes, 2 loads, 3 calls. Signals: 1 source, 1 computed, 2 effects of 2 runs, depth 2. Store: 2 lifetimes, 2 connects, 3 runs |
| `server` | 200 k | pool: 2 datastores, cap 1, 2 callers, 3 entry objects. SQLite: 3 operations, 2 scoped statements. WebSocket: 2 messages of 2 parts, 2 frames in flight, a message limit of 2, any illegal frame. HTTP: 3 connections. Upgrade: 7 checkouts of up to 4 modules, 872 revisions, 2 deployments, 4 orders of the names |
| `polled` | 122 k | stream with 1 connection; 1 schedule, 2 replicas, one of them mortal and closable |
| `pages` | 745 k | 28 000 pairs of a rule and a value. Form: title and note, 2 intents, 3 requests, 2 versions. 2 renders of 30 views. Islands: 2 navigations over up to 3 hosts. Navigation: 3 URLs, 2 slots, 2 behaviors, 2 navigations of code or 3 of the user. Context: 2 companies, 4 rows, two of them under one id, 5 functions and jobs, 4 calls |

and what each shows:

- `worker`: `OneRunPerAttempt`, a delivery starts one run; `RunsKept`, a lease has a run or is accounted lost, and a process stays within its
  concurrency; `EveryJobEnds`, an active job comes to an end, or handlers that ignore their aborted signal stand in its way for ever.
- `tables`: `OneActivePerKey` and `LeaseIffExecuting` of the queue, which implements `JobContract` (`KeepsContract`); `CallsKept`, one holder per key,
  a receipt per document, numbers unique and gaps explained; `RateKept`, no window grants more than its limit, nor a window's length anywhere more than twice; `MigrationsAreWhole`, schema and marker move together; `TenantsKept`, a call
  works on an open, prepared adapter of its own tenant.
- `clients`: `TicksKept`, a tick fires at most once and none goes missing unaccounted; `ServedIsCurrent`, no request is served with a session or an account that was out of date when it came; `StreamKept`, no chunk missed, in order, end
  told only when complete; `NtHears`, no listener on a dead subscription; `MirrorScope`, a mirror shows nothing of another scope; `SettledAtRest` and `EffectsRunSettled`, effects see settled values; `StoreKept`, an attachment is wired and ended once and a task speaks of its current run; and
  `NothingGoesBack`, the action properties of schedules, sessions and mirror.
- `server`: `PoolKept`, the cap is kept and a leased connection stays open; `SqAllOrNothing`, what is answered as done is there and what threw is not; `WsKept`, messages whole and in order and one
  close; `HttpKept`, a shutdown leaves nothing that it was able to reach; `UpgradeKept`, composition does not depend on names and an upgrade tells every loss; `AllEnds`, what begins to end ends.
- `polled`: `PolledGetsOn`, a reader gets on and a due tick is taken, whatever notifications are lost.
- `pages`: `NormalIsStable`, validating a normal value again changes nothing; `FormKept`, an intent is applied once, stays with its control until it is answered, and changes nothing the editor left alone; `RendersAsFresh` and `FewestMoves`, a later render shows what a first one shows and moves no more nodes than it must; `TopIslandsKept` and `InstanceIsKept`, what runs of the slot's own islands are the islands of the page, and an island, nested or not, alone with its identity in both contents keeps its element and its instance, except inside the host of one that runs;
  `PageIsSettled`, a page at rest shows the URL after the user's own navigations, and has the behaviors of what it shows until a reconciliation throws under code that handles failures; `OvertakenIsMute`, a navigation that was overtaken changes neither slots nor history; `ScopeHolds`
  and `AccountIsTrue`, a call touches only companies it is entitled to, inserts and updates in one, and reports what it wrote.
- `worker_shutdown`, `fncall_replay`, `websocket_limit`, `http_late_socket`, `mirror_reload`, `signal_cleanup`: one violation each, see below.

Each property has a mutant: the definition changed as a plausible bug would change it, under
which the property fails (`mutants` in `PROJECT.json`; the mutated operators stand beside the
originals and are marked so).

**Why the bounds are enough.** A race in the queue is between one job and the statements
of two parties; the second job is there for the key they share and for batches. An attempt maximum
of one or two lets a job reach its last attempt and go past it. In `worker`, concurrency two with one job is
the least that lets one process hold two runs of it. Two replicas and three instants let a schedule's sweep
read, sleep through another replica's claim of the next tick, and go on. In the pool, a cap of one with two
keys makes every second call an eviction, two callers share an opening or compete for admission, and beside them `evictIdle` and
`close` run; three entry objects are one for each caller and one being closed. In a stream, two chunks
and a buffer of two make both one batch of two, which a cut connection can split, and two batches of one, which can fail
apart; two writers overlap or follow each other; two connections are a resumption. Of function calls, two digests and two callers that may
each call again give the longest chain the code reacts to: slow owner, takeover, failure, fresh claim. Three listeners are one that leaves, one that joins meanwhile and one
that stays; three operations of a SQLite connection are a transaction, one behind it and one from its body; three connections of HTTP are one in each of the ways `close()` treats them. Two renders are one
reconciliation, over lists of up to four keys; two navigations overtake, a third is overtaken after that. Each bound is named and explained where its
constant is declared. `ReopenBound` limits the operator's manual retries, without which attempts are unbounded.

Deadlock is not checked: in each of these systems there is an end to what the bounds allow (jobs ended and pruned, workers down, the pool closed, numbers used up), and what must not stop
is stated as liveness.

**Fairness.**
- `worker`: time passes (leases nobody renews expire, jobs come due, a run's timer fires); a run whose handler has ended is settled, or finds that the database has failed it; of the worker that
  stays up, the poll loop comes round, and its rescue and its claim succeed infinitely often if they can. That is strong
  fairness, because a statement may fail (`FailRescue`, `ClaimLost`) any finite number of times and another
  worker may take the row. A database that fails for ever would stop everything, and the code
  does not claim otherwise. Nothing makes a handler end: `execute` awaits it (`worker.ts:342`), its timer only aborts the signal (285-288), and the heartbeat
  renews the lease meanwhile (289-296); `jobs.md` says that handlers must honor the signal. So `EveryJobEnds` has an exception, `Obstructed`: from some moment on a handler that ignores its aborted signal holds the job's lease, or, while it waits, such handlers take all the room of its queue in every worker that stays up.
- `server`: weak fairness of every caller's next step in the pool, of the end of an opening and of the two sweepers (the
  adapter's `open` and `close` return or throw); of the head of the SQLite queue and of a body that awaits nothing but its statements; of the two
  timers of a WebSocket; of the grace period of HTTP and Node's callback. Nothing is assumed of the peer.
- `polled`: weak fairness of the flush timer, of an append's return or throw, and of a tail's read, yield, sleep and poll;
  nothing of writing, ending or connecting, and a connection may be dropped at any step. The clock of the schedule moves, the timer of the replica
  that stays up fires, a sweep goes on, and the database does not fail it for ever (strong fairness of its statements).

**Disagreements found** (`findings` in `PROJECT.json` quotes the lines):
1. `worker_shutdown`: abort controllers are kept per job id, so that of two runs of one job the shutdown aborts one (`worker.ts:441`).
2. `fncall_replay`: `complete` and `release` of an idempotency claim name the key only; after a takeover the record of one
   request can end up with the result of another (`idem.ts:76`).
3. `websocket_limit`: bytes of single-frame messages are added to a counter that only a fragmented message resets, so that a connection is closed for messages within the limit (`websocket.ts:385`).
4. `http_late_socket`: a WebSocket whose upgrade was under way when `close()` ran is accepted and never asked to leave (`http.ts:1429`).
5. `mirror_reload`: an invalidated reading that is observed is not reloaded when a write aborts the load and is rolled back (`mirror.ts:640`).
6. `signal_cleanup`: an effect that writes what it has read runs again inside its run, and the inner run's cleanup is overwritten (`signal.ts:120`).

Seen while modelling and left without a run of their own:
- *Jobs.* The lease token is the worker id, so that a process which claims the same job again can settle the new delivery with the old run and take the job past `maxAttempts`. The handle `close()`
  waits on is overwritten by a timer that fires during the grace period (`worker.ts:591-594`). Handlers dropped by the grace period go on while `boot.ts:1628-1630` closes the adapter.
- *Streams, sockets, rates.* Stream ids name a chunk but `tail` resumes at whole batches, so that a client gets chunks twice. A socket that resets while its route decides is never
  told (`websocket.ts:417`). Rate windows above a day are dropped by the hourly prune (`ratelimit.ts:147`).
  "The real worst case across a boundary is twice the limit" (`ratelimit.ts:16-17`) holds of calls at most an instant behind (`RateTwice`, proved). A call further behind, by less than a window, counts in a window begun after it (`ratelimit.ts:109`):
  where limit and window are three, of the calls whose clocks read 2, 3 or 4, two are granted in the window begun at 0, three in that begun at 3 and two in that begun at 6. Three times the limit is proved to be the ceiling then.
- *Kernel.* `ket diff` never compares schedules (against `jobs.md:110`); a token conflict between modules can be missed (`compose.ts:1600-1617` against `upgrading.md:108`); required `json` extension fields are accepted (`compose.ts:652` against
  `models.md:351`); themes are layered in listing order (`theme/render.ts:63-65` against `themes.md:302`); a relation declared twice silently overrides.
- *Context.* "Reads span a set of companies, writes go to exactly one" (`test/multicompany.test.ts:19`), but `db.del` deletes in every company the request may read (`ctx.ts:645`). "A company's row may not point at another company's
  row" (`test/company-reference.test.ts:17`), but a reference is checked by a statement of its own (`ctx.ts:711`): until the row is written, the one it was checked against may be deleted and another company insert one under its id. TLC finds both where the
  properties are stated without the exception for them that `ScopeHolds` makes (`StaysInScope`, `RefersWithin`). A dry-run update accepts an invalid datetime (`ctx.ts:756-761`); a dry-run delete does not look at the company; writes are
  recorded before they are executed; a notice sent outside the body of a transaction is delivered before it commits.
- *Client.* "Any reconciliation error falls back to a full navigation" (`http.md:235-236`), but the response code of a module applies that fails between two slots leaves the page half replaced, the behaviors of
  neither content, and no document loaded (`http.ts:498`, 687): `PageIsSettled` says of the behaviors nothing then (`ngTorn`). "An island with the same identity and unchanged props keeps its exact DOM node" (`rendering.md:318-319`), but one inside
  another that is kept, or that renders its host anew, is taken out of the page, into content that is thrown away or nowhere, and goes on running (`island.ts:405`): `InstanceIsKept` does not mean those. An intent told `invalid` may still be applied by an earlier request of it that was delayed. A throwing `connect()` detaches whoever is attached by then (`store.ts:383-388`). After a `DuplicateKeyError` in a later hole, rendering
  the old values again skips an earlier hole (`render.ts:313-320`). Applying an old response can overwrite a newer navigation; one that is aborted after it was applied leaves its content without its URL.

## 4. What is proved

Eight modules hold the proofs TLAPS checks, each for every value of the constants that satisfies the assumptions its
component declares: any number of jobs, keys, workers, calls, datastores, tenants, companies, rows, listeners, connections, sessions, streams, schedules, pages and operations, any cap, limit and
bound. Each follows the same plan. An invariant stronger than the property is shown to hold at first and to be kept by
every action, one lemma to an action; TLC has checked it on the bounds of the runs above (or larger ones) before it was proved; and
the property is read off it.

| module | property of a run it proves | further |
|---|---|---|
| `JobQueueProofs` | `OneActivePerKey`, `LeaseIffExecuting`, `KeepsContract` (refinement) | `TypeOK`, `TerminalIsFinal` (action property) |
| `JobWorkerProofs` | `OneRunPerAttempt`, `WorkerTypeOK`, `RunsKept`; `OneActivePerKey` and `KeepsContract` under the workers | `UsesQueue`: every step of a worker is one of the queue's |
| `IsolationProofs` | `TenantsKept`, `ScopeHolds`, `AccountIsTrue` | `TnTypeOK` |
| `CallProofs` | `CallsKept`, `RateKept`, `StreamKept` | `CallTypeOK`, `RtTypeOK`, `StreamTypeOK`; `RateThriceAtMost`, the ceiling with clocks that are late |
| `AdapterProofs` | `PoolKept`, `SqAllOrNothing`, `MigrationsAreWhole` | `PoolTypeOK`, `SqTypeOK`, `MgTypeOK` |
| `LiveProofs` | `NtHears`, `WsKept`, `HttpKept` | `NtTypeOK`, `WsTypeOK` |
| `ClockProofs` | `ServedIsCurrent`, `TicksKept` | `SsTypeOK`, `SchedTypeOK`; `SessionMovesForward` and `LastTickMovesForward` (action properties) |
| `ClientProofs` | `PageIsSettled`, `StoreKept`, `MirrorScope`, `SettledAtRest`; `OvertakenIsMute` and `EffectsRunSettled` (action properties) | `NgTypeOK`, `StTypeOK`, `MiTypeOK`, `SgTypeOK`; `MirrorKeepsNewer` (action property) |

**The queue.** `QueueInv == TypeOK /\ LeaseIffExecuting /\ OneActivePerKey` is inductive. The argument goes through one
description of a step. Per action, `RowsStep` says what may become of each row: it stays; it was unborn and is a new
waiting row; it had ended and is pruned; it was discarded and is available again, with attempts left and no lease; or
it was active and is a row of the same key, with lease and state coupled and no fewer attempts. `TypeOK` underlies this description, because only
in a well-typed table is a row that passes a guard a row at all; `LeaseIffExecuting` is a hypothesis of it, for the steps
that leave a row executing without naming its holder (`LeaseExpires`). The three conjuncts and the finality of outcomes are
then read off it instead of from the actions. Key uniqueness also needs that a row which is active before and after a step keeps
its key, and that the two ways to become active, the INSERT and `RetryNow`, are guarded by the index.

**The contract.** `ContractKept` is a refinement, step by step. In `JobContract` a job has a life and a key has a slot; the mapping reads the
life off a row's state (`LifeOf`) and the slot off the row that occupies the key (`SlotOf`), which `OneActivePerKey` makes well defined.
A statement that changes one row changes the life of one job and the slot of one key. It is then an admission, a handing out, a return, an end, a reopening or a forgetting, according to the states
before and after, and a stutter when both are the same; a claim hands out a batch.

**The workers.** Every step of a worker is a step of the queue or leaves it alone (`WorkersUseQueue`), so the queue's theorems and its contract hold under it.
`SystemInv` adds that runs are well typed, that no run is ahead of its row's attempt, and that no two runs
have the same job and attempt; a claim counts the attempt as it takes the lease, so the run it starts is ahead of all
earlier ones: `AttemptStartedOnce`. `WorkersInv` is about what a process holds. That a lease has its run (`LeaseHasRun`) is kept because no statement but a claim makes a row executing, a claim leaves a run for each row it took or
a record that its answer was lost, and a run leaves only after it has settled its row or has lost the database. That the runs of a queue fit its concurrency
(`WithinRoom`) is counted: a claim is limited to the room there is, its rows are as many as the runs it starts, and all of that is finite because only finitely many jobs were ever inserted (`Born`), so that nothing is
assumed of the set of ids.

**Calls under keys.** In `CallInv`, a transactional call holds its key exactly while it has the lock of the row it inserted (`LockKeys`), and no
committed row is there meanwhile (`TxRows`); a plain call whose key has not aged is its only holder and its row is pending (`PlainClaims`). Both give one holder. The receipts of a transactional
key are counted with its documents: the commit adds one to each, the sweep moves one from the table to the account (`ReceiptPerDocument`). Numbers are accounted for by where each one is (`Whereabouts`): not yet taken, in one plain call's hands, on one document or
dropped. A transaction's number is still the next one, because it has locked it (`InHands`).

**Rate limits.** `RateInv` says whose slots the row counts: all those of its window (`RateWithinLimit`), because a slot is granted by the one statement that counts it. The ceiling across a boundary is about where windows may
begin: two that were granted from begin a window's length apart, as long as a row outlives its window, and a slot lies no further before its window than a call may be behind. A window's length then meets two windows, or three when calls
are more than an instant behind, which is the case described at the end of section 3. Slots are counted as a set (`RtSlots`), so that the bound is one of cardinalities.

**Streams.** `StreamInv` is one statement each about the log, a writer and a reader. The rows there are have the first numbers (`LogHasTop`); those of a writer go on where the one before ended (`RowsInOrder`), which is where its chain of
batches begins, unless the chain has failed and appends nothing any more (`WriterKept`); and a reader has or holds every chunk whose number is before its cursor (`ReaderKept`), which stays so because rows are never changed and new ones come
after all there are. That every writer finds a number is counted (`StreamNumbers`).

**The pool.** What makes the cap a cap on connections is that the map has exactly the entries with a connection behind them (`MapHasConnected`), each under its own
key; what keeps it there over the awaits of an eviction is that whoever is closing or sweeping is the first in the admission queue (`OneInside`), so that one
entry at a time is being closed and nobody adds one meanwhile. `Closings` follows evictions and sweeps to their end: `close` still has to visit every live entry there is, or it has ended and there is none. `CallersHold` and `LeasesCounted`
say what a caller may count on: while the pool is open, an entry somebody leases is not being closed.

**Tenants.** A call holds the adapter the pool has for its key (`CallsHold`), which is open and of that key (`PoolOwns`). The pool closes nothing while its leases count
a call (`LeasesAreCalls`, an equation of cardinalities), so what the call was told of its adapter stands until it ends (`CallsFit`): preparations that were kept succeeded, and a facade waits for a manager only while it is
made (`PromisesStand`).

**The context of a call.** Between the check of a reference and the statement it guards, and between a handler's read and its next write, other calls run. What makes both safe is that a row never leaves its company and, once deleted, does not come back: an insert under its id makes another row (`Follows`). The row a
reference was checked against is still of that company or is gone, and a row the call may read stays one it may read. What may have the id by then is another question, which `ScopeHolds` leaves open: see *Context* under what was seen while modelling. `CxInv` says of each call under way that the rows its transaction changed follow those of the tables and are nobody else's (`TxKept`, `Apart`), that what it wrote it can read
at its connection, and what it had written before the transaction in the tables too, where a rollback leaves it (`WroteKept`); that the statement it is about to send was checked (`AtKept`); and that its report, its changes and its notices are those of the transactions that went through and of the one
under way, each named by its number (`AccountKept`). Of the tables it says that each reference still holds as `RowRefers` states it, by the call that wrote the row; of a queued job, that it reaches no further than its caller (`JobKept`), which carries over from job to job. A
statement is proved once for both places it may go, the tables and the transaction (`Puttable`, `PutsKept`).

**A SQLite connection.** A statement joins whatever transaction is open on the connection, so nobody's may meet another's. `TurnIsOfBody` says that the transaction whose turn
it is is the only one with a body under way, with its marker, its scope and the connection's transaction; `QueueIsOfWaiting` that an operation waits in one place of the queue; and `RowsAreAnswered` that what is committed is what
the operations that are done have written, and what is not committed is of the one whose turn it is.

**Notifications.** Closures hold on to entries that the map no longer has, so `NtInv` is about every entry there ever was: a listener is on the entry its closure names and on no other (`NtPlaced`); only the current entry is alive at the database, it has a
listener, and one that was replaced has none left but those it failed (`NtOneAlive`); who has joined did so on an entry that listened (`NtHeard`).

**A WebSocket.** What was sent of each message is in three places: what the server has read and delivered, what it is putting together, and what is on its way (`WireOrdered`); `SentOrdered` and `GivenOrdered` say the same of the two ends. A frame
that is out of turn fails the connection, so that what is put together is a beginning of the message that comes next. This holds of the wire only while the server reads: when it has failed it drops what still comes. `ServerKept` is about the closing handshake: no close frame
before the server is closing, at most one, nothing after it, and the route told once, when no timer is left.

**The shutdown of HTTP.** `close()` goes through two sets, and what it reaches is right because they are the connections they are for at every step (`SetsAreConnections`): whoever is a WebSocket then is told to leave. What it cannot reach is an upgrade that is under way, refused, or begins on a connection
kept alive; `ClosingKept` says that all of these are known as late, and that nothing the grace period drops can begin after it, for what is idle, served or tailed comes of a connection that was accepted or idle before. So a server left waiting by `HttpKept` waits for WebSockets that were told, which end, or for those of the finding.

**Schedules.** Who wins the compare-and-set on `last_tick` has that tick and those it skips to itself (`SchedApart`): a tick is in the claims of at most one sweep. It stays there until it is fired, or lost to a crash or a throw, and no tick after `last_tick` was ever claimed
(`SchedPlaced`); the ticks between two claims are the ones reported skipped (`SchedCounted`); a sweep that read an older row or has a late clock cannot move it back.

**Navigation.** A navigation aborts the one before it, so that while all are the user's (`AllLinks`) at most one in flight is not aborted, the active one, and what is shown is what the URL names or what that one is about to name (`OneInProgress`). Whoever navigates, a behavior that matches what is shown is mounted, failed, or
awaited by a navigation that will mount it (`BehaviorsAwaited`), until a reconciliation throws under code that handles failures (`ngTorn`), which never happens to a link. At rest nothing is awaited. An overtaken navigation finds itself aborted after each of its awaits but those of behaviors it has asked for, which it mounts if they match
what is shown by then: `OvertakenIsMute`.

**Stores.** `attach()` may be called inside the `connect()` of another `attach()`. The calls under way nest, each inside a connector of the one before it and for a lifetime of its own (`AttachingApart`); the attached lifetime has not ended, nor has the store (`AttachedGoesOn`). A lifetime holds cleanups only while it is attached, and what it has made and does not hold was called exactly once
(`WiringKept`).

**The mirror.** A revision names one value: the entry, what a write would restore and what a page under way extends agree whenever their revisions do, and a patch shows the answers its value showed before (`VersionsKept`), so that comparing revisions, as `rollback` does, compares values. The load
that may still land is the one the entry names, was asked for in its scope, and no patch is younger than it, because a patch aborts the load it finds (`LoadKept`). What the server has answered only grows, and so an answer that
lands shows at least what the entry showed, and a rollback, which finds its own patch, comes back to a value that shows the same answers: `MirrorKeepsNewer`, the third action property of `NothingGoesBack`; the other two are those of the schedules and the sessions. A write is kept and sent
for the scope it was run in, which with the scopes of the versions is `MirrorScope`.

**Migrations.** A plan is a set of statements, and a table is between two shapes while some of them are left, so `MgInv` says how far it has come from those that are: what is left of a table's plan is the end of it (`EndOfPlan`),
and the table is as `Reached` has it, column by column and index by index. `StatementFits` proves, statement by statement, that the next one can be executed on such a table and brings it to where `Reached` is without it; an index needs its
columns, and those are there since the target is sound (`TargetSound`, as every release is by `MigrationAssumption`) and columns are added before indexes are created; dropping a column takes no index along, since those over it went first.
With nothing left a table is as the target has it (`ReachedEnd`), so that a commit makes the marker true, and the target has all that any recorded deployment asks for (`TargetIs`). An operator's statements may do anything the target differs in, wrongly or in part;
what they give a table is only what our release or the database has (`HandKept`), whatever others commit meanwhile, for a table that was changed is locked (`WorkApart`); so when `Confirm` finds every table and column of the marker and of the target in order there is nothing else (`NoIssueIsTarget`).

**Signals.** An effect may be run inside its own run, stopped there, or throw there, so `SgInv` speaks of all runs on the stack. Of an effect in the graph it says that what its last run has read, and what the run under way has read unless there are two (`nested`), it is subscribed to, or it is queued because
that changed (`LiveKept`); and that what is queued, a flush under way or the end of the batch will take (`QueueDriven`). At rest there is neither, so nothing is queued and nobody has an old value: `SettledAtRest`. A flush takes an ordinary effect only when no computed value is queued: `EffectsRunSettled`. The one step
at which this could fail is a flush that skips an effect as a cycle while a run of it is under way below: that run was not counted by this flush, because under a flush there are only runs (`FlushOverRuns`), so that an effect skipped has no run under way, or two.

**Sessions.** The statements of a request lie far apart. `Forward` says what any one step may do to clock, account and rows, and `Knows` what a request
knows at each of its steps; whatever moves forward under a request leaves true what it knows. A row it has read is not ahead of the row there is, and where the revisions are equal so are the contexts: that is why the update under the revision it read
may write the context it resolved. `SsInv` adds that nothing stored is ahead of the account (`StoredFollows`).

**Assumptions.** They say of the constants what the code takes for granted: the null values (`NoKey`, `NoWorker`, `NoEntry`, ...) are not members of the sets they complete
(`SessionNulls` and `MirrorNulls` say it for values that are records), transactional and swept keys are keys, limits are numbers, and a cap or a maximum of attempts is at least one. `PoolAssumption`, `TenantsAssumption`, `NotifyAssumption`, `RateAssumption` and `StreamAssumption` also take
the callers, listeners or writers of one process to be finitely many, for they are counted. `ScheduleAssumption` has a manifest name each schedule once and at least one. `WorkerAssumption` says that each worker rescues for itself and claims at most a batch. `ContextAssumption` has the rows that are there before refer to none. `MigrationAssumption` has the indexes of every release over columns of their table, and the names of deployments in an order. TLC evaluates all of them in the runs.

**Only model-checked.**
- Liveness: `EveryJobEnds`, `AllEnds`, `PolledGetsOn`. It is out of the prover's reach, as is ENABLED, on which fairness rests.
- What is defined by recursion: composition and upgrades (`UpgradeKept`), forms (`NormalIsStable`, `FormKept`), rendering (`RendersAsFresh`, `FewestMoves`). The prover cannot be used in modules
  that declare recursive operators, and cannot do induction over their data.
- `Island`: `TopIslandsKept` and `InstanceIsKept` are about what folds over the elements of a slot compute (`Build`, `Start`, `Reconcile`), and what a fold computes for every sequence is such an induction.
- `CxTypeOK` adds to what `CxInv` says of the types the bounds `MaxWork` and `MaxOps`, which are the model's and not the code's. The type invariants of the parts are proved
  one by one where there is a module above; the conjunctions `TypesOK` of the MC modules, which put them side by side, are not restated. `MCTables` checks none, as each of its parts is proved to keep its types.

## 5. What is not modelled, and the plan

Left out of the modules that are there: in composition, messages, styles and assets, HTTP bindings and checks of one string; in forms, callbacks and patterns of a contract and `createForm`; in rendering, attributes, events
and JSX; in navigation, client-owned history entries, scroll and focus; in streams, a writer inside a transaction and the memory store; in schedules, the calendar of a daily schedule and time zones; the legacy column migration of `ensureSchema`;
the arithmetic of decimals.

Left out altogether: HTTP parsing and answers, request routing and boot, theme and PDF, storage and transport back ends, logging, the query layer's SQL text, the command line and the build tools. They
are I/O, text or layout without shared state.

The plan from here: layouts and menus as functions of the manifest, the HTTP bindings of a function, and the start and
shutdown of a deployment (`boot.ts`), which orders the parts above.
