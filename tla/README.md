# A TLA+ verification of IMS

IMS is an incident management backend in Go: clients post failure *signals*,
the backend groups them into *work items* (incidents), persists them, alerts
responders, and lets users take an item from OPEN to CLOSED, with a mandatory
root cause analysis (RCA).  It keeps its data in PostgreSQL, MongoDB and Redis
and runs in several replicas.  Almost everything that is hard about it lies
between two calls to a store: nothing is transactional beyond a single
statement, every write is retried after errors that may hide a commit, and all
of it can be interrupted by a shutdown or a crash.

This directory holds TLA+ modules of those parts, the TLC runs that check them
on small instances, and TLAPS proofs of every safety property they check.
`PROJECT.json` lists components, runs, the map from definitions to source
lines, the findings and the hazards.  Paths below are relative to
`src/backend/internal/` unless they say otherwise.

## 1. Inventory

| Component | State | Operations | Hard behaviour | What makes it correct |
|---|---|---|---|---|
| Workflow engine (`workflow/machine.go`, `state.go`, `api/workitems.go`) | rows of `work_items` and `rcas` | `Transition`, `SubmitRCA` | check-then-act over separate statements, several users and replicas, retries of ambiguous commits | CLOSED only with a valid RCA and its MTTR; RCAs are final; states follow the state machine |
| PostgreSQL store (`store/postgres.go`, `migrations/`) | the tables | one statement each, through `withRetry` | an attempt that reports an error may have been committed | constraints stay true; retries end |
| Ingestion and debouncer (`ingestion/handler.go`, `debounce.go`) | a map in each process, a Redis key with a 15 s TTL | `IngestSignal`, `IngestBatch`, `Resolve` | two-level cache without a lock, failures between its steps, restarts | one item per component and window; windows and answers name stored items |
| Alerting (`alerting/`) | none | `Dispatch` in a goroutine | outlives the request | an item stored for a single signal is announced on the right channel, or its client is told of an error, or its process died |
| Queue (`queue/queue.go`) | bounded channel, two counters | `TryEnqueue` | full queue | refuse, never displace |
| Worker pool (`worker/pool.go`) | workers, two counters | take, three concurrent writes, count | partial failure, retries of a non-idempotent update, cancellation | no signal lost or repeated; "processed" means persisted |
| Server life cycle (`src/backend/cmd/server/main.go`, `store/store.go`) | where `main` is, the contexts, the clients of the stores | connect with retries, migrate, start, listen, cancel, shut the server down, wait, close the stores | SIGTERM during the start, stores missing, replicas migrating one database, handlers, workers and loops still running | serves only when connected, and with its tables if the database was there for the migration; shutdown ends; comes up again after an outage |
| Escalator (`workflow/escalator.go`) | none but its listing | a pass every 60 s | stale listing, overlapping replicas | severities rise when and as far as they should; what a stale update undoes is bounded and made good |
| Dashboard (`api/workitems.go`, `store/redis.go`) | one Redis key, 3 s TTL | `GetDashboard`, `ListWorkItems`, invalidation | rebuild overlapping with invalidation, changes that return before the invalidation | a stale view has a reason; the cache converges |
| Rate limiter (`ingestion/ratelimiter.go`) | token buckets | `Allow`, `cleanup` | bucket deleted between lookup and use, or used between the check and the deletion; fractions of tokens | burst and rate are bounded, nobody is refused too early, idle buckets go |
| WebSocket hub (`api/websocket.go`), client (`frontend`) | set of connections, three channels | register, unregister, broadcast | goroutines blocking on each other's channels, disconnects overtaking registrations, silent peers, connection objects used again, reconnect timers | nobody waits for ever; nobody is dropped without being closed, dead connections are forgotten |
| Health (`api/health.go`), probe (`src/helm/ims/templates/backend-deployment.yaml`) | a count of failed probes in the kubelet | `Health`, the metrics collector | a probe that stops a process which waits for a store; a query that no context stops | the process is not stopped for ever |
| Authentication (`api/auth.go`) | a map of users in each process | sign up, log in | lost with the process, not shared by replicas | names are unique in a process |
| Router, frontend, deployment | none of their own | | | |

How they interact: a handler resolves a signal to an item (Debounce), creates
the row if needed (the `CreateWorkItem` of Workflow), starts an alert, deletes
the dashboard key (Dashboard) and enqueues the signal (Pipeline); workers write
it to MongoDB and count it on the item.  Before any of that the handler asks the
rate limiter of its process (RateLimiter).  Users and the escalator change rows
and delete the dashboard key; workers change rows and do not.  All replicas share the three stores and nothing
else.

## 2. Modules

| Module | Models | Composes |
|---|---|---|
| `Lifecycle` | abstract: what the life of an item looks like | |
| `Workflow` | `Transition`, `SubmitRCA`, their handlers and statements | implements `Lifecycle` |
| `Debounce` | `IngestSignal`, `IngestBatch`, `Resolve`, alerts | |
| `SignalLog` | abstract: what becomes of a signal | |
| `Pipeline` | queue, workers, shutdown | implements `SignalLog` |
| `RateLimiter` | `Allow` and `cleanup` | |
| `Server` | the process from its start to its end, and its restarts | |
| `Escalator` | the escalation passes of all replicas | on top of `Lifecycle` |
| `Dashboard` | the dashboard cache | on top of `Lifecycle` |
| `Hub` | the WebSocket hub, its handlers, and the hook `useWebSocket` | |
| `MCWorkflow`, `MCDebounce`, `MCPipeline` | instances for TLC | |
| `WorkflowProofs`, `DebounceProofs`, `PipelineProofs`, `RateLimiterProofs`, `ServerProofs`, `EscalatorProofs`, `DashboardProofs`, `HubProofs` | the theorems (section 4) | each extends the module it is named after |

`Escalator` and `Dashboard` do not repeat the workflow: their items move by the
actions of `Lifecycle`, which `Workflow` is proved to implement, so they see
every state change the code can produce (also the ones that go backwards).

### Workflow

`row` and `rcas` are the two tables, `req[r]` is a request slot.  `pc` names the
statement the handler is about to issue, so other requests can run between any
two statements; `item`, `to`, `body` and `mttr` are the handler's locals,
`tries` is the loop counter of `withRetry`, and `code` keeps the HTTP status
until the slot is used again.  A slot may belong to any replica: the machine
keeps nothing in memory.

| Action | Code |
|---|---|
| `BeginTransition`, `BeginSubmit` | handlers up to the first statement (body checks, `Validate`) |
| `GetWorkItem`, `GetRCA`, `UpdateState`, `Invalidate`, `Reread` | steps 1-2, 3, 4, 5, 6 of `Transition` |
| `SubmitGetWorkItem`, `SubmitGetRCA`, `CreateRCA` | the statements of `SubmitRCA` |
| `CreateWorkItem` | the row the ingestion handler inserts |
| `Crash` | the process of a request dies |

A write has three outcomes: committed and confirmed; committed, confirmation
lost; not committed.  The last two go through `RetryOrFail`.  Reads may fail.
An RCA's instants are in nanoseconds; `StoredRCA` cuts them to microseconds, as
the driver does for TIMESTAMPTZ, and the table's CHECK sees the cut values.
The texts and the category of an RCA are abstracted to `complete`; timestamps of
an item to whether they are set; the unit of the MTTR is that of the instants.

### Debounce

`local[p]` is the `sync.Map` of replica p, `entry` the Redis keys, `workItems`
the table, `dispatching` the goroutines that will send an alert, `alerts` what
was sent (or died with its process, channel "lost").  `Load`, `GetEntry`,
`Create`, `SetEntry`, `StoreLocal`, `Enqueue` are the steps of `Resolve` and of the
end of the handler; `Advance` goes to the next signal of a batch or answers.
`results` is what the client is told of each signal: an item, or an `error` ("invalid",
"unresolved", "full"; the handler of a single signal answers them with 400, 500, 429).
`Faults` says what the environment may do.  The rate limiter and the body parser
may turn any request away (`TurnAway`); the queue may refuse any signal.

### Pipeline

`ch` is the channel; `handler[s]` is where the handler of a signal is;
`enqueued`, `dropped`, `processed`, `errors` are the sets of signals the four
atomic counters counted; `worker[w]` holds the signal a worker processes and
how far each of its three goroutines has got.  `live` says that the context was
not cancelled when the signal was taken: under a cancelled one nothing is sent.
`mongo` and `count` are the stores.  `phase` is `main`: up, stopping (context
cancelled), closed (HTTP server shut down or given up on), exited.

`SignalLog` is the same seen from outside: a signal is refused or accepted, an
accepted one is settled once, as stored (then it is in the audit log, MongoDB) or
as an error, and a process that is not told to stop settles what it accepted.
The refinement mapping `Status` reads a signal's status off the handler, the
channel and the counters.  A signal is accepted when `TryEnqueue` has put it into
the channel, before its handler has counted it.

### RateLimiter

`buckets` is the map, `object` the token buckets, which a call can still hold when
the map has lost them, `call[s]` a call of `Allow`: `Find` under the read lock,
`Create` under the write lock with the second look, `Take` under the lock of the
bucket.  `cleaner` is the goroutine: the cutoff is computed before the lock is
taken, and a bucket's own lock is given back between `CleanupCheck` and
`CleanupDelete`.  The code counts tokens in floating point; the model counts the
units one tick refills, `Cost` of them to a token, so that partial refills add up.
An age per bucket, counted up to `StaleAfter + 1`, takes the place of a clock.
`budget` and `strays` are history: a bucket that is never deleted, and the tokens
that came from buckets under deletion.

### Server

`main` is the program counter of `main` with the store and the attempt it is at;
`user[u]` are the goroutines that use stores (workers, requests, the loops, the
metrics collector) with the connections they hold.  What they do with them is in
the other modules; what matters here is which context stops them, and that
closing PostgreSQL or MongoDB waits for connections in use (`CloseEnd`).

| Action | Code |
|---|---|
| `Connect` | one attempt of `NewPostgresStore`, `NewMongoStore`, `NewRedisStore` (one loop, written three times) |
| `Migrate` | `runMigrations`: applied (on existing tables too), failed for whatever reason and logged, or fatal (no file) |
| `Start`, `Listen` | the goroutines `main` starts; `app.Listen` in one of them |
| `Select`, `ShutdownServer`, `Wait`, `CloseBegin`, `CloseEnd` | the rest of `main`, with the deferred `Close` |
| `Acquire`, `Release`, `Stop` | a goroutine uses the stores, or sees that its context is done |
| `Probe`, `Kill`, `Restart`, `Sigterm`, `Change`, `OtherReplicaMigrates` | the environment: the kubelet with the probe of the deployment, outages, other replicas |

The resource "host" stands for the port being free and the migration file being
where `main` looks for it; "timescaledb" for the extension the first statement of
the migration asks for, which a PostgreSQL server may not have.  `Ignored` has the
errors of the Exec that `main` takes for "may already be applied": no database or a
cancelled context (committed or not), no extension, a race with the first
migration of another replica.  `steady` is history: the database, with the
extension, was there all the time `main` was at the migration and nobody stopped
it.  It is about the environment alone, so that `ServingIsReady` says what every
outcome of `Migrate` comes to.

### Escalator

`now` counts half hours.  `List` is the query together with the decisions of the
loop, which rest on the listed rows alone; `Pick`, `Update`, `UpdateFails` are the
loop body, with `withRetry`.  A pass runs under the root context, which has no
deadline, so any amount of time and any change may come between listing and
update.  An update carries the severity it was listed with (`from`), for the
property: the UPDATE itself has no condition, and may write P1 over P0, or change
an item that is no longer INVESTIGATING.

### Dashboard

`cache` is the key: the active rows with their states, severities and signal counts,
and the number of items in each state.  A reader goes through `Miss`, `ListActive`,
`GetCounts`, `Set`, or enters at `ListAll` (`ListWorkItems`, whose rebuild runs in the
background).  A writer commits a change of state or severity (`Commit`); if the
database confirms it the invalidation follows, otherwise the caller returns
(`machine.go:85-87`, `handler.go:114-116`) and nothing is deleted.  A worker that counts a
signal (`Count`) never invalidates.  Two pieces of history give reasons for a stale
view: a reader is `overtaken` when a state or severity changes after its first
query, and the view in the cache is `excused` when an overtaken reader stored it, when
a change was committed without confirmation, or when the deletion failed.

### Hub

`register` and `unregister` are the channels of connections, `broadcast` the
number of messages in the third (all are pings), `clients` the map.  `run` selects
while `todo` is empty (`TakeRegister`, `TakeUnregister`, `TakeBroadcast`, in any
order) and otherwise writes to the clients in it (`Write`).  `handler[c]` is where
`HandleWS` is, `leaving[c]` the number of goroutines of failed writes.  `link[c]`
is the transport: a path may break so that both ends see it, or silently; then
the server finds out after a write that is not acknowledged.  `page[p]` is the
hook: `Mount`, `Retry` (the timer), `OnClose`, `Unmount`.  A connection object is used
again as soon as its handler has returned, as the pool of the framework allows,
whatever the hub still has queued for it: a late disconnect may then meet another
client.  That is why `DroppedIsClosed` does not say that live clients stay, but that
whoever is thrown out is closed and can dial again.  The framework's source is not
in the repository; it also clears an object that waits in its pool, and a call on
such an object is treated here as one on a broken connection.  Writes do not block:
browsers read their sockets.

## 3. Runs

| Run | Expect | Shows |
|---|---|---|
| `workflow` | pass | two overlapping requests of every kind on an item; safety, refinement of `Lifecycle`, every request answered |
| `workflow_serial` | pass | requests that take turns, two items: strict refinement (`SerialSpec`) in spite of retries and crashes |
| `workflow_terminal` | violation | an item leaves CLOSED |
| `debounce` | pass | two requests, two replicas, every fault: windows, answers and alerts are backed by rows; an item stored for a single signal is announced, or its client told of an error, or its process died |
| `debounce_race` | violation | two items for one component, no fault needed |
| `pipeline` | pass | conservation of signals, truthful statistics, bounded over-counting, refinement of `SignalLog` (with its progress), shutdown ends |
| `pipeline_drain` | violation | signals left in the queue at exit |
| `escalator` | pass | two replicas: no level skipped or early, P0 lowered to P1 only by a pass that others overtook; old items reach P0 |
| `hub` | pass | a reconnecting page, a failing network, connection objects used again, channels of length one: nobody is dropped without being closed, no orphaned sockets, no mutual blocking, dead connections are forgotten |
| `dashboard` | pass | overlapping refreshes and changes, Redis and PostgreSQL failing: every wrong state or severity has one of four reasons, the cache converges |
| `ratelimiter` | pass | two calls of a client and a cleanup under way: burst and rate are bounded but for the calls cleanup caught, refusals are justified, idle buckets go, no call hangs |
| `server` | pass | outages, SIGTERM at any moment, probes, kills, restarts: serves only when connected, and with tables if the database was there for the migration; closes stores after the workers, shutdown ends, comes up again |

**Bounds.** Two requests are enough for each race in `workflow`: every
interference found is between one request that has checked and another that
writes, and the theorems cover any number of items and requests.  `MCTimes` has
a missing instant, two instants in one microsecond and one in the next, the
cases `Validate` and the CHECK constraint tell apart.  `debounce` has a single
signal, a malformed one and a batch over two components, two replicas, and
`Attempts = 2` (the code has 3): enough for a retry after an ambiguous insert.
`pipeline` has two signals for a channel of one, so that the queue fills up and
two workers write to one row at a time; `Attempts = 2` again.  `escalator` lets
the clock reach 3 half hours, one beyond the last threshold, so that items opened
late reach it exactly.  `dashboard` has one item, two severities, two counted
signals, and two requests at a time: two overlapping refreshes or invalidations,
or one of each; changes that are not confirmed, and counts, come in between as well.
`ratelimiter` has a burst of two tokens and two ticks to a token, so that calls
meet full, partly filled and empty buckets; two calls, so that both can hold a
bucket that is deleted; two buckets, one deleted and its successor.
`StaleAssumption` says that a bucket has refilled by the time it is stale, also
what the calls in progress took beyond it (`RateBounded` rests on it); the code's numbers (200 tokens, 100 a
second, 10 minutes) satisfy it as long as fewer than 29900 calls are in progress.
`server` has one goroutine of each kind, two attempts and two strikes (5 and 3 in
the code), and one resource missing at a time (`MaxDown`), which is enough for
each store, the extension and the host to fail at each step.
`hub` has
one page and two connections, the old and the new one of a reconnect, which can
be in the map together; the channels have length one, so that each of them is
full in some states.  `MaxInFlight`, `MaxTime`, `MaxSignals`, `Attempts`, the channel lengths and
`MaxLeaving` (heartbeats wait while that many disconnects of a connection are
under way, or could come of a queued message; 1 here) are the only artificial bounds.
Deadlock is not checked where requests are finite in number (`debounce`,
`pipeline`) or the clock ends (`escalator`), nor in `dashboard` and `hub`, whose
environment may fall silent.

**Fairness.** `workflow`: a handler that is running takes its next step, because
every call it makes has the request's deadline (5 s).  `debounce`: handlers get on (contexts of 3 s and
5 s) and so does the goroutine of an alert, whatever its handler does.  New requests, faults and crashes are never forced.
`pipeline`: each worker, with the goroutines it waits for, gets on (writes end
with the 5 s write context), and `main` gets on once it was told to stop.
`escalator`: strong fairness of listing, picking and of the successful update,
that is, the ticker keeps firing and PostgreSQL does not fail for ever at every
attempt.  `dashboard`: requests get on, and Redis expires keys.
`ratelimiter`: strong fairness of a call, which waits for locks that others take
again and again (Go's locks starve nobody), weak of cleanup and of time.
`server`: `main`, `Listen` and the restart get on; connections are given back and
goroutines see that their context is done.  The collector's query has no
deadline, so that it ends is an assumption about PostgreSQL; requests, outages,
signals, probes and kills are never forced, and `ShutdownEnds` does not need the
kill.
`hub`: the loop and the goroutines get on, with strong fairness where Go's `select`
chooses at random and where senders queue for a channel; the ticker keeps firing
and TCP gives up on unacknowledged data.

**What the violations say.** Each contradicts a sentence of the repository,
quoted in `PROJECT.json`: CLOSED is not terminal when transitions overlap (the
UPDATE has no condition on the old state); the debouncer creates several items
in a burst, since lookup and registration are not serialised; the workers do not
drain the queue on shutdown.

Smaller differences met while modelling, with no run of their own: a replica that
has created an item goes on giving it to the signals of its component for ever,
since nothing calls `Expire` on the local map; a refresh of the dashboard that was
overtaken by a change can overwrite the invalidation, and misses the incident
until the key expires; so does a change that was committed without confirmation,
since its caller returns before the deletion; signal counts on the dashboard lag
by up to the time to live; an item whose INSERT was committed without confirmation
is never announced, its client being told of an error; `/health` reports MongoDB as "ok" without asking it
(README: "Returns all store status"); a failed attempt to connect leaves its pool
open; errors of the migration are logged and ignored, whatever they are, so that
a process whose database has no timescaledb serves without tables, and passes its
probes (the production database of `src/terraform/modules/rds/main.tf:37-38` is
plain PostgreSQL 14.21, which to all appearances has none); SIGTERM
during the start is noticed after the remaining attempts, backoff included;
`GetSignalsPerSecond` divides by the seconds in which signals came, not by five;
users are kept in one process, so that they are unknown to the other replicas and
gone after a restart; `SubmitRCA`
also accepts INVESTIGATING items (its comment says RESOLVED); `IngestBatch` takes
the severity from the client, `IngestSignal` from the component type, and only
the latter alerts; the escalator counts an item's age from its creation, its
comment from INVESTIGATING, and since its UPDATE has no condition on the state it
also escalates an item that was resolved after the listing, and a pass that listed
an item as P2 lowers it from P0 to P1 when two other passes were faster (the
comment has severities rise; the next pass raises it again); a late disconnect of
a connection whose object is in use again throws the new client out, who
reconnects; the hub's map may
hold a dead connection until a heartbeat finds it, so `ims_websocket_clients` may
be too high for a while; nothing but the heartbeat calls `Broadcast`, so the
live feed carries pings only, which the hook ignores; `signal_count` starts at 1 and the first signal is
counted again by the worker; an RCA refused by `Validate` at the close would be
answered 500, not 422, since the error is wrapped and compared with `==`
(`StoredRcaValid` shows that it does not happen); an RCA that was stored by an
unconfirmed attempt is answered 422.

## 4. Proofs

Every invariant and every action property of the passing runs is proved, for
every value of the constants, and so are the two refinements of `Lifecycle` and
the safety part of the refinement of `SignalLog`.  Each proof module defines (or
takes from its model) an inductive invariant `IInv`, has one lemma per action, and
proves `Invariance`, that is `Spec => []IInv`, and then:

| Module | Theorem | States |
|---|---|---|
| `WorkflowProofs` | `TypeCorrect`, `ClosedDocumented`, `RcaReadBackValid`, `RcaAcknowledged` | `TypeOK`, `ClosedIsDocumented`, `StoredRcaValid`, `AcknowledgedRcaStored` |
| | `RcaFinal`, `RcaFiledActive`, `SettledTerminal` | the action properties `RcaIsFinal`, `RcaFiledWhileActive`, `SettledIsTerminal` |
| | `RefinesLifecycle` | `Spec => ImplementsLifecycle` |
| | `RefinesSerialLifecycle` | `Spec /\ []TakingTurns => ImplementsSerialLifecycle` |
| `PipelineProofs` | `TypeCorrect`, `EachSignalIsInOnePlace`, `ProcessedPersisted`, `OverCountBounded` | `TypeOK`, `EachSignalOnce`, `ProcessedIsPersisted`, `CountsBounded` |
| | `RefinesSignalLog` | `Spec => LogSafety`: every step is a step of `SignalLog` or a stutter |
| `DebounceProofs` | `TypeCorrect`, `WindowAlwaysBacked`, `AcceptedAlwaysLinked`, `AlertsAlwaysBacked` | `TypeOK`, `WindowBacked`, `AcceptedIsLinked`, `AlertsBacked` |
| `RateLimiterProofs` | `TypeCorrect`, `RateAlwaysBounded` | `TypeOK`, `RateBounded` |
| | `RefusalsJustified` | the action property `RefusalJustified` |
| `ServerProofs` | `TypeCorrect`, `WorkersOutlived`, `ServesReady` | `TypeOK`, `StoresOutliveWorkers`, `ServingIsReady` |
| `EscalatorProofs` | `AlwaysEarned` | the action property `EscalationEarned` |
| `DashboardProofs` | `StaleOnlyWithReason` | `StaleHasReason` |
| `HubProofs` | `NeverDroppedSilently`, `NeverOrphaned` | `DroppedIsClosed`, `NoOrphanSocket` |

**From which assumptions.**  Those of the models, which TLC evaluates in every
run.  Most say that a size is a positive number and that `Null` is not a value.
Three say more.  `TimesAssumption` (Workflow): an instant is zero or at least a
microsecond.  `SignalsAssumption` and `WorkersAssumption` (Pipeline): finitely many,
for the cardinalities.  RateLimiter: `StaleAssumption` (section 3), and
`ObjectsAssumption`, that memory does not run out: the bucket of every client but
the one that needs a new bucket, and one for every other call, leave one over.

**Along which argument.**  In every module a step acts on something that was read
or decided earlier and may no longer be so; the invariant says which part of it
nobody can take back.

* *Workflow.*  `IInv` adds to the types, and to what the two tables say about each
  other (`RowConsistent`, `RcaConsistent`), what a request has learnt and no other
  request can undo (`RequestConsistent`): resolved_at is never cleared, a stored
  RCA never changes, an item that has left OPEN never returns to it.  A request
  about to close an item still finds the RCA it read, with the same MTTR, even if
  the state it checked is long gone.  That is also why `ClosedIsTerminal` fails
  while `ClosedIsDocumented` holds.  `Assemble` reduces a step of request r to three
  facts: the tables stay consistent, they only grow in the sense above, and r
  itself is consistent afterwards; `OthersConsistent` does the rest once and for
  all.  For `RefinesSerialLifecycle` the requests may use any number of slots but
  do not overlap (`TakingTurns`, true of every behaviour of the instance of
  `workflow_serial`); then a request that is about to write finds the item in the
  state it read, or in the state its own unconfirmed attempt left (`StillDue`),
  and a repeated update is a stutter.
* *Pipeline.*  `Placed` says where a signal is without counting: what the queue took
  is in the channel, with one worker or settled, and never in two of these.
  `Persisted` ties the goroutines of a worker to the stores.  `Counted` bounds
  signal_count from both sides by cardinalities of sets that grow by one element
  with each UPDATE: the signals whose count is confirmed from below, a ticket for
  each attempt from above.  The refinement then compares the signals that wait
  with the places of the channel and the hands of the workers.
* *Debounce.*  Work items are only added, so a reference that was good when it was
  read stays good, through the handler, the two levels of the window, the results
  of a batch and the alert (`RequestsOK`, `WindowBacked`, `DispatchBacked`).
* *RateLimiter.*  `Holds` relates clients to the buckets in the map and in the hands
  of calls; a bucket has one owner.  None of a client's buckets has less than his
  budget (`Generous`): refusals are justified.  The bucket in the map has at most
  the credit, which is the budget with every stray token given back, and a client
  without a bucket, or with one that is about to be deleted, has the credit for a
  full one (`Covered`): the rate is bounded.  Two deletions at most are counted
  (`Counted`): while more than one is, the credit has grown for as long as the
  bucket was idle, so a stale bucket would mean a budget beyond its capacity.
* *Server.*  What is connected, migrated, started and closed is determined by where
  `main` is (`Started`, `Connected`, `Migrated`, `Closing`); goroutines that have
  stopped stay so, and nobody takes a connection to a store that is being closed.
  For the tables (`Migrated`): while the database stays there, with the extension, and
  nobody stops the process, each outcome of the Exec that lets `main` go on leaves
  them behind, its own or those of the replica it lost the race to; nobody drops them.
* *Escalator.*  A pending update is earned (`Earned`): an item does not get younger, and
  one that has been P1 never becomes P2 again, whatever order the replicas write in.
  An update to P1 that finds P0 belongs to a pass that two updates overtook; a pass
  has one update for an item (`Single`), so it takes another replica, and the
  item is old enough for P0.
* *Dashboard.*  The states and severities a refresh has read are those of the items
  until a change overtakes it (`ReadIsCurrent`); every change has an invalidation to
  come, or has set `excused`.
* *Hub.*  A handler reads only after it has queued its registration; only a disconnect
  takes a connection out of the map, and the same step closes it.  That argument
  does not depend on whose disconnect it is, so it survives the reuse of objects
  (a connection may be in the map and in the queue at once).  A page has a socket or a
  reconnect timer, never both (`Sockets`).

**Model-checked only.**  All liveness, since fairness and ENABLED are out of the
prover's reach: `EveryRequestAnswered`, `NewItemAlerted`, the two `ShutdownEnds`,
`ComesUp`, `EventuallyP0`, `ConnectedIsRegistered`, `GoneIsForgotten`, `CacheConverges`,
`IdleBucketDeleted`, `EveryCallReturns`, and the fairness of `SignalLog` in
`ImplementsSignalLog`.

## 5. Assumptions and omissions

* A statement whose client has given up is committed by then or never; that
  PostgreSQL executes it later still is not modelled.
* Instants within a microsecond of Go's zero time are not considered.
* uuids do not collide (items are named after the signal that creates them).
* Redis SET, GET, DEL and an SQL statement are atomic; keys may expire at any time.
* In `Pipeline` a crash has no action: it cuts a behaviour off, and every safety
  property holds in the state it leaves behind.
* Signal payloads, log lines, headers, tokens and page layout are left out; so is
  the signal_timeseries table, which no modelled part reads back.
* In `Server`, a connection to Redis is not counted: closing its client waits for
  nobody.  A probe fails when the process does not serve or a store it asks is
  missing; slow answers are not distinguished.
* React's StrictMode mounts effects twice in development builds; production
  builds, which the model is about, mount once.

**Not modelled.**

* Authentication: the users of a process are a map whose every operation is one
  critical section, and the rest is bcrypt and signed tokens, cryptography in
  libraries.  There is no interleaving to explore, and nothing else reads the map.
* The throughput counters in Redis (`IncrementSignalCounter`,
  `GetSignalsPerSecond`), the gauges and the statistics of `/health`: they are
  displayed, and no decision rests on them.
* Code that nothing calls: `Expire`, `LinkSignalToWorkItem`, `GetRecentSignals`,
  `CountSignalsByComponentID`.
* Reading one item, its RCA or its signals: one query, no state.
* The router (wiring of the framework), the rendering of the frontend, and the
  deployment files beyond probe and restart policy.

## 6. Plan

Done: all modules of section 2, their runs, and proofs of every invariant and
action property.  What is left:

1. Facts the proofs establish on the way and no property states yet, where they
   say something about the code on their own: that a bucket serves one client
   (`OneOwner`), that a request that takes turns writes what is due (`StillDue`).
2. More of the action properties the abstract specifications imply, as theorems
   about `Lifecycle` and `SignalLog` themselves, to be inherited by the refinements.
3. The safety facts behind the liveness properties (what a waiting goroutine
   waits for), which would narrow down what rests on TLC alone.
