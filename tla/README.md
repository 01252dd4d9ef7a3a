# A TLA+ verification of cova

cova runs "expert" jobs for assistants: a gateway takes requests, an orchestrator
keeps the jobs and has them executed by expert runtimes, results come back as
answers or as signed events, and completions go out as webhooks. Beside it a
workspace server connects chat channels to agents over WebSockets.

This directory holds models of the parts that keep state, TLC runs that check
them on small instances, and TLAPS proofs about all of them. `PROJECT.json` lists runs, mutants, source lines of every definition, findings, hazards and
theorems. Run things from this directory:

    tlc -workers 2 -config oc_lifecycle.cfg MCOrchestrator
    tlapm OrchestratorProofs.tla

## 1. Inventory

| Component | State | Operations | Hard behaviour |
|---|---|---|---|
| orchestrator `internal/orchestrator/server.go` | jobs, idempotency records, dead letters, id counter under one mutex; a snapshot in the store | submit, status/result/deliveries, cancel, replay, expert event, worker loop, restart | lock released around `ExecuteBrief` and before every enqueue; late answers and events; expiry seen only on access; crash between any two steps |
| job queue `queue.go`, `queue_redis.go` | buffered channel, or a Redis stream with pending entries | enqueue, dequeue, ack | dropped enqueues (3 s timeout, logged), duplicate entries, redelivery |
| job store `storage/jobstore` | JSON file or one Postgres row | load, save | errors only logged; crash inside `Save` |
| executor `worker/executor` | none | `ExecuteBrief` | result, 202, error, 60 s timeout that may lose a 202 |
| webhook delivery `delivery/webhook/dispatcher.go`, `store.go` | delivery log | deliver with retries, list | answer lost after handling; backoff against the caller's 60 s deadline; a log of two writes per record, whose errors are dropped |
| webhook verification `verify.go` | ids seen, with expiry | verify | skew, re-signing, duplicates, restart |
| expert runtime `expert/runtime` | cancel functions by task id, counters | create task, cancel, run, send event | overlapping runs of one task id; failed tasks send no event |
| agent pool `agent/connection.go` | connection and status by agent | authenticate, read loop, disconnect | replaced connections whose read loop ends later; failure after entering the map |
| workspace client `sdk/go/cova/workspace_client.go` | one connection, one done channel | connect, read loop, respond, close | a field read and written under different locks; a message before auth_result; a second Connect |
| Feishu channel `channel/feishu`, router `routing/router.go`, `cmd/workspace` | none of their own; bot mapping, which pool the router asks | handle message, route incoming, hand back an answer | check-then-send; which pool; mentions that map to nobody |
| expert and agent registry `registry/loader.go`, `agent/registry.go` | none after start | read configuration line by line | an entry or key left open by an earlier line |
| mock worker `worker/mock/server.go` | its own jobs, idempotency records, snapshot | as orchestrator; one goroutine per run | two goroutines on one job |
| gateway `api/gateway/middleware.go` | token bucket per client, counters, ring of seconds | serve, metrics | cleanup of buckets; out-of-order records |
| generated API and client, logging, commands | none | format, call | none a model would reach (section 8) |

How they interact. The gateway forwards to the orchestrator. The orchestrator's
handlers change the maps under `Server.mu`, save the snapshot before unlocking,
and put job ids on the queue after unlocking; one worker goroutine takes them
off, marks the job running, calls a runtime without the lock, and takes the lock
again for the outcome. A runtime that answered 202 later posts a signed event,
which `Verifier` and then `ExpertEventsHandler` process. A success with a
callback starts a delivery goroutine. The workspace's router asks the agent pool
whether an agent is online and sends over its connection; the pool's read loops
remove connections that end.

What makes each part correct is stated by the properties of section 4; where it
can go wrong is the list of hazards in `PROJECT.json`.

## 2. Modules

| Module | Models | Composition |
|---|---|---|
| `Orchestrator` | server, queue, store, executor and what the server sees of the runtimes | refines `JobLifecycle` |
| `JobLifecycle` | the documented state machine of a job (docs/api-contract.md §6) | abstract specification |
| `ReplayGuard` | `Verifier.Verify` with the in-memory guard, sender and network | |
| `ExpertRuntime` | task requests, runs, cancel map, counters | |
| `ExpertEvents` | a completion's way from a runtime over the network and the guard to its job | extends `ExpertRuntime` and `ReplayGuard` |
| `WebhookDelivery` | `Dispatcher.deliver` under the caller's deadline, writing a `JSONLStore` | |
| `AgentPool` | connections of agents, the pool's side | |
| `AgentSession` | pool and `WorkspaceClient`s with the frames between them, and the way of an answer | extends `AgentPool` |
| `Workspace` | Feishu channel, router and its pool(s) | extends `AgentPool` |
| `ConfigLoader` | the three readers of configuration files | |
| `MockWorker` | the stand-alone mock server | |
| `Gateway` | request pipeline, limiter, metrics | |
| `OrchestratorProofs`, `ExpertEventsProofs`, `WebhookDeliveryProofs`, `AgentSessionProofs`, `WorkspaceProofs`, `ConfigLoaderProofs`, `MockWorkerProofs`, `GatewayProofs` | theorems | extend their component; `ExpertEventsProofs` also holds those about `ReplayGuard` and `ExpertRuntime`, `AgentSessionProofs` those about `AgentPool` |
| `MC*` | symmetry sets and constants for TLC | extend their component |

### Correspondence with the code

**Orchestrator.** `jobs`, `idem`, `dlq`, `nextID` are the maps and counter of
`Server`, `disk` what `stateStore.Load` would return. One step is one critical
section of `Server.mu` (with its `persistLocked`), one queue operation, one move
of a runtime, one tick, or one restart. `sending` counts `enqueue` calls between
unlock and completion, so requests, worker and enqueues interleave freely.
`worker.pc` follows `workerLoop`/`processBriefJob`: `idle`, `executing` (lock
released, `ExecuteBrief` under way), `accepted` (the runtime took the task, the
202 is on its way), `retrying` (to be enqueued again), `done` (to be
acknowledged), `loading` (a restarted process, before the listener starts).
`StartJob`, `FinishAccepted`, `FinishResult`, `FinishError`, `RetryEnqueue` and
`AckJob` are the parts of `processBriefJob` between lock operations, with the
code's early returns. `Restart` is a crash at any moment followed by `loadState`;
on the Redis stream the entries survive, and what was delivered and not
acknowledged is in `pel`. `Faults` selects what the environment may do: `crash`,
`save`/`load` (the store returns an error, which the code logs), `lostfile`
(the crash between `os.Remove` and `os.Rename`), `enqueue`, `ack`, and `noresult`
(a succeeded event without the optional result).

A request is abstracted to scope and payload together (`Requests`); a result is
the request it was computed for, which is all `ResultMatchesRequest` needs.
Progress and timestamps other than the deadline are left out. Every job is taken
to have a callback URL. A submission answered from its idempotency record, a
read, a refused request and an unknown id change nothing and are not steps. The
handlers call `expireJobIfNeeded` in a critical section of their own, so the
model has it as the step `Poll` that may precede any other.

**ReplayGuard.** The network keeps every signed request and may present it at
any time. The sender's clock is free; `Span` is the longest time between two
signatures of one event, since `tryOnce` signs each attempt anew. The signature
is perfect. `Restart` empties the guard. `Verify` reads the clock before it takes the
guard's lock; the model has both in one step, so a request that waits for the lock is
judged by the clock at the moment it gets it.

**ExpertRuntime.** A run is one task request. A task id may come again while a
run of it is in flight: the orchestrator sends the job id, so retries and replays
do that. The history variable `shared` holds the runs that shared the entry of
their id with another. `handleCancelTask`'s removal and `cancel()` are one step:
nothing else uses the function it has removed.

**ExpertEvents.** `PostEvent` is the end of `runAsyncTask`: it draws an event id,
which another task may have drawn (the id is the clock in nanoseconds), signs and
posts once. `Receive` is `ExpertEventsHandler`: `Verify`, which marks the event,
then the job; a posted request may be presented never, late or again. Of a job the
class of its status is kept, in memory (`job`) and in the snapshot (`disk`). The steps of
`Orchestrator` that change it are here with their effect on it and no more:
`WorkerSets` for the critical sections of `processBriefJob`, which stops for a canceled
job only and so takes a succeeded job back to open as well (server.go:938, 962),
`EndJob`, `ReplayJob`, `SubmitJob` with an id that was given before, and
`RestartOrchestrator` from a stale snapshot, a lost one or one that cannot be read.
`WorkerSets` allows more than the worker does, which may be in any of its sections
whenever the job has any status. `fate` is the first answer a run's event got, which is
the one that counts since nobody retries, unless a copy is applied later. `closed` and
`overruled` note which jobs the orchestrator ended by itself and which the worker took
out of succeeded. `MaxMoves` bounds these steps.

**WebhookDelivery.** One delivery: try, write the record, write the line end, sleep,
under a context whose end (`deadline`) is one of `Deadlines`. What the receiver did
(`handled`, capped at 2) is separate from what it answered. `file` is the log as a
sequence of what the writes left: records, parts of records, line ends. A write may
fail or tear (`faults`), `persist` drops the error, the process may die anywhere
(`Crash`), and the log may be one that an earlier process left torn. `ListByJobID`
sees the lines that hold exactly one record. The limit of the scanner's line length
(store.go:168) is left out: records are far shorter. There is one delivery here: that of a
job that succeeds a second time (section 5) would append records of its own event to the
same log, and is not modelled.

**AgentPool / AgentSession / Workspace.** A connection goes from `Connect` (maps
entered under the lock, predecessor closed) over `Greet` (auth_result, outside it) to
reading, and its end runs `disconnectAgent` by agent id. `alive` is what peer and
network do. In `AgentSession` the peer is a `WorkspaceClient`: `Dial` and `Connected`
are its `Connect` before and after the wait for auth_result, the `Loop...` actions
its `readLoop` between two uses of the field `conn`, which `Close` and another
`Connect` change meanwhile; `down` and `up` are the frames in flight. The
application answers every message, on the connection or by POST to `/webhook`.
In `Workspace` the messages come from `handleMessage` of the Feishu channel with a
chat type, text or none, and a list of names, which `resolveMentions` goes through in
its loop. `routeIncoming` is one step per question it asks of the pool and per message it
sends: `CheckOnline` (IsOnline), then `sendOfflineNotice`, or `LookUp` (SendToAgent under
the pool's lock) and `Write` (`Conn.Send` after the unlock). What became of a message is
its `outcome` per target: `delivered`, `failed` (lost, and nobody is told), `notified`, or
`unannounced` (the channel refused the notice, which is only logged). `offline` notes
which agents were offline at some moment since the message came. The notice is sent
synchronously, under `context.Background()` and with an HTTP client without a timeout
(router.go:178, feishu.go:57), so `routeIncoming` may never return; no run claims that it
does. `TwoPools` selects the wiring: `FALSE`
is a router and a handler on one pool, as the packages and their tests use them,
`TRUE` is `cmd/workspace/main.go`.

**ConfigLoader.** `ReadLine` is one pass of the loop over the lines of a file, for
the reader chosen at the start; `Finish` is the end of the file with validation and,
for experts, `LoadSnapshot`. The environment writes the file, one line of the
vocabulary at a time, so all files up to `MaxLines` are read. A line is what is left
of it without comment and quotes; of the spellings `ParseBool` takes there is one per
value, and one it refuses. A path is what `strings.Join(keys, ".")` gives, cut at its dots
(`Join`): a key with dots (`Dotted`) has the path of a nested one, and a value under
`metadata.expert_id` at the top level is stored where `expert_id` under `metadata` is. `NoRef` is the nil pointer `current` starts as, a
constant that is no entry. What a file means is defined beside it, from all its lines
at once: the entries of the sequence by their dashes (`Meaning`), the keys that hold a
line (`PathOf`), both put in the order of the file by `InOrder`. The properties compare
the two.

**MockWorker.** A run is one goroutine of `runMockJob` with its stages; each
`transitionJob` and each look at the status is a step. Every call of the store may fail
(`MaxFaults`): `persistLocked` logs an error of `Save` and goes on, and after an error of
`Load` the server runs from an empty state, gives its ids again and overwrites the
snapshot. `store.failed` is the outcome of the last call. `Restart` kills the
goroutines and `loadState` starts none, so the liveness properties speak of jobs
no restart interrupted.

**Gateway.** One step up to the answer (only `Allow` touches shared state), one
that reads the clock, one that records. `ServeHTTP` asks in the order of the code:
authentication, limiter, validation. `RequestsLast1m` is the loop of `Snapshot` over
the ring; `Snapshot` reads the clock before it takes the lock, in the model in one step.
Tokens are counted in `Cost` units so that fractions are integers.

Definitions commented "Mutant" are wrong variants of the definition that follows;
each property has one that violates it (section 6). No specification uses them.

## 3. Bounds

All bounds are constants. Two jobs (`oc_lifecycle`) suffice for ids, queue order and
interference between jobs, which share only the counter, queue and worker; one job
with two overlapping enqueues, two tasks and two requests (`oc_async`) has the races
between worker, event, client and restart, which concern one job. Two attempts
distinguish first, last and retry. With `JobTTL` 0 or 1 and two or three instants a
deadline may pass before, during or after every step. `QueueSize` 1 reaches the full
channel. In `er_events` the guard's memory is just above `2*AllowedSkew + Span`, the tight
case, and two runs of two tasks with two event ids overlap, share an entry or share an
id. Two moves of the orchestrator end and reopen a job, or lose it and give its id again.
The run's state constraint `MovesAfterRuns` lets them come when the runs have posted their
events: the runtime and these moves share no variable, so the other orders reach no other
fate; the proofs do without it. `wd_delivery` uses the real defaults at 200 ms a tick, with contexts of 60 s, of
3.6 s (which cuts the delivery short in the middle) and one that is over at once, and
one fault. In `gw_requests` the time to live is the smallest with
`Rate * (EntryTTL + 1) >= Burst * Cost`: with one second less TLC finds the bound
broken, so the condition is necessary. In `ws_router` three connections of two agents
allow a replacement beside a bystander, or two, while one message, which may have two
targets, is routed; messages share nothing but the pool. In `as_session` two
connections of one agent, from one client or from two, have a replacement and a second
Connect; one message is enough for a frame that overtakes another. Five lines
(`cfg_registry`) hold the list's key and two entries of two lines. Two goroutines of up to two
jobs (`mw_jobs`) are two jobs side by side, or one job and its replay, with two failed
calls of the store.

Symmetry is used for requests, keys, events and clients (`oc_lifecycle`, `er_events`,
`gw_requests`), never in a run with a liveness property. Deadlock checking is off everywhere: bounded clocks and
counters make every model stop, and servers may be idle.

## 4. Runs that pass

| Run | What it shows |
|---|---|
| `oc_lifecycle` | `Durable`: what is visible at an unlock is on disk; `AcceptedJobsSurvive` restarts; `FollowsLifecycle`: refinement of `JobLifecycle` for synchronous experts without replay (with events it fails, see `oc_late_accept`) |
| `oc_async` | with every answer and overlapping tasks: `ResultMatchesRequest`, `SucceededHasResult`, `WorkerHoldsJob`, `NoJobLost`, `CanceledSticks`, and `EventuallyTerminal` from time and polling alone |
| `oc_redis` | `StateConsistent` and `NoJobLost` with redelivery, lost acks, a lost snapshot, failed saves and loads, events without result |
| `er_events` | the runtime: `HandleIsLive` (a cancel function belongs to a run in flight), `MetricsAddUp`, `RunningTaskCancelable` for every run whose id was not sent again meanwhile; the guard: one process accepts an event once (`AcceptedOncePerProcess`); both: `CompletionNotWasted`, a completion that arrives in time is dropped only for an id shared with an event that was handled, finds no job only after a restart, is ignored only if the orchestrator ended the job itself or another run's event did, and once applied is undone only by the worker or a restart |
| `wd_delivery` | `LogTellsTheStory`: the listing is in order and true at any moment: a success was handled, a record without a retry is the last, one with a retry was followed by another attempt unless the delivery still waits, was canceled or died; a fault hides two records at most; `AllAttemptsMade`: 60 s never cut the ten default attempts short |
| `as_session` | `StatusMatchesMap`, `OpenIsCurrent`, `BreakIsNoticed` of the pool; `OfflineOnlyByEviction`: an agent with a good connection is offline only because another read loop of it has ended; `PanicOnlyByUse` and `RefusedOnlyByOvertaking`: when a client panics and when it is refused; `SentIsAnswered` |
| `ws_router` | `RoutedAsDocumented`: whom a message is for, from the chat event on, the preference for PMs included, and that each gets it or the sender a notice unless the agent lost a connection; `LostOnlyByBreak`; `NoticeIsTrue`: a notice is about an agent that was offline since the message came |
| `cfg_registry` | `LoadedAsWritten`: what is loaded are the entries of the file; `StoredWhereNested`: each value under the path of the keys that hold its line |
| `mw_jobs` | `Durable`: what is on disk is what clients were told, unless the store's last call failed; `SucceededHasResult`; `OnlyReplayRevives`: a replay, or a restart with a store that failed; `EventuallyTerminal`, `SucceededIsAnnounced` |
| `gw_requests` | `RateBound`: at most burst + rate × time in every interval, cleanup included; `GrantsAccounted` and `RecentExact`: counters, grants and ring agree |

`oc_lifecycle` also checks `TypeOK` of the orchestrator. The type invariants of the
other modules (`TypeOK`, `GuardTypeOK`, `RuntimeTypeOK`, `PoolTypeOK`) are what proofs
rest on; they hold in the same runs and are not among their properties, which are about
behaviour.

**Fairness.** `PollingSpec` (`oc_async`): crashes come to an end, time passes, clients
poll, as docs/api-assistant.md tells them to, an enqueue call ends after its 3 s, and a
restart's `loadState` returns; nothing is asked of worker or runtime, so dropped entries
and silent runtimes are included. `PoolFairness`: a greeting finishes and a read loop ends
after a break because of the read deadline that pongs extend. In `AgentSession` the
client's goroutines also run: `Connect` goes on when a frame or an error arrives, its read loop when there is a frame
or the socket is gone, and the application's handler returns. In `MockWorker`'s `RunSpec` the goroutines run, and neither clock nor
client has to move. No run assumes fairness of agents, events, cancels or replays.

## 5. Runs that show a disagreement

Each checks one statement of the repository; TLC's trace is short.

| Run | Statement | What the code does |
|---|---|---|
| `oc_late_accept` | `succeeded -> running` is not allowed (docs/api-contract.md:374) | an event may finish the job before the 202 is read; `processBriefJob` checks for canceled and expired only and sets it to running |
| `ws_two_pools` | messages are routed to agents (cmd/workspace/main.go:8) | the router asks a pool nobody connects to |

The same models, with other constants or a stronger property, show further behaviours
to know about. They are not runs of their own:

- A cancel followed by a replay leaves two queue entries, and Redis delivers an entry
  again after a crash before its acknowledgement; both run a succeeded job once more,
  through the same missing check as `oc_late_accept`.
- A crash between `os.Remove` and `os.Rename` of `JSONFileStore.Save` leaves no
  snapshot: `AcceptedJobsSurvive` fails with the fault `lostfile`.
- `loadState` fills the memory queue before a worker reads it; jobs beyond its capacity
  are dropped, so `NoJobLost` fails once the queue can be full. They still end, by expiry.
- A `failed` event writes a dead letter at the first attempt, with attempts left.
- A restart forgets the replay guard, so a fresh copy is accepted once more: the property
  is per process.
- The read loop of a replaced connection calls `disconnectAgent` by agent id and evicts
  the agent's new connection, though connection_test.go:73 expects an agent to be online
  after auth; `OfflineOnlyByEviction` says that this is the only way.
- An agent is online before its `auth_result` is sent; a message routed in between is
  taken by `Connect` for a refusal.
- `WorkspaceClient` panics when `Close` falls between a check and a use of the connection,
  and when a second `Connect` makes a second read loop close `done`.
- Event ids drawn from one tick of the clock make the second completion a replay. A
  completion that finds no job after a restart is marked as seen all the same.
- A torn write of the delivery log makes the next record unreadable, too.
- The agent registry reads a dash alone as a field of the agent before it, merging two
  agents, and ignores agents that are not indented; the expert registry rejects both.
  Definitions drop list items that are not deeper than their key.
- `botOpenID` is never set, so the filter for the bot's own messages (feishu.go:148) never
  applies; a platform event that is delivered again is routed again.
- A failed `auth_result` leaves a closed connection in the map until the agent reconnects.
- The offline notice promises later delivery (router.go:175); the message is dropped.
- A message that fails between the online check and the write is lost and nobody is told.
- Overlapping runs of one task id share one cancel function, and the first to end deletes
  it: the runs in `shared` may not be cancelable.
- The mock worker announces a job whatever its status is by then, and a replay's goroutine
  runs beside the old one, so a succeeded job may be running again.

## 6. Mutants

For each property of each passing run `PROJECT.json` names a wrong variant of a
definition (a missing save, a dropped check, a forgotten cleanup, ...) under
which TLC finds that property violated with the run's own configuration.

## 7. What is proved

The theorems hold for every value of the constants that the named `ASSUME` of the
component allows, hence for any number of jobs, agents, clients, connections,
attempts and faults. Where a theorem needs more, it says so as a hypothesis: a
condition on constants that a deployment can meet. Of what the passing runs check,
only liveness is left to TLC.

**OrchestratorProofs**

- `Invariance`, `Spec => []IInv`, with
  `IInv == TypeOK /\ StateConsistent /\ WorkerHoldsJob`; from it `TypeCorrect`,
  `StateAlwaysConsistent`, `WorkerAlwaysHoldsJob`.
- `AlwaysDurable`: `[]Durable` if neither `save` nor `load` is among the faults.
- `JobsSurvive`: `AcceptedJobsSurvive` if in addition `lostfile` is not.
- `SucceededAlwaysHasResult`, if no event comes without a result; `ResultsMatch` and
  `CanceledAlwaysSticks`, if none of `save`, `load`, `lostfile` is a fault.
- `LostOnlyByFailedEnqueue`: `[]NoJobLost` in every behaviour none of whose states
  lets an enqueue fail; `RedisLosesNoJob`: always, on a stream whose `XADD` works.
- `LifecycleFollowed`: `FollowsLifecycle`, the refinement of `JobLifecycle`, under
  `Undisturbed`: no replays, no asynchronous answers, a queue that does not deliver
  twice, a store that neither fails nor loses its file. Each of these is
  necessary: TLC finds a counterexample when any one is dropped.

`StateConsistent` is not inductive alone. `FinishError` writes an attempt number
and a dead letter for the job the worker holds, so that job must exist and be in
order: `WorkerHoldsJob`. A restart turns the disk into memory, so the snapshot
has to be consistent too, which is why `StateConsistent` speaks of both, and
types are needed to take records apart. The argument is by two kinds of
steps: those that rewrite one existing job and its dead letter and leave it in order
(`EditsJob`, one lemma per action), and the submission (`AddsJob`); two lemmas
show that each kind keeps memory consistent, a third does it for `loadState`
(`ReloadKeepsMemory`), and the disk follows as `persistLocked` writes either
memory or nothing. The faults are harmless to consistency because both outcomes of
each are consistent states.

The other theorems rest on one classification of what a step may do to a job
(`OneMove`: submitted, replayed, moved on without a result, succeeded with the result
of the worker's call or of a task). Results match because the tasks of a job carry its
request (`TasksMatch`) and `WorkerHoldsJob` says so of the worker. No job is lost
because every step that takes a job from one place (channel, pending list, worker,
enqueue under way) leaves it in another or in a status that is not queued
(`OnItsWay`). The refinement needs `OnceInv`: a job is in one of these places at most,
once, and its status fits the place; then each action is a step of `JobLifecycle` for
one job (`Legal`) and a stutter for the others.

**ExpertEventsProofs**

- `OncePerProcess`: the guard alone, under
  `LongMemory == ReplayTTL > 2 * AllowedSkew + Span`. The strengthening (`GuardInv`)
  says that an event accepted in this process is remembered until after the last
  instant at which any signature of it, existing or still to be made within `Span`, is
  in the window. The code's defaults satisfy the assumption as long as an event is
  re-signed for less than the difference.
- `EventsOncePerProcess`: the same of the composition, from the guard's theorem without
  another induction, as each of its steps is one of the guard or leaves it alone (the
  lemma `EventsRefineGuard`).
- `RuntimeHandles`, `RuntimeMetrics`, `RuntimeCancels`: `HandleIsLive`,
  `MetricsAddUp`, `RunningTaskCancelable`. Inductive with: the entry of a task belongs
  to an asynchronous run of that task (`HandleIsAsync`, `RunHasTask`), and two runs of
  one task that overlap are in `shared` (`OverlapShared`).
- `EventsSafe`: `CompletionNotWasted`, for every window and memory. It needs that a
  run posts once (`PostedOnce`), that an answer belongs to a post (`FateIsPosted`),
  that what the guard has seen was handled for a run with that event id
  (`SeenIsHandled`), that a job is unknown only after a restart (`LostByRestart`), and
  that a job with an end, in memory or in the snapshot, got it from the orchestrator or
  from the event of one of its runs (`EndHasCause`).

**WebhookDeliveryProofs**

- `AttemptsFit`: `[]AllAttemptsMade` under `Room`, that is
  `(MaxAttempts - 1) * (RequestTimeout + Longest) < DispatchTimeout` with `Longest` the
  capped backoff and its jitter. The defaults leave little: 9 × 6.6 s = 59.4 s of
  60 s. `TimeInv` bounds the elapsed time by the attempt's number.
- `LogTrue`: `[]LogTellsTheStory`, for any number of faults. `RecordsInv` says that the
  records in the file are of distinct attempts in order, the earlier ones with a
  retry; `PlaceInv` what the current attempt came to, wherever deliver is; `CountInv` counts the readable lines against the faults, with a `Debt` for
  what an unended last line can still cost.

**AgentSessionProofs, WorkspaceProofs**

- `PoolSafe` (`StatusMatchesMap`, `OpenIsCurrent`) and `PoolEvicts`
  (`OfflineOnlyByEviction`) of the pool alone, with the strengthening that the map
  holds connections that were made (`MapIsMade`) and that an agent that connected and
  is out of the map was taken out by a read loop (`TakenOut`).
- The same with real clients (`SessionStatusMatches`, `SessionOpenIsCurrent`,
  `SessionOffline`), and `SessionPanics`, `SessionRefusals`. `ClientInv` says which
  connections a client's field, dial and read loops may hold, and that two loops of one
  client need two Connects; `WireInv` that `auth_result` is the first frame
  unless a message was sent during the greeting.
- `WorkspaceRoutes` (`RoutedAsDocumented`), `WorkspaceLoses` (`LostOnlyByBreak`):
  reached targets and targets still to come are together those that are due
  (`RouteInv`), and an agent that was online before a send had a connection, so that a
  failed send means that one broke or was replaced (`SendInv`, `FailInv`). That a direct
  message is for a PM unless all were offline is part of what is due; it is kept because
  the set of agents that have been offline only grows.
- `OnePoolNoticesTrue`: `NoticeIsTrue`, which `ws_two_pools` shows violated by the wiring
  of `main`, holds with one pool, though the agent may be back before the notice goes out:
  every agent offline while a message is on its way is in its history (`OfflineInv`).

**ConfigLoaderProofs**

- `RegistryLoadedAsWritten`: `[]LoadedAsWritten`, and `DefinitionStoredWhereNested`:
  `[]StoredWhereNested`, for files of any length made of any lines. Both follow from
  `ConfigInvariant`, `Spec => []IInv`.

The reader has seen the lines so far, the properties speak of the whole file. So the
invariant says what the reader's variables mean for the file as far as it goes, and each
case of `ReadLine` is compared with what the new line changes in that meaning.

For definitions `IInv` has `StackIsOpen`: the stack is the list of the keys that no later
line has closed (`Open`), in order. The pops for a line leave exactly the open keys that
hold it (`NestedAt`), because the keys on the stack are ever deeper (`StackAscends`):
the reader compares with the top of the stack only, and this is why that is enough.
Lines already read keep their path (`PathKept`), and a value that is stored comes last.

For registries it has `ReadAsWritten`: in a file with indented dashes, `inExperts` says
whether the next indented line is part of the sequence (`Inside`), and the entries
flushed so far with the open one are the entries of the lines so far. A line outside the
sequence changes none of them, an item adds one, a field changes the last and no other
(`MeaningSame`, `MeaningItem`, `MeaningField`). An expert registry is not asked for
indented dashes; there `EntriesFromItems` says that only an indented item makes an entry,
so that a file without one has no experts and is rejected by `ValidateRegistry`
(`LoadedIsPlain`).

Underneath are facts about `InOrder`: an ascending enumeration of a set of numbers exists
and is unique (`ListsExist`, `ListsAgree`), a new largest number is put at its end, and a
prefix of it lists what it contains.

**MockWorkerProofs**: `MockWorkerDurable`, `MockWorkerResults`, `MockWorkerRevives`.
Memory and disk are each in order (results, ids not given out are free), since either may
become the other; they agree unless the store's last call failed; and goroutines at work
have existing jobs.

**GatewayProofs**

- `RateLimited`: `[]RateBound` under `LongTTL == Burst * Cost <= Rate * (EntryTTL + 1)`.
  The invariant `FlowBound`: what was granted since any grant, with what the bucket
  would hold now, is at most the burst and the rate times the time since. A bucket that
  is deleted would be full, which is where `LongTTL` enters; section 3 says that it is
  necessary.
- `CountersAgree`: `[]GrantsAccounted`, a sum that each step changes on both sides
  alike.
- `SnapshotExact`: `[]RecentExact` under `ShortLag == MaxLag < RingSize`: each slot counts
  the requests of its latest second (`RingInv`), and the loop over the slots adds up to
  the requests of the last `RingSize` seconds. `GatewayTypes` is the type invariant.

**On induction.** The library's induction theorems cannot be instantiated by the
provers that are used here. Where a loop needs one (`RequestsLast1m`, `Pow2`,
`resolveMentions`, and the enumerations of `InOrder`), the proof takes the least index at which the claim fails
(`LeastNatural`, from `NatLessThanWellFounded`) and refutes it; the loops are written as
recursive functions on an interval for that reason, and the meaning of a file with sets
of line numbers rather than with filters and folds over its lines.

**Only model-checked.** Liveness (`EventuallyTerminal` of orchestrator and mock worker,
`SucceededIsAnnounced`, `BreakIsNoticed`, `SentIsAnswered`): TLAPS 1.4.5
does not reason about fairness and `ENABLED`. The two findings of section 5 are
counterexamples, which TLC finds.

## 8. What is not modelled

- Whether routing a message ends: the notice is sent without a timeout.
- Of the Feishu channel `Send` and the look-up of user names: calls of the chat
  service whose outcome is logged; the cache of names only saves such calls.
- Generated server glue and API client, logging: formatting and I/O.
- Commands: flags and wiring, except `cmd/workspace`.
- Of the configuration readers the characters: comments, quotes and the split at the
  colon are taken off before a line enters the model, and paths are not resolved.
- `QueryExpert`, capabilities, health, metrics handlers: no state. Their
  unlocked reads, like those of the job handlers after `RUnlock`, may return a
  torn answer to one client, and change nothing.
- Postgres: same load and save of one snapshot, without the lost file.
- A webhook goroutine that dies with the process is lost, and a succeeded job
  cannot be replayed; the model shows it (`notify` is emptied by `Restart`), no
  document promises otherwise.
- Foreign entries on the Redis stream, and failed authentication of agents, which
  answers and closes before any state is touched.

## 9. Plan

Done, in this order: orchestrator with queue and store; its proofs; replay
guard; agent pool and router; webhook delivery; expert runtime; mock worker;
gateway; then the delivery log with its faults, runtime and guard composed with the
event handler, both ends of the agents' connections, the Feishu channel in front of
the router, and the readers of the configuration; then the proofs of section 7.

What is left of the code is listed in section 8; what is left to TLC is named at the end
of section 7.
