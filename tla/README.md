# A TLA+ verification of tgin

tgin is a gateway between Telegram and bots: it takes the updates of many bots
(long poll or webhook), routes each one by rules to *consumers*, queues it
there, and hands it to bot instances that poll for it (pull) or posts it to
their endpoints (push). It also proxies the bots' calls to Telegram, within
Telegram's rate limits. The config can be reloaded, and bots moved between
servers, while all this runs.

This directory models the part of tgin where a test hardly reaches what can go
wrong, from the queue's indexes to the order of the shutdown.

Contents: [inventory](#inventory) · [modules](#modules) · [runs](#runs) ·
[bounds](#bounds) · [fairness](#fairness) · [proofs](#proofs) ·
[findings](#findings) · [plan](#plan) · [not modelled](#not-modelled)

## Inventory

Paths are below `src/crates/`.

| Component | State | Operations | Correct when |
|---|---|---|---|
| `LeaseQueue` (`tgin-runtime/src/queue.rs`) | under a mutex: entries, five indexes, byte totals, config; two atomic reservation counters | `try_reserve`, `cancel` or a dropped `Permit`, `commit`, `lease`, `held`, the acks, `release_seq`, `expire`, the purges, `drain_all`, `set_config` | indexes agree with the entries; the limits hold; per-key order; waiters are told |
| `PullConsumer` (`tgin-core/src/consumer/pull.rs`) and `getUpdates` (`tgin-botapi/src/pull.rs`) | a queue, flags `paused` and `draining`, a `Notify` | `poll` with its parameters, `pause`, `resume`, `begin_drain`, `end_drain`, the expiry task | no lost wake-up; every poll is answered |
| `PushConsumer` (`tgin-core/src/consumer/push.rs`) | a queue, an endpoint set with breakers, deliveries of one dispatcher task | `dispatch`, `deliver`, `choose`, `pick`, the endpoint changes | each leased update is acked, dead-lettered or released; a chat's updates in order; no delivery waits for ever |
| `Breaker` (`tgin-runtime/src/breaker.rs`) | one packed atomic word, one atomic count | `allow`, `on_success`, `on_failure` | the probe is never lost |
| `Engine`, admission, reload (`tgin-core/src/{engine,admission,reload}.rs`) | the current state (swapped), the retired instances, the write lock | `admit`, `apply`, `retire`, `drain_retired`, runtime endpoints | all or nothing over the lossless consumers; no stranded update; what runs is what is configured |
| Rules and facts (`tgin-core/src/rules/`, `tgin-botapi/src/facts.rs`) | a compiled table, cursors, a pool of scratches | `extract`, `compile`, `route` | as the written rules say |
| Configuration (`tgin-core/src/config/`, `tgin-runtime/src/config/`) | none; the watch keeps the bytes last seen | `validate`, `resolve`, `load`, `Change::check` | what loads is loaded whole |
| Long poll, webhook (`tgin-botapi/src/{longpoll,webhook}.rs`) | offset, held batch, drain flag; the ingest token | poll loop, `drain`, the handler | only admitted updates are confirmed |
| Gateway (`tgin-botapi/src/gateway/`) | bot entries with their gates, calls in flight, the last call's end | proxying, interception, replies, files, `set_parked`, `set_bots` | counted once; safe to retry; a parked bot is quiet; a token's endpoint stays its own |
| Limiters (`tgin-runtime/src/limit.rs`, `gateway/limit.rs`) | a calendar of slots, a GCRA per chat and group | `acquire`, `cancel`, `retain_recent` | never beyond a quota, never later than needed |
| Local-file scan (`gateway/local_files.rs`, `http_reader.rs`) | the reader of a streaming body | `poll_frame`, `step` | a body's end passes only if all of it is clean |
| `Supervisor` (`tgin-runtime/src/supervisor.rs`) | named tasks and their states | `spawn`, `remove`, `shutdown` | a name lists its newest task; ended tasks stay ended |
| `Sources` (`tgin/src/sources.rs`) | one task per bot, stop tokens, parked bots | `prepare`, `start_webhooks`, `start_long_poll`, `stop`, `park`, `reap`, `all_failed` | at most one poller per bot, and the configured one |
| `ReloadQueue`, `Reloader` (`tgin/src/reload.rs`) | two channels, the file watch, the loaded config | `signal`, `request`, `move_bot`, `reload`, `settle` | no signal lost; a failed move leaves the bot running; a quiet logout |
| `Lifecycle`, `App` (`tgin-runtime/src/lifecycle.rs`, `tgin/src/app.rs`) | phase, ingest, force and stop tokens | `assemble`, `run`, `shutdown`, `force` | ingest ends before the drain, the drain before the stop |

How they interact: a source calls `admit`, which reserves room in the queues
of all matched consumers and then commits; queues wake consumers through
`Notify`; a reload swaps the engine's state, spawns drains of what it replaced,
restarts sources and rebuilds the data plane's routes and the gateway's
entries; a move drains a bot's server, parks the bot, closes its gate and logs
it out; the supervisor runs the sources and the push dispatchers; the
lifecycle's tokens stop all of them, and the shutdown waits for the queues and
the gateway's calls.

What is hard: `Permit::drop` changes atomics without the queue's mutex;
wake-ups are sent after the unlock; admissions use a state that may be replaced
under them; a drain and a reload race for one instance; requests report to a
breaker, a gate or an entry that has moved on; polls, deliveries and calls are
dropped at any await; a webhook's 200 races the end of ingest; sources die,
restart and are replaced under one name; a request books three quotas behind
three locks. `PROJECT.json` lists each hazard at its line, with the properties
that cover it.

## Modules

The queues and their consumers:

* **LeaseQueue** models `queue.rs`. Variables are the fields of `Inner`, the
  two counters of `Reservations`, what each producer thread is doing with its
  permit, the wake-ups still to be sent, and the clock. A method's critical
  section is one step; `try_reserve` (two loads), `Permit::drop` (two
  subtractions) and the wake-up after the unlock are split, because other
  threads run in between. The helpers `Link`, `Unlink`, `EndLease`, `Requeue`,
  `Remove`, `StartLease` and `Rekeyed` are those of `Inner`, lifted from one
  item to a set of items. `eligible` is adjusted by differences as in the
  code, never recomputed. Items carry a key, an ack id and a size, no payload.
  Callers read the clock before they call, so `lease`, `held` and `expire` get
  any earlier instant.
* **GetUpdates** is the request of a polling instance (`tgin-botapi/pull.rs`):
  parameters from the query string and a form or JSON body, clamped; who polls.
  `MCPullConsumer` compares `Param` with the first match that telegram-bot-api
  takes, as an assumption TLC evaluates.
* **PullConsumer** extends both with `tgin-core`'s `pull.rs`: each `poll` call
  is a process whose steps are its queue calls, its reads of the two flags and
  of the clock, enabling its two `Notified` futures, and its `select!`. The
  queue's producers, the expiry task, operators and reloads act meanwhile.
* **PushConsumer** extends LeaseQueue with `push.rs`. The dispatcher and its
  deliveries are futures of one task, so at most one of them runs at a time,
  and a delivery only while the dispatcher is at its `select!`; other threads
  act between any two steps. Slots are shared objects: `slot` has those that
  the endpoint set or a request on the wire refers to, and a replaced set's
  slots live on until their requests end. A breaker operation is one step
  here, because this task is the only caller. A request ends in one of the
  outcomes `send` tells apart (2xx, permanent, transient with any backoff up
  to `MaxDelay`, which covers the jitter and `Retry-After`). `Crash` is a
  panic or abort at an await; the supervisor starts the dispatcher again
  unless it was killed.
* **Breaker** models `breaker.rs` with the requests of `push.rs` that use it;
  a step is one atomic operation.

Updates coming in:

* **Admission** models `admission.rs`, and of `engine.rs` and `reload.rs` what
  it races: the swap of the state, reconfiguring, replacing, reviving and
  retiring instances. The queue of an instance is reduced to its counts
  (`LeaseQueue` has the rest); `Consume` stands for its consumer.
* **LongPoll** models `longpoll.rs`: the run of one source as a process with
  its awaits, the Bot API server it polls (external: it keeps an update until
  a request asks for a later one, and may still handle a request that was
  given up), the sink that takes or pushes back, the drain that a move of the
  bot waits for, stop, panics and restarts. A batch is an interval of update
  ids; errors are those `recover` tells apart.
* **Webhook** models `webhook.rs`: the handler between its looks at the ingest
  token, who may post through which proxies, and the shutdown that turns
  ingest off, looks whether anything is pending and closes. The server posts
  an update again until it gets a 200.
* **Routing** models `facts.rs` and `rules/`: an update as a JSON value, the
  facts read of it, rules compiled to nodes, slices and patterns, and workers
  that walk the table with scratches taken from a shared pool, across reloads.
  The reference is the meaning of the rules as written, on the update as sent.

The bots' calls going out:

* **Gateway** models `gateway/`: a call from the request to the count of its
  outcome (prepare, limits, gate, exchange, the 429 retry, the body both ways),
  the futures dropped at their awaits (`ClientGone`, `ReplyDropped`),
  interception, replies and captured endpoints, files, the bot's entry that
  reloads replace, parking, and the count that the shutdown waits for.
* **Limiter** models `limit.rs` twice over: the calendar and the keyed GCRA
  (tgin-runtime) and the three bookings of a request (gateway), on integers
  with a last instant. **Schedule** is the abstract specification of one
  quota. It keeps every booking, and for each client what it asks for (from
  which instant on, and until which it would wait) and what it got: a client
  gets the earliest instant at which the schedule still conforms to the quota,
  and is refused only if there is none in time. Limiter's
  calendar, which folds what lies behind into a floor, is shown to implement
  it: `CalendarIsSchedule`, by `INSTANCE Schedule WITH` a refinement mapping
  (`SlotAsked` and `SlotHeld` say what a request under way asks and holds), so a
  calendar that books too early, too late or refuses in vain fails. The
  loop of `fold_before`, `floor = max(floor, t) + T` for each booking in order,
  is written as its closed form (`FloorAfter`): the largest of what the floor
  and each booking have become after the intervals since.
* **Scan** models `local_files.rs` and `http_reader.rs`, byte by byte over a
  small alphabet: JSON, urlencoded and multipart bodies in every split into
  frames, against a definition of the references of a whole body.

The process:

* **Config** models `config/`: the shape of a file (`IsFile` and the
  predicates it is made of), `Validate`, and `Resolve` with what it reports.
  **Blocks** has what it shares with Generations.
* **Generations** models what `reload.rs`, `data_server.rs` and the reload
  task keep of one configuration to the next: instances and the settings they
  run with, ids, routes and tokens of the pull consumers, and what is only
  reported as needing a restart. Loading is a parameter, `LoadFile`, of which
  it needs little (`LoadAssumption`); the run gives it Config's `Load`, and
  `MCTables` compares what is in effect with the file it came from.
* **Supervisor** (`supervisor.rs`), **Sources** (`sources.rs`), **Reloader**
  (`reload.rs`) and **App** (`app.rs`, `lifecycle.rs`) extend one another: App
  composes the four with the gateway's gate (`Enter`, `Pass`, `Sent`) and the
  server's registered webhooks. A task's control state is the state it
  publishes; the sequence that starts sources is a process (`work`) which the
  boot, a reload and a failed move run; `rl` is the reload task.

**Totals** is the sum of a function's values, as a cardinality.
**LeaseQueue_proofs**, **PullConsumer_proofs**, **PushConsumer_proofs**,
**Edges_proofs** (Breaker, Webhook, Generations), **Admission_proofs**,
**LongPoll_proofs**, **Gateway_proofs** (Gateway, Limiter) and **App_proofs**
hold the theorems. **MC...** modules and `.cfg` files are the instances for
TLC; some hold several *families* of behaviours, each with bounds of its own.
Definitions marked *Mutant* are plausible mistakes; each property is shown to
fail when the mutant replaces the definition after it.

## Runs

| Run | Instance | Shows |
|---|---|---|
| `queue` | *order*: two keys and keyless items, 3 commits, 2 holders, both orderings, batches of up to 2, leases that expire; *room*: 3 producers, sizes 1 and 2, limits that change, both `on_full` | `IndexesAgree`, `KeyedLeaseOrder`, `WakeOwed`, `WithinCapacity`, `EvictionSound` |
| `pull` | *long*: a poll against drains that begin and end, pauses, purges, switches of the ordering; *two*: two polls against leases that expire, pause and resume; requests in every encoding | `NoLostWakeup`; `PollAnswered` (liveness) |
| `push` | *probing*: 2 deliveries, a breaker that opens and reopens, panics; *ordered*: 2 updates of a chat, stop, force, kill, panics; *reloaded*: a request against 2 changes of endpoints, options or the runtime endpoint of 2 bots | `ProbeUnderWay`, `TaskAwake`, `LeasesDelivered`, `SentInOrder`, `ReplyBoundToOwner` |
| `push_end` | one update, a stop, a forced stop, an endpoint change or pause, panics | `StopReturnsLeases`, `DeliveryEnds` (liveness) |
| `breaker` | 3 requests, threshold 2, requests that are dropped | `ProbeNotLost`; `HalfOpenEnds` (liveness) |
| `breaker_decides` | violated: see findings | `ProbeDecides` |
| `admission` | 2 consumers, 2 instances, 2 admissions, 2 reloads that change a mode or an `on_full` or drop a consumer, updates that do not fit one of them | `CurrentOpen`, `NothingStranded`, `PermitsReturned`, `AllOrNothing` |
| `longpoll` | 2 updates in batches of up to 2, 2 drains, a webhook set by others or a panic, lost answers, a sink that pushes back | `NoUpdateLost`, `DrainDry`; `AllAdmitted` (liveness) |
| `app` | one bot and two servers; a first file, edits (long poll, webhook, served by others, gone, broken), moves by logOut or close, SIGHUPs, panics, failing calls, a shutdown with further signals | `OnePoller`, `LogoutQuiet`, `RunsAsConfigured`, `FailedForGood`; `SignalCovered` (liveness) |
| `moves_first` | violated: see findings | `MovesFirst` |
| `gateway` | two calls of every kind against rotated tokens, bots that are removed and added again (also while a move is under way), a move, a drain, a server that fails at every point, clients that leave and replies that are dropped at every await | `CountedOnce`, `SafeToRetry`, `QuietOnceOut`, `EndpointOfToken`, `DrainWaits` |
| `tables` | five families, `part` says which: *limits* (3 requests, 2 chats, one of them a group, a sweep), *rules* (rule sets, updates and 2 workers), *scan* (bodies and frame sizes), *webhooks* (2 handlers, a redelivered update, proxies), *reloads* (files, narrow changes of each, environments, 3 loads) | `LimitsHold`, `CalendarIsSchedule` (refinement), `RoutedAsWritten`, `GuardExact`, `AcknowledgedDelivered`, `LoadedExact`, `ReloadComplete` |

## Bounds

`MaxSeq` (items committed in one behaviour): an order needs two items of a key,
and a third to be overtaken by. `MaxBatch` 2: a batch with more than one item,
smaller than the queue. `MaxOwed` (threads between an unlock and its wake-up):
one delays a wake-up past anything else. `MaxInstant`: long enough for a lease
or an open breaker to run out, and short enough for `now + timeout` to
overflow, which is a case of its own in the code. `MaxReloads` 2 (admission):
replace an instance, bring it back; 3 (tables): start, change, change back or
on. `MaxDrains` 2: a drain after one that was called off. `MaxUpdates` 2: an
update that is passed over by the offset of a later one. `MaxFaults` 1: one
webhook or panic at any point. `MaxCalls` (endpoint changes, pauses and
resumes): one lands in every window of the dispatcher and of `choose`; two
replace the owner of a runtime endpoint. `MaxSlots`: enough that no change
waits for a free slot. `MaxLag` 0: updates are as old as their commit, and age
while they wait. Where a family is not about time the clock stands still:
backoffs are 0 and an open breaker stays open. Three requests on a breaker: the
probe, one from before it opened, and one that closes or reopens it between
their steps.

`app`: `Budgets` gives each behaviour what operators do: one or two edits or
moves, at any moments, from each kind of ingress; each combination is there
because the code treats it apart. SIGHUPs and failures come at any time.
`Queue` 1 fills at once (`QUEUE` in `reload.rs` is larger: a full queue is the
case of interest). `MaxTokens` 12 leaves each budget its
reloads, with repeats. One bot: bots meet only in
the queues and in `all_failed` (and the proofs are for any number). `gateway`: `Plans` pairs two calls with what
happens around them; the interactions in the code are between two parties.
`limits`: 3 requests on a burst of 1 or 2 with a `MaxDelay` below the last
instant, so that one waits, one is refused, and one finds what another gave
back. `HookRoom` 1: a full sink. The `.cfg` files and MC modules have the
values. Deadlock is off where behaviours end with their bounds.

## Fairness

`PullFairness`: tokio runs every ready task and fires every due timer, so a
poll's own steps are weakly fair, as are the clock and a thread inside
`try_reserve` (it waits for nothing). The steps that take the queue's mutex are
enabled only now and then while others hold it; the mutex is parking_lot's,
which hands the lock to a waiter eventually: strong fairness. Nothing is
assumed of producers, other holders, operators, or of wake-ups being sent.

`FairPushSpec`: the dispatcher's and the deliveries' steps are futures of one
task, which a delivery can run in only when the dispatcher polls it: strong
fairness for each, and for the answers (requests have a timeout, replies end).
The supervisor restarts a dispatcher that panicked, and the queue's wake-ups
are sent.

`FairSpec` of Breaker: every request that was let in ends, by an answer, by
reqwest's timeout (`.timeout(slot.timeout)`), or because it is dropped.

`FairSpec` of LongPoll: what the run does on its own is weakly fair, as are the
60 s guard and the drain's end (a move has a timeout). The server answers, and
of the calls that fail and are tried again (`getMe`, `deleteWebhook`, a poll,
an admission) one succeeds at last: strong fairness, because a failure takes
the run to a wait in between. A cancelled token ends an await that the run
comes to again and again (strong). Nothing is assumed of `Panic`, of other
processes, or of operators.

`FairSpec` of App: the boot and the reload task go on while the process lives
(each of their calls has a timeout), and a cancelled task ends. Nothing is
assumed of operators, servers and clients.

## Proofs

TLAPS checks these for every value of the constants: any number of producers,
holders, keys, items, configs and instants, not only the instances above.

`LeaseQueue_proofs`. The properties are not inductive on their own: `lease`
under PerKey trusts `eligible`, which trusts `queued_per_key` and
`leased_per_key`, which trust that the entries' holders and the other indexes
match. The inductive invariant `IInv` is the conjunction of `IndexInv` (types
and `IndexesAgree`), `ThreadInv` (permits, counters and what `try_reserve` has
loaded: `ReservationsAgree`) and `CallTypeOK`. The core is `EligibleForm`
(eligible is the keyless unleased items and `eligible_of` of every key, which
are disjoint) and `RekeyedStep` (adjusting only the changed keys is then
enough); each helper of `Inner` has a lemma, each action a case. From `IInv`
follow `IndexCorrect`, `ReservationCorrect`, and, looking at a single step,
`WakeCorrect`, `LeaseOrderCorrect` and `EvictionCorrect`. The byte totals are
kept by adding and subtracting sizes, and are right only if each entry's size
is added once and taken once: `ByteInv` says that they are the sums over the
entries and over the permits. A sum is the cardinality of a set of units
(`Totals`), so sums over disjoint parts add up without induction. With it come
the rest of `TypeCorrect` and `CapacityCorrect`, for items and bytes. The
assumptions are those named in `LeaseQueue`: finitely many producers, sentinels
that are no real values, numeric data.

`Edges_proofs`. `BreakerInvariance` proves `TypeOK` and `ProbeNotLost`
together: a half-open word has a probe that is still to report, or that is
about to exchange exactly this word.

`AcknowledgedCorrect` (Webhook): an update that was answered with 200, or is
about to be, is in the sink or was delivered from it; an update may be there
twice, because the server posts again what got no answer, so the sink is a
count per update and the drain waits for their sum. A handler that looks at the
ingest token for the second time after the sink took its update answers 200
only if the shutdown had not turned ingest off, hence before the drain looked
whether anything was pending. The part about addresses follows each handler
from the head it was posted with.

`ReloadCorrect` (Generations): the invariant speaks of the instances that
drain as well, because a later reload may revive one, and of `had`, what the
pull consumers last had, which the routes of a draining one are checked
against. `LoadAssumption` is what Config's `Load` provides: a configuration has
each name once, and its paths do not clash.

`LongPoll_proofs`. `NoUpdateLost` is about what the server has forgotten, which
follows from the offset of the last request, which follows from the batch
before it. So `PollInv` says of all of these, and of every request given up
that the server may still handle, that everything below was taken
(`LosesNothing`). `DrainInv` adds how `on`, the poll under way and the drain
match; from it follow `DrainCorrect` and `HoldCorrect`.

`PullConsumer_proofs`. `PullInv` is the queue's `IInv`, the shape of the polls
(`PollsOK`: what each has registered and read) and `ItemsHeard`, which is
inductive with them: every step that makes an item leasable owes a wake-up
(the lemmas of `WakeCorrect`), and a poll registers before it looks.
`NoLostWakeup` adds `DrainHeard`, the same of the beginning of a drain
(`DrainNext`). The lemmas of
the queue's proof are stated for one call, so the pull consumer's calls cite
them; `PullIndexCorrect` says that the indexes survive whatever offset and
limit a request carries (`ParamsInBounds`).

`PushConsumer_proofs`. `PushInv` adds four parts to the queue's `IInv`.
`ShapeOK`: types. `HeldInv`: the deliveries hold exactly the leases, except of
updates that a drain took away under them (`LeasesDelivered` alone is not
enough: an update whose delivery goes on must not be leased a second time). `WireInv`: the slots that the endpoint set or a request refers to
are there; `in_flight` is the number of requests on the wire (`InFlightExact`);
a half-open breaker has its probe; and a slot's owner is the bot of its
endpoint (`OwnersAgree`), from which `RepliesBoundToOwner` follows. New slots
get ids nobody refers to (`FreeIdsOK`), so an endpoint change cannot disturb a
request under way (`SetTargetsWire`). `AwakeInv`: besides `DispatcherAwake`,
that the room the dispatcher is about to lease by is what the options leave,
unless it is about to be told (`RoomKnown`): with it, a lease that takes less
than there is has filled the room (`TakeAll`). One lemma per kind of step shows
`Keeps`; calls of others on the queue share a summary of what they may do to
leases and updates (`Aside`). `TaskStaysAwake` adds `WaitInv`: whoever waits
untold, with no wake-up on its way, waits until its update is too old or the
first breaker of the set reopens (`Covered`), for the breakers and the set are
what it saw but for probes taken since. `SentOldestFirst` has a hypothesis,
`OrderingKept`: `set_config` may switch the ordering of a live queue
(`queue.rs` 654-659), and then updates of a chat that were leased together
under the other ordering are still being sent together. Nothing short of that
hypothesis would be true; the `push` run does not switch the ordering either.

`Admission_proofs`. `AdmissionInv` has four parts. `RecordsOK`: what an
admission remembers of the state it loaded, reserved and committed. `QueuesOK`:
the room taken in each instance is that of the admissions that hold a permit
there. `EngineOK`: instances that are open, retired or closed for good, and the
drain that each closed one goes with. `NothingStranded` itself: its witness
changes from the admission to the drain and back, so it is carried along.
`CurrentOpen`, `PermitsReturned` and `AllOrNothing` follow.

`Gateway_proofs`. `GatewayInv`: each call is on the way of its kind, with what
that way has counted, run and bound (`CallsOK`; a call that is over has
counted one outcome, or none if it was no configured bot's, if its client left
while no `Call` was held, or if it was a dropped reply); `in_flight` and the count of
each gate are the cardinalities of the calls they stand for (`CountsOK`, which
is what makes the drain's and the move's look at a number mean something);
which entry the table has of the bot while a reload runs (`BotOK`); and what
the drain has seen (`DrainOK`). The proof showed that `QuietOnceOut` must
speak of the source that was moved: a bot that is removed and added again
before its move ends has a new source and gate, and calls it may send. Its
source id is never used again (`ids.rs`), so the property names that.

`LimitsCorrect`, in the same module, is about Limiter. For the bot's own quota
the invariant `CalendarInv` has two parts. The calendar is `Conformant`: any
two of its bookings, and each booking and the floor, keep the distance the
quota asks; what `earliest` finds has that distance to both sides
(`EarliestOffers`), and folding and cancelling keep it. And each booking is
`OwnedBy` the request that holds it: in the calendar at a place of its own, or
folded, and then the floor after it is its own, an interval from any other's,
since `cancel` finds a booking by its instant and may take that of another
request, which is then left with the one that was meant. For a chat or a group,
`KeyInv` orders the slots held by their stamps: a later one is due an interval
after an earlier one, because the entry it was booked from knew of it
(`Known`), also where `cancel` has put back an entry of before and where the
sweep has forgotten the chat: then what was due is settled, for no request
under way reads an earlier clock, except those that the sweep overtook. In both
cases the requests that leave have *dues* an interval apart, in a window that
is a tolerance wider than theirs, and a finite set of numbers at distance `T`
in a window is as small as its width says (`SpacedCount`).

`App_proofs`. The run has one bot; the theorems hold for any finite set of
bots, any files, servers and requests. The properties speak of moments when
nothing is under way, or of a parked bot; the invariant speaks of every step
between. `Pending` are the bots that the sequence under way has still to stop
or to start, `Settled` the others that no move has parked. `SourcesOK` says,
until a shutdown stops the ingest: who may be pending, starting, not ready or
parked (`PendingOK`); whose stop token is cancelled, and that no two bots
share one (`TokensOK`); that an open route is its bot's own (`RoutesOK`); that
a task on a token that is not cancelled is one the config asks for, and which
of a bot's tasks the sequence can have spawned yet (`TasksOK`, `Spawned`);
that a settled bot is started as configured (`StartedOK`, `HooksOK`). The
other parts hold during the shutdown too: `ControlOK` (the sequence runs only
for the boot, a reload or a failed move), `MoveOK`, `SequenceOK` and
`ListedOK`. Most of the proof says what one step does to each part
(`TaskStepSources`, `ApplySources`, `StopNextSources`, ...); where several
steps spawn, `SpawnTasks` says once what a spawn makes and `SpawnKeeps` what
it leaves alone.

Assumptions on the constants, each named in the module that declares them and
evaluated by TLC in the runs: finitely many producers, sentinels that are no
real values, numeric data (LeaseQueue, GetUpdates); requests are what
`GetUpdates` reads (`RequestsAssumption`); the calls and changes of a plan are
of the kinds the module knows (`PlansAssumption`, Gateway); finitely many bots
(`BotsAssumption`, Supervisor); options are `PushOptions`, the dispatcher is
the queue's one holder and the bound on slots leaves room for the first
endpoint set (`PushAssumption`); files hold bots of the shapes that
`config/resolve.rs` lets through (`FilesAssumption`, Reloader); finitely many
updates, and heads whose forwarding lines are addresses or entries that are
none, which no list of proxies has (`HooksAssumption`, Webhook); what `load` returns (`LoadAssumption`,
Generations); finitely many requests, and quotas of positive numbers, as
`Quota::new` takes them (`LimiterAssumption`).

Only model-checked: liveness (`PollAnswered`, `StopReturnsLeases`,
`DeliveryEnds`, `HalfOpenEnds`, `AllAdmitted`, `SignalCovered`), which is out
of the prover's reach; `RoutedAsWritten`, `GuardExact` and `LoadedExact`, which
compare what Routing, Scan and Config compute with a reference and whose
definitions are recursive; and `CalendarIsSchedule`. That nothing is booked
beyond the quota is in `LimitsCorrect` too; that no earlier instant was free,
and that nobody is refused in vain, quantifies over what every earlier booking
left free and stays with TLC.

## Findings

* A half-open breaker is decided by whichever request reports first, not by
  its probe (`breaker_decides`), against `breaker.rs` 47-49 and 123-127.
  Harmless for liveness (`ProbeNotLost` holds), but an answer to a request
  from before the outage's end closes the breaker.
* A reload can run before a move asked for earlier (`moves_first`), against
  `reload.rs` 261-262. `settle`, which the task runs at its start and after
  every reload, reloads when its new watch finds that the file changed before
  it began, without looking at the queue of moves.

Met while modelling, and stated or left out of the properties on purpose:

* LongPoll: drains that begin before the source is done with an earlier one
  that was called off (`drain.fresh` is false). The reloader runs queued moves
  back to back, so a second move of the same bot can begin before the source
  runs again. Then (1) the empty batch of a poll that the first drain had sent
  ends the second one, which may miss updates that arrived in between and
  return while the source polls on (against the comment at `longpoll.rs`
  218-222); (2) if the source was already held, it does not see that `on` was
  false for a moment, and the second drain waits, with nobody polling, until
  its timeout (against `longpoll.rs` 107-109). Without `drain.fresh` TLC finds
  both.
* App: a webhook bot's background `getMe` or `setWebhook` may have a call on
  the wire when the bot is logged out; `LogoutQuiet` is about the gateway's
  calls.
* Engine: `pending` sums current and retired instances one after the other and
  may miss one that a reload revives in between (`engine.rs` 937).
* Generations: between the engine's commit and the rebuild of the routes the
  old routes and tokens are served (`behind`). What needs a restart is compared
  with the previous config, so a change and its undoing are each reported, and
  a setting is reported by some reload since the start, not by each.
* Limiter: a request that a sweep overtakes between its look at the clock and
  its booking may leave early for its chat; `LimitsHold` leaves it out.
* Gateway: `DOCS.md` 377 counts "every gateway request of a configured bot
  once", but some are counted nowhere. A file served from disk is counted after
  `bot_dir` and `serve` have returned (`gateway/mod.rs` 617-623), with nothing
  held whose drop counts should the client leave; nor is there while an
  intercept reads the request's body. A webhook reply whose delivery is dropped
  by a forced stop or a panic is not counted either, though it may have gone to
  the server. `CountedOnce` names these ways and says that all others count
  once.
* Sources: a source that is being replaced may still report its bot's username,
  by name, into the new entry.
* The config watch compares with the bytes it last saw: a change that is undone
  before its next check, while a SIGHUP's reload read the version in between,
  is not reported (`watch.rs` 134).
* GetUpdates: a parameter sent twice in the query string, or in the body,
  counts by its last value; telegram-bot-api takes the first (`pull.rs`
  251-254 claims its order).

## Plan

Modelled: every part of the inventory. Proved: every invariant and action
property of the queue, the pull and the push consumer, the breaker, admission,
both ingresses, the gateway, the rate limits, reloads of the configuration and
the process; what stays with TLC is listed under [proofs](#proofs). Next would
be the refinement `CalendarIsSchedule`: with `OwnedBy` strengthened to all
bookings taken, not only those of requests that still hold one, the floor can
be shown to stand for exactly the bookings behind it.

## Not modelled

* Conversions of text: YAML, durations and sizes, interpolation inside a text,
  URL paths, method names, chat keys, the wording of errors, masking of
  secrets, the JSON schema. Where a decision hangs on one (a reference that
  does not resolve, a parameter that is no integer, a path that clashes) the
  outcome is in the model.
* `gateway/files.rs` opens and streams files: I/O. The call around it is in
  Gateway.
* The Bot API client makes one HTTP call per method; it appears as calls that
  succeed, fail or are lost. HTTP servers, TLS and timeouts of connections are
  those of hyper, rustls and axum; the routes are in Generations.
* The admin plane and the CLI call operations that are modelled and keep no
  state. Metrics, logs and probes report and decide nothing.
* Of validation: the patterns of method names, the minimum of
  `capacity_bytes` and the units that depend on a calendar. `Placeholder`, an
  id past those in use, stands for `u16::MAX`.
* The path of `Sources::prepare` where a source cannot be prepared.
* `xtask` and the tests are tools for the developers.
* The engine's queries of status and counts read only; pausing and purging by
  name find a consumer whose pause and purge are modelled.
