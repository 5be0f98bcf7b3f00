# TLA+ models of axum-sentinel-monitor

This directory holds TLA+ specifications of the crate, TLC configurations that
model-check them on small instances, and proofs checked by TLAPS. Line numbers
below are those of the files in `src/src/`.

## 1. The system

The crate records HTTP traffic of an Axum application in a middleware and serves
what it recorded, together with process and system metrics, on one route. Every
request crosses four parts on its way in and out; a poll of the dashboard reads
them all without stopping the requests.

| Part | Source | State | Operations | Interacts with |
|---|---|---|---|---|
| Thread index pool | `shard.rs` | next fresh index, released indices, one index per live thread | `acquire`, `release`, `live_indices`, `counter_shard`, `gauge_line` | its index selects the stage, stamp line and counter shard of a thread everywhere else |
| Sliding window, recording | `histogram.rs` | ring of 90 one-second slots, one stage per thread index | `record`, `record_direct`, `advance_stage`, `slot_for` | called by `HttpMetrics::finish` and `EndpointSet::observe`; one window for all routes and one per row |
| Sliding window, folding | `histogram.rs` | only locals of the fold | `fold`, `read_stages`, `Fold::walk`, `moved_stages` | reads the ring and stages while recorders write them |
| Latency buckets | `histogram.rs` | none | `bucket_of`, `bucket_upper_ns`, percentiles, rates | used by recording and folding |
| Request accounting | `layer.rs`, `stats.rs` | 64 shards of starts, finishes and status counts; a guard per request | `call`, `poll`, drop of the guard, `in_flight` | calls the window and the route table; read by the collector |
| Route table | `endpoints.rs` | rows by key behind an `RwLock`, generation, per-thread caches, gauge and stamp lines per row | `begin`, `observe`, `end`, `snapshot`, `evict_one` | called by the middleware; its rows own windows |
| Route keys | `endpoints.rs` | none | normalisation of methods and paths | feeds the table |
| Snapshot cache | `stats.rs`, `lib.rs` | last snapshot with its instant, last encoding | `snapshot_arc`, `try_cached_snapshot`, `collect_json`, `encode_snapshot` | runs the collector under a lock, on the blocking pool |
| Collector | `collect.rs` | previous samples, disk and descriptor caches | `collect` and its parts | reads the operating system and the HTTP counters |
| Monitor service | `lib.rs` | configuration, rendered page | `respond`, `Accept` negotiation | front of the snapshot cache |
| Configuration, rendering, JSON, data types | `config.rs`, `dashboard.rs`, `json.rs`, `snapshot.rs` | none after start | pure functions | |
| Dashboard page | `dashboard.html` | history of samples, timer | polling loop | polls the monitor route |

What is hard in this code is that the request path takes no lock. Threads share
counters, stages and gauges with the fold and with eviction; correctness rests on
marks, re-reads and margins (`TICK_RESETTING`, the second look at a tick,
`FLUSH_MAX_AGE`, the generation read before the table) whose failure shows only
in rare interleavings. Requests also change threads between their start and
their end, and end in several ways: response, cancellation, drop before the first
poll, unwinding.

What makes each part correct:

* pool: unique indices; reuse lowest first; an index space no larger than the
  most threads alive at once;
* recording: one second per slot and per stage, no sample lost or doubled while
  its second is in the window, every record ends;
* folding: nothing counted twice, everything under its second, nothing missed
  except what the code says it may leave out, an end within a bounded number of
  passes;
* accounting: the gauge read over the shards is neither negative nor short nor
  stale, and agrees with the gauges of the rows;
* route table: coherent caches, no row replaced, no row taken for empty whose samples
  are not about to expire, the stated order of eviction, a bounded table, rows in
  flight kept;
* snapshot cache: together with the encoding cache it is one register of snapshots,
  renewed only when it is no longer fresh; a body is the encoding of the snapshot it
  stands for; no poll waits for the lock on an async worker; every poll ends;
* collector: kept readings neither stale nor read too often, every gap named by the
  pass that has it or explained by the passes before, rates that are there and are
  deltas of consecutive passes whenever there is something to compare;
* pure functions: bucket bounds and percentiles, keys that never share a cache
  entry between routes, negotiation that follows the header in any order.

## 2. Modules

| Module | Models | Checked by | Proved in |
|---|---|---|---|
| `ThreadIndexPool` | `shard.rs` | `MCThreadIndexPool` | `ThreadIndexPoolProofs` |
| `StageCounters` (extends `ThreadIndexPool`) | the counters of one second, one increment at a time, under a pool whose threads come and go | `MCThreadIndexPool` | `StageCountersProofs` |
| `IndexAllocator` | abstract: who needs an index gets the least free one | refined by `StageCounters` | `StageCountersProofs` |
| `SlidingWindow` | recording side of `histogram.rs` | `MCSlidingWindow` | `SlidingWindowProofs` |
| `SampleWindow` | abstract: a sample stays counted while its second is in the window | refined by `SlidingWindow` | `SlidingWindowProofs` |
| `WindowFold` (extends `SlidingWindow`) | `fold`, composed with the recorders | `MCWindowFold` | `WindowFoldProofs` |
| `RequestAccounting` | `layer.rs`, lifetime counters of `stats.rs` | `MCRequestAccounting` | `RequestAccountingProofs` |
| `RouteTable` | `endpoints.rs` | `MCRouteTable` | `RouteTableProofs` |
| `Collector` | what `collect.rs` carries from pass to pass | `MCSnapshotCache` | `SnapshotCacheProofs` |
| `SnapshotCache` (extends `Collector`) | polls, `snapshot_arc`, `collect_json`, `encode_snapshot` | `MCSnapshotCache` | `SnapshotCacheProofs` |
| `SnapshotRegister` | abstract: one register of snapshots | refined by `SnapshotCache` | `SnapshotCacheProofs` |
| `LatencyBuckets`, `RouteKeys`, `Negotiation` | pure algorithms of `histogram.rs`, `endpoints.rs`, `lib.rs` | `MCPureFunctions`, through `PureFunctions` | `PureFunctionsProofs` |

`PROJECT.json` gives the source lines of every definition. Operators marked
`mistake:` are plausible wrong versions of the definition that follows them. No
specification uses them; each stands for a bug that one of the properties
reports when it takes the place of the right version.

### How the code becomes actions

* **Granularity.** Code under a mutex or a lock that no one else reaches without
  it is one action (`acquire`, `release`, an insertion in a table with room).
  Lock-free code has one action per access to shared memory. Accesses only the
  owner of a stage can make are joined with the shared access next to them. One
  step is coarser than that: `RouteTable!ScanRow` joins the loads of one row's gauge
  and stamps (endpoints.rs:574-586), so a request that reaches the row between two of
  these loads is seen as before or after all of them; `EmptyFirstThenLRU` claims
  nothing of rows that are reached during the scan.
* **Memory order.** Steps interleave in one total order. For `SlidingWindow` and
  `WindowFold` this is what the release and acquire fences are for: a reader that
  sees a counter change sees the tick change that preceded it. For
  `RequestAccounting` relaxed loads of different shards may be reordered, so the
  reader takes them in any order, and only the fence orders the two sums.
* **Counters as sets.** A counter is the set of samples or requests it counted.
  Its value is the size of the set, and "twice" and "missing" become
  statements about membership. The 278 counters of a slot move
  together in `SlidingWindow` and are one set there; `StageCounters` takes them
  apart, counter by counter and load by store, for a fixed second.
* **Sentinels.** `TICK_EMPTY` and `TICK_RESETTING` are numbers above all seconds,
  as in the code, so the comparisons are those of the code.

### Correspondence

`ThreadIndexPool`: `next` and `released` are the fields of `IndexPool`; `index`
and `life` are the thread-local `INDEX`. `Acquire` is its initialiser, `Release`
its destructor. `peak` is a history variable.

`StageCounters`: `count` is a slot per stage and one of the ring, each with three of
its counters. `LoadCount` and `StoreCount` are the two halves of `bump`, `AddToRing`
is the atomic addition of a thread without a stage, `ReadCount` one load of
`Slot::read`. Threads exit between records, and their successors inherit the stage.

`SlidingWindow`: `slotTick`/`slotCount` are the ring, `stageTick`/`stageCount` the
stages. A thread in this model is a thread *index*: a successor takes over the
stage of a thread that exited, with the pool's lock ordering its accesses after
those of the previous owner, which `IndicesPartitioned` makes sound. The clock is read
(layer.rs:142) before the thread learns its index (stats.rs:207), and may have been
read before it got one, so the second of a record is any second up to now, and its stage
may hold a later one: `Begin` chooses it. `record` then takes the branches
`RecordStaged`, `RecordDirect` or `MarkStage`; `StageAge` is the unsigned difference of
histogram.rs:434, which wraps where the branch above it lets a later second through; `FindSlot`, `ClaimSlot`,
`MissSlot`, `ClearSlot`, `PublishSlot` are `slot_for`, `DrainStage` and
`DeliverCounts` are `drain_into`.

`WindowFold`: `PassStage`, `MeetMovingStage`, `LoadStageTick`, `ReadStageCounts`
are `read_stages`; `PassSlot`, `LoadSlotTick`, `ReadSlotCounts` the walk of the
ring; `CheckStage` is `moved_stages`; `Retry` and `ReturnFold` the end of the loop.
`ReadHolds` is the second look at the tick in `Slot::read`. Ticks of one slot
never return to an earlier value, so a read that passes the second look equals a
read of all counters at that moment.

`RequestAccounting`: `phase` is where a request stands in `call` and in its
future. `CountFinish` and `ReleaseRoute` are the two updates of `end_in_flight`.
The drop of the guard after a response, without a first poll, by cancellation and
by unwinding is `DropGuard`. The reader is `in_flight`.

`Collector`: `fd` and `disk` are the pairs `fd_cache`/`fd_at` and
`disk_cache`/`disk_at`; `network` is `network_seen`, the counters and `network_at`. A
metric is reduced to whether it has a value. `CollectProcess`/`MissProcess` and
`CollectSystem` are the two halves of a pass, with any sources failing; the clock may
move between them, as a collection takes milliseconds. `traffic` is the host: the sum of
the interfaces' counters and whether there is any interface. The sum grows by bytes
received (`ReceiveByte`) and becomes anything when an interface appears, vanishes or is
reset (`ChangeInterfaces`), at any moment of a pass; without an interface it is 0. How
much was received since the collector last looked, and whether the interfaces have
changed since, is history.

`SnapshotCache`: `pc` is where a poll stands and `on` which thread it runs on: an async
worker, the blocking pool, its worker again after the task failed (`inline`), nobody's
client any more (`detached`), or the caller of `snapshot_arc`. `ProbeHit`/`ProbeMiss` are
`try_cached_snapshot`, `StartTask`, `FallBack` and `LosePool` the blocking pool, `Look`, `TakeLock`, `ReadProcess`, `ReadSystem` and
`Store` are `snapshot_arc`, `Find`, `Encode` and `Keep` are `encode_snapshot`. A snapshot is
the address it is stored at, so `Find` compares what `Arc::ptr_eq` compares, and the
same free address is chosen whenever the same ones are free, so reuse is soon. A probe
fails when someone merely waits for the lock: the standard lock may refuse new readers
then. A task fails (`TaskFails`, the `Err` of lib.rs:205) when the pool is gone before it ran
or when its collection panics (`Panic`): the lock is entered poisoned by whoever comes
next, the snapshot being made is lost, the old one stays cached, and the collector is left
with what it had set before reading the source that panicked (`AbandonProcess`,
`AbandonSystem`).

`PureFunctions` takes one input and stops. Segments of a path are given by their
length and kind of characters, media ranges by type, subtype and quality.

`RouteTable`: `routes`, `writer` and `generation` are the fields of `EndpointSet`;
`cache` and `cacheGen` are `LocalRoutes`; a row is named after the request that
created it. `ProbeHit`/`ProbeMiss`/`TouchHit` are the cache lookup, `FindShared`
to `UseOverflow` are `shared_route`, `CountInFlight` the `fetch_add` of `begin`,
`StampObserve` and `RecordSample` the two halves of `observe`. The stamp line of a thread
comes from its index, which it reads after the clock and which may be new to it, handed
over by a thread that exited, shared with all threads beyond `MAX_STAGES`, or missing
(`gauge_line`, shard.rs:119-121). A stamp therefore goes to any line, and an earlier second may
overwrite a later one. `late` says that a completion stored its stamp more than `MaxStale`
seconds after its clock read. Eviction is not one
action: it reads gauges and stamps other threads change, one `ScanRow` per row.
`ServeOther` is a lookup for another monitor on the same thread, after which the
cache no longer mirrors this table. LRU stamps are the order in which requests
start. Order of iteration over the hash map, and with it ties, is arbitrary.

## 3. Runs

| Run | Instance | Question |
|---|---|---|
| `pool` | 3 threads, 2 stages, 2 samples | Is the pool an allocator of the least free index, are the counters of a stage exact when it changes hands, and is a lock-free read between the counts at its begin and end? More threads than stages, so that a thread records into the ring. |
| `window` | 3 threads (one without a stage), 4 samples, 3 slots, seconds 0..4 | Is each sample in one place, in its second, and are stages and ring one window (`ImplementsWindow`)? The ring comes round and two of its slots are recycled, stages expire, and clock reads lie any number of seconds back. |
| `fold` | 3 threads, 3 samples, 3 slots, seconds 0..3, 2 waiting passes, folds up to one second late | What may a fold count, miss, and how long does it take? |
| `window_live` | 2 threads (one without a stage), 2 samples, seconds 0..3 | Does a fold end although recorders stall, does every record end where they run, and is nothing counted twice however long they stall? |
| `accounting` | 3 requests, 2 shards | Is the in-flight gauge right while requests migrate? |
| `accounting_panic` | same | Finding: a panic in `call` leaks. |
| `routes` | 2 threads that share one stamp line, 3 requests, 3 routes, 2 rows, seconds 0..2, window of 2 seconds | Caches, coldness, insertion and the order of eviction under every interleaving of lookups, completions and the clock. |
| `routes_overflow`, `routes_leave` | one row, 4 requests on one thread; one row, 2 requests on 2 threads | Findings about the bound and rows in flight. |
| `polls` | 2 polls, 4 addresses, instants 0..2, refresh interval of 1, no failing readings and no panic | Are both caches one register (`ImplementsRegister`), does every poll end, does a worker never wait? |
| `collector` | 1 poll at a time, instants 0..4, times to live 2 and 3, 1 byte, 2 failed readings or changes of the interfaces, 1 panic | What do failures, panics, interfaces that come and go, kept readings and the clock do to the snapshots of consecutive passes? |
| `functions` | every latency up to 950 in 64 buckets, 729 histograms, pairs of 264 requests, all headers of up to 3 ranges | Do the algorithms compute what their references say? |

Why the bounds are enough: a race in this code involves one stage mover, one
thread that recycles the same slot and one reader, so three threads with and
without a stage have every pair of roles; a ring of three slots has the three
cases of a stage's age (movable, kept in the stage, expired) and
`FLUSH_MAX_AGE` = `WINDOW_SECS - 2` is the formula of the code; the table needs
one request more than rows to evict or to overflow, and two rows for an order of
eviction and for two threads to insert at once. One stamp line for both threads is the
worst case, as every stamp overwrites the one before; more lines only keep more of them.
A window of two seconds tells a completion about to expire from a recent one. Two polls are every
pair of a poll that collects or encodes and one that finds, waits or runs ahead; more
than one snapshot held by each, one cached and one encoded never exist, so four
addresses suffice. The lock makes passes of the collector follow one another, so one
poll at a time sees all of them; two failures make a failed reading that is kept
and a source that fails in the pass after. A host comes up without an interface, so
the first change makes one appear and the second lets it vanish, adds one or resets it;
a counter of one byte lets the sum fall with an interface left. One panic leaves
its traces to every pass after it; `polls`, with two of them, allows none, as it is ten times
as large with one. That a panic keeps the register and the workers' promise is proved. Five instants pass both times to live, and
the interval after. Buckets repeat with every power of two, so ten of them stand for
the 36 of the code. `MaxTick`
ends time and the sets of samples and requests end the traffic; the runs whose
behaviours end there say `CHECK_DEADLOCK FALSE`. Symmetry is over names of
samples, requests, keys and, for the pool, threads, and never in a run with a liveness
property (a refinement without fairness is a safety property).

Assumption on time: nothing in the code bounds how long a thread may hold a clock
reading while it records, and the model lets the clock tick at any moment. The
comment on `FLUSH_MAX_AGE` (histogram.rs:41-49) chooses a margin of one second;
a thread stalled for longer may put counts in a recycled slot. The history variable
`late` says that this has happened (`MaxStale` = 1), and the properties that rest
on the margin, `RightSecond` and `SeenInItsSecond`, are promised while it is
false. So are `ColdNearlyEmpty` and `EmptyFirstThenLRU`, with a `late` of their own: a
stamp that is stored over a later one hides no more seconds than it is behind. The others, `CountedOnce`, `NothingCountedTwice` and `MissedOnlyIfLeftOut`
among them, hold however recorders lag: by proof, and in `window` and `window_live` without a bound, while the
larger instance `fold` is cut at the first lag (`CONSTRAINT OnTime`).

### Fairness

* `FoldEnds` (`window_live`): weak fairness of the fold alone. Recorders may stop
  anywhere; this is the point of `MAX_FOLD_ATTEMPTS`. Samples are finite in the
  instance, but the bound on passes, `AttemptsBounded`, an invariant of the run
  `fold`, does not rest on it.
* `RecordsEnd` (`window_live`) is an implication: *if* every thread inside `record`
  keeps being scheduled, its record ends. The operating system schedules runnable
  threads, and the loop of `slot_for` has no other wait.
* `PollsEnd` (`polls`): weak fairness of the steps a poll makes without the lock, and
  strong fairness of the two that need it: the lock is free again and again, and the
  standard lock does not let a waiting thread starve. Nothing makes a client ask or
  leave, the clock move, the pool be lost or a collection panic.

### Findings

1. `TableBounded` (`routes_overflow`): the overflow row is an ordinary candidate
   of `evict_one`, and when it goes a route takes its place. The table then holds
   one route too many, and the next overflow adds another row. The table
   grows with every round, against endpoints.rs:310.
2. `InFlightTracked` (`routes_leave`): a request is counted on its row after the
   lookup and without the lock. Eviction between the two removes a row that is
   about to be in flight, against endpoints.rs:230-231.
3. `OnlyHandledInFlight` (`accounting_panic`): the guard is created after the inner
   service was called, so a panic inside `call` leaks both gauges.

Observations made while modelling. The first two have configurations that are not in the
list of runs; TLC finds the behaviour within seconds.

* `ColdMeansEmpty` (`MCRouteShared.cfg` with `MCRouteTable`). Two threads read the clock in
  the seconds 0 and 1 and stamp one line, the earlier second last: when that expires,
  the snapshot reports the row as empty (endpoints.rs:420) while the later completion is
  still in the window. shard.rs:116-118 says of
  a shared line that it "only affects the order of eviction". `ColdNearlyEmpty` is what
  remains true: only completions about to expire are hidden.
* `NoSyntheticZero` (`MCSyntheticZero.cfg` with `MCSnapshotCache`). Without an interface the
  network counters sum to 0. If they were 0 before, the pass names `system.network` as an
  error and still reports a rate of 0 (collect.rs:232-247), against README.md:118-119 of the
  repository ("encoded as `null`, not as a synthetic zero"). `GapsNamed` says that a rate
  of 0 is the only value a named metric has.
* When an interface appears, the next rate is over all bytes it ever counted; when one of
  several vanishes or is reset, the sum falls and the rate is `null` without an error
  (collect.rs:670, documented at snapshot.rs:113-118), or, if the others received more than
  that, too low. `RatesRight` speaks of passes between which the interfaces stayed,
  and `GapsNamed` lists the change among the reasons of a gap.
* `ReadBetween` bounds each counter of a read by itself. Two counters of one read are not
  of one instant: an error may be counted whose request was not, so the shares of
  `window_rates` may exceed 1 for a moment (snapshot.rs:236 says "fraction (0–1)").
* `reconcile_released` (collect.rs:563) takes the minimum with the idle bytes last. A heap
  in use that is not resident, untouched or swapped out, is then not released, and
  `sys - released` exceeds the resident size, against collect.rs:552-553; the test at
  collect.rs:698 has such a heap.

## 4. Proofs

TLC checks instances; the theorems hold for every value of the constants.
`PROJECT.json` lists those that say something of the code.

**`ThreadIndexPoolProofs`**, for any set of threads and any number of stages.
`IndicesPartitioned` says that live threads have distinct indices, that the
released ones are distinct and not held, and that both together are
`0..(next - 1)`. It is not inductive alone: the proof adds the types and that a
thread that is not live holds no index. The lemmas say which elements the vector
has after `pop` and after `insert`, and that both keep it free of repetitions.
`SpaceIsCompact` needs more, the invariant `PoolInv`: the released indices
descend (`ReleasedDescending`), and `next` is the largest number of threads that
lived at once. The step that needs an argument is the respawn that takes a
new index: then nothing is released, so the live threads hold `next` indices
between them, all of those handed out, and there is no room for one thread more.
`partition_point` comes in where `Release` keeps the order.

**`StageCountersProofs`**, for any threads, stages and records. The composition takes
the steps of the pool on the pool's state (`CountersRunThePool`), so the
invariants of the pool hold in it, and it implements `IndexAllocator`
(`PoolIsAllocator`): the last released index is the least free one because the
list descends. A first invariant of the
counters is that a value loaded by the owner of a stage is still the value of the
counter when it is stored, since no other live thread has the index;
`StoresLoseNothing` follows. `CountersExact` speaks of a sum over the stages and the
ring. `TallyInv` makes it inductive with the fact that a stage without requests has no
other count and that stages nobody was given are empty, which is what lets a read
stop at `live_indices` and pass over slots without requests. `ReadInv` is the
invariant of the read: for each counter, what the read has added up and what it
has yet to load are together between the count at its begin and the count now. The
sums are of finite sets; what is needed of them (one step adds one, a part is no
more than the whole) is proved from the equation of the fold.

**`SlidingWindowProofs`**, for any threads, samples, window length and number of
stages, in four layers, each an invariant that contains the one before.

* `ThreadsInv`: `ResetExclusive` becomes inductive with what the place of a thread
  says of its variables (`ControlOK`) and with the converse of its first part: a
  thread between mark and publication finds its slot marked. A compare-and-swap that succeeds saw
  an unmarked slot, so nobody else is between the two (`MarksAreLocks`).
* `TimeInv`: no tick is ahead of the clock and a slot's tick belongs to the slot. Two
  different seconds of one slot are a turn of the ring apart (`SameSlot`), so a
  slot that was recycled for a newer second has a target whose second expired. Hence
  `SlotsHeld`: a thread that found its slot still has it, or has nothing to lose.
* `WindowInv`: no sample is in two places (`Apart`), none is counted before its record
  ends, stages hold one second, slots hold theirs and expired ones, and a sample
  that is nowhere has expired (`NoneLost`). `EachCountedOnce` follows without any
  bound on how far recorders lag, and `RecordingIsWindow`, the refinement of
  `SampleWindow`, from the effect of each step on the places of each sample.
* `PromptInv`: while nobody lags by more than `MaxStale`, slots hold exactly their
  second. `CountsInTheirSecond` assumes `MaxStale <= 1`. This is where the margin
  enters: a stage is moved at an age of at most `WINDOW_SECS - 2`, and one second later
  its slot is still its own.

**`WindowFoldProofs`**, for the recorders of `SlidingWindow` and a fold over their
window, on top of `WindowInv`.

* `FoldInv`: types, what a pass has yet to visit in each of its phases, and that
  passes beyond the waiting ones are paid for by stages left out. The bound of the
  comment at histogram.rs:555 follows (`PassesBounded`).
* `OnceInv`: a sample read from a stage is either still in it and not in what was read of
  the ring, or its stage has moved on from the observed second, and then the last
  check has found the stage or will come to it. A stage that moved carries a
  later tick or `TICK_RESETTING` from then on, so the check cannot overlook it:
  `SnapshotCountsOnce`.
* `SecondsInv`: every read is of the second it is filed under. For the ring this needs
  `PromptInv`, so `SnapshotSecondsRight` assumes `MaxStale <= 1`.
* `MissInv`: a sample recorded before the fold has expired, has been seen, belongs to a
  stage that is left out or unsettled, or is `Ahead` of the pass. The argument is
  about direction: samples go from stages to the ring, and the fold
  reads the stages first. It needs that a stage holds samples of its own thread
  only (`StagedByOwner`). `SnapshotMissesLeftOut` needs no bound on lag: a slot
  recycled under a late recorder holds samples that have expired.

**`RequestAccountingProofs`**, for any set of requests and shards: the type
invariant, `NeverNegative`, `NeverShort`, `NeverPast` and `GaugesAgree`. The
inductive invariant ties the phase of a request to the counters that have it, and
the reader's two sums to the counters: what the first sum has seen is finished;
every finish on a shard already read and taken before the read began is in the
sum; every start on a shard already read is in the second sum if it precedes the
read. The order of the two sums is used in one place, `NeverNegative`: the second
sum, begun after the first is complete, meets every start whose finish the first
has seen.

**`RouteTableProofs`**, for any threads, requests, keys and size of the table, again
in layers.

* `ThreadsInv`: types, the write lock, and which request a thread serves at each of its
  places; no two threads serve the same request.
* `CacheInv`: a cache whose generation is the current one agrees with the table, no cache
  is of a later generation, and the key of a thread that is about to insert stays
  free until it does. The order in `begin` is what makes it inductive: the
  generation is read before the table, so a row read after an eviction is
  remembered under the older generation and never trusted. `CachesCoherent`
  and `RowsNeverReplaced` follow.
* `StampInv`: while no completion was overtaken by the clock, every sample of a row is
  `Covered`: some line holds a second at most `MaxStale` behind it. A stamp that
  overwrites the line is itself at most `MaxStale` behind the clock, and no sample is ahead
  of the clock, so this is inductive whatever lines the threads stamp, shared or
  not; a thread between its stamp and its sample is covered too. It gives
  `ColdRowsNearlyEmpty`. `StampedFor`: a line is not ahead of the samples either, except by a
  completion that has stamped and not yet recorded.
* `ScanInv`: the table is fixed under the scan, each row is read once, and a candidate
  that was not cold holds a sample of the window. With the order of the
  candidates this gives `EvictionInOrder`, for the rows no request touched while
  they were scanned.

**`SnapshotCacheProofs`**, for any polls, addresses and refresh interval.
`WorkersNeverWait` is inductive with the types of the program counters and the fact that a
worker took over from a task only once the pool was gone or a collection had panicked
(`TasksTakenOver`).
`CacheIsRegister` shows `ImplementsRegister` from four facts: the cached address
holds the latest snapshot; the encoding that is kept, and one about to be kept,
is that of the snapshot its address stands for *now*; a poll past its look holds a
snapshot; one poll collects at a time, and only while nothing fresh is cached. The
second is where the reference kept by `EncodedSnapshot` matters: a new snapshot
goes to an address nothing refers to, so it changes no snapshot that an encoding
names. With the reference left out (`ReferencedWeakly`) the proof stops
at `AllocatedIsFree`, and TLC finds a poll sent the body of another snapshot.

For the passes of the collector, `PassInv` adds to these what each half of a pass has
established: kept readings carry stamps of the past, the sources missed so far are
those named so far, and what the next pass compares with is what the last one
read. For the network this is an equation: unless the interfaces have changed since,
their sum is what the last pass read and the bytes received since. So the sum has not fallen,
there is a rate, and it is of these bytes. Polls interleave, but the lock makes the one poll that collects the phase of the
pass. `GapsAlwaysNamed`, `RatesAlwaysRight` and `ReadingsKeptInTime` follow, and
`CacheTypeCorrect`, with its claim that no rate is over no time. A pass that panicked leaves a disk reading,
stamped, and the two CPU flags, which may say of a first reading that nobody was shown it
(`PanicKeepsPass`); the network is compared with the pass before it. `RatesAlwaysRight` is where the two
components meet: a pass begins only when the cached snapshot is no longer fresh, so
the clock has moved since the pass before by at least the refresh interval.

**`PureFunctionsProofs`**, for every input, every number of buckets and every bound on
paths. What these functions compute is defined by recursion and by folds. The library's
induction theorems take an operator and cannot be instantiated; the proofs use
sets instead: the numbers for which a fact holds are a set, and the least one outside
(`LeastNumber`, `Upward`) is a contradiction. In the same way a recursive function is shown to
exist before its equation is used (`FoldExists`, `RecursionExists`).

* Buckets: a latency not below `SUB` is given by a power of two and its significant bits
  (`InBucket`); `bucket_of` and `bucket_upper_ns` are the two directions of the numbering
  of these pairs (`Index`), which gives `BucketsAlwaysRight` up to the clamp.
* Percentiles: after each bucket the walk has served exactly the percentiles whose ranks the
  sum so far reaches, and each with the bound of the bucket in which they were reached. Ranks
  ascend and bounds grow, so the bound is the least that suffices
  (`PercentilesAlwaysRight`), an integer inequality on the rank that is rounded up.
* Keys: the separators keep raw and normalized keys apart, and the length of a
  normalized path stays within its bound segment by segment (`KeysAlwaysSound`).
* Negotiation: the candidate chosen by `max_by` is that of the most specific ranges and,
  among them, of the best quality, and a permutation of the header has the same candidates
  (`NegotiationAlwaysRight`).

Assumptions: those named in the modules. `StagesAssumption`, `WindowAssumption`,
`ShardsAssumption`, `CollectorAssumption` and `CacheAssumption` say what the constants of the
code are. `AddressesAssumption` says that memory is not exhausted: a poll that
collects finds an address for its snapshot. `TableAssumption` includes that there are
finitely many stamp lines. `BucketsAssumption` says that `MAX_LOG` is the first power of two
above the largest latency, `KeysAssumption` that the bounds of segments and paths are
numbers, `InputsAssumption` what kind of inputs are enumerated. One assumption is made
by single theorems: `CountsInTheirSecond` and `SnapshotSecondsRight` add `MaxStale <= 1`, the
margin of `FLUSH_MAX_AGE`. Nothing is assumed of stamp lines but that there is one: `ColdRowsNearlyEmpty`
and `EvictionInOrder` hold for shared ones.

Only model-checked: the liveness properties `FoldEnds`, `RecordsEnd` and `PollsEnd`, which
need fairness. Every invariant, every action property and each of the three refinements
that a passing run checks is a theorem. The three properties of the findings are refuted
by their runs.

## 5. Not modelled

* the clock of the operating system, allocation failure, `thread_index` failing in
  the middle of a recording (a thread without index is one without a stage and
  uses line 0);
* wrap-around of 32- and 64-bit counters;
* lock poisoning but for a collection that panics: every lock is taken with
  `PoisonError::into_inner`, and no code under the route table's lock panics half way;
* what sysinfo has read when it panics half way, which is not in this repository, and a
  panic after the last source was read;
* the allocator and runtime figures, load averages and the conversion of windows into
  snapshot types, which keep no state; `Config::normalized`, which sets defaults field by
  field (the refresh interval of at least one second is `CacheAssumption`);
* the order of the rows of a snapshot; queries, fragments and characters of several bytes
  in a path; the parsing of the Accept header; response headers;
* the polling loop of the dashboard page, which runs in a browser;
* the text of keys, the layout of rows, JSON, HTML, the router's wiring.

## 6. Plan

The models cover the crate's state, and what they promise for safety is proved. What is
left, in order of importance:

1. what holds of the table in place of the two refuted properties: how far the overflow row
   can take the table past its bound, and that a row whose requests are counted is not
   evicted;
2. the conversion of the HTTP windows into the figures of a snapshot, and the parsing of
   the `Accept` header, which the models take as given.
