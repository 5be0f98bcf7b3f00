---------------------------- MODULE RouteTable ----------------------------
(***************************************************************************)
(* The bounded table of per-route metrics of src/src/endpoints.rs: a map   *)
(* from route keys to rows behind a reader-writer lock, a cache of it in   *)
(* every thread that is invalidated by a generation counter, an in-flight  *)
(* gauge per row that requests update without the lock, and eviction of    *)
(* one idle row when the table is full.                                    *)
(*                                                                         *)
(* A request is resolved on one thread (begin), then held in flight by its *)
(* task alone, completes on any thread (observe) and releases its row when *)
(* its guard is dropped.  A row is named after the request that created    *)
(* it; its in-flight gauge is the set of the requests it counts.  Sections *)
(* under the read lock, and those under the write lock that touch nothing  *)
(* another thread reaches without the lock, are single actions; eviction,  *)
(* which reads gauges and stamps that change meanwhile, is not: it takes a *)
(* row at a time.  The loads of one row, its gauge and then its stamps,    *)
(* are joined, so a row that a lookup or a completion reaches between them *)
(* is seen either before or after.                                         *)
(*                                                                         *)
(* The line a thread stamps comes from its thread index, which it reads    *)
(* after the clock, and an index can be new to the thread, handed over by  *)
(* one that exited, shared with the threads beyond MAX_STAGES or missing   *)
(* (shard.rs:95-97, 119-121).  A stamp therefore goes to any line here.    *)
(***************************************************************************)
EXTENDS Integers, FiniteSets, FiniteSetsExt

CONSTANTS Threads,       \* worker threads
          Lines,         \* stamp lines of a row (MAX_STAGES)
          Requests,      \* requests; also the names of the rows they create
          Keys,          \* normalized route keys, without OverflowKey
          OverflowKey,   \* OVERFLOW_KEY
          MaxEndpoints,  \* MAX_ENDPOINTS
          CacheLimit,    \* LOCAL_CACHE_LIMIT
          WindowSecs,    \* WINDOW_SECS
          MaxStale,      \* seconds a stamp may lag behind the clock (see late)
          MaxTick,       \* the last second the clock reaches
          NoThread, NoRow, NoKey

ASSUME TableAssumption ==
  /\ IsFiniteSet(Lines) /\ Lines # {}
  /\ OverflowKey \notin Keys
  /\ NoThread \notin Threads
  /\ NoRow \notin Requests /\ NoKey \notin Keys \cup {OverflowKey}
  /\ MaxEndpoints \in Nat \ {0} /\ CacheLimit \in Nat \ {0}
  /\ WindowSecs \in Nat \ {0} /\ MaxStale \in Nat /\ MaxTick \in Nat

AllKeys == Keys \cup {OverflowKey}
MaybeRow == Requests \cup {NoRow}

VARIABLES now,          \* the second of the clock
          routes,       \* the table: the row of each key, or NoRow
          writer,       \* the thread that holds the write lock, or NoThread
          generation,   \* evictions so far
          lastUsed,     \* per row and line: stamp of the last lookup
          lastObserve,  \* per row and line: biased second of the last completion
          samples,      \* per row: seconds its window holds completions of
          late,         \* history: a completion was overtaken by the clock by more
                        \* than MaxStale seconds before it stored its stamp
          state, key, stamp, handle,     \* per request
          starts,                        \* requests started: the LRU clock
          pc, cur, found, otick,         \* per thread: its operation and locals
          cache, cacheGen,               \* per thread: LocalRoutes
          left, scanned, etick           \* the eviction in progress

tableVars == <<routes, writer, generation>>
rowVars == <<lastUsed, lastObserve, samples, late>>
requestVars == <<state, key, stamp, handle, starts>>
cacheVars == <<cache, cacheGen>>
scanVars == <<left, scanned, etick>>
vars == <<now, tableVars, rowVars, requestVars, pc, cur, found, otick, cacheVars,
          scanVars>>

(***************************************************************************)
(* A request is "starting" until it is counted on its row, "flying" while  *)
(* its task runs, "completing" while observe runs, "observed" until its    *)
(* guard is dropped, then "done".                                          *)
(***************************************************************************)
States == {"new", "starting", "flying", "completing", "observed", "done"}

PCs == {"idle", "probe", "touch", "read", "write", "scan", "bump", "insert",
        "count", "stamp", "sample"}

NoCache == [k \in Keys |-> NoRow]

TypeOK ==
  /\ now \in 0..MaxTick
  /\ routes \in [AllKeys -> MaybeRow]
  /\ writer \in Threads \cup {NoThread}
  /\ generation \in Nat
  /\ lastUsed \in [Requests -> [Lines -> Nat]]
  /\ lastObserve \in [Requests -> [Lines -> 0..(MaxTick + 1)]]
  /\ samples \in [Requests -> SUBSET (0..MaxTick)]
  /\ late \in BOOLEAN
  /\ state \in [Requests -> States]
  /\ key \in [Requests -> Keys \cup {NoKey}]
  /\ stamp \in [Requests -> Nat]
  /\ handle \in [Requests -> MaybeRow]
  /\ starts \in Nat
  /\ pc \in [Threads -> PCs]
  /\ cur \in [Threads -> MaybeRow]
  /\ found \in [Threads -> MaybeRow]
  /\ otick \in [Threads -> 0..MaxTick]
  /\ cache \in [Threads -> [Keys -> MaybeRow]]
  /\ cacheGen \in [Threads -> Nat]
  /\ left \subseteq Requests
  /\ scanned \subseteq [row : Requests, cold : BOOLEAN, used : Nat]
  /\ etick \in 0..MaxTick

Init ==
  /\ now = 0
  /\ routes = [k \in AllKeys |-> NoRow]
  /\ writer = NoThread
  /\ generation = 0
  /\ lastUsed = [w \in Requests |-> [l \in Lines |-> 0]]
  /\ lastObserve = [w \in Requests |-> [l \in Lines |-> 0]]
  /\ samples = [w \in Requests |-> {}]
  /\ late = FALSE
  /\ state = [r \in Requests |-> "new"]
  /\ key = [r \in Requests |-> NoKey]
  /\ stamp = [r \in Requests |-> 0]
  /\ handle = [r \in Requests |-> NoRow]
  /\ starts = 0
  /\ pc = [t \in Threads |-> "idle"]
  /\ cur = [t \in Threads |-> NoRow]
  /\ found = [t \in Threads |-> NoRow]
  /\ otick = [t \in Threads |-> 0]
  /\ cache = [t \in Threads |-> NoCache]
  /\ cacheGen = [t \in Threads |-> 0]
  /\ left = {}
  /\ scanned = {}
  /\ etick = 0

-----------------------------------------------------------------------------
(* What a row tells.                                                       *)

\* The requests its gauge counts.
InFlightOn(w) ==
  {r \in Requests : handle[r] = w /\ state[r] \in {"flying", "completing", "observed"}}

LastUsed(w) == Max({lastUsed[w][l] : l \in Lines})

\* mistake: the row is cold one second early
IsColdEarly(w, second) ==
  LET latest == Max({lastObserve[w][l] : l \in Lines})
  IN latest = 0 \/ (second >= latest - 1 /\ second - (latest - 1) >= WindowSecs - 1)

\* RouteMetrics::is_cold: no completion in the window that ends at `second'.
IsCold(w, second) ==
  LET latest == Max({lastObserve[w][l] : l \in Lines})
  IN latest = 0 \/ (second >= latest - 1 /\ second - (latest - 1) >= WindowSecs)

Tracked == {k \in AllKeys : routes[k] # NoRow}
Rows == {routes[k] : k \in Tracked}

Goto(t, label) == pc' = [pc EXCEPT ![t] = label]

\* The request and the key the thread is resolving.
Key(t) == key[cur[t]]

\* touch: the stamp of the request is stored on a line of the row.
Touched(t, w) ==
  \E l \in Lines : lastUsed' = [lastUsed EXCEPT ![w][l] = stamp[cur[t]]]

-----------------------------------------------------------------------------
(* EndpointSet::begin and route_metrics.                                   *)

\* A request for route k enters on thread t; its start is its LRU stamp.
Start(t, r, k) ==
  /\ pc[t] = "idle" /\ state[r] = "new"
  /\ state' = [state EXCEPT ![r] = "starting"]
  /\ key' = [key EXCEPT ![r] = k]
  /\ starts' = starts + 1
  /\ stamp' = [stamp EXCEPT ![r] = starts']
  /\ cur' = [cur EXCEPT ![t] = r]
  /\ Goto(t, "probe")
  /\ UNCHANGED <<now, tableVars, rowVars, handle, found, otick, cacheVars, scanVars>>

\* LocalRoutes::sync: what the cache holds once the generation was compared.
Synced(t) == IF cacheGen[t] = generation THEN cache[t] ELSE NoCache

ProbeHit(t) ==
  /\ pc[t] = "probe"
  /\ Synced(t)[Key(t)] # NoRow
  /\ found' = [found EXCEPT ![t] = Synced(t)[Key(t)]]
  /\ cache' = [cache EXCEPT ![t] = Synced(t)]
  /\ cacheGen' = [cacheGen EXCEPT ![t] = generation]
  /\ Goto(t, "touch")
  /\ UNCHANGED <<now, tableVars, rowVars, requestVars, cur, otick, scanVars>>

ProbeMiss(t) ==
  /\ pc[t] = "probe"
  /\ Synced(t)[Key(t)] = NoRow
  /\ cache' = [cache EXCEPT ![t] = Synced(t)]
  /\ cacheGen' = [cacheGen EXCEPT ![t] = generation]
  /\ Goto(t, "read")
  /\ UNCHANGED <<now, tableVars, rowVars, requestVars, cur, found, otick, scanVars>>

\* The stamp of a cache hit.
TouchHit(t) ==
  /\ pc[t] = "touch"
  /\ Touched(t, found[t])
  /\ Goto(t, "count")
  /\ UNCHANGED <<now, tableVars, lastObserve, samples, late, requestVars, cur, found,
                 otick, cacheVars, scanVars>>

\* The thread's cache with the row w it resolved, emptied first when full.
Remember(t, w) ==
  LET full == Cardinality({k \in Keys : cache[t][k] # NoRow}) >= CacheLimit
  IN cache' = [cache EXCEPT ![t] = [(IF full THEN NoCache ELSE @) EXCEPT ![Key(t)] = w]]

\* shared_route finds the key, under the read lock or in the re-check under the
\* write lock.
FindShared(t) ==
  /\ pc[t] \in {"read", "write"} /\ writer = NoThread
  /\ routes[Key(t)] # NoRow
  /\ found' = [found EXCEPT ![t] = routes[Key(t)]]
  /\ Touched(t, routes[Key(t)])
  /\ Remember(t, routes[Key(t)])
  /\ Goto(t, "count")
  /\ UNCHANGED <<now, tableVars, lastObserve, samples, late, requestVars, cur, otick,
                 cacheGen, scanVars>>

\* It does not, and lets go of the read lock to take the write lock.
MissShared(t) ==
  /\ pc[t] = "read" /\ writer = NoThread
  /\ routes[Key(t)] = NoRow
  /\ Goto(t, "write")
  /\ UNCHANGED <<now, tableVars, rowVars, requestVars, cur, found, otick, cacheVars,
                 scanVars>>

\* new_metrics and insert: a row named after the request, under the key k.
Create(t, k) ==
  /\ routes' = [routes EXCEPT ![k] = cur[t]]
  /\ found' = [found EXCEPT ![t] = cur[t]]
  /\ Touched(t, cur[t])
  /\ UNCHANGED <<lastObserve, samples, late>>

\* mistake: the key is not looked up again under the write lock
InsertUnchecked(t) ==
  /\ pc[t] = "write" /\ writer = NoThread
  /\ Cardinality(Tracked) < MaxEndpoints
  /\ Create(t, Key(t))
  /\ Remember(t, cur[t])
  /\ Goto(t, "count")
  /\ UNCHANGED <<now, writer, generation, requestVars, cur, otick, cacheGen, scanVars>>

\* The table has room.
InsertRow(t) ==
  /\ pc[t] = "write" /\ writer = NoThread
  /\ routes[Key(t)] = NoRow
  /\ Cardinality(Tracked) < MaxEndpoints
  /\ Create(t, Key(t))
  /\ Remember(t, cur[t])
  /\ Goto(t, "count")
  /\ UNCHANGED <<now, writer, generation, requestVars, cur, otick, cacheGen, scanVars>>

-----------------------------------------------------------------------------
(* evict_one, under the write lock.                                        *)

BeginScan(t) ==
  /\ pc[t] = "write" /\ writer = NoThread
  /\ routes[Key(t)] = NoRow
  /\ Cardinality(Tracked) >= MaxEndpoints
  /\ writer' = t
  /\ left' = Rows
  /\ scanned' = {}
  /\ etick' = now
  /\ Goto(t, "scan")
  /\ UNCHANGED <<now, routes, generation, rowVars, requestVars, cur, found, otick,
                 cacheVars>>

\* A row in flight is passed over; an idle one is a candidate.
ScanRow(t, w) ==
  /\ pc[t] = "scan" /\ w \in left
  /\ left' = left \ {w}
  /\ scanned' = IF InFlightOn(w) # {} THEN scanned
                ELSE scanned \cup {[row |-> w, cold |-> IsCold(w, etick),
                                    used |-> LastUsed(w)]}
  /\ UNCHANGED <<now, tableVars, rowVars, requestVars, pc, cur, found, otick, cacheVars,
                 etick>>

\* mistake: least recently used whether cold or not
BetterIgnoringCold(a, b) == a.used <= b.used

\* The order of candidates: cold ones first, then least recently used.
Better(a, b) ==
  \/ a.cold /\ ~b.cold
  \/ a.cold = b.cold /\ a.used <= b.used

EvictRow(t) ==
  /\ pc[t] = "scan" /\ left = {}
  /\ \E victim \in scanned :
       /\ \A other \in scanned : Better(victim, other)
       /\ routes' = [k \in AllKeys |->
                      IF routes[k] = victim.row THEN NoRow ELSE routes[k]]
  /\ Goto(t, "bump")
  /\ UNCHANGED <<now, writer, generation, rowVars, requestVars, cur, found, otick,
                 cacheVars, scanVars>>

\* mistake: caches are not told of the eviction
BumpNothing(t) ==
  /\ pc[t] = "bump"
  /\ Goto(t, "insert")
  /\ UNCHANGED <<now, tableVars, rowVars, requestVars, cur, found, otick, cacheVars,
                 scanVars>>

BumpGeneration(t) ==
  /\ pc[t] = "bump"
  /\ generation' = generation + 1
  /\ Goto(t, "insert")
  /\ UNCHANGED <<now, routes, writer, rowVars, requestVars, cur, found, otick, cacheVars,
                 scanVars>>

EndScan == writer' = NoThread /\ left' = {} /\ scanned' = {} /\ etick' = 0

InsertAfterEviction(t) ==
  /\ pc[t] = "insert"
  /\ Create(t, Key(t))
  /\ Remember(t, cur[t])
  /\ EndScan
  /\ Goto(t, "count")
  /\ UNCHANGED <<now, generation, requestVars, cur, otick, cacheGen>>

\* No row was idle: the request goes to the overflow row, which is not cached.
UseOverflow(t) ==
  /\ pc[t] = "scan" /\ left = {} /\ scanned = {}
  /\ IF routes[OverflowKey] = NoRow
     THEN Create(t, OverflowKey)
     ELSE /\ found' = [found EXCEPT ![t] = routes[OverflowKey]]
          /\ Touched(t, routes[OverflowKey])
          /\ UNCHANGED <<routes, lastObserve, samples, late>>
  /\ EndScan
  /\ Goto(t, "count")
  /\ UNCHANGED <<now, generation, requestVars, cur, otick, cacheVars>>

\* begin counts the request on the row it was given.
CountInFlight(t) ==
  /\ pc[t] = "count"
  /\ state' = [state EXCEPT ![cur[t]] = "flying"]
  /\ handle' = [handle EXCEPT ![cur[t]] = found[t]]
  /\ found' = [found EXCEPT ![t] = NoRow]
  /\ cur' = [cur EXCEPT ![t] = NoRow]
  /\ Goto(t, "idle")
  /\ UNCHANGED <<now, tableVars, rowVars, key, stamp, starts, otick, cacheVars, scanVars>>

-----------------------------------------------------------------------------
(* Completion, release, and the surroundings.                              *)

\* mistake: the second of the completion is rounded up
CompleteRoundedUp(t, r) ==
  /\ pc[t] = "idle" /\ state[r] = "flying"
  /\ state' = [state EXCEPT ![r] = "completing"]
  /\ cur' = [cur EXCEPT ![t] = r]
  /\ otick' = [otick EXCEPT ![t] = now + 1]
  /\ Goto(t, "stamp")
  /\ UNCHANGED <<now, tableVars, rowVars, key, stamp, handle, starts, found, cacheVars,
                 scanVars>>

\* The response is ready on thread t, which reads the clock.
Complete(t, r) ==
  /\ pc[t] = "idle" /\ state[r] = "flying"
  /\ state' = [state EXCEPT ![r] = "completing"]
  /\ cur' = [cur EXCEPT ![t] = r]
  /\ otick' = [otick EXCEPT ![t] = now]
  /\ Goto(t, "stamp")
  /\ UNCHANGED <<now, tableVars, rowVars, key, stamp, handle, starts, found, cacheVars,
                 scanVars>>

\* observe stores the biased second on a line, over what is there, and then
\* records the sample.
StampObserve(t) ==
  /\ pc[t] = "stamp"
  /\ \E l \in Lines :
       lastObserve' = [lastObserve EXCEPT ![handle[cur[t]]][l] = otick[t] + 1]
  /\ late' = (late \/ now - otick[t] > MaxStale)
  /\ Goto(t, "sample")
  /\ UNCHANGED <<now, tableVars, lastUsed, samples, requestVars, cur, found, otick,
                 cacheVars, scanVars>>

RecordSample(t) ==
  /\ pc[t] = "sample"
  /\ samples' = [samples EXCEPT ![handle[cur[t]]] = @ \cup {otick[t]}]
  /\ state' = [state EXCEPT ![cur[t]] = "observed"]
  /\ cur' = [cur EXCEPT ![t] = NoRow]
  /\ otick' = [otick EXCEPT ![t] = 0]
  /\ Goto(t, "idle")
  /\ UNCHANGED <<now, tableVars, lastUsed, lastObserve, late, key, stamp, handle, starts,
                 found, cacheVars, scanVars>>

\* The guard of r is dropped, after its response or because it was cancelled.
End(r) ==
  /\ state[r] \in {"flying", "observed"}
  /\ state' = [state EXCEPT ![r] = "done"]
  /\ handle' = [handle EXCEPT ![r] = NoRow]
  /\ UNCHANGED <<now, tableVars, rowVars, key, stamp, starts, pc, cur, found, otick,
                 cacheVars, scanVars>>

\* The thread serves a request of another monitor, which takes over its cache.
ServeOther(t) ==
  /\ pc[t] = "idle" /\ cache[t] # NoCache
  /\ cache' = [cache EXCEPT ![t] = NoCache]
  /\ UNCHANGED <<now, tableVars, rowVars, requestVars, pc, cur, found, otick, cacheGen,
                 scanVars>>

Tick ==
  /\ now < MaxTick
  /\ now' = now + 1
  /\ UNCHANGED <<tableVars, rowVars, requestVars, pc, cur, found, otick, cacheVars,
                 scanVars>>

-----------------------------------------------------------------------------

\* What a thread does once it has begun an operation.
Advance(t) ==
  \/ ProbeHit(t) \/ ProbeMiss(t) \/ TouchHit(t) \/ FindShared(t) \/ MissShared(t)
  \/ InsertRow(t) \/ BeginScan(t) \/ EvictRow(t) \/ BumpGeneration(t)
  \/ InsertAfterEviction(t) \/ UseOverflow(t) \/ CountInFlight(t)
  \/ StampObserve(t) \/ RecordSample(t)
  \/ \E w \in Requests : ScanRow(t, w)

Next ==
  \/ Tick
  \/ \E r \in Requests : End(r)
  \/ \E t \in Threads :
       \/ Advance(t) \/ ServeOther(t)
       \/ \E r \in Requests : Complete(t, r) \/ \E k \in Keys : Start(t, r, k)

Spec == Init /\ [][Next]_vars

-----------------------------------------------------------------------------
(* Properties.                                                             *)

\* An eviction has removed its row and not yet told the caches.
Evicting == \E t \in Threads : pc[t] = "bump"

\* A thread's cache names, for every key, the row the table has for it, as
\* soon as its generation is the current one: an evicted row, or the overflow
\* row under the key of a request, never outlives the next lookup
\* (endpoints.rs:70-78, 499-500, 521-523).  Insertions into a cache race with
\* evictions, so this rests on the generation being read before the table.
CacheCoherent ==
  \A t \in Threads : \A k \in Keys :
    cacheGen[t] = generation /\ cache[t][k] # NoRow /\ ~Evicting
      => routes[k] = cache[t][k]

\* A row leaves the table by eviction only: two threads that miss the same key
\* never replace one row by another, which would split the route's metrics
\* and hide the requests in flight on the first (endpoints.rs:514-518).
NeverReplaced ==
  [][\A k \in AllKeys :
       routes[k] # NoRow /\ routes'[k] # NoRow => routes'[k] = routes[k]]_vars

\* A row that looks cold and is reported as empty, or evicted before warm rows,
\* loses no completion but one that is about to expire.  Stamps overwrite one
\* another on a line, so an earlier second can follow a later one there; what
\* that can hide is as old as the window but for the seconds a completion takes
\* from its clock read to its stamp (endpoints.rs:275-287, 371-374, 420-421).
ColdNearlyEmpty ==
  ~late => \A w \in Requests :
    IsCold(w, now) => \A second \in samples[w] : now - second >= WindowSecs - MaxStale

\* "Which only affects the order of eviction" (shard.rs:116-118), of a line that
\* lags because threads share it: the row is not shown as empty.
ColdMeansEmpty ==
  \A w \in Requests :
    IsCold(w, now) => \A second \in samples[w] : now - second >= WindowSecs

\* A row with recent completions goes only if every candidate has completions of
\* the window, and among candidates without any, or all with recent ones, the one
\* looked up longest ago goes (lib.rs:9-11, endpoints.rs:566-594).  It relates the
\* eviction to the samples themselves, not to the stamps the scan reads: recent
\* completions are those no overwritten stamp can hide.  Rows that a lookup or a
\* completion reached after they were scanned are left out: the scan has no way to
\* know (see InFlightTracked).
Holds(w, second) == \E s \in samples[w] : second - s < WindowSecs
HoldsRecent(w, second) == \E s \in samples[w] : second - s < WindowSecs - MaxStale

Unchanged(c) == c.used = LastUsed(c.row) /\ c.cold = IsCold(c.row, etick)

EmptyFirstThenLRU ==
  [][~late => \A t \in Threads : pc[t] = "scan" /\ pc'[t] = "bump" =>
       \A c \in scanned : \A other \in {d \in scanned : Unchanged(d)} :
         Unchanged(c) /\ (\A k \in AllKeys : routes'[k] # c.row) =>
           /\ HoldsRecent(c.row, etick) => Holds(other.row, etick)
           /\ \/ ~Holds(c.row, etick) /\ ~Holds(other.row, etick)
              \/ HoldsRecent(c.row, etick) /\ HoldsRecent(other.row, etick)
                => LastUsed(c.row) <= LastUsed(other.row)]_vars

\* "Never more than MAX_ENDPOINTS plus the overflow row" (endpoints.rs:310).
TableBounded == Cardinality(Tracked) <= MaxEndpoints + 1

\* "A row with a request in flight is never evicted" (endpoints.rs:230-231).
InFlightTracked == \A w \in Requests : InFlightOn(w) # {} => w \in Rows

=============================================================================
