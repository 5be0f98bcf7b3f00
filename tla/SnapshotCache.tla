--------------------------- MODULE SnapshotCache ---------------------------
(***************************************************************************)
(* Polls of the monitor route and of the programmatic interface: the       *)
(* snapshot cache of src/src/stats.rs behind a reader-writer lock, and the *)
(* cache of the last JSON encoding of src/src/lib.rs behind a mutex, which *)
(* recognises a snapshot by the address it is stored at.                   *)
(*                                                                         *)
(* A poll of the route looks into the cache from its async worker without  *)
(* waiting; otherwise it waits for a task on the blocking pool, which      *)
(* looks again, takes the lock, looks once more and only then collects.    *)
(* Read sections and mutex sections make one access and are one action;    *)
(* the write section is as long as a collection.                           *)
(*                                                                         *)
(* A snapshot is freed with the last reference to it, and the next one may *)
(* be allocated at its address.  The content of a snapshot is its number:  *)
(* the first is 1.                                                         *)
(***************************************************************************)
EXTENDS Collector

CONSTANTS Callers,   \* polls that may be made at the same time
          Addrs,     \* addresses a snapshot may be allocated at
          Refresh,   \* Config::refresh
          MaxPanics  \* collections that panic

NoSnap == -1

ASSUME CacheAssumption ==
  /\ Refresh \in Nat \ {0}     \* Config::normalized: at least MIN_REFRESH
  /\ Addrs \subseteq Nat
  /\ MaxPanics \in Nat

\* Memory is never exhausted: when a poll has no snapshot, the two caches and
\* the other polls leave an address to put a new one at.
ASSUME AddressesAssumption ==
  \A held \in [Callers -> Addrs \cup {NoSnap}], one, other \in Addrs \cup {NoSnap} :
    (\E c \in Callers : held[c] = NoSnap) =>
      Addrs \ ({one, other} \cup {held[c] : c \in Callers}) # {}

VARIABLES pc,        \* the step each poll is about to make
          on,        \* where it makes it
          snap,      \* the snapshot it holds a reference to
          body,      \* the encoding it holds
          cache,     \* CollectState::cache: address of the snapshot
          cachedAt,  \* and CacheEntry::cached_at
          encoded,   \* Monitor::encoded: source and body
          heap,      \* the snapshot stored at each address
          version,   \* history: how many snapshots have been stored
          poolGone,  \* the blocking pool has been shut down
          panics     \* history: collections that have panicked

cacheVars == <<cache, cachedAt, heap, version>>
pollVars == <<pc, on, snap, body>>
poolVars == <<poolGone, panics>>
vars == <<now, traffic, collectorVars, pollVars, cacheVars, encoded, poolVars>>

(***************************************************************************)
(* A poll of the route runs on an async "worker" until its task runs on    *)
(* the "pool"; it goes on "inline", on its worker, if the task failed.     *)
(* The task is "detached" once the client has gone.  A direct call runs on *)
(* its "caller"'s thread.                                                  *)
(***************************************************************************)
Places == {"worker", "pool", "inline", "detached", "caller"}

PCs == {"idle", "probe", "queued", "look", "lock", "process", "system", "store",
        "find", "encode", "keep", "done", "failed"}

CollectingPCs == {"process", "system", "store"}

TypeOK ==
  /\ CollectorTypeOK
  /\ pc \in [Callers -> PCs]
  /\ on \in [Callers -> Places]
  /\ snap \in [Callers -> Addrs \cup {NoSnap}]
  /\ body \in [Callers -> Nat]
  /\ cache \in Addrs \cup {NoSnap}
  /\ cachedAt \in Times
  /\ encoded.source \in Addrs \cup {NoSnap} /\ encoded.body \in Nat
  /\ heap \in [Addrs -> Nat]
  /\ version \in Nat
  /\ poolGone \in BOOLEAN
  /\ panics \in 0..MaxPanics

Init ==
  /\ CollectorInit
  /\ pc = [c \in Callers |-> "idle"]
  /\ on = [c \in Callers |-> "worker"]
  /\ snap = [c \in Callers |-> NoSnap]
  /\ body = [c \in Callers |-> 0]
  /\ cache = NoSnap
  /\ cachedAt = 0
  /\ encoded = [source |-> NoSnap, body |-> 0]
  /\ heap = [a \in Addrs |-> 0]
  /\ version = 0
  /\ poolGone = FALSE
  /\ panics = 0

-----------------------------------------------------------------------------

Goto(c, label) == pc' = [pc EXCEPT ![c] = label]

Collecting == \E c \in Callers : pc[c] \in CollectingPCs

\* fresh_snapshot
Fresh == cache # NoSnap /\ now - cachedAt < Refresh

\* The poll holds snapshot a: a direct call is over, the route's is encoded.
Obtain(c, a) ==
  /\ snap' = [snap EXCEPT ![c] = a]
  /\ Goto(c, IF on[c] = "caller" THEN "done" ELSE "find")

\* mistake: the encoding does not keep its snapshot alive
ReferencedWeakly == {cache} \cup {snap[c] : c \in Callers}

\* Addresses something refers to.
Referenced == {cache, encoded.source} \cup {snap[c] : c \in Callers}

\* Addresses are interchangeable.  With one choice for one set of free addresses
\* an address that was freed is soon taken again.
Allocated == CHOOSE a \in Addrs : a \notin Referenced

-----------------------------------------------------------------------------
(* Asking, and the probe that never blocks.                                *)

\* Monitor::respond for JSON, up to its probe of the cache.
AskJson(c) ==
  /\ pc[c] = "idle"
  /\ Goto(c, "probe")
  /\ on' = [on EXCEPT ![c] = "worker"]
  /\ UNCHANGED <<now, traffic, collectorVars, snap, body, cacheVars, encoded, poolVars>>

\* Monitor::stats, snapshot and snapshot_arc.
AskDirect(c) ==
  /\ pc[c] = "idle"
  /\ Goto(c, "look")
  /\ on' = [on EXCEPT ![c] = "caller"]
  /\ UNCHANGED <<now, traffic, collectorVars, snap, body, cacheVars, encoded, poolVars>>

\* try_cached_snapshot finds a fresh snapshot.
ProbeHit(c) ==
  /\ pc[c] = "probe"
  /\ ~Collecting /\ Fresh
  /\ Obtain(c, cache)
  /\ UNCHANGED <<now, traffic, collectorVars, on, body, cacheVars, encoded, poolVars>>

\* mistake: the probe waits for the lock
ProbeWaits(c) ==
  /\ pc[c] = "probe"
  /\ Collecting \/ ~Fresh
  /\ Goto(c, IF Collecting THEN "look" ELSE "queued")
  /\ UNCHANGED <<now, traffic, collectorVars, on, snap, body, cacheVars, encoded, poolVars>>

\* It does not: someone collects, or waits for the lock, or the cache is not
\* fresh.  The poll now awaits a task on the blocking pool.
ProbeMiss(c) ==
  /\ pc[c] = "probe"
  /\ Collecting \/ ~Fresh \/ \E d \in Callers : pc[d] = "lock"
  /\ Goto(c, "queued")
  /\ UNCHANGED <<now, traffic, collectorVars, on, snap, body, cacheVars, encoded, poolVars>>

-----------------------------------------------------------------------------
(* The blocking pool.                                                      *)

StartTask(c) ==
  /\ pc[c] = "queued"
  /\ ~poolGone
  /\ Goto(c, "look")
  /\ on' = [on EXCEPT ![c] = IF @ = "worker" THEN "pool" ELSE @]
  /\ UNCHANGED <<now, traffic, collectorVars, snap, body, cacheVars, encoded, poolVars>>

\* mistake: a poll whose task is never run is not noticed
FallBackForgotten(c) ==
  /\ pc[c] = "queued"
  /\ poolGone /\ on[c] = "detached"
  /\ Goto(c, "idle")
  /\ UNCHANGED <<now, traffic, collectorVars, on, snap, body, cacheVars, encoded, poolVars>>

\* The poll awaits a task that fails: it goes on inline, on its worker.  Of a poll
\* nobody awaits, or that had no task, nothing is left.
TaskFails(c) ==
  IF on[c] \in {"worker", "pool"}
  THEN Goto(c, "look") /\ on' = [on EXCEPT ![c] = "inline"]
  ELSE Goto(c, "idle") /\ UNCHANGED on

\* The pool is gone before the task ran.
FallBack(c) ==
  /\ pc[c] = "queued"
  /\ poolGone
  /\ TaskFails(c)
  /\ UNCHANGED <<now, traffic, collectorVars, snap, body, cacheVars, encoded, poolVars>>

\* The runtime shuts down.  Tasks that run already are left to end.
LosePool ==
  /\ ~poolGone
  /\ poolGone' = TRUE
  /\ UNCHANGED panics
  /\ UNCHANGED <<now, traffic, collectorVars, pollVars, cacheVars, encoded>>

\* The client goes away while the poll awaits its task, which runs on.
Disconnect(c) ==
  /\ on[c] = "pool" \/ (on[c] = "worker" /\ pc[c] = "queued")
  /\ on' = [on EXCEPT ![c] = "detached"]
  /\ UNCHANGED <<now, traffic, collectorVars, pc, snap, body, cacheVars, encoded, poolVars>>

-----------------------------------------------------------------------------
(* snapshot_arc.                                                           *)

\* The first look, under the read lock (cached_snapshot).
Look(c) ==
  /\ pc[c] = "look"
  /\ ~Collecting
  /\ IF Fresh THEN Obtain(c, cache) ELSE Goto(c, "lock") /\ UNCHANGED snap
  /\ UNCHANGED <<now, traffic, collectorVars, on, body, cacheVars, encoded, poolVars>>

\* The write lock, the second look, and Collector::collect reading the clock.
TakeLock(c) ==
  /\ pc[c] = "lock"
  /\ ~Collecting
  /\ IF Fresh
     THEN Obtain(c, cache) /\ UNCHANGED collectorVars
     ELSE BeginPass /\ Goto(c, "process") /\ UNCHANGED snap
  /\ UNCHANGED <<now, traffic, on, body, cacheVars, encoded, poolVars>>

ReadProcess(c) ==
  /\ pc[c] = "process"
  /\ MissProcess \/ \E failing \in SUBSET ProcessSources : CollectProcess(failing)
  /\ Goto(c, "system")
  /\ UNCHANGED <<now, traffic, on, snap, body, cacheVars, encoded, poolVars>>

ReadSystem(c) ==
  /\ pc[c] = "system"
  /\ \E failing \in SUBSET SystemSources : CollectSystem(failing)
  /\ Goto(c, "store")
  /\ UNCHANGED <<now, on, snap, body, cacheVars, encoded, poolVars>>

\* Reading the system panics.  The lock is left poisoned, which whoever takes it next
\* ignores, with the collector as far as it got and the old snapshot still cached.
Panic(c) ==
  /\ panics < MaxPanics
  /\ panics' = panics + 1
  /\ \/ pc[c] = "process" /\ AbandonProcess
     \/ pc[c] = "system" /\ AbandonSystem
  /\ TaskFails(c)
  /\ UNCHANGED <<now, traffic, snap, body, cacheVars, encoded, poolGone>>

\* The snapshot is allocated and cached, stamped with the clock after the
\* collection, and the lock released.
Store(c) ==
  /\ pc[c] = "store"
  /\ EndPass
  /\ heap' = [heap EXCEPT ![Allocated] = version + 1]
  /\ version' = version + 1
  /\ cache' = Allocated
  /\ cachedAt' = now
  /\ Obtain(c, Allocated)
  /\ UNCHANGED <<now, traffic, on, body, encoded, poolVars>>

-----------------------------------------------------------------------------
(* encode_snapshot.                                                        *)

\* The first critical section: is this the snapshot encoded last?
Find(c) ==
  /\ pc[c] = "find"
  /\ IF encoded.source = snap[c]
     THEN /\ body' = [body EXCEPT ![c] = encoded.body]
          /\ snap' = [snap EXCEPT ![c] = NoSnap]
          /\ Goto(c, "done")
     ELSE Goto(c, "encode") /\ UNCHANGED <<snap, body>>
  /\ UNCHANGED <<now, traffic, collectorVars, on, cacheVars, encoded, poolVars>>

\* Serialization, outside the lock.
Encode(c) ==
  /\ pc[c] = "encode"
  /\ body' = [body EXCEPT ![c] = heap[snap[c]]]
  /\ Goto(c, "keep")
  /\ UNCHANGED <<now, traffic, collectorVars, on, snap, cacheVars, encoded, poolVars>>

\* It fails: the route answers 500.
FailEncode(c) ==
  /\ pc[c] = "encode"
  /\ snap' = [snap EXCEPT ![c] = NoSnap]
  /\ Goto(c, "failed")
  /\ UNCHANGED <<now, traffic, collectorVars, on, body, cacheVars, encoded, poolVars>>

\* The second critical section replaces whatever encoding is kept.
Keep(c) ==
  /\ pc[c] = "keep"
  /\ encoded' = [source |-> snap[c], body |-> body[c]]
  /\ snap' = [snap EXCEPT ![c] = NoSnap]
  /\ Goto(c, "done")
  /\ UNCHANGED <<now, traffic, collectorVars, on, body, cacheVars, poolVars>>

\* The poll is over: its caller has the answer, or the error.
Finish(c) ==
  /\ pc[c] \in {"done", "failed"}
  /\ Goto(c, "idle")
  /\ on' = [on EXCEPT ![c] = "worker"]
  /\ snap' = [snap EXCEPT ![c] = NoSnap]
  /\ body' = [body EXCEPT ![c] = 0]
  /\ UNCHANGED <<now, traffic, collectorVars, cacheVars, encoded, poolVars>>

-----------------------------------------------------------------------------

\* Time passes.
Tick ==
  /\ now < MaxTime
  /\ now' = now + 1
  /\ UNCHANGED <<traffic, collectorVars, pollVars, cacheVars, encoded, poolVars>>

\* What the interfaces count changes at any moment of a pass.
Network ==
  /\ ReceiveByte \/ ChangeInterfaces
  /\ UNCHANGED <<now, pollVars, cacheVars, encoded, poolVars>>

Ask(c) == AskJson(c) \/ AskDirect(c)

\* What a poll does without waiting for the lock.
Step(c) ==
  \/ ProbeHit(c) \/ ProbeMiss(c) \/ StartTask(c) \/ FallBack(c)
  \/ ReadProcess(c) \/ ReadSystem(c) \/ Store(c)
  \/ Find(c) \/ Encode(c) \/ FailEncode(c) \/ Keep(c) \/ Finish(c)

Next ==
  \/ Tick \/ Network \/ LosePool
  \/ \E c \in Callers :
       Ask(c) \/ Step(c) \/ Look(c) \/ TakeLock(c) \/ Disconnect(c) \/ Panic(c)

(***************************************************************************)
(* Threads and tasks keep being scheduled, and the lock is given, sooner   *)
(* or later, to a thread that keeps asking for it.  Nothing makes a client *)
(* ask or leave, the clock move, the pool end or a collection panic.       *)
(***************************************************************************)
Fairness ==
  \A c \in Callers :
    WF_vars(Step(c)) /\ SF_vars(Look(c)) /\ SF_vars(TakeLock(c))

Spec == Init /\ [][Next]_vars

FairSpec == Spec /\ Fairness

-----------------------------------------------------------------------------
(* Properties.                                                             *)

\* The async worker of a poll never waits for the lock and never collects, unless
\* the task that was to do it failed, which takes the end of the blocking pool or a
\* panic (stats.rs:127-129, lib.rs:203-205).
WorkersNeverWait ==
  \A c \in Callers :
    pc[c] \in {"look", "lock"} \cup CollectingPCs =>
      on[c] # "worker" /\ (on[c] = "inline" => poolGone \/ panics > 0)

\* A pass that is over; polls interleave, but passes follow one another.
PassOver == \E c \in Callers : pc[c] = "store"

\* Every gap of a snapshot is explained by its errors, by the history of the
\* passes before it, or by a change of the interfaces between its pass and the
\* one before (collect.rs:116-117, snapshot.rs:113-118, README.md:118-120).
GapsNamed == PassOver => GapsExplained

\* While the interfaces stay, the network rate of a snapshot is there, and is the
\* traffic since the pass before over the time since the pass before, whatever
\* failed and whatever changed before that (collect.rs:37-38).
RatesRight == PassOver => RateIsTraffic

\* "Unsupported, failed, and not-yet-available process/system window metrics are
\* encoded as `null`, not as a synthetic zero" (README.md:118-119).
NoSyntheticZero == PassOver => FailedIsNull

\* Kept readings are neither too old where they are used nor taken too often.
ReadingsKept ==
  [][ReadingsSpaced /\ (PassOver' => ReadingsYoung')]_vars

\* The two caches together are one register of snapshots (SnapshotRegister).
\* What a poll is answered with is decided when it gets hold of the snapshot,
\* so the encoding it is sent must be the one of that very snapshot.
Stage(c) ==
  IF pc[c] \in {"idle", "failed"} \/ on[c] = "detached" THEN "idle"
  ELSE IF pc[c] \in {"find", "encode", "keep", "done"} THEN "served"
  ELSE "asked"

Answer(c) ==
  IF Stage(c) # "served" THEN 0
  ELSE IF snap[c] # NoSnap THEN heap[snap[c]] ELSE body[c]

Register == INSTANCE SnapshotRegister WITH
  at <- cachedAt,
  stage <- [c \in Callers |-> Stage(c)],
  answer <- [c \in Callers |-> Answer(c)]

ImplementsRegister == Register!Spec

\* Every poll ends, also when the pool is lost before its task has run.
PollsEnd == \A c \in Callers : pc[c] # "idle" ~> pc[c] = "idle"
=============================================================================
