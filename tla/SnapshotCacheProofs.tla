------------------------ MODULE SnapshotCacheProofs ------------------------
(***************************************************************************)
(* For any polls, addresses, times to live and refresh interval: an async  *)
(* worker never waits for the snapshot lock while tasks on the blocking    *)
(* pool do not fail; the two caches together implement one register of snapshots; and  *)
(* what the collector carries from one snapshot to the next is explained,  *)
(* stamped and compared as the snapshots say.                              *)
(***************************************************************************)
EXTENDS SnapshotCache, FiniteSetTheorems, TLAPS

PollsTyped ==
  /\ pc \in [Callers -> PCs]
  /\ on \in [Callers -> Places]

\* A worker has taken over from a task only after something went wrong.
TasksTakenOver ==
  /\ panics \in Nat
  /\ \A c \in Callers : on[c] = "inline" => poolGone \/ panics > 0

WorkersInv == PollsTyped /\ TasksTakenOver /\ WorkersNeverWait

\* The steps of one poll leave the others where they are; each of its own either
\* stays outside the lock or is on the pool, on its caller, or after the pool or a
\* panic.
LEMMA PollKeepsWorkers ==
  ASSUME WorkersInv, NEW c \in Callers,
         Ask(c) \/ Step(c) \/ Look(c) \/ TakeLock(c) \/ Disconnect(c) \/ Panic(c)
  PROVE  WorkersInv'
<1> USE DEF WorkersInv, PollsTyped, TasksTakenOver, WorkersNeverWait, Goto, PCs, Places,
            CollectingPCs, poolVars
<1>1. CASE AskJson(c)
  BY <1>1 DEF AskJson
<1>2. CASE AskDirect(c)
  BY <1>2 DEF AskDirect
<1>3. CASE ProbeHit(c)
  BY <1>3 DEF ProbeHit, Obtain
<1>4. CASE ProbeMiss(c)
  BY <1>4 DEF ProbeMiss
<1>5. CASE StartTask(c)
  BY <1>5 DEF StartTask
<1>6. CASE FallBack(c)
  BY <1>6 DEF FallBack, TaskFails
<1>7. CASE Disconnect(c)
  BY <1>7 DEF Disconnect
<1>8. CASE Look(c)
  BY <1>8 DEF Look, Obtain
<1>9. CASE TakeLock(c)
  BY <1>9 DEF TakeLock, Obtain
<1>10. CASE ReadProcess(c)
  BY <1>10 DEF ReadProcess
<1>11. CASE ReadSystem(c)
  BY <1>11 DEF ReadSystem
<1>12. CASE Store(c)
  BY <1>12 DEF Store, Obtain
<1>13. CASE Find(c)
  BY <1>13 DEF Find
<1>14. CASE Encode(c) \/ FailEncode(c) \/ Keep(c)
  BY <1>14 DEF Encode, FailEncode, Keep
<1>15. CASE Finish(c)
  BY <1>15 DEF Finish
<1>16. CASE Panic(c)
  <2>1. /\ pc[c] \in {"process", "system"} /\ panics' = panics + 1
        /\ IF on[c] \in {"worker", "pool"}
           THEN Goto(c, "look") /\ on' = [on EXCEPT ![c] = "inline"]
           ELSE Goto(c, "idle") /\ UNCHANGED on
    BY <1>16 DEF Panic, TaskFails
  <2>2. panics' \in Nat /\ panics' > 0
    BY <2>1
  <2> QED
    BY <2>1, <2>2
<1> QED
  BY <1>1, <1>2, <1>3, <1>4, <1>5, <1>6, <1>7, <1>8, <1>9, <1>10, <1>11, <1>12,
     <1>13, <1>14, <1>15, <1>16 DEF Ask, Step

\* The async worker of a poll neither waits for the lock nor collects, unless the
\* task it awaited failed, with the blocking pool or by a panic, however polls,
\* cancellations and the clock interleave (lib.rs:195-205).
THEOREM WorkersNeverBlocked == Spec => []WorkersNeverWait
<1>1. Init => WorkersInv
  BY DEF Init, WorkersInv, PollsTyped, TasksTakenOver, WorkersNeverWait, PCs, Places,
     CollectingPCs
<1>2. WorkersInv /\ [Next]_vars => WorkersInv'
  <2> SUFFICES ASSUME WorkersInv, [Next]_vars PROVE WorkersInv'
    OBVIOUS
  <2>1. CASE Tick \/ Network \/ UNCHANGED vars
    BY <2>1 DEF Tick, Network, vars, pollVars, poolVars, WorkersInv, PollsTyped,
       TasksTakenOver, WorkersNeverWait
  <2>2. CASE LosePool
    BY <2>2 DEF LosePool, pollVars, WorkersInv, PollsTyped, TasksTakenOver,
       WorkersNeverWait
  <2> QED
    BY <2>1, <2>2, PollKeepsWorkers DEF Next
<1>3. WorkersInv => WorkersNeverWait
  BY DEF WorkersInv
<1> QED
  BY <1>1, <1>2, <1>3, PTL DEF Spec

-----------------------------------------------------------------------------
(***************************************************************************)
(* The register.  What a poll is answered with is read through an address, *)
(* so the invariant says what is stored where: the cached snapshot is the  *)
(* latest one; the encoding that is kept is that of the snapshot it names, *)
(* and so is the one a poll is about to keep.  It also needs that one poll *)
(* collects at a time, and only while nothing fresh is cached.             *)
(***************************************************************************)
Typed ==
  /\ PollsTyped
  /\ now \in Nat /\ cachedAt \in Nat /\ version \in Nat
  /\ snap \in [Callers -> Addrs \cup {NoSnap}]
  /\ body \in [Callers -> Nat]
  /\ heap \in [Addrs -> Nat]
  /\ cache \in Addrs \cup {NoSnap}
  /\ encoded \in [source : Addrs \cup {NoSnap}, body : Nat]

HoldingPCs == {"find", "encode", "keep"}

CachesRight ==
  /\ cache = NoSnap <=> version = 0
  /\ cache # NoSnap => heap[cache] = version
  /\ encoded.source # NoSnap => encoded.body = heap[encoded.source]

PollsRight ==
  \A c \in Callers :
    /\ pc[c] \in HoldingPCs => snap[c] # NoSnap
    /\ snap[c] # NoSnap => pc[c] \in HoldingPCs \cup {"done"}
    /\ pc[c] = "keep" => body[c] = heap[snap[c]]

LockRight ==
  /\ \A c, d \in Callers : pc[c] \in CollectingPCs /\ pc[d] \in CollectingPCs => c = d
  /\ Collecting => ~Fresh

RegInv == Typed /\ CachesRight /\ PollsRight /\ LockRight

\* No address is NoSnap.
LEMMA NoSnapNoAddress == NoSnap \notin Addrs
BY CacheAssumption DEF NoSnap

\* What is allocated was free.
LEMMA AllocatedIsFree ==
  ASSUME RegInv, NEW c \in Callers, snap[c] = NoSnap
  PROVE  Allocated \in Addrs /\ Allocated \notin Referenced
<1>1. /\ snap \in [Callers -> Addrs \cup {NoSnap}]
      /\ cache \in Addrs \cup {NoSnap} /\ encoded.source \in Addrs \cup {NoSnap}
  BY DEF RegInv, Typed
<1>2. Addrs \ ({cache, encoded.source} \cup {snap[d] : d \in Callers}) # {}
  BY <1>1, AddressesAssumption
<1>3. \E a \in Addrs : a \notin Referenced
  BY <1>2 DEF Referenced
<1> QED
  BY <1>3 DEF Allocated

\* What the register sees of a state, in terms of the caches.
LEMMA FreshIsFresh ==
  ASSUME RegInv
  PROVE  Register!Fresh <=> Fresh
BY DEF RegInv, CachesRight, Register!Fresh, Fresh

\* A poll that is not collecting, and does not start to, leaves the lock alone.
LEMMA LockLeftAlone ==
  ASSUME RegInv, NEW c \in Callers, NEW label \in PCs \ CollectingPCs,
         Goto(c, label), UNCHANGED <<now, cacheVars>>
  PROVE  LockRight'
BY DEF RegInv, Typed, PollsTyped, LockRight, Goto, Collecting, Fresh, cacheVars

\* The steps that touch neither cache nor heap.
LEMMA WaitingKeepsReg ==
  ASSUME RegInv, NEW c \in Callers,
         \/ Ask(c) \/ ProbeMiss(c) \/ StartTask(c) \/ FallBack(c) \/ Disconnect(c)
         \/ ReadProcess(c) \/ ReadSystem(c) \/ Panic(c)
  PROVE  RegInv'
<1> USE DEF RegInv, Typed, PollsTyped, CachesRight, PollsRight, Goto, PCs, Places,
            CollectingPCs, HoldingPCs, cacheVars, poolVars
<1>1. CASE AskJson(c)
  BY <1>1, LockLeftAlone DEF AskJson
<1>2. CASE AskDirect(c)
  BY <1>2, LockLeftAlone DEF AskDirect
<1>3. CASE ProbeMiss(c)
  BY <1>3, LockLeftAlone DEF ProbeMiss
<1>4. CASE StartTask(c)
  BY <1>4, LockLeftAlone DEF StartTask
<1>5. CASE FallBack(c)
  BY <1>5, LockLeftAlone DEF FallBack, TaskFails
<1>6. CASE Disconnect(c)
  BY <1>6 DEF Disconnect, LockRight, Collecting, Fresh
<1>7. CASE ReadProcess(c)
  BY <1>7 DEF ReadProcess, LockRight, Collecting, Fresh
<1>8. CASE ReadSystem(c)
  BY <1>8 DEF ReadSystem, LockRight, Collecting, Fresh
<1>9. CASE Panic(c)
  BY <1>9, LockLeftAlone DEF Panic, TaskFails
<1> QED
  BY <1>1, <1>2, <1>3, <1>4, <1>5, <1>6, <1>7, <1>8, <1>9 DEF Ask

\* A poll that takes the cached snapshot.
LEMMA ObtainKeepsReg ==
  ASSUME RegInv, NEW c \in Callers, Fresh, Obtain(c, cache),
         UNCHANGED <<now, on, body, cacheVars, encoded, poolVars>>, pc[c] # "keep"
  PROVE  RegInv'
<1>1. LockRight'
  BY LockLeftAlone DEF Obtain, PCs, CollectingPCs
<1> QED
  BY <1>1 DEF RegInv, Typed, PollsTyped, CachesRight, PollsRight, Obtain, Goto, PCs,
              Places, HoldingPCs, cacheVars, Fresh

LEMMA LockedKeepsReg ==
  ASSUME RegInv, NEW c \in Callers, ProbeHit(c) \/ Look(c) \/ TakeLock(c)
  PROVE  RegInv'
<1>1. CASE ProbeHit(c)
  BY <1>1, ObtainKeepsReg DEF ProbeHit
<1>2. CASE Look(c)
  <2>1. CASE Fresh
    BY <1>2, <2>1, ObtainKeepsReg DEF Look
  <2>2. CASE ~Fresh
    <3>1. Goto(c, "lock") /\ UNCHANGED <<now, on, snap, body, cacheVars, encoded>>
      BY <1>2, <2>2 DEF Look
    <3>2. LockRight'
      BY <3>1, LockLeftAlone DEF PCs, CollectingPCs
    <3> QED
      BY <1>2, <3>1, <3>2 DEF Look, RegInv, Typed, PollsTyped, CachesRight, PollsRight,
                              Goto, PCs, HoldingPCs, cacheVars
  <2> QED
    BY <2>1, <2>2
<1>3. CASE TakeLock(c)
  <2>1. CASE Fresh
    BY <1>3, <2>1, ObtainKeepsReg DEF TakeLock
  <2>2. CASE ~Fresh
    BY <1>3, <2>2 DEF TakeLock, RegInv, Typed, PollsTyped, CachesRight, PollsRight,
       LockRight, Collecting, Fresh, Goto, PCs, HoldingPCs, CollectingPCs, cacheVars
  <2> QED
    BY <2>1, <2>2
<1> QED
  BY <1>1, <1>2, <1>3

\* The new snapshot is put where nothing refers to.
LEMMA StoreKeepsReg ==
  ASSUME RegInv, NEW c \in Callers, Store(c)
  PROVE  RegInv'
<1> DEFINE a == Allocated
<1>0. pc[c] = "store" /\ snap[c] = NoSnap
  BY DEF Store, RegInv, PollsRight, HoldingPCs, Typed
<1>1. a \in Addrs /\ a \notin Referenced /\ a # NoSnap
  BY <1>0, AllocatedIsFree, NoSnapNoAddress
<1>2. /\ heap' = [heap EXCEPT ![a] = version + 1] /\ version' = version + 1
      /\ cache' = a /\ cachedAt' = now /\ snap' = [snap EXCEPT ![c] = a]
      /\ pc' = [pc EXCEPT ![c] = IF on[c] = "caller" THEN "done" ELSE "find"]
      /\ UNCHANGED <<now, on, body, encoded>>
  BY DEF Store, Obtain, Goto
<1>3. encoded.source # a /\ \A d \in Callers : snap[d] # a
  BY <1>1 DEF Referenced
<1> HIDE DEF a
<1>4. Typed'
  BY <1>1, <1>2 DEF RegInv, Typed, PollsTyped, PCs
<1>5. CachesRight'
  BY <1>1, <1>2, <1>3 DEF RegInv, Typed, CachesRight
<1>6. PollsRight'
  BY <1>1, <1>2, <1>3 DEF RegInv, Typed, PollsTyped, PollsRight, HoldingPCs
<1>7. LockRight'
  BY <1>0, <1>2 DEF RegInv, Typed, PollsTyped, LockRight, Collecting, CollectingPCs
<1> QED
  BY <1>4, <1>5, <1>6, <1>7 DEF RegInv

LEMMA EncodingKeepsReg ==
  ASSUME RegInv, NEW c \in Callers,
         Find(c) \/ Encode(c) \/ FailEncode(c) \/ Keep(c) \/ Finish(c)
  PROVE  RegInv'
<1> USE DEF RegInv, Typed, PollsTyped, CachesRight, PollsRight, Goto, PCs, Places,
            CollectingPCs, HoldingPCs, cacheVars
<1>1. CASE Find(c)
  BY <1>1, LockLeftAlone DEF Find
<1>2. CASE Encode(c)
  BY <1>2, LockLeftAlone DEF Encode
<1>3. CASE FailEncode(c)
  BY <1>3, LockLeftAlone DEF FailEncode
<1>4. CASE Keep(c)
  BY <1>4, LockLeftAlone DEF Keep
<1>5. CASE Finish(c)
  BY <1>5, LockLeftAlone DEF Finish
<1> QED
  BY <1>1, <1>2, <1>3, <1>4, <1>5

\* The caches and the polls stay consistent.
LEMMA RegInit == Init => RegInv
BY NoSnapNoAddress DEF Init, CollectorInit, RegInv, Typed, PollsTyped, CachesRight,
   PollsRight, LockRight, Collecting, CollectingPCs, HoldingPCs, PCs, Places

LEMMA RegKept == RegInv /\ [Next]_vars => RegInv'
<1> SUFFICES ASSUME RegInv, [Next]_vars PROVE RegInv'
  OBVIOUS
<1>1. CASE Tick
  BY <1>1, CacheAssumption DEF Tick, RegInv, Typed, PollsTyped, CachesRight, PollsRight,
     LockRight, Collecting, Fresh, pollVars, cacheVars
<1>2. CASE Network \/ LosePool \/ UNCHANGED vars
  BY <1>2 DEF Network, LosePool, vars, RegInv, Typed, PollsTyped, CachesRight, PollsRight,
     LockRight, Collecting, Fresh, pollVars, cacheVars
<1>3. ASSUME NEW c \in Callers,
             Ask(c) \/ Step(c) \/ Look(c) \/ TakeLock(c) \/ Disconnect(c) \/ Panic(c)
      PROVE  RegInv'
  BY <1>3, WaitingKeepsReg, LockedKeepsReg, StoreKeepsReg, EncodingKeepsReg DEF Step
<1> QED
  BY <1>1, <1>2, <1>3 DEF Next

-----------------------------------------------------------------------------
(* What the steps are to the register.                                     *)

SameView(d) == Stage(d)' = Stage(d) /\ Answer(d)' = Answer(d)

\* Nothing the register knows changes.
LEMMA RegisterStutters ==
  ASSUME UNCHANGED <<now, version, cachedAt>>, \A d \in Callers : SameView(d)
  PROVE  UNCHANGED Register!vars
<1>1. [d \in Callers |-> Stage(d)]' = [d \in Callers |-> Stage(d)]
  BY DEF SameView
<1>2. [d \in Callers |-> Answer(d)]' = [d \in Callers |-> Answer(d)]
  BY DEF SameView
<1> QED
  BY <1>1, <1>2 DEF Register!vars

\* A step of one poll is seen at no other poll.
LEMMA OthersSeeNothing ==
  ASSUME RegInv, NEW c \in Callers, NEW d \in Callers, d # c,
         pc'[d] = pc[d], on'[d] = on[d], snap'[d] = snap[d], body'[d] = body[d],
         snap[d] # NoSnap => heap'[snap[d]] = heap[snap[d]]
  PROVE  SameView(d)
BY DEF SameView, Stage, Answer

\* The poll is asked.
LEMMA AskAsks ==
  ASSUME RegInv, NEW c \in Callers, Ask(c)
  PROVE  Register!Ask(c)
<1>1. /\ pc[c] = "idle" /\ pc'[c] \in {"probe", "look"}
      /\ on'[c] \in {"worker", "caller"}
      /\ \A d \in Callers \ {c} : pc'[d] = pc[d] /\ on'[d] = on[d]
      /\ UNCHANGED <<now, snap, body, cachedAt, heap, version>>
  BY DEF Ask, AskJson, AskDirect, Goto, cacheVars, RegInv, Typed, PollsTyped
<1>2. \A d \in Callers \ {c} : SameView(d)
  BY <1>1, OthersSeeNothing
<1>3. Stage(c) = "idle" /\ Stage(c)' = "asked" /\ Answer(c) = 0 /\ Answer(c)' = 0
  BY <1>1 DEF Stage, Answer
<1>4. [d \in Callers |-> Stage(d)]'
        = [[d \in Callers |-> Stage(d)] EXCEPT ![c] = "asked"]
  BY <1>2, <1>3 DEF SameView
<1>5. [d \in Callers |-> Answer(d)]' = [d \in Callers |-> Answer(d)]
  BY <1>2, <1>3 DEF SameView
<1> QED
  BY <1>1, <1>3, <1>4, <1>5 DEF Register!Ask

\* The cached snapshot is what the register holds; whoever takes it reads it,
\* unless nobody waits for the answer any more.
LEMMA ObtainReads ==
  ASSUME RegInv, NEW c \in Callers, Fresh, Obtain(c, cache),
         pc[c] \in {"probe", "look", "lock"},
         UNCHANGED <<now, on, body, cacheVars>>
  PROVE  Register!Read(c) \/ UNCHANGED Register!vars
<1>1. /\ cache # NoSnap /\ heap[cache] = version
      /\ pc'[c] \in {"done", "find"} /\ snap'[c] = cache
      /\ \A d \in Callers \ {c} : pc'[d] = pc[d] /\ snap'[d] = snap[d]
      /\ UNCHANGED <<now, on, body, heap, version, cachedAt>>
  BY DEF RegInv, Typed, PollsTyped, CachesRight, Fresh, Obtain, Goto, cacheVars
<1>2. \A d \in Callers \ {c} : SameView(d)
  BY <1>1, OthersSeeNothing
<1>3. CASE on[c] = "detached"
  <2>1. SameView(c)
    BY <1>1, <1>3 DEF SameView, Stage, Answer
  <2> QED
    BY <1>1, <1>2, <2>1, RegisterStutters
<1>4. CASE on[c] # "detached"
  <2>1. Stage(c) = "asked" /\ Stage(c)' = "served" /\ Answer(c)' = version
    BY <1>1, <1>4 DEF Stage, Answer
  <2>2. [d \in Callers |-> Stage(d)]'
          = [[d \in Callers |-> Stage(d)] EXCEPT ![c] = "served"]
    BY <1>2, <2>1 DEF SameView
  <2>3. [d \in Callers |-> Answer(d)]'
          = [[d \in Callers |-> Answer(d)] EXCEPT ![c] = version]
    BY <1>2, <2>1 DEF SameView
  <2> QED
    BY <1>1, <2>1, <2>2, <2>3, FreshIsFresh DEF Register!Read
<1> QED
  BY <1>3, <1>4

\* Getting the lock, fresh or not.
LEMMA LookingReads ==
  ASSUME RegInv, NEW c \in Callers, ProbeHit(c) \/ Look(c) \/ TakeLock(c)
  PROVE  Register!Read(c) \/ UNCHANGED Register!vars
<1>1. CASE Fresh
  BY <1>1, ObtainReads DEF ProbeHit, Look, TakeLock
<1>2. CASE ~Fresh
  <2>1. /\ pc[c] \in {"look", "lock"} /\ pc'[c] \in {"lock", "process"}
        /\ \A d \in Callers \ {c} : pc'[d] = pc[d]
        /\ UNCHANGED <<now, on, snap, body, heap, version, cachedAt>>
    BY <1>2 DEF ProbeHit, Look, TakeLock, Goto, cacheVars, RegInv, Typed, PollsTyped
  <2>2. SameView(c)
    BY <2>1 DEF SameView, Stage, Answer
  <2> QED
    BY <2>1, <2>2, OthersSeeNothing, RegisterStutters
<1> QED
  BY <1>1, <1>2

\* The register is renewed.
LEMMA StoreRenews ==
  ASSUME RegInv, NEW c \in Callers, Store(c)
  PROVE  Register!Renew
<1> DEFINE a == Allocated
<1>1. pc[c] = "store" /\ snap[c] = NoSnap /\ ~Fresh
  BY DEF Store, RegInv, PollsRight, LockRight, Collecting, CollectingPCs, HoldingPCs, Typed
<1>2. a \in Addrs /\ a # NoSnap /\ \A d \in Callers : snap[d] # a
  BY <1>1, AllocatedIsFree, NoSnapNoAddress DEF Referenced
<1>3. /\ heap' = [heap EXCEPT ![a] = version + 1] /\ version' = version + 1
      /\ cachedAt' = now /\ snap' = [snap EXCEPT ![c] = a]
      /\ pc' = [pc EXCEPT ![c] = IF on[c] = "caller" THEN "done" ELSE "find"]
      /\ UNCHANGED <<now, on, body>>
  BY DEF Store, Obtain, Goto
<1> HIDE DEF a
<1>4. /\ pc'[c] \in {"done", "find"} /\ snap'[c] = a /\ heap'[a] = version'
      /\ \A d \in Callers \ {c} :
           /\ pc'[d] = pc[d] /\ snap'[d] = snap[d]
           /\ snap[d] # NoSnap => heap'[snap[d]] = heap[snap[d]]
  BY <1>2, <1>3 DEF RegInv, Typed, PollsTyped
<1>5. \A d \in Callers \ {c} : SameView(d)
  BY <1>3, <1>4, OthersSeeNothing
<1>6. CASE on[c] = "detached"
  <2>1. SameView(c)
    BY <1>1, <1>3, <1>4, <1>6 DEF SameView, Stage, Answer
  <2>2. [d \in Callers |-> Stage(d)]' = [d \in Callers |-> Stage(d)]
    BY <1>5, <2>1 DEF SameView
  <2>3. [d \in Callers |-> Answer(d)]' = [d \in Callers |-> Answer(d)]
    BY <1>5, <2>1 DEF SameView
  <2> QED
    BY <1>1, <1>3, <2>2, <2>3, FreshIsFresh DEF Register!Renew
<1>7. CASE on[c] # "detached"
  <2>1. Stage(c) = "asked" /\ Stage(c)' = "served" /\ Answer(c)' = version'
    BY <1>1, <1>2, <1>3, <1>4, <1>7 DEF Stage, Answer
  <2>2. [d \in Callers |-> Stage(d)]'
          = [[d \in Callers |-> Stage(d)] EXCEPT ![c] = "served"]
    BY <1>5, <2>1 DEF SameView
  <2>3. [d \in Callers |-> Answer(d)]'
          = [[d \in Callers |-> Answer(d)] EXCEPT ![c] = version']
    BY <1>5, <2>1 DEF SameView
  <2> QED
    BY <1>1, <1>3, <2>1, <2>2, <2>3, FreshIsFresh DEF Register!Renew
<1> QED
  BY <1>6, <1>7

\* A poll that is over, or given up, leaves.
LEMMA PollLeaves ==
  ASSUME RegInv, NEW c \in Callers,
         \A d \in Callers \ {c} : SameView(d),
         Stage(c)' = "idle", UNCHANGED <<now, version, cachedAt>>
  PROVE  Register!Leave(c) \/ UNCHANGED Register!vars
<1>1. Answer(c)' = 0
  BY DEF Answer
<1>2. CASE Stage(c) = "idle"
  <2>1. SameView(c)
    BY <1>1, <1>2 DEF SameView, Answer
  <2> QED
    BY <2>1, RegisterStutters
<1>3. CASE Stage(c) # "idle"
  <2>1. [d \in Callers |-> Stage(d)]'
          = [[d \in Callers |-> Stage(d)] EXCEPT ![c] = "idle"]
    BY DEF SameView
  <2>2. [d \in Callers |-> Answer(d)]'
          = [[d \in Callers |-> Answer(d)] EXCEPT ![c] = 0]
    BY <1>1 DEF SameView
  <2> QED
    BY <1>3, <2>1, <2>2 DEF Register!Leave
<1> QED
  BY <1>2, <1>3

LEMMA GivingUpLeaves ==
  ASSUME RegInv, NEW c \in Callers,
         FallBack(c) \/ Disconnect(c) \/ Panic(c) \/ FailEncode(c) \/ Finish(c)
  PROVE  Register!Leave(c) \/ UNCHANGED Register!vars
<1> USE DEF RegInv, Typed, PollsTyped, Goto, cacheVars
<1>1. /\ \A d \in Callers \ {c} : /\ pc'[d] = pc[d] /\ on'[d] = on[d]
                                  /\ snap'[d] = snap[d] /\ body'[d] = body[d]
      /\ UNCHANGED <<now, version, cachedAt, heap>>
  BY DEF FallBack, TaskFails, Disconnect, Panic, FailEncode, Finish
<1>2. \A d \in Callers \ {c} : SameView(d)
  BY <1>1, OthersSeeNothing
<1>3. CASE (FallBack(c) \/ Panic(c)) /\ on[c] \in {"worker", "pool"}
  <2>1. /\ pc[c] \in {"queued", "process", "system"} /\ pc'[c] = "look"
        /\ on[c] # "detached" /\ on'[c] # "detached"
    BY <1>3 DEF FallBack, Panic, TaskFails
  <2>2. SameView(c)
    BY <2>1 DEF SameView, Stage, Answer
  <2> QED
    BY <1>1, <1>2, <2>2, RegisterStutters
<1>4. CASE ~((FallBack(c) \/ Panic(c)) /\ on[c] \in {"worker", "pool"})
  <2>1. Stage(c)' = "idle"
    BY <1>4 DEF FallBack, TaskFails, Disconnect, Panic, FailEncode, Finish, Stage
  <2> QED
    BY <1>1, <1>2, <2>1, PollLeaves
<1> QED
  BY <1>3, <1>4

\* What happens between the question and the answer, and between the answer and
\* the body that is sent, is not seen.
LEMMA InnerStepsStutter ==
  ASSUME RegInv, NEW c \in Callers,
         \/ ProbeMiss(c) \/ StartTask(c) \/ ReadProcess(c) \/ ReadSystem(c)
         \/ Find(c) \/ Encode(c) \/ Keep(c)
  PROVE  UNCHANGED Register!vars
<1> USE DEF RegInv, Typed, PollsTyped, Goto, cacheVars
<1>1. /\ \A d \in Callers \ {c} : /\ pc'[d] = pc[d] /\ on'[d] = on[d]
                                  /\ snap'[d] = snap[d] /\ body'[d] = body[d]
      /\ UNCHANGED <<now, version, cachedAt, heap>>
  BY DEF ProbeMiss, StartTask, ReadProcess, ReadSystem, Find, Encode, Keep
<1>2. SameView(c)
  <2>1. CASE ProbeMiss(c) \/ ReadProcess(c) \/ ReadSystem(c)
    BY <2>1 DEF ProbeMiss, ReadProcess, ReadSystem, SameView, Stage, Answer
  <2>2. CASE StartTask(c)
    BY <2>2 DEF StartTask, Places, SameView, Stage, Answer
  <2>3. CASE Find(c)
    BY <2>3 DEF Find, PollsRight, CachesRight, HoldingPCs, SameView, Stage, Answer
  <2>4. CASE Encode(c)
    BY <2>4 DEF Encode, PollsRight, HoldingPCs, SameView, Stage, Answer
  <2>5. CASE Keep(c)
    BY <2>5 DEF Keep, PollsRight, HoldingPCs, SameView, Stage, Answer
  <2> QED
    BY <2>1, <2>2, <2>3, <2>4, <2>5
<1> QED
  BY <1>1, <1>2, OthersSeeNothing, RegisterStutters

\* The snapshot cache and the cache of the encoding together are one register:
\* whatever the polls do, each is answered with the snapshot the register held,
\* fresh, at a moment of the poll, also after addresses have been used again.
THEOREM CacheIsRegister == Spec => ImplementsRegister
<1>1. Init => Register!Init
  BY DEF Init, CollectorInit, Register!Init, Stage, Answer
<1>2. RegInv /\ [Next]_vars => [Register!Next]_(Register!vars)
  <2> SUFFICES ASSUME RegInv, [Next]_vars
               PROVE  Register!Next \/ UNCHANGED Register!vars
    OBVIOUS
  <2>1. CASE Tick
    <3>1. \A d \in Callers : SameView(d)
      BY <2>1 DEF Tick, pollVars, cacheVars, SameView, Stage, Answer
    <3>2. /\ [d \in Callers |-> Stage(d)]' = [d \in Callers |-> Stage(d)]
          /\ [d \in Callers |-> Answer(d)]' = [d \in Callers |-> Answer(d)]
      BY <3>1 DEF SameView
    <3>3. Register!Tick
      BY <2>1, <3>2 DEF Tick, cacheVars, Register!Tick
    <3> QED
      BY <3>3 DEF Register!Next
  <2>2. CASE Network \/ LosePool \/ UNCHANGED vars
    <3>1. \A d \in Callers : SameView(d)
      BY <2>2 DEF Network, LosePool, vars, pollVars, cacheVars, SameView, Stage, Answer
    <3> QED
      BY <2>2, <3>1, RegisterStutters DEF Network, LosePool, vars, cacheVars
  <2>3. ASSUME NEW c \in Callers,
               Ask(c) \/ Step(c) \/ Look(c) \/ TakeLock(c) \/ Disconnect(c) \/ Panic(c)
        PROVE  Register!Next \/ UNCHANGED Register!vars
    BY <2>3, AskAsks, LookingReads, StoreRenews, GivingUpLeaves, InnerStepsStutter
       DEF Step, Register!Next
  <2> QED
    BY <2>1, <2>2, <2>3 DEF Next
<1>3. Register!Init /\ [][Register!Next]_(Register!vars) => Register!Spec
  BY DEF Register!Spec
<1> QED
  BY <1>1, <1>2, <1>3, RegInit, RegKept, PTL DEF Spec, ImplementsRegister

-----------------------------------------------------------------------------
(***************************************************************************)
(* The passes of the collector: the model is typed, every gap of a         *)
(* snapshot is explained, its network rate is the traffic since the pass   *)
(* before while the interfaces stay, and kept readings are neither too old *)
(* nor taken too often.                                                    *)
(*                                                                         *)
(* Polls interleave and passes do not, so the invariant follows the one    *)
(* pass there may be.  That a second pass sees the clock beyond the first  *)
(* is not the collector's doing: only a cache that is no longer fresh      *)
(* starts a pass, and it was stamped after the pass before it began.       *)
(***************************************************************************)

At(label) == \E c \in Callers : pc[c] = label

\* How far the pass has come; LockRight says there is at most one.
Phase ==
  IF At("process") THEN "process"
  ELSE IF At("system") THEN "system"
  ELSE IF At("store") THEN "store"
  ELSE "none"

\* The kept state has its type, and while the interfaces stay their counters are
\* what was read last and what they have received since.
StateTyped ==
  /\ now \in Times /\ cachedAt \in Times
  /\ traffic \in Interfaces
  /\ fd \in Readings /\ disk \in Readings
  /\ processSeen \in BOOLEAN /\ systemSeen \in BOOLEAN
  /\ network \in [seen : BOOLEAN, bytes : 0..MaxBytes, at : Times]
  /\ traffic.since # Changed => network.seen /\ traffic.bytes = network.bytes + traffic.since
  /\ failures \in 0..MaxFailures

\* So have the snapshot that is made and what is remembered of the one before.
PassTyped ==
  /\ draft \in [began : Times \cup {Never}, got : SUBSET Metrics,
                errors : SUBSET Metrics, fd : Times \cup {Never},
                disk : Times \cup {Never}, rate : Rates \cup {NoRate},
                since : 0..MaxBytes \cup {Changed}]
  /\ past \in [sources : SUBSET Deltas, began : Times \cup {Never}]

\* A kept reading is stamped when it is taken, also when it failed.
ReadingsStamped ==
  /\ fd.at = fd.read /\ fd.at <= now
  /\ disk.at = disk.read /\ disk.at <= now

\* A pass begins only when the snapshot before it is a tick or more old.
PassBegun ==
  /\ Phase = "none" => draft = EmptyDraft
  /\ Phase # "none" => draft.began \in 0..now
  /\ Phase # "none" /\ cache # NoSnap => cachedAt < draft.began

DraftYoung ==
  /\ draft.fd # Never => draft.began - draft.fd < FdTtl
  /\ draft.disk # Never => draft.began - draft.disk < DiskTtl
  /\ Phase = "store" => draft.disk # Never

ProcessHalf ==
  /\ draft.got \subseteq ProcessMetrics /\ draft.errors \subseteq ProcessMetrics
  /\ draft.got \cap draft.errors = {}
  /\ \A m \in ProcessMetrics \ draft.got :
       m \in draft.errors \/ m \in Deltas \ past.sources

HalvesRight ==
  /\ Phase = "process" => draft.got = {} /\ draft.errors = {}
  /\ Phase = "system" => ProcessHalf
  /\ Phase = "store" => GapsExplained /\ RateIsTraffic

\* What is kept for the differences is what the last pass read: while a pass is
\* being stored, that pass, and otherwise the one whose snapshot is cached.  A pass
\* that panicked leaves traces in the CPU figures only.
DeltasKept ==
  /\ "process.cpu" \in past.sources \/ "process.memory" \in draft.got => processSeen
  /\ Phase = "store" => systemSeen /\ network.seen /\ network.at = draft.began
  /\ Phase # "store" =>
       /\ cache # NoSnap => systemSeen
       /\ network.seen <=> cache # NoSnap
       /\ "system.cpu" \in past.sources <=> cache # NoSnap
       /\ "system.network" \in past.sources <=> cache # NoSnap
       /\ cache # NoSnap => network.at = past.began /\ network.at <= cachedAt

PassInv ==
  /\ StateTyped
  /\ PassTyped
  /\ ReadingsStamped
  /\ PassBegun
  /\ DraftYoung
  /\ HalvesRight
  /\ DeltasKept

-----------------------------------------------------------------------------
(* Where the pass is.                                                      *)

\* The poll that collects is the only one, so its step is the phase.
LEMMA PhaseOfPass ==
  ASSUME RegInv, NEW c \in Callers, pc[c] \in CollectingPCs
  PROVE  Phase = pc[c] /\ Collecting
<1>1. \A d \in Callers : pc[d] \in CollectingPCs => d = c
  BY DEF RegInv, LockRight
<1> QED
  BY <1>1 DEF Phase, At, Collecting, CollectingPCs

LEMMA PhaseWhenIdle ==
  ASSUME ~Collecting
  PROVE  Phase = "none"
BY DEF Phase, At, Collecting, CollectingPCs

\* Only the poll that takes the lock, or has it, moves the phase.
LEMMA PhaseStays ==
  ASSUME \A d \in Callers :
           pc[d] \in CollectingPCs \/ pc'[d] \in CollectingPCs => pc'[d] = pc[d]
  PROVE  Phase' = Phase
<1>1. \A label \in CollectingPCs, d \in Callers : pc'[d] = label <=> pc[d] = label
  OBVIOUS
<1>2. At("process")' <=> At("process")
  BY <1>1 DEF At, CollectingPCs
<1>3. At("system")' <=> At("system")
  BY <1>1 DEF At, CollectingPCs
<1>4. At("store")' <=> At("store")
  BY <1>1 DEF At, CollectingPCs
<1> QED
  BY <1>2, <1>3, <1>4 DEF Phase

LEMMA PhaseMoves ==
  ASSUME RegInv, NEW c \in Callers, NEW label \in PCs, Goto(c, label),
         \A d \in Callers \ {c} : pc[d] \notin CollectingPCs
  PROVE  Phase' = IF label \in CollectingPCs THEN label ELSE "none"
<1>1. pc'[c] = label /\ \A d \in Callers \ {c} : pc'[d] = pc[d]
  BY DEF Goto, RegInv, Typed, PollsTyped
<1>2. \A l \in CollectingPCs : (\E d \in Callers : pc'[d] = l) <=> l = label
  BY <1>1
<1> QED
  BY <1>2 DEF Phase, At, CollectingPCs

\* What a step may do to the cache and the collector without taking part in a pass.
Aside == UNCHANGED <<now, traffic, collectorVars, cache, cachedAt>> /\ Phase' = Phase

LEMMA StepsAside ==
  ASSUME RegInv, NEW c \in Callers,
         \/ Ask(c) \/ ProbeHit(c) \/ ProbeMiss(c) \/ StartTask(c) \/ FallBack(c)
         \/ Look(c) \/ Disconnect(c) \/ (TakeLock(c) /\ Fresh)
         \/ Find(c) \/ Encode(c) \/ FailEncode(c) \/ Keep(c) \/ Finish(c)
  PROVE  Aside
<1> USE DEF RegInv, Typed, PollsTyped, Goto, CollectingPCs, cacheVars
<1>1. UNCHANGED <<now, traffic, collectorVars, cache, cachedAt>>
  BY DEF Ask, AskJson, AskDirect, ProbeHit, ProbeMiss, StartTask, FallBack, Look,
         Disconnect, TakeLock, Find, Encode, FailEncode, Keep, Finish
<1>2. \A d \in Callers :
        pc[d] \in CollectingPCs \/ pc'[d] \in CollectingPCs => pc'[d] = pc[d]
  <2>1. CASE Ask(c) \/ ProbeMiss(c) \/ StartTask(c) \/ FallBack(c) \/ Disconnect(c)
    BY <2>1 DEF Ask, AskJson, AskDirect, ProbeMiss, StartTask, FallBack, TaskFails,
       Disconnect
  <2>2. CASE ProbeHit(c) \/ Look(c) \/ (TakeLock(c) /\ Fresh)
    BY <2>2 DEF ProbeHit, Look, TakeLock, Obtain
  <2>3. CASE Find(c) \/ Encode(c) \/ FailEncode(c) \/ Keep(c) \/ Finish(c)
    BY <2>3 DEF Find, Encode, FailEncode, Keep, Finish
  <2> QED
    BY <2>1, <2>2, <2>3
<1>3. Phase' = Phase
  BY <1>2, PhaseStays
<1> QED
  BY <1>1, <1>3 DEF Aside

\* The invariant says nothing of the polls but the phase.
LEMMA AsideKeepsPass ==
  ASSUME PassInv, Aside
  PROVE  PassInv'
BY DEF PassInv, Aside, collectorVars, StateTyped, PassTyped, ReadingsStamped, PassBegun,
   DraftYoung, HalvesRight, ProcessHalf, GapsExplained, RateIsTraffic, DeltasKept

\* Time passes.
LEMMA TickKeepsPass ==
  ASSUME PassInv, Tick
  PROVE  PassInv'
<1>1. /\ now' = now + 1 /\ now' \in Times
      /\ UNCHANGED <<traffic, fd, disk, processSeen, systemSeen, network, draft, past,
                     failures, cache, cachedAt>>
  BY CollectorAssumption
     DEF Tick, collectorVars, cacheVars, PassInv, StateTyped, Times
<1>2. Phase' = Phase
  BY DEF Tick, pollVars, Phase, At
<1>3. StateTyped'
  BY <1>1 DEF PassInv, StateTyped
<1>4. ReadingsStamped' /\ PassBegun'
  BY <1>1, <1>2, CollectorAssumption DEF PassInv, StateTyped, ReadingsStamped,
     PassBegun, Readings, Times, Never
<1>5. PassTyped' /\ DraftYoung' /\ HalvesRight' /\ DeltasKept'
  BY <1>1, <1>2 DEF PassInv, PassTyped, DraftYoung, HalvesRight, ProcessHalf,
     GapsExplained, RateIsTraffic, DeltasKept
<1> QED
  BY <1>3, <1>4, <1>5 DEF PassInv

\* Few readings fail in all, so the count stays within its bound.
LEMMA FailTyped ==
  ASSUME failures \in 0..MaxFailures, NEW failing, IsFiniteSet(failing), Fail(failing)
  PROVE  failures' \in 0..MaxFailures
<1>1. Cardinality(failing) \in Nat
  BY FS_CardinalityType
<1> QED
  BY <1>1, CollectorAssumption DEF Fail

\* The interfaces count bytes, or others take their place.
LEMMA NetworkKeepsPass ==
  ASSUME PassInv, Network
  PROVE  PassInv'
<1>1. /\ UNCHANGED <<now, fd, disk, processSeen, systemSeen, network, draft, past,
                     cache, cachedAt>>
      /\ UNCHANGED pc
  BY DEF Network, ReceiveByte, ChangeInterfaces, collectorVars, cacheVars, pollVars
<1>2. Phase' = Phase
  BY <1>1 DEF Phase, At
<1>3. failures' \in 0..MaxFailures
  <2>1. CASE ReceiveByte
    BY <2>1 DEF ReceiveByte, collectorVars, PassInv, StateTyped
  <2>2. CASE ChangeInterfaces
    BY <2>2, FailTyped, FS_Singleton DEF ChangeInterfaces, PassInv, StateTyped
  <2> QED
    BY <2>1, <2>2 DEF Network
<1>4. /\ traffic' \in Interfaces
      /\ traffic'.since # Changed =>
           network.seen /\ traffic'.bytes = network.bytes + traffic'.since
  <2>1. CASE ReceiveByte
    <3>1. /\ traffic \in [bytes : 0..MaxBytes, linked : BOOLEAN,
                         since : 0..MaxBytes \cup {Changed}]
          /\ network.bytes \in Nat /\ MaxBytes \in Nat
          /\ traffic.since # Changed =>
               network.seen /\ traffic.bytes = network.bytes + traffic.since
      BY CollectorAssumption DEF PassInv, StateTyped, Interfaces
    <3>2. /\ traffic.linked /\ traffic.bytes < MaxBytes
          /\ traffic' = [traffic EXCEPT !.bytes = traffic.bytes + 1,
               !.since = IF traffic.since = Changed THEN Changed ELSE traffic.since + 1]
      BY <2>1 DEF ReceiveByte
    <3>3. /\ traffic'.bytes = traffic.bytes + 1 /\ traffic'.linked
          /\ traffic'.since = IF traffic.since = Changed THEN Changed ELSE traffic.since + 1
          /\ traffic'.bytes \in 0..MaxBytes
      BY <3>1, <3>2
    <3>4. traffic'.since \in 0..MaxBytes \cup {Changed}
      BY <3>1, <3>2, <3>3 DEF Changed
    <3>5. traffic' \in Interfaces
      BY <3>1, <3>2, <3>3, <3>4 DEF Interfaces
    <3> QED
      BY <3>1, <3>3, <3>5 DEF Changed
  <2>2. CASE ChangeInterfaces
    BY <2>2 DEF ChangeInterfaces
  <2> QED
    BY <2>1, <2>2 DEF Network
<1>5. StateTyped'
  BY <1>1, <1>3, <1>4 DEF PassInv, StateTyped
<1>6. ReadingsStamped' /\ PassBegun'
  BY <1>1, <1>2 DEF PassInv, ReadingsStamped, PassBegun
<1>7. PassTyped' /\ DraftYoung' /\ HalvesRight' /\ DeltasKept'
  BY <1>1, <1>2 DEF PassInv, PassTyped, DraftYoung, HalvesRight, ProcessHalf,
     GapsExplained, RateIsTraffic, DeltasKept
<1> QED
  BY <1>5, <1>6, <1>7 DEF PassInv

-----------------------------------------------------------------------------
(* The four steps of a pass.                                               *)

\* The pass begins at a clock beyond the one the cached snapshot is stamped with.
LEMMA BeginKeepsPass ==
  ASSUME RegInv, PassInv, NEW c \in Callers, TakeLock(c), ~Fresh
  PROVE  PassInv'
<1>1. /\ ~Collecting /\ Goto(c, "process")
      /\ draft' = [EmptyDraft EXCEPT !.began = now]
      /\ UNCHANGED <<now, traffic, fd, disk, processSeen, systemSeen, network, past,
                     failures, cache, cachedAt>>
  BY DEF TakeLock, BeginPass, cacheVars
<1>2. Phase = "none" /\ Phase' = "process"
  <2>1. Phase = "none"
    BY <1>1, PhaseWhenIdle
  <2>2. \A d \in Callers \ {c} : pc[d] \notin CollectingPCs
    BY <1>1 DEF Collecting
  <2> QED
    BY <1>1, <2>1, <2>2, PhaseMoves DEF PCs, CollectingPCs
<1>3. /\ draft' = [began |-> now, got |-> {}, errors |-> {}, fd |-> Never,
                   disk |-> Never, rate |-> NoRate, since |-> Changed]
      /\ draft = EmptyDraft
  BY <1>1, <1>2 DEF EmptyDraft, PassInv, PassBegun
<1>4. now \in Nat /\ cachedAt \in Nat /\ Refresh \in Nat \ {0}
  BY CacheAssumption DEF RegInv, Typed
<1>5. StateTyped' /\ ReadingsStamped'
  BY <1>1 DEF PassInv, StateTyped, ReadingsStamped
<1>6. PassTyped'
  BY <1>1, <1>3, CollectorAssumption DEF PassInv, PassTyped, StateTyped
<1>7. PassBegun'
  <2>1. cache # NoSnap => cachedAt < now
    BY <1>4 DEF Fresh
  <2> QED
    BY <1>1, <1>2, <1>3, <1>4, <2>1 DEF PassBegun
<1>8. DraftYoung' /\ HalvesRight'
  BY <1>2, <1>3 DEF DraftYoung, HalvesRight
<1>9. DeltasKept'
  BY <1>1, <1>2, <1>3 DEF PassInv, DeltasKept, EmptyDraft
<1> QED
  BY <1>5, <1>6, <1>7, <1>8, <1>9 DEF PassInv

\* A reading that is used is stamped by now, and young when the pass began.
LEMMA KeptReading ==
  ASSUME now \in Times, NEW reading \in Readings, NEW ttl \in Nat \ {0},
         NEW fails \in BOOLEAN, NEW began \in 0..now,
         reading.at = reading.read, reading.at <= now
  PROVE  LET kept == Kept(reading, ttl, fails)
         IN /\ kept \in Readings /\ kept.at = kept.read /\ kept.at <= now
            /\ kept.read # Never /\ kept.read \in Times /\ began - kept.read < ttl
            /\ kept # reading /\ reading.read # Never => kept.read - reading.read >= ttl
<1>1. MaxTime \in Nat /\ now \in Nat /\ now <= MaxTime /\ began \in Nat /\ began <= now
  BY CollectorAssumption DEF Times
<1>2. reading.at \in Times \cup {Never}
  BY DEF Readings
<1>3. CASE reading.at # Never /\ now - reading.at < ttl
  <2>1. Kept(reading, ttl, fails) = reading
    BY <1>3 DEF Kept
  <2>2. reading.read \in Nat /\ began - reading.read <= now - reading.read
    BY <1>1, <1>2, <1>3 DEF Times
  <2> QED
    BY <1>1, <1>2, <1>3, <2>1, <2>2 DEF Times
<1>4. CASE ~(reading.at # Never /\ now - reading.at < ttl)
  <2>1. Kept(reading, ttl, fails) = [at |-> now, read |-> now, ok |-> ~fails]
    BY <1>4 DEF Kept
  <2>2. now # Never /\ began - now < ttl
    BY <1>1 DEF Never
  <2>3. reading.read # Never => now - reading.read >= ttl
    BY <1>1, <1>2, <1>4 DEF Times
  <2> QED
    BY <1>1, <2>1, <2>2, <2>3 DEF Readings
<1> QED
  BY <1>3, <1>4

LEMMA SourcesFinite ==
  /\ IsFiniteSet({"process"})
  /\ \A failing \in SUBSET ProcessSources : IsFiniteSet(failing)
  /\ \A failing \in SUBSET SystemSources : IsFiniteSet(failing)
<1>1. IsFiniteSet({"process"})
  BY FS_Singleton
<1>2. IsFiniteSet({"process.threads"} \cup {"process.descriptors"})
  BY FS_Singleton, FS_Union
<1>3. IsFiniteSet({"system.memory"} \cup {"system.disk"})
  BY FS_Singleton, FS_Union
<1>4. IsFiniteSet(ProcessSources)
  <2>1. ProcessSources = {"process.threads"} \cup {"process.descriptors"}
    BY DEF ProcessSources
  <2> QED
    BY <1>2, <2>1
<1>5. IsFiniteSet(SystemSources)
  <2>1. SystemSources = {"system.memory"} \cup {"system.disk"}
    BY DEF SystemSources
  <2> QED
    BY <1>3, <2>1
<1> QED
  BY <1>1, <1>4, <1>5, FS_Subset

LEMMA PhaseAdvances ==
  ASSUME RegInv, NEW c \in Callers, pc[c] \in CollectingPCs, NEW label \in PCs,
         Goto(c, label)
  PROVE  Phase = pc[c] /\ Phase' = IF label \in CollectingPCs THEN label ELSE "none"
<1>1. \A d \in Callers \ {c} : pc[d] \notin CollectingPCs
  BY DEF RegInv, LockRight
<1> QED
  BY <1>1, PhaseOfPass, PhaseMoves

\* The process is not found: its metrics have no value and are named.
LEMMA MissKeepsPass ==
  ASSUME PassInv, MissProcess, Phase = "process", Phase' = "system",
         UNCHANGED <<now, traffic, cache, cachedAt>>
  PROVE  PassInv'
<1>1. /\ draft' = [draft EXCEPT !.errors = @ \cup ProcessMetrics]
      /\ UNCHANGED <<now, traffic, fd, disk, processSeen, systemSeen, network, past,
                     cache, cachedAt>>
      /\ Fail({"process"})
  BY DEF MissProcess
<1>2. /\ draft'.errors = ProcessMetrics /\ draft'.got = {} /\ draft.got = {}
      /\ draft'.began = draft.began /\ draft'.fd = draft.fd /\ draft'.disk = draft.disk
  BY <1>1 DEF PassInv, PassTyped, HalvesRight
<1>3. failures' \in 0..MaxFailures
  BY <1>1, FailTyped, SourcesFinite DEF PassInv, StateTyped
<1>4. StateTyped' /\ ReadingsStamped'
  BY <1>1, <1>3 DEF PassInv, StateTyped, ReadingsStamped
<1>5. PassTyped'
  BY <1>1 DEF PassInv, PassTyped, Metrics
<1>6. PassBegun' /\ DraftYoung'
  BY <1>1, <1>2 DEF PassInv, PassBegun, DraftYoung
<1>7. HalvesRight'
  BY <1>2 DEF HalvesRight, ProcessHalf
<1>8. DeltasKept'
  BY <1>1, <1>2 DEF PassInv, DeltasKept
<1> QED
  BY <1>4, <1>5, <1>6, <1>7, <1>8 DEF PassInv

\* What has no value failed, or is a difference that has nothing to start from.
LEMMA ProcessKeepsPass ==
  ASSUME PassInv, NEW failing \in SUBSET ProcessSources, CollectProcess(failing),
         Phase = "process", Phase' = "system", UNCHANGED <<now, traffic, cache, cachedAt>>
  PROVE  PassInv'
<1> DEFINE reading == Kept(fd, FdTtl, "process.descriptors" \in failing)
           errors == (failing \cap {"process.threads"}) \cup Named("process.descriptors", reading)
           missing == (failing \cap {"process.threads"})
                        \cup IF reading.ok THEN {} ELSE {"process.descriptors"}
           first == IF processSeen THEN {} ELSE {"process.cpu"}
<1>1. /\ draft' = [draft EXCEPT
           !.errors = @ \cup (failing \cap {"process.threads"})
                        \cup Named("process.descriptors", reading),
           !.got = ProcessMetrics \ (missing \cup first),
           !.fd = reading.read]
      /\ fd' = reading /\ processSeen' = TRUE
      /\ UNCHANGED <<now, traffic, disk, systemSeen, network, past, cache, cachedAt>>
      /\ Fail(failing)
  BY DEF CollectProcess
<1>2. /\ reading \in Readings /\ reading.at = reading.read /\ reading.at <= now
      /\ reading.read # Never /\ reading.read \in Times
      /\ draft.began - reading.read < FdTtl
  <2>1. /\ now \in Times /\ fd \in Readings /\ fd.at = fd.read /\ fd.at <= now
        /\ draft.began \in 0..now /\ FdTtl \in Nat \ {0}
        /\ ("process.descriptors" \in failing) \in BOOLEAN
    BY CollectorAssumption DEF PassInv, StateTyped, ReadingsStamped, PassBegun
  <2> QED
    BY <2>1, KeptReading
<1>3. errors = missing
  BY DEF Named
<1> HIDE DEF reading, errors, missing, first
<1>4. /\ draft'.errors = missing /\ draft'.got = ProcessMetrics \ (missing \cup first)
      /\ draft'.began = draft.began /\ draft'.fd = reading.read
      /\ draft'.disk = draft.disk /\ draft.got = {}
  BY <1>1, <1>3 DEF PassInv, PassTyped, HalvesRight, errors
<1>5. missing \subseteq {"process.threads", "process.descriptors"}
      /\ first \subseteq {"process.cpu"} /\ (processSeen => first = {})
  BY DEF missing, first
<1>6. failures' \in 0..MaxFailures
  BY <1>1, FailTyped, SourcesFinite DEF PassInv, StateTyped
<1>7. StateTyped' /\ ReadingsStamped'
  BY <1>1, <1>2, <1>6 DEF PassInv, StateTyped, ReadingsStamped
<1>8. PassTyped'
  <2>1. draft'.errors \subseteq Metrics /\ draft'.got \subseteq Metrics
    BY <1>4, <1>5 DEF Metrics, ProcessMetrics
  <2>2. draft' = [draft EXCEPT !.errors = draft'.errors, !.got = draft'.got,
                               !.fd = reading.read]
    BY <1>1, <1>4 DEF PassInv, PassTyped
  <2> QED
    BY <1>1, <1>2, <2>1, <2>2 DEF PassInv, PassTyped
<1>9. PassBegun' /\ DraftYoung'
  BY <1>1, <1>2, <1>4 DEF PassInv, PassBegun, DraftYoung
<1>10. HalvesRight'
  <2>1. first \cap past.sources = {} \/ processSeen
    BY <1>4 DEF PassInv, DeltasKept, first
  <2>2. first \subseteq Deltas \ past.sources
    BY <1>5, <2>1 DEF Deltas
  <2>3. ProcessHalf'
    BY <1>1, <1>4, <1>5, <2>2 DEF ProcessHalf, ProcessMetrics
  <2> QED
    BY <2>3 DEF HalvesRight
<1>11. DeltasKept'
  <2>1. "process.memory" \in draft'.got
    BY <1>4, <1>5 DEF ProcessMetrics
  <2> QED
    BY <1>1, <2>1 DEF PassInv, DeltasKept
<1> QED
  BY <1>7, <1>8, <1>9, <1>10, <1>11 DEF PassInv

\* The network rate: it has a value exactly when an earlier pass read the counters
\* and they have not gone backwards, since this pass began later than that one.
LEMMA RateFromCounters ==
  ASSUME PassInv, Phase = "system"
  PROVE  LET rate == RateSince(network, traffic.bytes)
         IN /\ rate \in Rates \cup {NoRate}
            /\ rate = NoRate <=> (cache = NoSnap \/ traffic.bytes < network.bytes)
            /\ rate # NoRate => rate \in Rates /\
                 rate = [bytes |-> traffic.bytes - network.bytes,
                         over |-> draft.began - past.began]
<1>1. /\ draft.began \in Nat /\ network.at \in Nat /\ network.bytes \in Nat
      /\ traffic.bytes \in Nat /\ cachedAt \in Nat /\ MaxBytes \in Nat
  BY CollectorAssumption DEF PassInv, PassBegun, StateTyped, Times, Interfaces
<1>2. network.seen <=> cache # NoSnap
  BY DEF PassInv, DeltasKept
<1>3. cache # NoSnap => /\ network.at = past.began
                        /\ network.at <= cachedAt /\ cachedAt < draft.began
  BY DEF PassInv, PassBegun, DeltasKept
<1>4. CASE cache = NoSnap \/ traffic.bytes < network.bytes
  BY <1>2, <1>3, <1>4 DEF RateSince
<1>5. CASE ~(cache = NoSnap \/ traffic.bytes < network.bytes)
  <2> DEFINE rate == [bytes |-> traffic.bytes - network.bytes,
                      over |-> draft.began - past.began]
  <2>1. RateSince(network, traffic.bytes) = rate
    BY <1>1, <1>2, <1>3, <1>5 DEF RateSince
  <2>2. traffic.bytes - network.bytes \in Nat /\ draft.began - past.began \in Nat \ {0}
    BY <1>1, <1>3, <1>5
  <2>3. rate \in Rates
    BY <2>2 DEF Rates
  <2>4. rate # NoRate
    BY <2>2 DEF NoRate, Never
  <2> QED
    BY <1>5, <2>1, <2>3, <2>4
<1> QED
  BY <1>4, <1>5

\* The second half explains its own gaps and keeps the explanations of the first.
LEMMA SystemKeepsPass ==
  ASSUME PassInv, NEW failing \in SUBSET SystemSources, CollectSystem(failing),
         Phase = "system", Phase' = "store", UNCHANGED <<now, cache, cachedAt>>
  PROVE  PassInv'
<1> DEFINE reading == Kept(disk, DiskTtl, "system.disk" \in failing)
           rate == RateSince(network, traffic.bytes)
           unlinked == IF traffic.linked THEN {} ELSE {"system.network"}
           errors == (failing \cap {"system.memory"})
                       \cup Named("system.disk", reading) \cup unlinked
           missing == (failing \cap {"system.memory"})
                        \cup (IF reading.ok THEN {} ELSE {"system.disk"})
                        \cup IF rate # NoRate THEN {} ELSE {"system.network"}
           first == IF systemSeen THEN {} ELSE {"system.cpu"}
           got == SystemMetrics \ (missing \cup first)
<1>1. /\ draft' = [draft EXCEPT
           !.errors = @ \cup (failing \cap {"system.memory"})
                        \cup Named("system.disk", reading) \cup unlinked,
           !.got = @ \cup got, !.disk = reading.read, !.rate = rate,
           !.since = traffic.since]
      /\ disk' = reading /\ systemSeen' = TRUE
      /\ network' = [seen |-> TRUE, bytes |-> traffic.bytes, at |-> draft.began]
      /\ traffic' = [traffic EXCEPT !.since = 0]
      /\ UNCHANGED <<now, fd, processSeen, past, cache, cachedAt>>
      /\ Fail(failing)
  BY DEF CollectSystem, NetworkNow
<1>2. /\ reading \in Readings /\ reading.at = reading.read /\ reading.at <= now
      /\ reading.read # Never /\ reading.read \in Times
      /\ draft.began - reading.read < DiskTtl
  <2>1. /\ now \in Times /\ disk \in Readings /\ disk.at = disk.read /\ disk.at <= now
        /\ draft.began \in 0..now /\ DiskTtl \in Nat \ {0}
        /\ ("system.disk" \in failing) \in BOOLEAN
    BY CollectorAssumption DEF PassInv, StateTyped, ReadingsStamped, PassBegun
  <2> QED
    BY <2>1, KeptReading
<1>3. /\ traffic.bytes \in Nat /\ network.bytes \in Nat /\ MaxBytes \in Nat
      /\ traffic.bytes \in 0..MaxBytes
      /\ traffic.linked \in BOOLEAN /\ (~traffic.linked => traffic.bytes = 0)
      /\ traffic.since \in 0..MaxBytes \cup {Changed}
      /\ traffic.since # Changed => traffic.bytes = network.bytes + traffic.since
  BY CollectorAssumption DEF PassInv, StateTyped, Interfaces
<1>4. /\ rate \in Rates \cup {NoRate}
      /\ rate = NoRate <=> (cache = NoSnap \/ traffic.bytes < network.bytes)
      /\ rate # NoRate => rate \in Rates /\
           rate = [bytes |-> traffic.bytes - network.bytes,
                   over |-> draft.began - past.began]
  BY RateFromCounters
<1>5. /\ "system.memory" \in missing <=> "system.memory" \in failing
      /\ "system.disk" \in missing <=> ~reading.ok
      /\ "system.network" \in missing <=> rate = NoRate
      /\ missing \subseteq {"system.memory", "system.disk", "system.network"}
  OBVIOUS
<1>6. /\ "system.memory" \in errors <=> "system.memory" \in failing
      /\ "system.disk" \in errors <=> ~reading.ok
      /\ "system.network" \in errors <=> ~traffic.linked
      /\ errors \subseteq {"system.memory", "system.disk", "system.network"}
  BY DEF Named
<1>7. first \subseteq {"system.cpu"} /\ (first = {} \/ ~systemSeen)
  OBVIOUS
<1>8. /\ draft'.errors = draft.errors \cup errors /\ draft'.got = draft.got \cup got
      /\ draft'.began = draft.began /\ draft'.fd = draft.fd
      /\ draft'.disk = reading.read /\ draft'.rate = rate /\ draft'.since = traffic.since
  BY <1>1 DEF PassInv, PassTyped
<1> HIDE DEF reading, rate, unlinked, errors, missing, first
<1>9. ProcessHalf /\ draft.began \in 0..now
  BY DEF PassInv, HalvesRight, PassBegun
<1>10. /\ cache # NoSnap => systemSeen
       /\ "system.cpu" \in past.sources <=> cache # NoSnap
       /\ "system.network" \in past.sources <=> cache # NoSnap
  BY DEF PassInv, DeltasKept
<1>11. failures' \in 0..MaxFailures
  BY <1>1, FailTyped, SourcesFinite DEF PassInv, StateTyped
<1>12. StateTyped' /\ ReadingsStamped'
  <2>1. network' \in [seen : BOOLEAN, bytes : 0..MaxBytes, at : Times]
    <3>1. draft.began \in Times
      BY <1>9, CollectorAssumption DEF PassInv, StateTyped, Times
    <3> QED
      BY <1>1, <1>3, <3>1
  <2>2. /\ traffic' \in Interfaces /\ traffic'.since = 0
        /\ traffic'.bytes = traffic.bytes
    BY <1>1, CollectorAssumption DEF PassInv, StateTyped, Interfaces
  <2>3. network'.seen /\ traffic'.bytes = network'.bytes + traffic'.since
    BY <1>1, <1>3, <2>2
  <2> QED
    BY <1>1, <1>2, <1>11, <2>1, <2>2, <2>3 DEF PassInv, StateTyped, ReadingsStamped
<1>13. PassTyped'
  <2>1. draft'.errors \subseteq Metrics /\ draft'.got \subseteq Metrics
    BY <1>6, <1>8, <1>9 DEF ProcessHalf, Metrics, SystemMetrics
  <2>2. draft' = [draft EXCEPT !.errors = draft'.errors, !.got = draft'.got,
                    !.disk = reading.read, !.rate = rate, !.since = traffic.since]
    BY <1>1, <1>8 DEF PassInv, PassTyped
  <2> QED
    BY <1>1, <1>2, <1>3, <1>4, <2>1, <2>2 DEF PassInv, PassTyped
<1>14. PassBegun' /\ DraftYoung'
  BY <1>1, <1>2, <1>8 DEF PassInv, PassBegun, DraftYoung
<1>15. GapsExplained'
  <2>1. ASSUME NEW m \in Metrics \ draft'.got
        PROVE  \/ m \in draft'.errors
               \/ m \in Deltas \ past.sources
               \/ m = "system.network" /\ draft'.since = Changed
    <3>1. CASE m \in ProcessMetrics
      BY <1>8, <1>9, <2>1, <3>1 DEF ProcessHalf
    <3>2. CASE m \in SystemMetrics
      <4>1. m \in missing \cup first
        BY <1>8, <2>1, <3>2
      <4>2. CASE m = "system.cpu"
        BY <1>5, <1>7, <1>10, <4>1, <4>2 DEF Deltas
      <4>3. CASE m = "system.network"
        <5>1. cache = NoSnap \/ traffic.bytes < network.bytes
          BY <1>4, <1>5, <1>7, <4>1, <4>3
        <5>2. cache = NoSnap \/ traffic.since = Changed
          BY <1>3, <5>1
        <5> QED
          BY <1>8, <1>10, <4>3, <5>2 DEF Deltas
      <4>4. CASE m \in {"system.memory", "system.disk"}
        BY <1>5, <1>6, <1>7, <1>8, <4>1, <4>4
      <4> QED
        BY <3>2, <4>2, <4>3, <4>4 DEF SystemMetrics
    <3> QED
      BY <2>1, <3>1, <3>2 DEF Metrics
  <2>2. ASSUME NEW m \in draft'.got \cap draft'.errors
        PROVE  m = "system.network" /\ draft'.rate.bytes = 0
    <3>1. m = "system.network" /\ rate # NoRate /\ ~traffic.linked
      BY <1>5, <1>6, <1>8, <1>9, <2>2 DEF ProcessHalf, ProcessMetrics, SystemMetrics
    <3>2. rate.bytes = traffic.bytes - network.bytes /\ traffic.bytes = 0
          /\ ~(traffic.bytes < network.bytes)
      BY <1>3, <1>4, <3>1
    <3> QED
      BY <1>3, <1>8, <3>1, <3>2
  <2> QED
    BY <1>1, <2>1, <2>2 DEF GapsExplained
<1>16. RateIsTraffic'
  <2> SUFFICES ASSUME "system.network" \in past.sources, traffic.since # Changed
               PROVE  rate \in Rates /\ rate = [bytes |-> traffic.since,
                                               over |-> draft.began - past.began]
    BY <1>1, <1>8 DEF RateIsTraffic
  <2>1. rate # NoRate /\ traffic.bytes - network.bytes = traffic.since
    BY <1>3, <1>4, <1>10 DEF Changed
  <2> QED
    BY <1>4, <2>1
<1>17. DeltasKept'
  <2>1. "process.memory" \in draft'.got <=> "process.memory" \in draft.got
    BY <1>8 DEF SystemMetrics
  <2> QED
    BY <1>1, <1>8, <2>1 DEF PassInv, DeltasKept
<1> QED
  BY <1>12, <1>13, <1>14, <1>15, <1>16, <1>17 DEF PassInv, HalvesRight

\* The pass becomes the past when its snapshot is cached.
LEMMA EndKeepsPass ==
  ASSUME PassInv, EndPass, Phase = "store", Phase' = "none",
         cache' # NoSnap, cachedAt' = now, UNCHANGED <<now, traffic>>
  PROVE  PassInv'
<1>1. /\ draft' = EmptyDraft
      /\ past' = [sources |-> past.sources \cup {"system.cpu", "system.network"}
                    \cup IF "process.memory" \in draft.got THEN {"process.cpu"} ELSE {},
                  began |-> draft.began]
      /\ UNCHANGED <<now, traffic, fd, disk, processSeen, systemSeen, network, failures>>
  BY DEF EndPass
<1>2. /\ draft.began \in Nat /\ draft.began <= now /\ systemSeen
      /\ network.seen /\ network.at = draft.began
  BY DEF PassInv, PassBegun, DeltasKept, StateTyped, Times
<1>3. /\ past'.sources = past.sources \cup {"system.cpu", "system.network"}
                    \cup IF "process.memory" \in draft.got THEN {"process.cpu"} ELSE {}
      /\ past'.began = draft.began
  BY <1>1
<1>4. StateTyped' /\ ReadingsStamped'
  BY <1>1 DEF PassInv, StateTyped, ReadingsStamped
<1>5. PassTyped'
  <2>1. draft' \in [began : Times \cup {Never}, got : SUBSET Metrics,
                    errors : SUBSET Metrics, fd : Times \cup {Never},
                    disk : Times \cup {Never}, rate : Rates \cup {NoRate},
                    since : 0..MaxBytes \cup {Changed}]
    BY <1>1, CollectorAssumption DEF EmptyDraft
  <2>2. past'.sources \subseteq Deltas
    BY <1>3 DEF PassInv, PassTyped, Deltas
  <2> QED
    BY <1>1, <1>3, <2>1, <2>2 DEF PassInv, PassTyped
<1>6. PassBegun' /\ DraftYoung' /\ HalvesRight'
  BY <1>1 DEF PassBegun, DraftYoung, HalvesRight, EmptyDraft
<1>7. DeltasKept'
  <2>1. "process.cpu" \in past'.sources => processSeen
    BY <1>3 DEF PassInv, DeltasKept
  <2>2. "process.memory" \notin draft'.got
    BY <1>1 DEF EmptyDraft
  <2> QED
    BY <1>1, <1>2, <1>3, <2>1, <2>2 DEF DeltasKept
<1> QED
  BY <1>4, <1>5, <1>6, <1>7 DEF PassInv

\* A pass that panics is as if it had not been, but for the disk reading it may have
\* taken and the CPU figures it may have started.
LEMMA PanicKeepsPass ==
  ASSUME PassInv, Phase \in {"process", "system"}, Phase' = "none",
         AbandonProcess \/ AbandonSystem, UNCHANGED <<now, traffic, cache, cachedAt>>
  PROVE  PassInv'
<1>1. /\ draft' = EmptyDraft
      /\ processSeen' \in BOOLEAN /\ (processSeen => processSeen')
      /\ systemSeen' \in BOOLEAN /\ (systemSeen => systemSeen')
      /\ UNCHANGED <<now, traffic, fd, network, past, failures, cache, cachedAt>>
  BY DEF AbandonProcess, AbandonSystem, PassInv, StateTyped
<1>2. disk' \in Readings /\ disk'.at = disk'.read /\ disk'.at <= now
  <2>1. CASE disk' = disk
    BY <2>1 DEF PassInv, StateTyped, ReadingsStamped
  <2>2. CASE \E fails \in BOOLEAN : disk' = Kept(disk, DiskTtl, fails)
    <3>1. /\ now \in Times /\ disk \in Readings /\ disk.at = disk.read /\ disk.at <= now
          /\ draft.began \in 0..now /\ DiskTtl \in Nat \ {0}
      BY CollectorAssumption DEF PassInv, StateTyped, ReadingsStamped, PassBegun
    <3> QED
      BY <2>2, <3>1, KeptReading
  <2> QED
    BY <2>1, <2>2 DEF AbandonProcess, AbandonSystem
<1>3. StateTyped' /\ ReadingsStamped'
  BY <1>1, <1>2 DEF PassInv, StateTyped, ReadingsStamped
<1>4. PassTyped'
  <2>1. draft' \in [began : Times \cup {Never}, got : SUBSET Metrics,
                    errors : SUBSET Metrics, fd : Times \cup {Never},
                    disk : Times \cup {Never}, rate : Rates \cup {NoRate},
                    since : 0..MaxBytes \cup {Changed}]
    BY <1>1, CollectorAssumption DEF EmptyDraft
  <2> QED
    BY <1>1, <2>1 DEF PassInv, PassTyped
<1>5. PassBegun' /\ DraftYoung' /\ HalvesRight'
  BY <1>1 DEF PassBegun, DraftYoung, HalvesRight, EmptyDraft
<1>6. DeltasKept'
  <2>1. "process.memory" \notin draft'.got
    BY <1>1 DEF EmptyDraft
  <2> QED
    BY <1>1, <2>1 DEF PassInv, DeltasKept
<1> QED
  BY <1>3, <1>4, <1>5, <1>6 DEF PassInv

-----------------------------------------------------------------------------
(* The theorems.                                                           *)

LEMMA PassInit == Init => PassInv
<1> SUFFICES ASSUME Init PROVE PassInv
  OBVIOUS
<1>1. Phase = "none" /\ cache = NoSnap
  BY PhaseWhenIdle DEF Init, Collecting, CollectingPCs
<1>2. /\ 0 \in Times /\ 0 \in 0..MaxBytes /\ 0 \in 0..MaxFailures
  BY CollectorAssumption DEF Times
<1>3. StateTyped /\ ReadingsStamped
  <2>1. NoReading \in Readings /\ NoReading.at = NoReading.read /\ NoReading.at <= 0
    BY DEF Readings, NoReading, Never
  <2>2. /\ network \in [seen : BOOLEAN, bytes : 0..MaxBytes, at : Times]
        /\ traffic \in Interfaces /\ traffic.since = Changed
    BY <1>2 DEF Init, CollectorInit, Interfaces, NoInterface
  <2> QED
    BY <1>2, <2>1, <2>2 DEF Init, CollectorInit, StateTyped, ReadingsStamped
<1>4. PassTyped
  BY <1>2 DEF Init, CollectorInit, PassTyped, EmptyDraft
<1>5. PassBegun /\ DraftYoung /\ HalvesRight /\ DeltasKept
  BY <1>1 DEF Init, CollectorInit, PassBegun, DraftYoung, HalvesRight, DeltasKept, EmptyDraft
<1> QED
  BY <1>3, <1>4, <1>5 DEF PassInv

LEMMA PassKept == RegInv /\ PassInv /\ [Next]_vars => PassInv'
<1> SUFFICES ASSUME RegInv, PassInv, [Next]_vars PROVE PassInv'
  OBVIOUS
<1>1. CASE Tick
  BY <1>1, TickKeepsPass
<1>2. CASE Network
  BY <1>2, NetworkKeepsPass
<1>3. CASE LosePool \/ UNCHANGED vars
  BY <1>3, AsideKeepsPass DEF LosePool, vars, pollVars, cacheVars, Aside, Phase, At
<1>4. ASSUME NEW c \in Callers,
             Ask(c) \/ Step(c) \/ Look(c) \/ TakeLock(c) \/ Disconnect(c) \/ Panic(c)
      PROVE  PassInv'
  <2>1. CASE ReadProcess(c)
    <3>1. pc[c] = "process" /\ Goto(c, "system") /\ UNCHANGED <<now, traffic, cache, cachedAt>>
      BY <2>1 DEF ReadProcess, cacheVars
    <3>2. Phase = "process" /\ Phase' = "system"
      BY <3>1, PhaseAdvances DEF PCs, CollectingPCs
    <3> QED
      BY <2>1, <3>1, <3>2, MissKeepsPass, ProcessKeepsPass DEF ReadProcess
  <2>2. CASE ReadSystem(c)
    <3>1. pc[c] = "system" /\ Goto(c, "store") /\ UNCHANGED <<now, cache, cachedAt>>
      BY <2>2 DEF ReadSystem, cacheVars
    <3>2. Phase = "system" /\ Phase' = "store"
      BY <3>1, PhaseAdvances DEF PCs, CollectingPCs
    <3> QED
      BY <2>2, <3>1, <3>2, SystemKeepsPass DEF ReadSystem
  <2>3. CASE Store(c)
    <3>1. /\ pc[c] = "store" /\ EndPass /\ cache' = Allocated /\ cachedAt' = now
          /\ Goto(c, IF on[c] = "caller" THEN "done" ELSE "find")
          /\ UNCHANGED <<now, traffic>>
      BY <2>3 DEF Store, Obtain
    <3>2. Phase = "store" /\ Phase' = "none"
      BY <3>1, PhaseAdvances DEF PCs, CollectingPCs
    <3>3. snap[c] = NoSnap
      BY <3>1 DEF RegInv, PollsRight, HoldingPCs
    <3>4. cache' # NoSnap
      BY <3>1, <3>3, AllocatedIsFree, NoSnapNoAddress
    <3> QED
      BY <3>1, <3>2, <3>4, EndKeepsPass
  <2>4. CASE TakeLock(c) /\ ~Fresh
    BY <2>4, BeginKeepsPass
  <2>5. CASE Panic(c)
    <3> DEFINE label == IF on[c] \in {"worker", "pool"} THEN "look" ELSE "idle"
    <3>1. /\ pc[c] \in {"process", "system"} /\ Goto(c, label)
          /\ AbandonProcess \/ AbandonSystem
          /\ UNCHANGED <<now, traffic, cache, cachedAt>>
      BY <2>5 DEF Panic, TaskFails, cacheVars
    <3>2. label \in PCs /\ label \notin CollectingPCs
      BY DEF PCs, CollectingPCs
    <3> HIDE DEF label
    <3>3. Phase \in {"process", "system"} /\ Phase' = "none"
      BY <3>1, <3>2, PhaseAdvances DEF CollectingPCs
    <3> QED
      BY <3>1, <3>3, PanicKeepsPass
  <2>6. CASE ~(ReadProcess(c) \/ ReadSystem(c) \/ Store(c) \/ Panic(c)
                 \/ (TakeLock(c) /\ ~Fresh))
    BY <1>4, <2>6, StepsAside, AsideKeepsPass DEF Step
  <2> QED
    BY <2>1, <2>2, <2>3, <2>4, <2>5, <2>6
<1> QED
  BY <1>1, <1>2, <1>3, <1>4 DEF Next

\* The phase is what the properties look at.
LEMMA PassOverIsPhase ==
  ASSUME RegInv
  PROVE  PassOver <=> Phase = "store"
<1>1. ASSUME PassOver PROVE Phase = "store"
  BY <1>1, PhaseOfPass DEF PassOver, CollectingPCs
<1>2. ASSUME Phase = "store" PROVE PassOver
  BY <1>2 DEF Phase, At, PassOver
<1> QED
  BY <1>1, <1>2

LEMMA PassAlways == Spec => [](RegInv /\ PassInv)
<1>1. Init => RegInv /\ PassInv
  BY RegInit, PassInit
<1>2. RegInv /\ PassInv /\ [Next]_vars => RegInv' /\ PassInv'
  BY RegKept, PassKept
<1> QED
  BY <1>1, <1>2, PTL DEF Spec

PoolKnown == poolGone \in BOOLEAN /\ panics \in 0..MaxPanics

LEMMA PoolAlwaysKnown == Spec => []PoolKnown
<1>1. Init => PoolKnown
  <2>1. 0 \in 0..MaxPanics
    BY CacheAssumption
  <2>2. Init => poolGone \in BOOLEAN /\ panics = 0
    BY DEF Init
  <2> QED
    BY <2>1, <2>2 DEF PoolKnown
<1>2. PoolKnown /\ [Next]_vars => PoolKnown'
  <2>1. ASSUME NEW c \in Callers,
               Ask(c) \/ Step(c) \/ Look(c) \/ TakeLock(c) \/ Disconnect(c) \/ Panic(c)
        PROVE  /\ poolGone' = poolGone
               /\ panics' = panics \/ (panics < MaxPanics /\ panics' = panics + 1)
    BY <2>1 DEF Ask, AskJson, AskDirect, Step, ProbeHit, ProbeMiss, StartTask, FallBack,
       ReadProcess, ReadSystem, Store, Find, Encode, FailEncode, Keep, Finish, Look,
       TakeLock, Disconnect, Panic, poolVars
  <2>2. CASE Tick \/ Network \/ UNCHANGED vars
    BY <2>2 DEF Tick, Network, vars, poolVars, PoolKnown
  <2>3. CASE LosePool
    BY <2>3 DEF LosePool, PoolKnown
  <2>4. MaxPanics \in Nat
    BY CacheAssumption
  <2> QED
    BY <2>1, <2>2, <2>3, <2>4 DEF Next, PoolKnown
<1> QED
  BY <1>1, <1>2, PTL DEF Spec

\* Every variable of the cache, the polls and the collector keeps its type: a rate
\* is over a positive time and never negative, though nothing in network_rates
\* compares the two passes by more than the clock.
THEOREM CacheTypeCorrect == Spec => []TypeOK
<1>1. RegInv /\ PassInv /\ PoolKnown => TypeOK
  <2> SUFFICES ASSUME RegInv, PassInv, PoolKnown PROVE TypeOK
    OBVIOUS
  <2>1. /\ draft.began \in Times \cup {Never} /\ draft.got \subseteq Metrics
        /\ draft.errors \subseteq Metrics /\ draft.fd \in Times \cup {Never}
        /\ draft.disk \in Times \cup {Never} /\ draft.rate \in Rates \cup {NoRate}
        /\ past.sources \subseteq Deltas
    BY DEF PassInv, PassTyped
  <2>2. CollectorTypeOK
    BY <2>1 DEF PassInv, StateTyped, CollectorTypeOK
  <2> QED
    BY <2>2 DEF PoolKnown, RegInv, Typed, PollsTyped, PassInv, StateTyped, TypeOK
<1> QED
  BY <1>1, PassAlways, PoolAlwaysKnown, PTL

\* Whatever sources fail, in whichever passes, and whatever becomes of the network
\* interfaces, a metric of a finished snapshot has no value only if its error is
\* listed, or no earlier pass could start its difference, or the interfaces have
\* changed since the pass before; and what is listed has none but the network rate
\* of 0 (collect_process, collect_system, network_rates).
THEOREM GapsAlwaysNamed == Spec => []GapsNamed
<1>1. RegInv /\ PassInv => GapsNamed
  BY PassOverIsPhase DEF PassInv, HalvesRight, GapsNamed
<1> QED
  BY <1>1, PassAlways, PTL

\* Between two consecutive passes without a change of the interfaces there is a
\* network rate, over a positive time, and it is what the interfaces received,
\* since what network_rates compares with is always the pass before, whatever
\* failed or changed in it.
THEOREM RatesAlwaysRight == Spec => []RatesRight
<1>1. RegInv /\ PassInv => RatesRight
  BY PassOverIsPhase DEF PassInv, HalvesRight, RatesRight
<1> QED
  BY <1>1, PassAlways, PTL

\* A step that reads a costly source again does so after its time to live.
LEMMA SourcesSpaced == RegInv /\ PassInv /\ [Next]_vars => ReadingsSpaced
<1> SUFFICES ASSUME RegInv, PassInv, [Next]_vars PROVE ReadingsSpaced
  OBVIOUS
<1>1. /\ now \in Times /\ fd \in Readings /\ disk \in Readings
      /\ FdTtl \in Nat \ {0} /\ DiskTtl \in Nat \ {0} /\ 0 \in 0..now
      /\ fd.at = fd.read /\ fd.at <= now /\ disk.at = disk.read /\ disk.at <= now
  BY CollectorAssumption DEF PassInv, StateTyped, ReadingsStamped, Times
<1>2. CASE UNCHANGED <<fd, disk>>
  BY <1>2 DEF ReadingsSpaced
<1>3. ASSUME NEW failing, CollectProcess(failing) PROVE ReadingsSpaced
  <2>1. fd' = Kept(fd, FdTtl, "process.descriptors" \in failing) /\ disk' = disk
    BY <1>3 DEF CollectProcess
  <2>2. ("process.descriptors" \in failing) \in BOOLEAN
    OBVIOUS
  <2> QED
    BY <1>1, <2>1, <2>2, KeptReading DEF ReadingsSpaced
<1>4. ASSUME NEW failing, CollectSystem(failing) PROVE ReadingsSpaced
  <2>1. disk' = Kept(disk, DiskTtl, "system.disk" \in failing) /\ fd' = fd
    BY <1>4 DEF CollectSystem
  <2>2. ("system.disk" \in failing) \in BOOLEAN
    OBVIOUS
  <2> QED
    BY <1>1, <2>1, <2>2, KeptReading DEF ReadingsSpaced
<1>5. CASE Tick \/ Network \/ LosePool \/ UNCHANGED vars
  BY <1>2, <1>5 DEF Tick, Network, ReceiveByte, ChangeInterfaces, LosePool, vars,
     collectorVars
<1>6. ASSUME NEW c \in Callers,
             Ask(c) \/ Step(c) \/ Look(c) \/ TakeLock(c) \/ Disconnect(c) \/ Panic(c)
      PROVE  ReadingsSpaced
  <2>1. CASE ReadProcess(c)
    BY <1>2, <1>3, <2>1 DEF ReadProcess, MissProcess
  <2>2. CASE ReadSystem(c)
    BY <1>4, <2>2 DEF ReadSystem
  <2>3. CASE Store(c) \/ (TakeLock(c) /\ ~Fresh)
    BY <1>2, <2>3 DEF Store, EndPass, TakeLock, BeginPass
  <2>4. CASE Panic(c)
    <3>1. fd' = fd
      BY <2>4 DEF Panic, AbandonProcess, AbandonSystem
    <3>2. CASE disk' = disk
      BY <1>2, <3>1, <3>2
    <3>3. CASE \E fails \in BOOLEAN : disk' = Kept(disk, DiskTtl, fails)
      BY <1>1, <3>1, <3>3, KeptReading DEF ReadingsSpaced
    <3> QED
      BY <2>4, <3>2, <3>3 DEF Panic, AbandonProcess, AbandonSystem
  <2>5. CASE ~(ReadProcess(c) \/ ReadSystem(c) \/ Store(c) \/ Panic(c)
                 \/ (TakeLock(c) /\ ~Fresh))
    BY <1>2, <1>6, <2>5, StepsAside DEF Step, Aside, collectorVars
  <2> QED
    BY <2>1, <2>2, <2>3, <2>4, <2>5
<1> QED
  BY <1>5, <1>6 DEF Next

UsedYoung == PassOver => ReadingsYoung

\* A kept reading in a snapshot is younger than its time to live, and a costly
\* source, failing or not, is read again only after it (cached_descriptors,
\* application_disk).
THEOREM ReadingsKeptInTime == Spec => ReadingsKept
<1>1. RegInv /\ PassInv => UsedYoung
  BY PassOverIsPhase DEF PassInv, DraftYoung, ReadingsYoung, UsedYoung
<1>2. RegInv /\ PassInv /\ UsedYoung' /\ [Next]_vars
        => [ReadingsSpaced /\ (PassOver' => ReadingsYoung')]_vars
  BY SourcesSpaced DEF UsedYoung
<1> QED
  BY <1>1, <1>2, PassAlways, PTL DEF Spec, ReadingsKept
=============================================================================
