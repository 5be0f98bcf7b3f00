------------------------ MODULE RequestAccounting ------------------------
(***************************************************************************)
(* The life of a request in the middleware of src/src/layer.rs, the        *)
(* lifetime counters it updates in src/src/stats.rs, and the reader that   *)
(* derives the in-flight gauge from them without a lock.                   *)
(*                                                                         *)
(* The counters are split into shards; a request starts on the shard of    *)
(* the thread that calls the service and finishes on the shard of the      *)
(* thread that drops its guard, which may be another one.  Only the sums   *)
(* over all shards mean anything, and the reader adds them up shard by     *)
(* shard while requests start and finish.                                  *)
(*                                                                         *)
(* A counter is modelled by the set of requests it has counted.  Relaxed   *)
(* loads of different shards may be made in any order, so the reader picks *)
(* any shard left to read; the acquire fence between the finishes and the  *)
(* starts, which pairs with the release add of a finish, keeps these two   *)
(* phases in order.                                                        *)
(***************************************************************************)
EXTENDS Integers, FiniteSets

CONSTANTS Requests,  \* requests that reach the middleware
          Shards     \* COUNTER_SHARDS shards of lifetime counters

ASSUME ShardsAssumption == Shards # {}

VARIABLES phase,     \* where each request stands
          requests,  \* per shard, requests counted as started
          finished,  \* per shard, requests counted as finished
          status,    \* per shard, responses counted in a status class
          gauge,     \* requests counted in flight on the row of their route
          reader,    \* the phase of in_flight the reader is in
          left,      \* shards it has still to read in this phase
          finishedSeen, startedSeen,  \* what its two sums have counted
          atStart    \* history: in flight, and finished, when it began

counters == <<requests, finished, status, gauge>>
readerVars == <<reader, left, finishedSeen, startedSeen, atStart>>
vars == <<phase, counters, readerVars>>

(***************************************************************************)
(* "new": not yet in the service;  "counted": start counted, route not yet *)
(* resolved;  "routed": begin_request has returned, the inner service is   *)
(* being called;  "guarded": the future exists and holds the guard;        *)
(* "responded": its response is counted;  "dropping": the guard is being   *)
(* dropped;  "ending": the finish is counted, the row's gauge not yet;     *)
(* "over";  "skipped": a request to the monitor route;  "panicked": the    *)
(* inner service panicked in call, before the guard existed.               *)
(***************************************************************************)
Phases == {"new", "counted", "routed", "guarded", "responded", "dropping",
           "ending", "over", "skipped", "panicked"}

Started == UNION {requests[i] : i \in Shards}
Finished == UNION {finished[i] : i \in Shards}
InFlight == Started \ Finished

TypeOK ==
  /\ phase \in [Requests -> Phases]
  /\ requests \in [Shards -> SUBSET Requests]
  /\ finished \in [Shards -> SUBSET Requests]
  /\ status \in [Shards -> SUBSET Requests]
  /\ gauge \in SUBSET Requests
  /\ reader \in {"idle", "finishes", "starts", "done"}
  /\ left \in SUBSET Shards
  /\ finishedSeen \in SUBSET Requests
  /\ startedSeen \in SUBSET Requests
  /\ atStart \in [inFlight : SUBSET Requests, over : SUBSET Requests]

Nothing == [inFlight |-> {}, over |-> {}]

Init ==
  /\ phase = [r \in Requests |-> "new"]
  /\ requests = [i \in Shards |-> {}]
  /\ finished = [i \in Shards |-> {}]
  /\ status = [i \in Shards |-> {}]
  /\ gauge = {}
  /\ reader = "idle"
  /\ left = {}
  /\ finishedSeen = {}
  /\ startedSeen = {}
  /\ atStart = Nothing

Enter(r, p, q) == phase[r] = p /\ phase' = [phase EXCEPT ![r] = q]

-----------------------------------------------------------------------------
(* MonitorService::call.                                                   *)

\* A request to the monitor route is passed on unrecorded.
Skip(r) ==
  /\ Enter(r, "new", "skipped")
  /\ UNCHANGED <<counters, readerVars>>

\* begin_request counts the start on the shard i of the calling thread.
CountStart(r, i) ==
  /\ Enter(r, "new", "counted")
  /\ requests' = [requests EXCEPT ![i] = @ \cup {r}]
  /\ UNCHANGED <<finished, status, gauge, readerVars>>

\* EndpointSet::begin counts the request on the row of its route.
CountOnRoute(r) ==
  /\ Enter(r, "counted", "routed")
  /\ gauge' = gauge \cup {r}
  /\ UNCHANGED <<requests, finished, status, readerVars>>

\* The inner service returns its future and the guard is installed beside it.
InstallGuard(r) ==
  /\ Enter(r, "routed", "guarded")
  /\ UNCHANGED <<counters, readerVars>>

\* The inner service panics instead: call unwinds past the handle, which has
\* no destructor of its own.
PanicInCall(r) ==
  /\ Enter(r, "routed", "panicked")
  /\ UNCHANGED <<counters, readerVars>>

-----------------------------------------------------------------------------
(* MonitorFuture::poll, and the drop of the future.                        *)

\* The inner future is ready: finish counts the response in its class, unless
\* the status code is outside 1xx to 5xx.
Respond(r, i) ==
  /\ Enter(r, "guarded", "responded")
  /\ status' \in {status, [status EXCEPT ![i] = @ \cup {r}]}
  /\ UNCHANGED <<requests, finished, gauge, readerVars>>

\* The guard goes out of scope at the end of poll, or with a future that is
\* dropped unpolled, cancelled, or unwound by a panic of the inner future.
DropGuard(r) ==
  /\ Enter(r, "guarded", "dropping") \/ Enter(r, "responded", "dropping")
  /\ UNCHANGED <<counters, readerVars>>

\* end_in_flight, on the shard i of the thread that drops the guard.
CountFinish(r, i) ==
  /\ Enter(r, "dropping", "ending")
  /\ finished' = [finished EXCEPT ![i] = @ \cup {r}]
  /\ UNCHANGED <<requests, status, gauge, readerVars>>

\* mistake: the row's gauge is not released
KeepRouteGauge(r) ==
  /\ Enter(r, "ending", "over")
  /\ UNCHANGED <<counters, readerVars>>

\* RouteHandle::end.
ReleaseRoute(r) ==
  /\ Enter(r, "ending", "over")
  /\ gauge' = gauge \ {r}
  /\ UNCHANGED <<requests, finished, status, readerVars>>

-----------------------------------------------------------------------------
(* HttpMetrics::in_flight.                                                 *)

\* mistake: the starts are summed first
StartsFirst == "starts"

\* The sum in_flight takes first.
FirstSum == "finishes"

SecondSum == IF FirstSum = "finishes" THEN "starts" ELSE "finishes"

BeginRead ==
  /\ reader = "idle"
  /\ reader' = FirstSum
  /\ left' = Shards
  /\ atStart' = [inFlight |-> InFlight, over |-> Finished]
  /\ UNCHANGED <<phase, counters, finishedSeen, startedSeen>>

\* mistake: the shard is added up instead of what it counts
ReadShardName(i) ==
  /\ reader = "finishes" /\ i \in left
  /\ finishedSeen' = finishedSeen \cup {i}
  /\ left' = left \ {i}
  /\ UNCHANGED <<phase, counters, reader, startedSeen, atStart>>

ReadFinished(i) ==
  /\ reader = "finishes" /\ i \in left
  /\ finishedSeen' = finishedSeen \cup finished[i]
  /\ left' = left \ {i}
  /\ UNCHANGED <<phase, counters, reader, startedSeen, atStart>>

\* mistake: the second sum begins before the first is complete
FenceEarly ==
  /\ reader = FirstSum
  /\ reader' = SecondSum
  /\ left' = Shards
  /\ UNCHANGED <<phase, counters, finishedSeen, startedSeen, atStart>>

\* The fence is passed once the first sum is complete.
Fence ==
  /\ reader = FirstSum /\ left = {}
  /\ reader' = SecondSum
  /\ left' = Shards
  /\ UNCHANGED <<phase, counters, finishedSeen, startedSeen, atStart>>

\* mistake: only one shard is read
ReadStartedOnce(i) ==
  /\ reader = "starts" /\ i \in left
  /\ startedSeen' = startedSeen \cup requests[i]
  /\ left' = {}
  /\ UNCHANGED <<phase, counters, reader, finishedSeen, atStart>>

ReadStarted(i) ==
  /\ reader = "starts" /\ i \in left
  /\ startedSeen' = startedSeen \cup requests[i]
  /\ left' = left \ {i}
  /\ UNCHANGED <<phase, counters, reader, finishedSeen, atStart>>

\* The difference is returned.
EndRead ==
  /\ reader = SecondSum /\ left = {}
  /\ reader' = "done"
  /\ UNCHANGED <<phase, counters, left, finishedSeen, startedSeen, atStart>>

\* The next snapshot starts afresh.
ResetReader ==
  /\ reader = "done"
  /\ reader' = "idle"
  /\ finishedSeen' = {} /\ startedSeen' = {} /\ atStart' = Nothing
  /\ UNCHANGED <<phase, counters, left>>

-----------------------------------------------------------------------------

RequestStep(r) ==
  \/ Skip(r) \/ CountOnRoute(r) \/ InstallGuard(r) \/ PanicInCall(r)
  \/ DropGuard(r) \/ ReleaseRoute(r)
  \/ \E i \in Shards : CountStart(r, i) \/ Respond(r, i) \/ CountFinish(r, i)

ReaderStep ==
  \/ BeginRead \/ Fence \/ EndRead \/ ResetReader
  \/ \E i \in Shards : ReadFinished(i) \/ ReadStarted(i)

Next == ReaderStep \/ \E r \in Requests : RequestStep(r)

Spec == Init /\ [][Next]_vars

-----------------------------------------------------------------------------
(* Properties.                                                             *)

\* The difference "never goes negative" (stats.rs:227-229): every finish the
\* reader counted has its start counted too, whatever shards they are on and
\* whatever happens between two loads, so saturating_sub never saturates.
NeverNegative == reader = "done" => finishedSeen \subseteq startedSeen

\* "The difference never falls short of the requests in flight while the
\* shards are read" (stats.rs:228-229): a request in flight when the reader
\* began and still in flight when it ends is in the difference.
NeverShort ==
  reader = "done" =>
    (atStart.inFlight \ Finished) \subseteq (startedSeen \ finishedSeen)

\* A request that was over before the reader began is never reported in
\* flight: the gauge may include what finishes during the read, not the past.
NeverPast == reader = "done" => atStart.over \cap (startedSeen \ finishedSeen) = {}

\* The global gauge and the gauges of the rows agree about every request that
\* is not between the two updates, so the dashboard's total and its rows show
\* the same requests once no thread is inside an update.
GaugesAgree ==
  \A r \in Requests :
    phase[r] \notin {"counted", "ending"} => (r \in InFlight <=> r \in gauge)

\* "Returns the requests currently being handled" (stats.rs:225): what the
\* counters say is in flight is a request whose call or future still exists.
OnlyHandledInFlight ==
  \A r \in InFlight : phase[r] \in {"counted", "routed", "guarded", "responded",
                                    "dropping"}
=============================================================================
