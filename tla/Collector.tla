----------------------------- MODULE Collector -----------------------------
(***************************************************************************)
(* The collector of src/src/collect.rs: the state it carries from one      *)
(* snapshot to the next, and the passes that use it.                       *)
(*                                                                         *)
(* Some readings are kept for a while (open descriptors for FD_TTL, disk   *)
(* usage for DISK_TTL), failed ones included; CPU and network figures are  *)
(* differences against the previous pass.  Any source may fail, and every  *)
(* metric that is missing for that reason is named in the snapshot.        *)
(*                                                                         *)
(* What a metric says is left out; the model keeps whether it has a value, *)
(* when a kept reading was taken, and the bytes and seconds of the network *)
(* rate.  One sum over the interfaces stands for the bytes received and    *)
(* the bytes sent; it changes at will when an interface appears, vanishes  *)
(* or is reset, and is 0 when there is none.                               *)
(* The collector is driven by SnapshotCache, which owns the lock around it.*)
(***************************************************************************)
EXTENDS Integers, FiniteSets

CONSTANTS MaxTime,     \* the last instant the clock reaches
          FdTtl,       \* FD_TTL (5 seconds in the code)
          DiskTtl,     \* DISK_TTL (30 seconds)
          MaxBytes,    \* bytes the interfaces may have counted
          MaxFailures  \* failed readings and changed interfaces in all

ASSUME CollectorAssumption ==
  /\ MaxTime \in Nat
  /\ FdTtl \in Nat \ {0}
  /\ DiskTtl \in Nat \ {0}
  /\ MaxBytes \in Nat
  /\ MaxFailures \in Nat

Times == 0..MaxTime
Never == -1

\* The metrics a snapshot has a value for or not.
ProcessMetrics ==
  {"process.cpu", "process.memory", "process.threads", "process.descriptors"}
SystemMetrics ==
  {"system.cpu", "system.memory", "system.disk", "system.network"}
Metrics == ProcessMetrics \cup SystemMetrics

\* The metrics that are differences between two passes.
Deltas == {"process.cpu", "system.cpu", "system.network"}

\* What may fail, besides the lookup of this process; the network is missing
\* when there is no interface.
ProcessSources == {"process.threads", "process.descriptors"}
SystemSources == {"system.memory", "system.disk"}

VARIABLES now,          \* the monotonic clock
          traffic,      \* what the host's network interfaces count
          fd,           \* fd_at and fd_cache
          disk,         \* disk_at and disk_cache
          processSeen,  \* process_cpu_seen
          systemSeen,   \* system_cpu_seen
          network,      \* network_seen, network_received and network_at
          draft,        \* the snapshot being collected
          past,         \* history: what earlier passes read
          failures      \* history: failed readings and changed interfaces so far

collectorVars == <<fd, disk, processSeen, systemSeen, network, draft, past, failures>>

(***************************************************************************)
(* A kept reading: when it is stamped, whether it has a value (Some or     *)
(* None), and, as history, when the source was read.                       *)
(***************************************************************************)
Readings == [at : Times \cup {Never}, read : Times \cup {Never}, ok : BOOLEAN]
NoReading == [at |-> Never, read |-> Never, ok |-> FALSE]

(***************************************************************************)
(* The interfaces of the host: the sum of their counters, whether there is *)
(* any, and, as history, the bytes received since the collector last read  *)
(* them, or Changed when an interface appeared, vanished or was reset.     *)
(***************************************************************************)
Changed == -1
Interfaces ==
  {t \in [bytes : 0..MaxBytes, linked : BOOLEAN, since : 0..MaxBytes \cup {Changed}] :
     t.linked \/ t.bytes = 0}

\* A host may come up without any.
NoInterface == [bytes |-> 0, linked |-> FALSE, since |-> Changed]

Rates == [bytes : Nat, over : Nat \ {0}]
NoRate == [bytes |-> Never, over |-> Never]

EmptyDraft == [began |-> Never, got |-> {}, errors |-> {}, fd |-> Never,
               disk |-> Never, rate |-> NoRate, since |-> Changed]

CollectorTypeOK ==
  /\ now \in Times
  /\ traffic \in Interfaces
  /\ fd \in Readings /\ disk \in Readings
  /\ processSeen \in BOOLEAN /\ systemSeen \in BOOLEAN
  /\ network \in [seen : BOOLEAN, bytes : 0..MaxBytes, at : Times]
  /\ draft.began \in Times \cup {Never}
  /\ draft.got \subseteq Metrics /\ draft.errors \subseteq Metrics
  /\ draft.fd \in Times \cup {Never} /\ draft.disk \in Times \cup {Never}
  /\ draft.rate \in Rates \cup {NoRate}
  /\ past.sources \subseteq Deltas
  /\ failures \in 0..MaxFailures

CollectorInit ==
  /\ now = 0
  /\ traffic = NoInterface
  /\ fd = NoReading /\ disk = NoReading
  /\ processSeen = FALSE /\ systemSeen = FALSE
  /\ network = [seen |-> FALSE, bytes |-> 0, at |-> 0]
  /\ draft = EmptyDraft
  /\ past = [sources |-> {}, began |-> Never]
  /\ failures = 0

\* Any sources may fail, as long as not too many have.
Fail(failing) ==
  /\ failures + Cardinality(failing) <= MaxFailures
  /\ failures' = failures + Cardinality(failing)

-----------------------------------------------------------------------------
(* Readings that are kept.                                                 *)

\* mistake: a failed reading is not stamped
KeepIfOk(reading, ttl, fails) ==
  IF reading.at # Never /\ now - reading.at < ttl THEN reading
  ELSE [at |-> IF fails THEN reading.at ELSE now, read |-> now, ok |-> ~fails]

\* cached_descriptors and application_disk: the kept reading while it is young,
\* else a new one, which is stamped even when it failed.
Kept(reading, ttl, fails) ==
  IF reading.at # Never /\ now - reading.at < ttl THEN reading
  ELSE [at |-> now, read |-> now, ok |-> ~fails]

-----------------------------------------------------------------------------
(* The halves of a pass.                                                   *)

\* mistake: only the pass that tried and failed names the metric
NamedOnce(metric, reading) ==
  IF reading.ok \/ reading.at < now THEN {} ELSE {metric}

\* A kept reading that failed is named by every pass that uses it.
Named(metric, reading) == IF reading.ok THEN {} ELSE {metric}

BeginPass ==
  /\ draft' = [EmptyDraft EXCEPT !.began = now]
  /\ UNCHANGED <<fd, disk, processSeen, systemSeen, network, past, failures>>

\* collect_process when sysinfo does not find this process: all four metrics
\* are named and the rest of the half is skipped.
MissProcess ==
  /\ draft' = [draft EXCEPT !.errors = @ \cup ProcessMetrics]
  /\ Fail({"process"})
  /\ UNCHANGED <<fd, disk, processSeen, systemSeen, network, past>>

\* collect_process when it does.
CollectProcess(failing) ==
  LET reading == Kept(fd, FdTtl, "process.descriptors" \in failing)
      missing == (failing \cap {"process.threads"})
                   \cup IF reading.ok THEN {} ELSE {"process.descriptors"}
      first == IF processSeen THEN {} ELSE {"process.cpu"}
  IN /\ Fail(failing)
     /\ fd' = reading
     /\ processSeen' = TRUE
     /\ draft' = [draft EXCEPT
          !.errors = @ \cup (failing \cap {"process.threads"})
                       \cup Named("process.descriptors", reading),
          !.got = ProcessMetrics \ (missing \cup first),
          !.fd = reading.read]
     /\ UNCHANGED <<disk, systemSeen, network, past>>

\* mistake: a counter that went backwards is not looked for
RateUnchecked(previous, bytes) ==
  IF ~previous.seen \/ draft.began <= previous.at THEN NoRate
  ELSE [bytes |-> bytes - previous.bytes, over |-> draft.began - previous.at]

\* network_rates, for one counter: None when no time has elapsed or the counter
\* went backwards.
RateSince(previous, bytes) ==
  IF ~previous.seen \/ draft.began <= previous.at \/ bytes < previous.bytes
  THEN NoRate
  ELSE [bytes |-> bytes - previous.bytes, over |-> draft.began - previous.at]

\* mistake: stamped with the clock after the counters were read
NetworkStampedLate(bytes) == [seen |-> TRUE, bytes |-> bytes, at |-> now]

\* What the next pass compares with: always this pass, whatever it read.
NetworkNow(bytes) == [seen |-> TRUE, bytes |-> bytes, at |-> draft.began]

\* collect_system.  Without an interface the counters add up to 0, and only
\* afterwards is the network named as missing.
CollectSystem(failing) ==
  LET reading == Kept(disk, DiskTtl, "system.disk" \in failing)
      rate == RateSince(network, traffic.bytes)
      missing == (failing \cap {"system.memory"})
                   \cup (IF reading.ok THEN {} ELSE {"system.disk"})
                   \cup IF rate # NoRate THEN {} ELSE {"system.network"}
      first == IF systemSeen THEN {} ELSE {"system.cpu"}
      unlinked == IF traffic.linked THEN {} ELSE {"system.network"}
  IN /\ Fail(failing)
     /\ disk' = reading
     /\ systemSeen' = TRUE
     /\ network' = NetworkNow(traffic.bytes)
     /\ traffic' = [traffic EXCEPT !.since = 0]
     /\ draft' = [draft EXCEPT
          !.errors = @ \cup (failing \cap {"system.memory"})
                       \cup Named("system.disk", reading) \cup unlinked,
          !.got = @ \cup (SystemMetrics \ (missing \cup first)),
          !.disk = reading.read,
          !.rate = rate,
          !.since = traffic.since]
     /\ UNCHANGED <<fd, processSeen, past>>

\* The process half panics: before process_cpu_seen is set, or after it.
AbandonProcess ==
  /\ processSeen' \in {processSeen, TRUE}
  /\ draft' = EmptyDraft
  /\ UNCHANGED <<fd, disk, systemSeen, network, past, failures>>

\* The system half panics: before the disk reading is stamped, or after it.  What the
\* network is compared with is set last, when nothing is read any more.
AbandonSystem ==
  /\ systemSeen' = TRUE
  /\ disk' \in {disk} \cup {Kept(disk, DiskTtl, fails) : fails \in BOOLEAN}
  /\ draft' = EmptyDraft
  /\ UNCHANGED <<fd, processSeen, network, past, failures>>

\* The snapshot leaves the collector; what it was made of becomes history.
EndPass ==
  /\ draft' = EmptyDraft
  /\ past' = [sources |-> past.sources \cup {"system.cpu", "system.network"}
                \cup IF "process.memory" \in draft.got THEN {"process.cpu"} ELSE {},
              began |-> draft.began]
  /\ UNCHANGED <<fd, disk, processSeen, systemSeen, network, failures>>

-----------------------------------------------------------------------------
(* The network.                                                            *)

\* A byte arrives at one of the interfaces.
ReceiveByte ==
  /\ traffic.linked /\ traffic.bytes < MaxBytes
  /\ traffic' = [traffic EXCEPT !.bytes = @ + 1,
                               !.since = IF @ = Changed THEN Changed ELSE @ + 1]
  /\ UNCHANGED collectorVars

\* An interface appears, vanishes or is reset; others may remain.
ChangeInterfaces ==
  /\ Fail({"interface"})
  /\ traffic' \in {t \in Interfaces : t.since = Changed}
  /\ UNCHANGED <<fd, disk, processSeen, systemSeen, network, draft, past>>

-----------------------------------------------------------------------------
(* What a finished pass must satisfy; SnapshotCache says when it is over.  *)

\* A metric without a value is named among the errors, unless it is a
\* difference: one that no earlier pass could read the source of, or the network
\* rate after the interfaces have changed (snapshot.rs:113-118).  A metric that
\* is named has no value (README.md:118), but for a network rate of 0.
GapsExplained ==
  /\ \A m \in Metrics \ draft.got :
       \/ m \in draft.errors
       \/ m \in Deltas \ past.sources
       \/ m = "system.network" /\ draft.since = Changed
  /\ \A m \in draft.got \cap draft.errors : m = "system.network" /\ draft.rate.bytes = 0

\* When the interfaces have not changed since an earlier pass read them, there is
\* a rate, and it is what they received from one reading to the other over the
\* time from one pass to the other, which is not none.
RateIsTraffic ==
  "system.network" \in past.sources /\ draft.since # Changed =>
    draft.rate \in Rates /\ draft.rate = [bytes |-> draft.since,
                                         over |-> draft.began - past.began]

\* No metric that is named among the errors has a value.
FailedIsNull == draft.got \cap draft.errors = {}

\* A kept reading that goes into a snapshot was taken less than its time to live
\* before the pass began, whether it succeeded or not.
ReadingsYoung ==
  /\ draft.fd # Never => draft.began - draft.fd < FdTtl
  /\ draft.began - draft.disk < DiskTtl

\* A costly source is read again only after its time to live, failures included.
ReadingsSpaced ==
  /\ fd' # fd /\ fd.read # Never => fd'.read - fd.read >= FdTtl
  /\ disk' # disk /\ disk.read # Never => disk'.read - disk.read >= DiskTtl
=============================================================================
