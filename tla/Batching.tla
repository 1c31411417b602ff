------------------------------ MODULE Batching ------------------------------
(* From processed readings to closed batches and what a close updates:         *)
(* TelemetryBatcher (AddPackets on the consumer, CheckPacketInterval on timer  *)
(* callbacks), BatchCloseHandler.OnBatchClosed, DisconnectDetector.Detect,     *)
(* SnapshotStore.AddBatch and the batch part of DashboardSummaryService.       *)
(*                                                                             *)
(* The batcher's lock ends before BatchClosed is raised, so the handler runs   *)
(* step by step beside the consumer and, when it takes longer than the next    *)
(* batch, beside the handler of a later batch on another timer callback.       *)
(* Real time appears only as "more than 5 seconds without a packet".           *)
EXTENDS Integers, Sequences, FiniteSets

CONSTANTS Devices,        \* registered devices, all of one zone and subzone
          MaxStamp,       \* time stamps of readings are 0 .. MaxStamp
          Window,         \* the 30 minutes around a batch's anchor
          RingSize,       \* _recentPackets.Length
          Capacity,       \* SnapshotStore.Capacity
          MaxHandlers,    \* bound on the handlers that run at a time
          MaxReadings     \* bound on the readings processed

ASSUME BatchingAssumption ==
    /\ MaxStamp \in Nat /\ Window \in Nat \ {0} /\ RingSize \in Nat \ {0}
    /\ Capacity \in Nat \ {0} /\ MaxHandlers \in Nat \ {0} /\ MaxReadings \in Nat
    /\ IsFiniteSet(Devices)

VARIABLES anchor,         \* _currentAnchor, None for null
          packets,        \* _packetsThisBatch, as the readings they come from
          quiet,          \* _MostRecentPacketArrivalTime is over 5 seconds old
          ring,           \* _recentPackets, numbers of batches, 0 for null
          writeIndex,     \* _writeIndex
          seen,           \* the devices whose LastSeenUtc is not null
          consumer,       \* the consumer inside Process
          clock,          \* BatchClock.Current
          disconnected,   \* DisconnectedDevices
          offlineSince,   \* _offlineSince, 0 where a device has no entry
          handler,        \* per batch, where its OnBatchClosed is
          timeline,       \* SnapshotStore's timeline of the scope
          lastBatch,      \* DashboardSummaryService: the batch recorded last
          view,           \* the summary pushed to clients last
          processed,      \* readings processed so far
          closed,         \* history: the batches closed, in order
          orphans,        \* history: the readings dropped
          built,          \* history: the batches AddBatch took, in order
          judged,         \* history: per batch, the devices in Detect's snapshot that had
                          \* reported before
          alone           \* history: the batches whose handler overlapped no other

batcherVars == <<anchor, packets, quiet, ring, writeIndex, closed, orphans>>
detectorVars == <<disconnected, offlineSince>>
summaryVars == <<timeline, lastBatch, view, built>>
vars == <<batcherVars, seen, consumer, clock, detectorVars, handler, summaryVars,
          processed, judged, alone>>

None == -1
Stamps == 0 .. MaxStamp
Reading == [seq : 1 .. MaxReadings, device : Devices, stamp : Stamps]
Batch == [stamp : Stamps, readings : SUBSET Reading]
Batches == 1 .. MaxReadings

Idle == [at |-> "idle"]
NotClosed == [at |-> "none"]
Done == [at |-> "done"]
Running == {n \in Batches : handler[n] # NotClosed /\ handler[n] # Done}

Init ==
    /\ anchor = None /\ packets = {} /\ quiet = FALSE
    /\ ring = [i \in 0 .. RingSize - 1 |-> 0] /\ writeIndex = 0
    /\ seen = {} /\ consumer = Idle /\ clock = 0
    /\ disconnected = {} /\ offlineSince = [d \in Devices |-> 0]
    /\ handler = [n \in Batches |-> NotClosed]
    /\ timeline = {} /\ lastBatch = 0 /\ view = [batch |-> 0, offline |-> 0]
    /\ processed = 0 /\ closed = <<>> /\ orphans = {} /\ built = <<>>
    /\ judged = [n \in Batches |-> {}] /\ alone = Batches
-----------------------------------------------------------------------------
(* The consumer: Process records the telemetry, then hands the packets over.   *)

RecordTelemetry(d, stamp) ==
    /\ consumer = Idle
    /\ processed < MaxReadings
    /\ processed' = processed + 1
    /\ seen' = seen \cup {d}
    /\ consumer' = [at |-> "add",
                    reading |-> [seq |-> processed + 1, device |-> d, stamp |-> stamp]]
    /\ UNCHANGED <<batcherVars, clock, detectorVars, handler, summaryVars, judged, alone>>

InWindow(stamp, around) == stamp > around - Window /\ stamp < around + Window

\* All packets of a reading have its time stamp: all are taken or all orphaned.
AddPackets ==
    /\ consumer.at = "add"
    /\ anchor' = IF anchor = None THEN consumer.reading.stamp ELSE anchor
    /\ IF InWindow(consumer.reading.stamp, anchor')
       THEN packets' = packets \cup {consumer.reading} /\ orphans' = orphans
       ELSE packets' = packets /\ orphans' = orphans \cup {consumer.reading}
    /\ quiet' = FALSE
    /\ consumer' = Idle
    /\ UNCHANGED <<ring, writeIndex, closed, seen, clock, detectorVars, handler,
                   summaryVars, processed, judged, alone>>
-----------------------------------------------------------------------------
(* The timer.                                                                  *)

\* 5 seconds pass without a packet.
FallQuiet ==
    /\ ~quiet
    /\ anchor # None
    /\ quiet' = TRUE
    /\ UNCHANGED <<anchor, packets, ring, writeIndex, closed, orphans, seen, consumer,
                   clock, detectorVars, handler, summaryVars, processed, judged,
                   alone>>

\* The next place in the ring.
NextIndex(i) == (i + 1) % RingSize

\* Mutant: the packets of a closed batch stay for the next one.
StartBatch_KeepsPackets == anchor' = None /\ packets' = packets

\* A new batch, without anchor.
StartBatch == anchor' = None /\ packets' = {}

\* CheckPacketInterval up to the end of its lock.
CloseBatch ==
    /\ anchor # None
    /\ quiet
    /\ Cardinality(Running) < MaxHandlers
    /\ LET n == Len(closed) + 1
       IN  /\ closed' = Append(closed, [stamp |-> anchor, readings |-> packets])
           /\ ring' = [ring EXCEPT ![writeIndex] = n]
           /\ handler' = [handler EXCEPT ![n] = [at |-> "advance"]]
           /\ alone' = IF Running = {} THEN alone ELSE alone \ ({n} \cup Running)
    /\ writeIndex' = NextIndex(writeIndex)
    /\ StartBatch
    /\ UNCHANGED <<quiet, orphans, seen, consumer, clock, detectorVars, summaryVars, processed,
                   judged>>
-----------------------------------------------------------------------------
(* OnBatchClosed, for batch n.                                                 *)

Reports(n) == {r.device : r \in closed[n].readings}

Advance(n) ==
    /\ handler[n].at = "advance"
    /\ clock' = clock + 1
    /\ handler' = [handler EXCEPT ![n] = [at |-> "snapshot"]]
    /\ UNCHANGED <<batcherVars, seen, consumer, detectorVars, summaryVars, processed, judged,
                   alone>>

\* Detect: _registry.Snapshot().
TakeSnapshot(n) ==
    /\ handler[n].at = "snapshot"
    /\ handler' = [handler EXCEPT ![n] = [at |-> "detect", snapshot |-> seen, todo |-> Devices]]
    /\ judged' = [judged EXCEPT ![n] = seen]
    /\ UNCHANGED <<batcherVars, seen, consumer, clock, detectorVars, summaryVars, processed,
                   alone>>

\* On to the next device.
NextDevice(n, d) ==
    handler' = [handler EXCEPT ![n] = [at |-> "detect", snapshot |-> @.snapshot,
                                       todo |-> @.todo \ {d}]]

\* On to the device's _offlineSince entry, under the detector's lock.
GoToEntry(n, d, label) ==
    handler' = [handler EXCEPT ![n] = [at |-> label, snapshot |-> @.snapshot,
                                       todo |-> @.todo, device |-> d]]

\* Mutant: a reported device is not removed.
DetectReported_NotRemoved(n, d) ==
    /\ d \in Reports(n)
    /\ disconnected' = disconnected
    /\ NextDevice(n, d)

\* _disconnected.Remove.
DetectReported(n, d) ==
    /\ d \in Reports(n)
    /\ disconnected' = disconnected \ {d}
    /\ IF d \in disconnected THEN GoToEntry(n, d, "forget") ELSE NextDevice(n, d)

\* Mutant: what TryAdd returns is not tested.
DetectMissing_Untested(n, d) ==
    /\ d \notin Reports(n)
    /\ d \in handler[n].snapshot
    /\ disconnected' = disconnected \cup {d}
    /\ GoToEntry(n, d, "stamp")

\* _disconnected.TryAdd.
DetectMissing(n, d) ==
    /\ d \notin Reports(n)
    /\ d \in handler[n].snapshot
    /\ disconnected' = disconnected \cup {d}
    /\ IF d \notin disconnected THEN GoToEntry(n, d, "stamp") ELSE NextDevice(n, d)

\* The device never reported.
DetectUnseen(n, d) ==
    /\ d \notin Reports(n)
    /\ d \notin handler[n].snapshot
    /\ NextDevice(n, d)
    /\ UNCHANGED disconnected

Detect(n) ==
    /\ handler[n].at = "detect"
    /\ \E d \in handler[n].todo :
          DetectReported(n, d) \/ DetectMissing(n, d) \/ DetectUnseen(n, d)
    /\ UNCHANGED <<batcherVars, seen, consumer, clock, offlineSince, summaryVars,
                   processed, judged, alone>>

ForgetEntry(n) ==
    /\ handler[n].at = "forget"
    /\ offlineSince' = [offlineSince EXCEPT ![handler[n].device] = 0]
    /\ NextDevice(n, handler[n].device)
    /\ UNCHANGED <<batcherVars, seen, consumer, clock, disconnected, summaryVars,
                   processed, judged, alone>>

StampEntry(n) ==
    /\ handler[n].at = "stamp"
    /\ offlineSince' = [offlineSince EXCEPT ![handler[n].device] = clock]
    /\ NextDevice(n, handler[n].device)
    /\ UNCHANGED <<batcherVars, seen, consumer, clock, disconnected, summaryVars,
                   processed, judged, alone>>

\* Mutant: the timeline is never trimmed.
Trimmed_Unlimited(t) == t

\* Mutant: a full timeline loses its newest time stamp.
Trimmed_DropsNewest(t) ==
    IF Cardinality(t) > Capacity
    THEN {s \in t : \E newer \in t : newer.stamp > s.stamp}
    ELSE t

\* A full timeline loses its oldest time stamp.
Trimmed(t) ==
    IF Cardinality(t) > Capacity
    THEN {s \in t : \E older \in t : older.stamp < s.stamp}
    ELSE t

\* SnapshotBuilder.Build: the scope's snapshot replaces one of the same time stamp.
BuildSnapshot(n) ==
    /\ handler[n].at = "detect"
    /\ handler[n].todo = {}
    /\ timeline' = Trimmed({s \in timeline : s.stamp # closed[n].stamp}
                           \cup {[stamp |-> closed[n].stamp, batch |-> n]})
    /\ built' = Append(built, n)
    /\ handler' = [handler EXCEPT ![n] = [at |-> "record"]]
    /\ UNCHANGED <<batcherVars, seen, consumer, clock, detectorVars, lastBatch, view,
                   processed, judged, alone>>

\* Mutant: the batch is not recorded.
RecordBatch_Missing(n) ==
    /\ handler[n].at = "record"
    /\ handler' = [handler EXCEPT ![n] = [at |-> "summarise"]]
    /\ UNCHANGED <<batcherVars, seen, consumer, clock, detectorVars, summaryVars,
                   processed, judged, alone>>

\* RecordBatch, under the summary service's lock.
RecordBatch(n) ==
    /\ handler[n].at = "record"
    /\ lastBatch' = n
    /\ handler' = [handler EXCEPT ![n] = [at |-> "summarise"]]
    /\ UNCHANGED <<batcherVars, seen, consumer, clock, detectorVars, timeline, view, built,
                   processed, judged, alone>>

\* DashboardSummaryService.Build: first the last batch, under the service's lock.
ReadLastBatch(n) ==
    /\ handler[n].at = "summarise"
    /\ handler' = [handler EXCEPT ![n] = [at |-> "push", batch |-> lastBatch]]
    /\ UNCHANGED <<batcherVars, seen, consumer, clock, detectorVars, summaryVars,
                   processed, judged, alone>>

\* Then the disconnected devices; the summary is pushed and the handler returns.
Push(n) ==
    /\ handler[n].at = "push"
    /\ view' = [batch |-> handler[n].batch, offline |-> Cardinality(disconnected)]
    /\ handler' = [handler EXCEPT ![n] = Done]
    /\ UNCHANGED <<batcherVars, seen, consumer, clock, detectorVars, timeline, lastBatch,
                   built, processed, judged, alone>>

HandlerStep(n) ==
    \/ Advance(n) \/ TakeSnapshot(n) \/ Detect(n) \/ ForgetEntry(n) \/ StampEntry(n)
    \/ BuildSnapshot(n) \/ RecordBatch(n) \/ ReadLastBatch(n) \/ Push(n)
-----------------------------------------------------------------------------
Next ==
    \/ \E d \in Devices, s \in Stamps : RecordTelemetry(d, s)
    \/ AddPackets
    \/ FallQuiet
    \/ CloseBatch
    \/ \E n \in Batches : HandlerStep(n)

Spec == Init /\ [][Next]_vars
-----------------------------------------------------------------------------
HandlerType(h) ==
    \/ h \in [at : {"none", "advance", "snapshot", "record", "summarise", "done"}]
    \/ h.at = "detect" /\ h \in [at : {"detect"}, snapshot : SUBSET Devices, todo : SUBSET Devices]
    \/ /\ h.at \in {"forget", "stamp"}
       /\ h \in [at : {"forget", "stamp"}, snapshot : SUBSET Devices, todo : SUBSET Devices,
                 device : Devices]
    \/ h.at = "push" /\ h \in [at : {"push"}, batch : Batches]

\* Every variable has its type.
TypeOK ==
    /\ anchor \in Stamps \cup {None} /\ packets \subseteq Reading /\ quiet \in BOOLEAN
    /\ ring \in [0 .. RingSize - 1 -> 0 .. MaxReadings] /\ writeIndex \in 0 .. RingSize - 1
    /\ seen \subseteq Devices /\ disconnected \subseteq Devices
    /\ consumer = Idle \/ consumer \in [at : {"add"}, reading : Reading]
    /\ clock \in 0 .. MaxReadings /\ offlineSince \in [Devices -> 0 .. MaxReadings]
    /\ \A n \in Batches : HandlerType(handler[n])
    /\ timeline \subseteq [stamp : Stamps, batch : Batches] /\ Cardinality(timeline) <= Capacity
    /\ lastBatch \in 0 .. MaxReadings
    /\ view \in [batch : 0 .. MaxReadings, offline : 0 .. Cardinality(Devices)]
    /\ processed \in 0 .. MaxReadings
    /\ closed \in Seq(Batch) /\ orphans \subseteq Reading /\ built \in Seq(Batches)
    /\ judged \in [Batches -> SUBSET Devices] /\ alone \subseteq Batches

\* How often a reading was put in a batch or dropped.
Places(q) ==
    Cardinality({i \in DOMAIN closed : \E r \in closed[i].readings : r.seq = q})
      + Cardinality({r \in packets \cup orphans : r.seq = q})

\* Whatever the timer does between the consumer's steps, every reading handed to
\* the batcher is in one batch, closed or open, or was dropped, and none in both.
EachReadingInOneBatch ==
    \A q \in 1 .. processed :
        Places(q) = IF consumer # Idle /\ consumer.reading.seq = q THEN 0 ELSE 1

\* Reading r is outside the window around a time stamp that one of the readings
\* before it gave a batch.
DroppedFrom(r, stamp, readings) ==
    /\ ~InWindow(r.stamp, stamp)
    /\ \E first \in readings : first.seq < r.seq /\ first.stamp = stamp

\* No reading is dropped but for the window of a batch that a reading before it
\* had opened, however the timer's closes come in between.
DropsOutsideWindow ==
    \A r \in orphans :
        \/ anchor # None /\ DroppedFrom(r, anchor, packets)
        \/ \E i \in DOMAIN closed : DroppedFrom(r, closed[i].stamp, closed[i].readings)

\* A closed batch is never empty: the reading that gave it its time stamp is in
\* it, and all others are within the window around it.
BatchesAnchored ==
    \A i \in DOMAIN closed :
        /\ \E r \in closed[i].readings : r.stamp = closed[i].stamp
        /\ \A r \in closed[i].readings : InWindow(r.stamp, closed[i].stamp)

\* GetRecentBatches returns the latest RingSize batches (7 in the code).
RingHoldsLatest ==
    LET n == Len(closed)
    IN  {ring[i] : i \in DOMAIN ring} \ {0} = {k \in 1 .. n : k > n - RingSize}

\* Detect is over for batch n.
Detected(n) == handler[n].at \in {"record", "summarise", "push", "done"}

\* The devices that had reported before and are not in batch n.
Missed(n) == judged[n] \ Reports(n)

\* Detect only adds and removes single devices; still, after a batch whose handler
\* overlapped no other, the disconnected devices are exactly those the batch
\* misses, even if handlers overlapped before.
DisconnectedMatchesBatch ==
    \A n \in DOMAIN closed :
        n = Len(closed) /\ n \in alone /\ Detected(n) => disconnected = Missed(n)

\* As long as no handlers overlap, OfflineSince tells the first of the batches a
\* disconnected device has missed in a row, and of no other device.
OfflineSinceExact ==
    \A n \in DOMAIN closed :
        n = Len(closed) /\ alone = Batches /\ Detected(n) =>
            \A d \in Devices :
                IF d \notin Missed(n) THEN offlineSince[d] = 0
                ELSE /\ offlineSince[d] \in 1 .. n
                     /\ \A k \in offlineSince[d] .. n : d \in Missed(k)
                     /\ offlineSince[d] > 1 => d \notin Missed(offlineSince[d] - 1)

\* The time stamps that were ever built.
BuiltStamps == {closed[built[i]].stamp : i \in DOMAIN built}

\* SnapshotStore keeps the newest Capacity time stamps, whatever order batches
\* come in, each with the batch built last for it.
TimelineHoldsNewest ==
    /\ {s.stamp : s \in timeline}
         = {t \in BuiltStamps : Cardinality({u \in BuiltStamps : u > t}) < Capacity}
    /\ \A s \in timeline :
          \E i \in DOMAIN built :
             /\ built[i] = s.batch /\ closed[s.batch].stamp = s.stamp
             /\ \A j \in i + 1 .. Len(built) : closed[built[j]].stamp # s.stamp

\* Each reading handed to the batcher is once in a closed batch, once in the open
\* one, or was dropped once; dropped are only readings outside the window of a
\* batch that was opened before them; and batches have only readings inside it.
ReadingsBatched == EachReadingInOneBatch /\ DropsOutsideWindow /\ BatchesAnchored

\* Ring and timeline keep the newest of what came.
NewestKept == RingHoldsLatest /\ TimelineHoldsNewest

\* Once the handlers are done, clients are left with the newest batch and the
\* present number of disconnected devices (if the last handler overlapped no
\* other: the summaries of two handlers may be pushed in either order).
ViewCurrent ==
    LET n == Len(closed)
    IN  n \in alone /\ handler[n] = Done =>
            view = [batch |-> n, offline |-> Cardinality(disconnected)]
=============================================================================
