--------------------------- MODULE BatchingProofs ---------------------------
(* Theorems about Batching for any devices, time stamps, window, ring and      *)
(* timeline sizes, and any number of readings and of handlers that overlap.    *)
EXTENDS Batching, FiniteSetTheorems, TLAPS

\* The number of batches closed.
Count == Len(closed)
-----------------------------------------------------------------------------
(* The inductive invariant.                                                    *)

\* There is a reading for every batch that was closed or is open, and for the
\* one the consumer holds.
EnoughReadings ==
    Count + (IF anchor = None THEN 0 ELSE 1) + (IF consumer = Idle THEN 0 ELSE 1) <= processed

\* The open batch is anchored as the closed ones are.
OpenAnchored ==
    /\ anchor = None => packets = {}
    /\ anchor # None => /\ \E r \in packets : r.stamp = anchor
                        /\ \A r \in packets : InWindow(r.stamp, anchor)

\* The batches reading q is in, and where it waits for one or was dropped.
BatchesOf(q) == {i \in DOMAIN closed : \E r \in closed[i].readings : r.seq = q}
HeldOf(q) == {r \in packets \cup orphans : r.seq = q}

\* The reading has a place.
Placed(q) ==
    \/ (\E i \in DOMAIN closed : BatchesOf(q) = {i}) /\ HeldOf(q) = {}
    \/ BatchesOf(q) = {} /\ \E r \in packets \cup orphans : HeldOf(q) = {r}

\* It has none yet.
NotPlaced(q) == BatchesOf(q) = {} /\ HeldOf(q) = {}

\* Every reading the batcher was given has one place, the others have none.
ReadingsPlaced ==
    /\ packets \cap orphans = {}
    /\ consumer # Idle => consumer.reading.seq = processed /\ processed # 0
    /\ \A q \in 1 .. MaxReadings :
          IF q > processed \/ (consumer # Idle /\ consumer.reading.seq = q)
          THEN NotPlaced(q) ELSE Placed(q)

\* What place i of the ring holds.
RingAt(i) == IF i < writeIndex THEN Count - writeIndex + 1 + i
                               ELSE Count - writeIndex + 1 + i - RingSize

\* The batches go round the ring, the next place last.
RingInOrder ==
    \A i \in 0 .. RingSize - 1 : ring[i] = IF RingAt(i) > 0 THEN RingAt(i) ELSE 0

\* The batches whose handlers have advanced the clock.
Advanced == {n \in Batches : handler[n].at \notin {"none", "advance"}}

\* Each closed batch has a handler, and each handler advances the clock once and
\* records its batch before a summary is built.
HandlersCount ==
    /\ handler = [n \in Batches |-> handler[n]]
    /\ \A n \in Batches : n > Count <=> handler[n] = NotClosed
    /\ clock = Cardinality(Advanced)
    /\ \A n \in Batches : handler[n].at = "summarise" => lastBatch \in Batches

\* The handler of the latest batch is alone if it started alone and none came after.
LatestAlone == Count \in alone => Running \subseteq {Count}

\* No batch with the entry's time stamp was built after the entry's.
BuiltLast(s) ==
    \E i \in DOMAIN built :
       /\ built[i] = s.batch /\ closed[s.batch].stamp = s.stamp
       /\ \A j \in i + 1 .. Len(built) : closed[built[j]].stamp # s.stamp

\* Time stamp u has an entry.
Kept(u) == \E s \in timeline : s.stamp = u

\* The timeline has one entry for a time stamp, built last for it; the entries
\* that are gone are older, and gone for want of room.
TimelineInv ==
    /\ IsFiniteSet(timeline) /\ IsFiniteSet(BuiltStamps)
    /\ \A i \in DOMAIN built : built[i] \in DOMAIN closed
    /\ \A s, t \in timeline : s.stamp = t.stamp => s = t
    /\ \A s \in timeline : BuiltLast(s)
    /\ \A s \in timeline, u \in BuiltStamps : u > s.stamp => Kept(u)
    /\ \A u \in BuiltStamps : Cardinality(timeline) < Capacity => Kept(u)

\* The handler of batch n goes through the devices.
Detecting(n) == handler[n].at \in {"detect", "forget", "stamp"}

\* Only devices that have reported are disconnected.
SeenOnly ==
    /\ disconnected \subseteq seen
    /\ \A n \in Batches : Detecting(n) => handler[n].snapshot \subseteq seen

\* What the handler of batch n has done if it is the latest and alone.
DetectedBy(n) ==
    /\ Detecting(n) =>
          /\ handler[n].snapshot = judged[n]
          /\ disconnected \subseteq judged[n]
          /\ \A d \in Devices \ handler[n].todo : d \in disconnected <=> d \in Missed(n)
    /\ handler[n].at \in {"forget", "stamp"} =>
          (handler[n].device \in disconnected <=> handler[n].device \in Missed(n))
    /\ handler[n].at = "forget" => handler[n].device \in Reports(n)
    /\ handler[n].at = "stamp" => handler[n].device \in Missed(n)
    /\ Detected(n) => disconnected = Missed(n)
    /\ handler[n].at = "summarise" => lastBatch = n
    /\ handler[n].at = "push" => handler[n].batch = n
    /\ handler[n].at = "done" => view = [batch |-> n, offline |-> Cardinality(disconnected)]

DetectInv == \A n \in {Count} : n \in alone => DetectedBy(n)

\* The devices that batch n misses, none before the first batch.
MissedBy(n) == IF n = 0 THEN {} ELSE Missed(n)

\* OfflineSince of d is what it should be after batch n.
SinceAt(n, d) ==
    IF d \notin MissedBy(n) THEN offlineSince[d] = 0
    ELSE /\ offlineSince[d] \in 1 .. n
         /\ \A k \in offlineSince[d] .. n : d \in Missed(k)
         /\ offlineSince[d] > 1 => d \notin Missed(offlineSince[d] - 1)

\* The detector's entries for d are as after batch n.
SettledAt(n, d) == SinceAt(n, d) /\ (d \in disconnected <=> d \in MissedBy(n))

\* As long as no handlers overlapped, the handlers of the batches before the
\* latest, n, are done, and its own takes the devices from the batch before to n.
SettledBy(n) ==
    /\ n = 0 => clock = 0
    /\ n > 0 => clock = (IF handler[n].at = "advance" THEN n - 1 ELSE n)
    /\ n = 0 \/ Detected(n) => \A d \in Devices : SettledAt(n, d)
    /\ n > 0 /\ handler[n].at \in {"advance", "snapshot"} =>
          \A d \in Devices : SettledAt(n - 1, d)
    /\ n > 0 /\ Detecting(n) =>
          \A d \in Devices :
              \/ handler[n].at \in {"forget", "stamp"} /\ d = handler[n].device
              \/ SettledAt(IF d \in handler[n].todo THEN n - 1 ELSE n, d)
    /\ n > 0 /\ handler[n].at = "stamp" => handler[n].device \notin MissedBy(n - 1)

OfflineInv == \A n \in {Count} : alone = Batches => SettledBy(n)

IInv ==
    /\ TypeOK /\ EnoughReadings /\ OpenAnchored /\ BatchesAnchored /\ ReadingsPlaced
    /\ DropsOutsideWindow
    /\ RingInOrder /\ HandlersCount /\ LatestAlone /\ TimelineInv
    /\ SeenOnly /\ DetectInv /\ OfflineInv
-----------------------------------------------------------------------------
(* Handlers.                                                                   *)

\* What the constants are.
LEMMA Constants ==
    /\ MaxStamp \in Nat /\ Window \in Nat \ {0} /\ RingSize \in Nat \ {0}
    /\ Capacity \in Nat \ {0} /\ MaxReadings \in Nat /\ IsFiniteSet(Devices)
    /\ \A n \in Batches : n \in Nat /\ n > 0 /\ n <= MaxReadings
    /\ \A n \in Nat : n > 0 /\ n <= MaxReadings => n \in Batches
BY BatchingAssumption DEF Batches

\* What a handler holds at each of its steps.
LEMMA HandlerFacts ==
    ASSUME NEW h, HandlerType(h)
    PROVE  /\ h.at \in {"none", "advance", "snapshot", "detect", "forget", "stamp", "record",
                        "summarise", "push", "done"}
           /\ h.at = "none" <=> h = NotClosed
           /\ h.at = "done" <=> h = Done
           /\ h.at \in {"detect", "forget", "stamp"} =>
                 h.snapshot \subseteq Devices /\ h.todo \subseteq Devices
           /\ h.at \in {"forget", "stamp"} => h.device \in Devices
           /\ h.at = "push" => h.batch \in Batches
<1>1. CASE h \in [at : {"none", "advance", "snapshot", "record", "summarise", "done"}]
  BY <1>1 DEF NotClosed, Done
<1>2. CASE h.at = "detect" /\ h \in [at : {"detect"}, snapshot : SUBSET Devices,
                                     todo : SUBSET Devices]
  BY <1>2 DEF NotClosed, Done
<1>3. CASE /\ h.at \in {"forget", "stamp"}
           /\ h \in [at : {"forget", "stamp"}, snapshot : SUBSET Devices,
                     todo : SUBSET Devices, device : Devices]
  BY <1>3 DEF NotClosed, Done
<1>4. CASE h.at = "push" /\ h \in [at : {"push"}, batch : Batches]
  BY <1>4 DEF NotClosed, Done
<1> QED
  BY <1>1, <1>2, <1>3, <1>4 DEF HandlerType

\* A handler moves on, the others stay.
LEMMA Moved ==
    ASSUME handler = [m \in Batches |-> handler[m]], NEW n \in Batches, NEW h,
           handler' = [handler EXCEPT ![n] = h]
    PROVE  /\ handler'[n] = h
           /\ \A m \in Batches : m # n => handler'[m] = handler[m]
           /\ handler' = [m \in Batches |-> handler'[m]]
OBVIOUS

\* What every step of a handler has in common.
LEMMA HandlerFrame ==
    ASSUME TypeOK, HandlersCount, NEW n \in Batches, HandlerStep(n)
    PROVE  /\ UNCHANGED <<batcherVars, seen, consumer, processed, alone>>
           /\ UNCHANGED <<anchor, packets, ring, writeIndex, closed, orphans>>
           /\ Count' = Count /\ n \in 1 .. Count /\ n \in DOMAIN closed /\ n \in Running
           /\ HandlerType(handler'[n]) /\ handler'[n] # NotClosed
           /\ \A m \in Batches : m # n => handler'[m] = handler[m]
           /\ handler' = [m \in Batches |-> handler'[m]]
           /\ handler'[n].at # "advance"
<1>0. /\ HandlerType(handler[n]) /\ handler = [m \in Batches |-> handler[m]]
      /\ n > Count <=> handler[n] = NotClosed
      /\ closed \in Seq(Batch) /\ n \in Nat \ {0} /\ lastBatch \in 0 .. MaxReadings
  BY Constants DEF TypeOK, HandlersCount
<1>1. UNCHANGED <<batcherVars, seen, consumer, processed, alone>>
  BY DEF HandlerStep, Advance, TakeSnapshot, Detect, ForgetEntry, StampEntry, BuildSnapshot,
     RecordBatch, ReadLastBatch, Push
<1>2. handler[n].at \notin {"none", "done"}
  BY DEF HandlerStep, Advance, TakeSnapshot, Detect, ForgetEntry, StampEntry, BuildSnapshot,
     RecordBatch, ReadLastBatch, Push
<1>3. handler[n] # NotClosed /\ handler[n] # Done
  BY <1>2 DEF NotClosed, Done
<1>4. Count \in Nat /\ DOMAIN closed = 1 .. Count /\ n <= Count
  BY <1>0, <1>3 DEF Count
<1>5. \E h : /\ handler' = [handler EXCEPT ![n] = h] /\ HandlerType(h)
             /\ h.at \notin {"none", "advance"}
  <2>1. ASSUME NEW label \in {"snapshot", "record", "summarise", "done"}
        PROVE  LET h == [at |-> label] IN HandlerType(h) /\ h.at \notin {"none", "advance"}
    BY DEF HandlerType
  <2>2. CASE Advance(n) \/ BuildSnapshot(n) \/ RecordBatch(n) \/ Push(n)
    <3>1. \E label \in {"snapshot", "record", "summarise", "done"} :
             handler' = [handler EXCEPT ![n] = [at |-> label]]
      BY <2>2 DEF Advance, BuildSnapshot, RecordBatch, Push, Done
    <3> QED
      BY <2>1, <3>1
  <2>3. CASE TakeSnapshot(n)
    <3> DEFINE h == [at |-> "detect", snapshot |-> seen, todo |-> Devices]
    <3>1. HandlerType(h) /\ h.at = "detect"
      BY DEF HandlerType, TypeOK
    <3>2. handler' = [handler EXCEPT ![n] = h]
      BY <2>3 DEF TakeSnapshot
    <3> QED
      BY <3>1, <3>2
  <2>4. CASE ReadLastBatch(n)
    <3> DEFINE h == [at |-> "push", batch |-> lastBatch]
    <3>1. handler' = [handler EXCEPT ![n] = h] /\ handler[n].at = "summarise"
      BY <2>4 DEF ReadLastBatch
    <3>2. HandlerType(h) /\ h.at = "push"
      BY <3>1 DEF HandlerType, HandlersCount
    <3> QED
      BY <3>1, <3>2
  <2>5. ASSUME NEW d, NextDevice(n, d), handler[n].at \in {"detect", "forget", "stamp"}
        PROVE  \E h : /\ handler' = [handler EXCEPT ![n] = h] /\ HandlerType(h)
                      /\ h.at \notin {"none", "advance"}
    <3> DEFINE h == [at |-> "detect", snapshot |-> handler[n].snapshot,
                     todo |-> handler[n].todo \ {d}]
    <3>1. handler' = [handler EXCEPT ![n] = h]
      BY <1>0, <2>5 DEF NextDevice
    <3>2. HandlerType(h) /\ h.at = "detect"
      BY <1>0, <2>5, HandlerFacts DEF HandlerType
    <3> QED
      BY <3>1, <3>2
  <2>6. ASSUME NEW d \in Devices, NEW label \in {"forget", "stamp"}, GoToEntry(n, d, label),
               handler[n].at = "detect"
        PROVE  \E h : /\ handler' = [handler EXCEPT ![n] = h] /\ HandlerType(h)
                      /\ h.at \notin {"none", "advance"}
    <3> DEFINE h == [at |-> label, snapshot |-> handler[n].snapshot, todo |-> handler[n].todo,
                     device |-> d]
    <3>1. handler' = [handler EXCEPT ![n] = h]
      BY <1>0, <2>6 DEF GoToEntry
    <3>2. HandlerType(h) /\ h.at = label
      BY <1>0, <2>6, HandlerFacts DEF HandlerType
    <3> QED
      BY <3>1, <3>2
  <2>7. CASE Detect(n)
    <3>1. handler[n].at = "detect" /\ handler[n].todo \subseteq Devices
      BY <1>0, <2>7, HandlerFacts DEF Detect
    <3>2. PICK d \in handler[n].todo :
             DetectReported(n, d) \/ DetectMissing(n, d) \/ DetectUnseen(n, d)
      BY <2>7 DEF Detect
    <3>3. NextDevice(n, d) \/ GoToEntry(n, d, "forget") \/ GoToEntry(n, d, "stamp")
      BY <3>2 DEF DetectReported, DetectMissing, DetectUnseen
    <3> QED
      BY <2>5, <2>6, <3>1, <3>3
  <2>8. CASE ForgetEntry(n) \/ StampEntry(n)
    BY <2>5, <2>8 DEF ForgetEntry, StampEntry
  <2> QED
    BY <2>2, <2>3, <2>4, <2>7, <2>8 DEF HandlerStep
<1>6. PICK h : /\ handler' = [handler EXCEPT ![n] = h] /\ HandlerType(h)
               /\ h.at \notin {"none", "advance"}
  BY <1>5
<1>7. h # NotClosed
  BY <1>6 DEF NotClosed
<1>8. /\ handler'[n] = h
      /\ \A m \in Batches : m # n => handler'[m] = handler[m]
      /\ handler' = [m \in Batches |-> handler'[m]]
  BY <1>0, <1>6, Moved
<1> QED
  BY <1>0, <1>1, <1>3, <1>4, <1>6, <1>7, <1>8 DEF batcherVars, Count, Running

\* The end of a batch.
LEMMA CloseFacts ==
    ASSUME TypeOK, HandlersCount, EnoughReadings, OpenAnchored, CloseBatch
    PROVE  LET batch == [stamp |-> anchor, readings |-> packets]
           IN  /\ UNCHANGED <<quiet, orphans, seen, consumer, clock, detectorVars, summaryVars,
                              processed, judged>>
               /\ anchor # None /\ anchor' = None /\ packets' = {}
               /\ batch \in Batch /\ closed' = Append(closed, batch)
               /\ Count \in Nat /\ Count' = Count + 1 /\ Count + 1 \in Batches
               /\ Count + 1 <= processed
               /\ DOMAIN closed = 1 .. Count /\ DOMAIN closed' = 1 .. Count + 1
               /\ closed'[Count + 1] = batch
               /\ \A i \in DOMAIN closed : i \in DOMAIN closed' /\ closed'[i] = closed[i]
               /\ handler'[Count + 1] = [at |-> "advance"]
               /\ \A m \in Batches : m # Count + 1 => handler'[m] = handler[m]
               /\ handler' = [m \in Batches |-> handler'[m]]
               /\ handler[Count + 1] = NotClosed
<1> DEFINE batch == [stamp |-> anchor, readings |-> packets]
<1>1. /\ UNCHANGED <<quiet, orphans, seen, consumer, clock, detectorVars, summaryVars,
                     processed, judged>>
      /\ anchor # None /\ anchor' = None /\ packets' = {}
      /\ closed' = Append(closed, batch)
      /\ handler' = [handler EXCEPT ![Count + 1] = [at |-> "advance"]]
  BY DEF CloseBatch, StartBatch, Count
<1>2. closed \in Seq(Batch) /\ anchor \in Stamps /\ packets \subseteq Reading
  BY <1>1 DEF TypeOK
<1>3. batch \in Batch
  BY <1>2 DEF Batch
<1> HIDE DEF batch
<1>4. /\ Count \in Nat /\ Count' = Count + 1
      /\ DOMAIN closed = 1 .. Count /\ DOMAIN closed' = 1 .. Count + 1
      /\ closed'[Count + 1] = batch
      /\ \A i \in DOMAIN closed : i \in DOMAIN closed' /\ closed'[i] = closed[i]
  BY <1>1, <1>2, <1>3 DEF Count
<1>5. Count + 1 <= processed /\ processed \in Nat /\ processed <= MaxReadings
  BY <1>1, <1>4, Constants DEF EnoughReadings, TypeOK
<1>6. Count + 1 \in Batches
  BY <1>4, <1>5, Constants
<1>7. handler[Count + 1] = NotClosed
  BY <1>4, <1>6 DEF HandlersCount
<1>8. /\ handler'[Count + 1] = [at |-> "advance"]
      /\ \A m \in Batches : m # Count + 1 => handler'[m] = handler[m]
      /\ handler' = [m \in Batches |-> handler'[m]]
  BY <1>1, <1>6, Moved DEF HandlersCount
<1> QED
  BY <1>1, <1>3, <1>4, <1>5, <1>6, <1>7, <1>8 DEF batch

\* The other steps of the batcher and the consumer leave the handlers and what
\* they change alone.
LEMMA OtherFrame ==
    ASSUME \/ UNCHANGED vars
           \/ \E d \in Devices, s \in Stamps : RecordTelemetry(d, s)
           \/ AddPackets
           \/ FallQuiet
    PROVE  /\ UNCHANGED <<closed, ring, writeIndex, clock, disconnected, offlineSince, handler,
                          timeline, lastBatch, view, built, judged, alone>>
           /\ Count' = Count
           /\ seen \subseteq seen'
BY DEF RecordTelemetry, AddPackets, FallQuiet, vars, batcherVars, detectorVars, summaryVars, Count

\* Every step is one of these.
LEMMA Steps ==
    ASSUME [Next]_vars
    PROVE  \/ UNCHANGED vars
           \/ \E d \in Devices, s \in Stamps : RecordTelemetry(d, s)
           \/ AddPackets
           \/ FallQuiet
           \/ CloseBatch
           \/ \E n \in Batches : HandlerStep(n)
BY DEF Next
-----------------------------------------------------------------------------
(* Readings.                                                                   *)

\* What a step of the consumer does.
LEMMA RecordFacts ==
    ASSUME TypeOK, NEW d \in Devices, NEW s \in Stamps, RecordTelemetry(d, s)
    PROVE  /\ UNCHANGED <<anchor, packets, quiet, orphans>> /\ consumer = Idle
           /\ processed \in Nat /\ processed < MaxReadings /\ processed' = processed + 1
           /\ consumer' \in [at : {"add"}, reading : Reading] /\ consumer' # Idle
           /\ consumer'.reading.seq = processed + 1
           /\ seen' = seen \cup {d}
<1> DEFINE reading == [seq |-> processed + 1, device |-> d, stamp |-> s]
<1>1. /\ UNCHANGED <<anchor, packets, quiet, orphans>> /\ consumer = Idle
      /\ processed < MaxReadings /\ processed' = processed + 1
      /\ seen' = seen \cup {d}
      /\ consumer' = [at |-> "add", reading |-> reading]
  BY DEF RecordTelemetry, batcherVars
<1>2. processed \in Nat /\ processed + 1 \in 1 .. MaxReadings
  BY <1>1, Constants DEF TypeOK
<1>3. reading \in Reading /\ reading.seq = processed + 1
  BY <1>2 DEF Reading
<1> HIDE DEF reading
<1>4. consumer' \in [at : {"add"}, reading : Reading] /\ consumer'.reading = reading
  BY <1>1, <1>3
<1>5. consumer' # Idle
  BY <1>1 DEF Idle
<1> QED
  BY <1>1, <1>2, <1>3, <1>4, <1>5

\* The batcher takes the reading, or drops it.
LEMMA AddFacts ==
    ASSUME TypeOK, AddPackets
    PROVE  /\ UNCHANGED <<seen, processed>> /\ consumer # Idle /\ consumer' = Idle
           /\ consumer.reading \in Reading /\ anchor' \in Stamps
           /\ anchor' = (IF anchor = None THEN consumer.reading.stamp ELSE anchor)
           /\ \/ /\ InWindow(consumer.reading.stamp, anchor')
                 /\ packets' = packets \cup {consumer.reading} /\ orphans' = orphans
              \/ /\ ~InWindow(consumer.reading.stamp, anchor')
                 /\ packets' = packets /\ orphans' = orphans \cup {consumer.reading}
           /\ quiet' = FALSE
<1>1. consumer # Idle /\ consumer.reading \in Reading
  BY DEF AddPackets, Idle, TypeOK
<1>2. anchor' \in Stamps
  BY <1>1 DEF AddPackets, TypeOK, Reading
<1> QED
  BY <1>1, <1>2 DEF AddPackets

\* A reading is within the window around its own time stamp.
LEMMA OwnWindow == \A s \in Stamps : InWindow(s, s)
BY Constants DEF InWindow, Stamps

\* Where the batcher, the consumer and the count of readings stay, so do these.
LEMMA ReadingsSame ==
    ASSUME EnoughReadings, OpenAnchored, BatchesAnchored, ReadingsPlaced, RingInOrder,
           UNCHANGED <<anchor, packets, ring, writeIndex, closed, orphans, consumer, processed>>
    PROVE  (EnoughReadings /\ OpenAnchored /\ BatchesAnchored /\ ReadingsPlaced /\ RingInOrder)'
<1>1. EnoughReadings' /\ OpenAnchored' /\ BatchesAnchored'
  BY DEF EnoughReadings, OpenAnchored, BatchesAnchored, Count
<1>2. \A q : /\ BatchesOf(q)' = BatchesOf(q) /\ HeldOf(q)' = HeldOf(q)
             /\ Placed(q)' <=> Placed(q)
             /\ NotPlaced(q)' <=> NotPlaced(q)
  BY DEF NotPlaced, Placed, BatchesOf, HeldOf
<1>3. ReadingsPlaced'
  BY <1>2 DEF ReadingsPlaced
<1>4. \A i : RingAt(i)' = RingAt(i)
  BY DEF RingAt, Count
<1>5. RingInOrder'
  BY <1>4 DEF RingInOrder
<1> QED
  BY <1>1, <1>3, <1>5

\* A reading takes up a place at most.
LEMMA EnoughStep ==
    ASSUME TypeOK, HandlersCount, OpenAnchored, EnoughReadings, [Next]_vars
    PROVE  EnoughReadings'
<1>0. Count \in Nat /\ processed \in Nat
  BY Constants DEF TypeOK, Count
<1>1. ASSUME NEW d \in Devices, NEW s \in Stamps, RecordTelemetry(d, s) PROVE EnoughReadings'
  BY <1>0, <1>1, RecordFacts, OtherFrame DEF EnoughReadings
<1>2. CASE AddPackets
  <2>1. anchor' # None
    BY <1>2, AddFacts, Constants DEF Stamps, None
  <2> QED
    BY <1>0, <1>2, <2>1, AddFacts, OtherFrame DEF EnoughReadings
<1>3. CASE FallQuiet \/ UNCHANGED vars
  BY <1>3 DEF FallQuiet, vars, batcherVars, EnoughReadings, Count
<1>4. CASE CloseBatch
  BY <1>0, <1>4, CloseFacts DEF EnoughReadings
<1>5. ASSUME NEW n \in Batches, HandlerStep(n) PROVE EnoughReadings'
  BY <1>5, HandlerFrame DEF EnoughReadings
<1> QED
  BY <1>1, <1>2, <1>3, <1>4, <1>5, Steps

\* The reading that opens a batch anchors it.
LEMMA AnchoredStep ==
    ASSUME TypeOK, HandlersCount, EnoughReadings, OpenAnchored, BatchesAnchored, [Next]_vars
    PROVE  OpenAnchored' /\ BatchesAnchored'
<1>1. ASSUME NEW d \in Devices, NEW s \in Stamps, RecordTelemetry(d, s)
      PROVE  OpenAnchored' /\ BatchesAnchored'
  BY <1>1, RecordFacts, OtherFrame DEF OpenAnchored, BatchesAnchored
<1>2. CASE AddPackets
  <2>1. BatchesAnchored'
    BY <1>2, OtherFrame DEF BatchesAnchored
  <2>2. anchor' # None /\ consumer.reading.stamp \in Stamps
    BY <1>2, AddFacts, Constants DEF Stamps, None, Reading
  <2> DEFINE r == consumer.reading
  <2>3. CASE anchor = None
    <3>1. anchor' = r.stamp /\ InWindow(r.stamp, anchor')
      BY <1>2, <2>2, <2>3, AddFacts, OwnWindow
    <3>2. packets' = {r}
      BY <1>2, <2>3, <3>1, AddFacts DEF OpenAnchored
    <3> HIDE DEF r
    <3> QED
      BY <2>1, <2>2, <3>1, <3>2 DEF OpenAnchored, InWindow
  <2>4. CASE anchor # None
    <3>1. /\ anchor' = anchor /\ \E a \in packets : a.stamp = anchor
          /\ \A a \in packets : InWindow(a.stamp, anchor)
      BY <1>2, <2>4, AddFacts DEF OpenAnchored
    <3>2. \/ packets' = packets
          \/ /\ packets' = packets \cup {r}
             /\ InWindow(r.stamp, anchor)
      BY <1>2, <3>1, AddFacts
    <3> HIDE DEF r
    <3> QED
      BY <2>1, <2>2, <3>1, <3>2 DEF OpenAnchored, InWindow
  <2> QED
    BY <2>1, <2>3, <2>4
<1>3. CASE FallQuiet \/ UNCHANGED vars
  BY <1>3 DEF FallQuiet, vars, batcherVars, OpenAnchored, BatchesAnchored
<1>4. CASE CloseBatch
  <2> DEFINE batch == [stamp |-> anchor, readings |-> packets]
  <2>1. /\ anchor # None /\ anchor' = None /\ packets' = {}
        /\ DOMAIN closed = 1 .. Count /\ DOMAIN closed' = 1 .. Count + 1 /\ Count \in Nat
        /\ closed'[Count + 1] = batch
        /\ \A i \in DOMAIN closed : closed'[i] = closed[i]
    BY <1>4, CloseFacts
  <2>2. batch.stamp = anchor /\ batch.readings = packets
    OBVIOUS
  <2>3. \A i \in DOMAIN closed' : i \in DOMAIN closed \/ i = Count + 1
    BY <2>1
  <2> HIDE DEF batch
  <2> QED
    BY <2>1, <2>2, <2>3 DEF OpenAnchored, BatchesAnchored
<1>5. ASSUME NEW n \in Batches, HandlerStep(n) PROVE OpenAnchored' /\ BatchesAnchored'
  BY <1>5, HandlerFrame DEF OpenAnchored, BatchesAnchored
<1> QED
  BY <1>1, <1>2, <1>3, <1>4, <1>5, Steps

\* A reading moves from the consumer to the open batch or the orphans, and with
\* its batch to the closed ones.
LEMMA PlacedStep ==
    ASSUME TypeOK, HandlersCount, EnoughReadings, OpenAnchored, ReadingsPlaced, [Next]_vars
    PROVE  ReadingsPlaced'
<1>0. processed \in Nat /\ MaxReadings \in Nat /\ processed <= MaxReadings
  BY Constants DEF TypeOK
<1>1. ASSUME NEW d \in Devices, NEW s \in Stamps, RecordTelemetry(d, s) PROVE ReadingsPlaced'
  <2>1. /\ UNCHANGED <<packets, orphans, closed>> /\ consumer = Idle /\ consumer' # Idle
        /\ processed' = processed + 1 /\ consumer'.reading.seq = processed + 1
    BY <1>1, RecordFacts, OtherFrame
  <2>2. \A q : (Placed(q)' <=> Placed(q)) /\ (NotPlaced(q)' <=> NotPlaced(q))
    BY <2>1 DEF Placed, NotPlaced, BatchesOf, HeldOf
  <2>3. \A q \in 1 .. MaxReadings : q > processed <=> q > processed + 1 \/ processed + 1 = q
    BY <1>0
  <2>4. processed + 1 \in 1 .. processed + 1
    BY <1>0
  <2> QED
    BY <2>1, <2>2, <2>3, <2>4 DEF ReadingsPlaced
<1>2. CASE AddPackets
  <2> SUFFICES ASSUME NEW r, r = consumer.reading PROVE ReadingsPlaced'
    OBVIOUS
  <2>1. /\ consumer # Idle /\ consumer' = Idle /\ processed' = processed /\ closed' = closed
        /\ \/ packets' = packets \cup {r} /\ orphans' = orphans
           \/ packets' = packets /\ orphans' = orphans \cup {r}
    BY <1>2, AddFacts, OtherFrame
  <2>2. r.seq \in 1 .. processed /\ NotPlaced(r.seq) /\ packets \cap orphans = {}
    BY <1>0, <2>1 DEF ReadingsPlaced
  <2>3. r \notin packets \cup orphans
    BY <2>2 DEF NotPlaced, HeldOf
  <2>4. packets' \cap orphans' = {} /\ packets' \cup orphans' = packets \cup orphans \cup {r}
    BY <2>1, <2>2, <2>3
  <2>5. \A q : BatchesOf(q)' = BatchesOf(q) /\ (q # r.seq => HeldOf(q)' = HeldOf(q))
    BY <2>1, <2>4 DEF BatchesOf, HeldOf
  <2>6. BatchesOf(r.seq) = {} /\ HeldOf(r.seq)' = {r} /\ r \in packets' \cup orphans'
    BY <2>2, <2>4 DEF NotPlaced, HeldOf
  <2>7. ASSUME NEW q \in 1 .. MaxReadings
        PROVE  IF q > processed' \/ (consumer' # Idle /\ consumer'.reading.seq = q)
               THEN NotPlaced(q)' ELSE Placed(q)'
    <3>1. CASE q = r.seq
      <4>1. ~ q > processed
        BY <1>0, <2>2, <3>1
      <4> QED
        BY <2>1, <2>5, <2>6, <3>1, <4>1 DEF Placed
    <3>2. CASE q # r.seq
      <4>1. IF q > processed THEN NotPlaced(q) ELSE Placed(q)
        BY <2>1, <3>2 DEF ReadingsPlaced
      <4>2. NotPlaced(q)' <=> NotPlaced(q)
        BY <2>5, <3>2 DEF NotPlaced
      <4>3. Placed(q) => Placed(q)'
        BY <2>1, <2>4, <2>5, <3>2 DEF Placed
      <4> QED
        BY <2>1, <4>1, <4>2, <4>3
    <3> QED
      BY <3>1, <3>2
  <2> QED
    BY <2>1, <2>4, <2>7 DEF ReadingsPlaced
<1>3. CASE FallQuiet \/ UNCHANGED vars
  <2>1. UNCHANGED <<packets, orphans, closed, consumer, processed>>
    BY <1>3 DEF FallQuiet, vars, batcherVars
  <2>2. \A q : (Placed(q)' <=> Placed(q)) /\ (NotPlaced(q)' <=> NotPlaced(q))
    BY <2>1 DEF Placed, NotPlaced, BatchesOf, HeldOf
  <2> QED
    BY <2>1, <2>2 DEF ReadingsPlaced
<1>4. CASE CloseBatch
  <2>1. /\ packets' = {} /\ UNCHANGED <<orphans, consumer, processed>> /\ Count \in Nat
        /\ DOMAIN closed = 1 .. Count /\ DOMAIN closed' = 1 .. Count + 1
        /\ closed'[Count + 1].readings = packets
        /\ \A i \in DOMAIN closed : closed'[i] = closed[i]
        /\ packets \cap orphans = {}
    BY <1>4, CloseFacts DEF ReadingsPlaced
  <2>2. DOMAIN closed' = DOMAIN closed \cup {Count + 1}
    BY <2>1
  <2>3. ASSUME NEW q
        PROVE  /\ (\E r \in packets : r.seq = q)
                     => BatchesOf(q)' = BatchesOf(q) \cup {Count + 1}
               /\ ~ (\E r \in packets : r.seq = q) => BatchesOf(q)' = BatchesOf(q)
               /\ HeldOf(q)' = {r \in orphans : r.seq = q}
    BY <2>1, <2>2 DEF BatchesOf, HeldOf
  <2>4. ASSUME NEW q, NotPlaced(q) PROVE NotPlaced(q)'
    BY <2>3, <2>4 DEF NotPlaced, HeldOf
  <2>5. ASSUME NEW q, Placed(q) PROVE Placed(q)'
    <3>1. CASE (\E i \in DOMAIN closed : BatchesOf(q) = {i}) /\ HeldOf(q) = {}
      <4>1. BatchesOf(q)' = BatchesOf(q) /\ HeldOf(q)' = {}
        BY <2>3, <3>1 DEF HeldOf
      <4> QED
        BY <2>2, <3>1, <4>1 DEF Placed
    <3>2. CASE BatchesOf(q) = {} /\ \E r \in packets \cup orphans : HeldOf(q) = {r}
      <4>1. PICK r \in packets \cup orphans : HeldOf(q) = {r}
        BY <3>2
      <4>2. r.seq = q /\ \A s \in packets \cup orphans : s.seq = q => s = r
        BY <4>1 DEF HeldOf
      <4>3. CASE r \in packets
        <5>1. BatchesOf(q)' = {Count + 1} /\ HeldOf(q)' = {}
          BY <2>1, <2>3, <3>2, <4>2, <4>3
        <5> QED
          BY <2>2, <5>1 DEF Placed
      <4>4. CASE r \in orphans
        <5>1. BatchesOf(q)' = {} /\ HeldOf(q)' = {r}
          BY <2>1, <2>3, <3>2, <4>2, <4>4
        <5> QED
          BY <2>1, <4>4, <5>1 DEF Placed
      <4> QED
        BY <4>3, <4>4
    <3> QED
      BY <2>5, <3>1, <3>2 DEF Placed
  <2> QED
    BY <2>1, <2>4, <2>5 DEF ReadingsPlaced
<1>5. ASSUME NEW n \in Batches, HandlerStep(n) PROVE ReadingsPlaced'
  <2>1. UNCHANGED <<packets, orphans, closed, consumer, processed>>
    BY <1>5, HandlerFrame
  <2>2. \A q : (Placed(q)' <=> Placed(q)) /\ (NotPlaced(q)' <=> NotPlaced(q))
    BY <2>1 DEF Placed, NotPlaced, BatchesOf, HeldOf
  <2> QED
    BY <2>1, <2>2 DEF ReadingsPlaced
<1> QED
  BY <1>1, <1>2, <1>3, <1>4, <1>5, Steps

\* A reading is dropped for the window of the open batch, which then closes.
LEMMA DropsStep ==
    ASSUME TypeOK, HandlersCount, EnoughReadings, OpenAnchored, ReadingsPlaced,
           DropsOutsideWindow, [Next]_vars
    PROVE  DropsOutsideWindow'
<1>0. processed \in Nat /\ MaxReadings \in Nat /\ packets \subseteq Reading
  BY Constants DEF TypeOK
<1>1. CASE AddPackets
  <2> SUFFICES ASSUME NEW r, r = consumer.reading PROVE DropsOutsideWindow'
    OBVIOUS
  <2>1. /\ consumer # Idle /\ closed' = closed /\ r \in Reading
        /\ anchor' = (IF anchor = None THEN r.stamp ELSE anchor) /\ anchor' # None
        /\ \/ packets' = packets \cup {r} /\ orphans' = orphans
           \/ /\ ~InWindow(r.stamp, anchor')
              /\ packets' = packets /\ orphans' = orphans \cup {r}
    BY <1>1, AddFacts, OtherFrame DEF Stamps, None
  <2>2. anchor # None => anchor' = anchor
    BY <2>1
  <2>3. ASSUME NEW s \in orphans
        PROVE  \/ anchor' # None /\ DroppedFrom(s, anchor', packets')
               \/ \E i \in DOMAIN closed : DroppedFrom(s, closed[i].stamp, closed[i].readings)
    <3>1. packets \subseteq packets'
      BY <2>1
    <3> QED
      BY <2>1, <2>2, <3>1 DEF DropsOutsideWindow, DroppedFrom
  <2>4. CASE orphans' = orphans
    BY <2>1, <2>3, <2>4 DEF DropsOutsideWindow
  <2>5. CASE ~InWindow(r.stamp, anchor') /\ packets' = packets /\ orphans' = orphans \cup {r}
    <3>1. anchor # None
      BY <2>1, <2>5, OwnWindow DEF Reading
    <3>2. PICK first \in packets : first.stamp = anchor
      BY <3>1 DEF OpenAnchored
    <3>3. first.seq \in 1 .. MaxReadings /\ first \in HeldOf(first.seq)
      BY <1>0 DEF Reading, HeldOf
    <3>4. ~NotPlaced(first.seq)
      BY <3>3 DEF NotPlaced
    <3>5. ~ first.seq > processed /\ r.seq # first.seq /\ r.seq = processed
      BY <2>1, <3>3, <3>4 DEF ReadingsPlaced
    <3>6. first.seq < r.seq
      BY <1>0, <3>3, <3>5
    <3>7. DroppedFrom(r, anchor', packets')
      BY <2>2, <2>5, <3>1, <3>2, <3>6 DEF DroppedFrom
    <3> QED
      BY <2>1, <2>3, <2>5, <3>7 DEF DropsOutsideWindow
  <2> QED
    BY <2>1, <2>4, <2>5
<1>2. CASE CloseBatch
  <2>1. /\ anchor # None /\ orphans' = orphans
        /\ Count \in Nat /\ DOMAIN closed = 1 .. Count /\ DOMAIN closed' = 1 .. Count + 1
        /\ closed'[Count + 1] = [stamp |-> anchor, readings |-> packets]
        /\ \A i \in DOMAIN closed : closed'[i] = closed[i]
    BY <1>2, CloseFacts DEF CloseBatch
  <2>2. ASSUME NEW s \in orphans
        PROVE  \E i \in DOMAIN closed' : DroppedFrom(s, closed'[i].stamp, closed'[i].readings)
    <3>1. CASE DroppedFrom(s, anchor, packets)
      <4>1. Count + 1 \in DOMAIN closed'
        BY <2>1
      <4>2. closed'[Count + 1].stamp = anchor /\ closed'[Count + 1].readings = packets
        BY <2>1
      <4> QED
        BY <3>1, <4>1, <4>2
    <3>2. CASE \E i \in DOMAIN closed : DroppedFrom(s, closed[i].stamp, closed[i].readings)
      <4>1. DOMAIN closed \subseteq DOMAIN closed'
        BY <2>1
      <4> QED
        BY <2>1, <3>2, <4>1
    <3> QED
      BY <3>1, <3>2 DEF DropsOutsideWindow
  <2> QED
    BY <2>1, <2>2 DEF DropsOutsideWindow
<1>3. CASE UNCHANGED <<anchor, packets, orphans, closed>>
  BY <1>3 DEF DropsOutsideWindow, DroppedFrom
<1>4. ASSUME NEW d \in Devices, NEW s \in Stamps, RecordTelemetry(d, s)
      PROVE  UNCHANGED <<anchor, packets, orphans, closed>>
  BY <1>4, RecordFacts, OtherFrame
<1>5. FallQuiet \/ UNCHANGED vars => UNCHANGED <<anchor, packets, orphans, closed>>
  BY DEF FallQuiet, vars, batcherVars
<1>6. ASSUME NEW n \in Batches, HandlerStep(n)
      PROVE  UNCHANGED <<anchor, packets, orphans, closed>>
  BY <1>6, HandlerFrame
<1> QED
  BY <1>1, <1>2, <1>3, <1>4, <1>5, <1>6, Steps

\* A reading that has a place is in one batch or held once.
LEMMA PlacesCounted ==
    ASSUME TypeOK, ReadingsPlaced
    PROVE  EachReadingInOneBatch
<1> SUFFICES ASSUME NEW q \in 1 .. processed
             PROVE  Places(q) = IF consumer # Idle /\ consumer.reading.seq = q THEN 0 ELSE 1
  BY DEF EachReadingInOneBatch
<1>1. q \in 1 .. MaxReadings /\ ~ q > processed
  BY Constants DEF TypeOK
<1>2. Places(q) = Cardinality(BatchesOf(q)) + Cardinality(HeldOf(q))
  BY DEF Places, BatchesOf, HeldOf
<1>3. NotPlaced(q) => Places(q) = 0
  BY <1>2, FS_EmptySet DEF NotPlaced
<1>4. Placed(q) => Places(q) = 1
  <2>1. \A x : Cardinality({x}) = 1
    BY FS_Singleton
  <2>2. Cardinality({}) = 0
    BY FS_EmptySet
  <2>3. Placed(q) => \/ /\ Cardinality(BatchesOf(q)) = 1
                        /\ Cardinality(HeldOf(q)) = 0
                     \/ /\ Cardinality(BatchesOf(q)) = 0
                        /\ Cardinality(HeldOf(q)) = 1
    BY <2>1, <2>2 DEF Placed
  <2> QED
    BY <1>2, <2>3
<1> QED
  BY <1>1, <1>3, <1>4 DEF ReadingsPlaced

-----------------------------------------------------------------------------
(* The ring.                                                                   *)

\* The next place is the first one after the last.
LEMMA NextIndexWraps ==
    ASSUME NEW i \in 0 .. RingSize - 1
    PROVE  NextIndex(i) = IF i + 1 = RingSize THEN 0 ELSE i + 1
BY Constants DEF NextIndex

\* A closed batch takes the next place of the ring.
LEMMA RingStep ==
    ASSUME TypeOK, HandlersCount, EnoughReadings, OpenAnchored, RingInOrder, [Next]_vars
    PROVE  RingInOrder'
<1>1. CASE CloseBatch
  <2>1. /\ writeIndex \in 0 .. RingSize - 1 /\ RingSize \in Nat \ {0}
        /\ ring \in [0 .. RingSize - 1 -> 0 .. MaxReadings]
    BY Constants DEF TypeOK
  <2>2. Count \in Nat /\ Count' = Count + 1
    BY <1>1, CloseFacts
  <2>3. /\ ring' = [ring EXCEPT ![writeIndex] = Count + 1]
        /\ writeIndex' = IF writeIndex + 1 = RingSize THEN 0 ELSE writeIndex + 1
    BY <1>1, <2>1, NextIndexWraps DEF CloseBatch, Count
  <2>4. ASSUME NEW i \in 0 .. RingSize - 1
        PROVE  ring'[i] = IF RingAt(i)' > 0 THEN RingAt(i)' ELSE 0
    <3>1. ring'[i] = IF i = writeIndex THEN Count + 1 ELSE ring[i]
      BY <2>1, <2>3
    <3>2. RingAt(i)' = IF i = writeIndex THEN Count + 1 ELSE RingAt(i)
      BY <2>1, <2>2, <2>3 DEF RingAt
    <3>3. ring[i] = IF RingAt(i) > 0 THEN RingAt(i) ELSE 0
      BY DEF RingInOrder
    <3> QED
      BY <2>2, <3>1, <3>2, <3>3
  <2> QED
    BY <2>4 DEF RingInOrder
<1>2. CASE UNCHANGED <<ring, writeIndex, closed>>
  <2>1. \A i : RingAt(i)' = RingAt(i)
    BY <1>2 DEF RingAt, Count
  <2> QED
    BY <1>2, <2>1 DEF RingInOrder
<1> QED
  BY <1>1, <1>2, Steps, OtherFrame, HandlerFrame

\* A ring in order holds the latest batches.
LEMMA RingInOrderHolds ==
    ASSUME TypeOK, RingInOrder
    PROVE  RingHoldsLatest
<1>1. /\ writeIndex \in 0 .. RingSize - 1 /\ RingSize \in Nat \ {0}
      /\ DOMAIN ring = 0 .. RingSize - 1 /\ Count \in Nat
  BY Constants DEF TypeOK, Count
<1>2. ASSUME NEW i \in 0 .. RingSize - 1, ring[i] # 0
      PROVE  ring[i] \in 1 .. Count /\ ring[i] > Count - RingSize
  <2>1. ring[i] = RingAt(i) /\ RingAt(i) > 0
    BY <1>2 DEF RingInOrder
  <2>2. RingAt(i) \in Int /\ RingAt(i) <= Count /\ RingAt(i) > Count - RingSize
    BY <1>1 DEF RingAt
  <2> QED
    BY <1>1, <2>1, <2>2
<1>3. ASSUME NEW k \in 1 .. Count, k > Count - RingSize
      PROVE  \E i \in 0 .. RingSize - 1 : ring[i] = k /\ k # 0
  <2> DEFINE j == k - Count + writeIndex - 1
             i == IF j >= 0 THEN j ELSE j + RingSize
  <2>1. i \in 0 .. RingSize - 1 /\ RingAt(i) = k
    BY <1>1, <1>3 DEF RingAt
  <2>2. k > 0 /\ k # 0
    BY <1>1
  <2> HIDE DEF i
  <2> QED
    BY <2>1, <2>2 DEF RingInOrder
<1>4. {ring[i] : i \in DOMAIN ring} \ {0} = {k \in 1 .. Count : k > Count - RingSize}
  BY <1>1, <1>2, <1>3
<1> QED
  BY <1>4 DEF RingHoldsLatest, Count

-----------------------------------------------------------------------------
(* The clock and the handlers.                                                 *)

\* A handler that does not advance the clock has done it before.
LEMMA ClockFrame ==
    ASSUME NEW n \in Batches, HandlerStep(n)
    PROVE  \/ /\ handler[n].at = "advance"
              /\ clock' = clock + 1 /\ UNCHANGED <<lastBatch, judged>>
           \/ handler[n].at \notin {"none", "advance"} /\ clock' = clock
BY DEF HandlerStep, Advance, TakeSnapshot, Detect, ForgetEntry, StampEntry, BuildSnapshot,
   RecordBatch, ReadLastBatch, Push, summaryVars

\* Only RecordBatch records, and it alone leads to the summary.
LEMMA RecordFrame ==
    ASSUME TypeOK, HandlersCount, NEW n \in Batches, HandlerStep(n)
    PROVE  \/ RecordBatch(n) /\ lastBatch' = n /\ handler'[n].at = "summarise"
           \/ ~RecordBatch(n) /\ lastBatch' = lastBatch /\ handler'[n].at # "summarise"
<1>1. HandlerType(handler[n]) /\ handler = [m \in Batches |-> handler[m]]
  BY DEF TypeOK, HandlersCount
<1>2. CASE RecordBatch(n)
  BY <1>1, <1>2 DEF RecordBatch
<1>3. CASE Advance(n) \/ BuildSnapshot(n) \/ Push(n) \/ TakeSnapshot(n) \/ ReadLastBatch(n)
  BY <1>1, <1>3 DEF Advance, BuildSnapshot, Push, TakeSnapshot, ReadLastBatch, Done, summaryVars,
     RecordBatch
<1>4. ASSUME NEW d, NextDevice(n, d) PROVE handler'[n].at # "summarise"
  BY <1>1, <1>4 DEF NextDevice
<1>5. ASSUME NEW d, NEW label \in {"forget", "stamp"}, GoToEntry(n, d, label)
      PROVE  handler'[n].at # "summarise"
  BY <1>1, <1>5 DEF GoToEntry
<1>6. CASE Detect(n) \/ ForgetEntry(n) \/ StampEntry(n)
  <2>1. handler'[n].at # "summarise"
    BY <1>4, <1>5, <1>6 DEF Detect, DetectReported, DetectMissing, DetectUnseen, ForgetEntry,
       StampEntry
  <2>2. lastBatch' = lastBatch /\ handler[n].at # "record"
    BY <1>6 DEF Detect, ForgetEntry, StampEntry, summaryVars
  <2> QED
    BY <2>1, <2>2 DEF RecordBatch
<1> QED
  BY <1>2, <1>3, <1>6 DEF HandlerStep

\* A handler starts with its batch and counts once.
LEMMA HandlersStep ==
    ASSUME TypeOK, EnoughReadings, OpenAnchored, HandlersCount, [Next]_vars
    PROVE  HandlersCount'
<1>0. /\ handler = [n \in Batches |-> handler[n]] /\ clock = Cardinality(Advanced)
      /\ \A n \in Batches : n > Count <=> handler[n] = NotClosed
      /\ \A n \in Batches : handler[n].at = "summarise" => lastBatch \in Batches
      /\ \A n \in Batches : HandlerType(handler[n])
  BY DEF HandlersCount, TypeOK
<1>1. CASE CloseBatch
  <2>1. /\ Count \in Nat /\ Count' = Count + 1 /\ Count + 1 \in Batches
        /\ handler'[Count + 1] = [at |-> "advance"] /\ handler[Count + 1] = NotClosed
        /\ \A m \in Batches : m # Count + 1 => handler'[m] = handler[m]
        /\ handler' = [m \in Batches |-> handler'[m]]
        /\ UNCHANGED <<clock, lastBatch>>
    BY <1>1, CloseFacts DEF summaryVars
  <2>2. \A n \in Batches : n > Count + 1 <=> n > Count /\ n # Count + 1
    BY <2>1, Constants
  <2>3. \A n \in Batches : n > Count' <=> handler'[n] = NotClosed
    BY <1>0, <2>1, <2>2 DEF NotClosed
  <2>4. Advanced' = Advanced
    BY <2>1 DEF Advanced, NotClosed
  <2> QED
    BY <1>0, <2>1, <2>3, <2>4 DEF HandlersCount
<1>2. ASSUME NEW n \in Batches, HandlerStep(n) PROVE HandlersCount'
  <2>1. /\ Count' = Count /\ n \in 1 .. Count /\ HandlerType(handler'[n])
        /\ handler'[n] # NotClosed /\ handler'[n].at # "advance"
        /\ \A m \in Batches : m # n => handler'[m] = handler[m]
        /\ handler' = [m \in Batches |-> handler'[m]]
    BY <1>2, HandlerFrame
  <2>2. ASSUME NEW m \in Batches PROVE m > Count' <=> handler'[m] = NotClosed
    <3>1. Count \in Nat /\ ~ n > Count
      BY <2>1 DEF TypeOK, Count
    <3>2. CASE m = n
      BY <2>1, <3>1, <3>2
    <3>3. CASE m # n
      <4>1. handler'[m] = handler[m]
        BY <2>1, <3>3
      <4>2. m > Count <=> handler[m] = NotClosed
        BY <1>0
      <4> QED
        BY <2>1, <4>1, <4>2
    <3> QED
      BY <3>2, <3>3
  <2>3. handler'[n].at \notin {"none", "advance"}
    BY <2>1, HandlerFacts
  <2>4. Advanced' = Advanced \cup {n}
    BY <2>1, <2>3 DEF Advanced
  <2>5. IsFiniteSet(Batches) /\ IsFiniteSet(Advanced)
    BY FS_Interval, FS_Subset, Constants DEF Batches, Advanced
  <2>6. clock' = Cardinality(Advanced')
    <3>1. CASE handler[n].at = "advance" /\ clock' = clock + 1
      <4>1. n \notin Advanced
        BY <3>1 DEF Advanced
      <4> QED
        BY <1>0, <2>4, <2>5, <3>1, <4>1, FS_AddElement
    <3>2. CASE handler[n].at \notin {"none", "advance"} /\ clock' = clock
      <4>1. n \in Advanced
        BY <3>2 DEF Advanced
      <4>2. Advanced' = Advanced
        BY <2>4, <4>1
      <4> QED
        BY <1>0, <3>2, <4>2
    <3> QED
      BY <1>2, <3>1, <3>2, ClockFrame
  <2>7. \A m \in Batches : handler'[m].at = "summarise" => lastBatch' \in Batches
    BY <1>0, <1>2, <2>1, RecordFrame
  <2> QED
    BY <2>1, <2>2, <2>6, <2>7 DEF HandlersCount
<1>3. CASE UNCHANGED <<closed, clock, handler, lastBatch>>
  BY <1>3 DEF HandlersCount, Advanced, Count
<1> QED
  BY <1>1, <1>2, <1>3, Steps, OtherFrame

\* The clock is behind by the handlers that have not advanced it.
LEMMA ClockBound ==
    closed \in Seq(Batch) /\ HandlersCount /\ EnoughReadings /\ processed \in 0 .. MaxReadings
        => clock \in 0 .. Count /\ Count \in 0 .. MaxReadings
<1> SUFFICES ASSUME closed \in Seq(Batch), HandlersCount, EnoughReadings,
                    processed \in 0 .. MaxReadings
             PROVE  clock \in 0 .. Count /\ Count \in 0 .. MaxReadings
  OBVIOUS
<1>1. Count \in Nat /\ processed \in Nat /\ processed <= MaxReadings
  BY Constants DEF Count
<1>2. Count <= processed
  BY <1>1 DEF EnoughReadings
<1>3. Advanced \subseteq 1 .. Count
  <2> SUFFICES ASSUME NEW n \in Advanced PROVE n \in 1 .. Count
    OBVIOUS
  <2>1. n \in Batches /\ handler[n].at # "none"
    BY DEF Advanced
  <2>2. ~ n > Count
    BY <2>1 DEF HandlersCount, NotClosed
  <2> QED
    BY <1>1, <2>1, <2>2, Constants
<1>4. IsFiniteSet(1 .. Count) /\ Cardinality(1 .. Count) = Count
  BY <1>1, FS_Interval
<1>5. Cardinality(Advanced) \in Nat /\ Cardinality(Advanced) <= Count
  BY <1>3, <1>4, FS_Subset, FS_CardinalityType
<1>6. clock = Cardinality(Advanced)
  BY DEF HandlersCount
<1>7. clock \in 0 .. Count
  BY <1>1, <1>5, <1>6
<1>8. Count \in 0 .. MaxReadings
  BY <1>1, <1>2, Constants
<1> QED
  BY <1>7, <1>8

\* No handler starts beside one that started alone unless it takes this back.
LEMMA AloneStep ==
    ASSUME TypeOK, HandlersCount, EnoughReadings, OpenAnchored, LatestAlone, [Next]_vars
    PROVE  LatestAlone'
<1>1. CASE CloseBatch
  <2>1. /\ Count' = Count + 1 /\ Count + 1 \in Batches
        /\ \A m \in Batches : m # Count + 1 => handler'[m] = handler[m]
    BY <1>1, CloseFacts
  <2>2. alone' = IF Running = {} THEN alone ELSE alone \ ({Count + 1} \cup Running)
    BY <1>1 DEF CloseBatch, Count
  <2>3. Running' \subseteq Running \cup {Count + 1}
    BY <2>1 DEF Running
  <2> QED
    BY <2>1, <2>2, <2>3 DEF LatestAlone
<1>2. ASSUME NEW n \in Batches, HandlerStep(n) PROVE LatestAlone'
  <2>1. /\ Count' = Count /\ alone' = alone /\ n \in Running
        /\ \A m \in Batches : m # n => handler'[m] = handler[m]
    BY <1>2, HandlerFrame
  <2>2. Running' \subseteq Running
    BY <2>1 DEF Running
  <2> QED
    BY <2>1, <2>2 DEF LatestAlone
<1>3. CASE UNCHANGED <<closed, alone, handler>>
  BY <1>3 DEF LatestAlone, Running, Count
<1> QED
  BY <1>1, <1>2, <1>3, Steps, OtherFrame

-----------------------------------------------------------------------------
(* What the steps of a handler do to the detector and the summary.             *)

\* A device is looked at: what becomes of it, and where the handler goes.
LEMMA DetectFacts ==
    ASSUME TypeOK, HandlersCount, NEW n \in Batches, Detect(n)
    PROVE  /\ handler[n].at = "detect" /\ handler[n].todo \subseteq Devices
           /\ UNCHANGED <<clock, offlineSince, judged, lastBatch, view, timeline, built>>
           /\ handler'[n].snapshot = handler[n].snapshot
           /\ \E d \in handler[n].todo :
                 /\ \/ d \in Reports(n) /\ disconnected' = disconnected \ {d}
                    \/ /\ d \notin Reports(n) /\ d \in handler[n].snapshot
                       /\ disconnected' = disconnected \cup {d}
                    \/ /\ d \notin Reports(n) /\ d \notin handler[n].snapshot
                       /\ disconnected' = disconnected
                 /\ \/ /\ handler'[n].at = "detect" /\ handler'[n].todo = handler[n].todo \ {d}
                       /\ d \in Reports(n) => d \notin disconnected
                       /\ d \notin Reports(n) /\ d \in handler[n].snapshot => d \in disconnected
                    \/ /\ handler'[n].at = "forget" /\ handler'[n].todo = handler[n].todo
                       /\ handler'[n].device = d /\ d \in Reports(n)
                    \/ /\ handler'[n].at = "stamp" /\ handler'[n].todo = handler[n].todo
                       /\ handler'[n].device = d /\ d \notin disconnected
                       /\ d \notin Reports(n) /\ d \in handler[n].snapshot
<1>0. HandlerType(handler[n]) /\ handler = [m \in Batches |-> handler[m]]
  BY DEF TypeOK, HandlersCount
<1>1. /\ handler[n].at = "detect"
      /\ UNCHANGED <<clock, offlineSince, judged, lastBatch, view, timeline, built>>
      /\ \E d \in handler[n].todo :
            DetectReported(n, d) \/ DetectMissing(n, d) \/ DetectUnseen(n, d)
  BY DEF Detect, summaryVars
<1>2. handler[n].todo \subseteq Devices
  BY <1>0, <1>1, HandlerFacts
<1>3. PICK d \in handler[n].todo :
         DetectReported(n, d) \/ DetectMissing(n, d) \/ DetectUnseen(n, d)
  BY <1>1
<1>4. NextDevice(n, d) => /\ handler'[n].snapshot = handler[n].snapshot
                          /\ handler'[n].at = "detect"
                          /\ handler'[n].todo = handler[n].todo \ {d}
  BY <1>0 DEF NextDevice
<1>5. ASSUME NEW label, GoToEntry(n, d, label)
      PROVE  /\ handler'[n].snapshot = handler[n].snapshot /\ handler'[n].at = label
             /\ handler'[n].todo = handler[n].todo /\ handler'[n].device = d
  BY <1>0, <1>5 DEF GoToEntry
<1>6. CASE DetectReported(n, d)
  <2>1. d \in Reports(n) /\ disconnected' = disconnected \ {d}
    BY <1>6 DEF DetectReported
  <2>2. CASE d \in disconnected /\ GoToEntry(n, d, "forget")
    BY <1>1, <1>2, <1>5, <2>1, <2>2
  <2>3. CASE d \notin disconnected /\ NextDevice(n, d)
    BY <1>1, <1>2, <1>4, <2>1, <2>3
  <2> QED
    BY <1>6, <2>2, <2>3 DEF DetectReported
<1>7. CASE DetectMissing(n, d)
  <2>1. d \notin Reports(n) /\ d \in handler[n].snapshot /\ disconnected' = disconnected \cup {d}
    BY <1>7 DEF DetectMissing
  <2>2. CASE d \notin disconnected /\ GoToEntry(n, d, "stamp")
    BY <1>1, <1>2, <1>5, <2>1, <2>2
  <2>3. CASE d \in disconnected /\ NextDevice(n, d)
    BY <1>1, <1>2, <1>4, <2>1, <2>3
  <2> QED
    BY <1>7, <2>2, <2>3 DEF DetectMissing
<1>8. CASE DetectUnseen(n, d)
  BY <1>1, <1>2, <1>4, <1>8 DEF DetectUnseen
<1> QED
  BY <1>3, <1>6, <1>7, <1>8

\* The entry of a device is written, and the handler goes on to the next one.
LEMMA EntryFacts ==
    ASSUME TypeOK, HandlersCount, NEW n \in Batches, ForgetEntry(n) \/ StampEntry(n)
    PROVE  /\ handler[n].at \in {"forget", "stamp"} /\ handler[n].device \in Devices
           /\ UNCHANGED <<clock, disconnected, judged, lastBatch, view, timeline, built>>
           /\ offlineSince' = [offlineSince EXCEPT ![handler[n].device] =
                                 IF handler[n].at = "forget" THEN 0 ELSE clock]
           /\ handler'[n].at = "detect" /\ handler'[n].snapshot = handler[n].snapshot
           /\ handler'[n].todo = handler[n].todo \ {handler[n].device}
<1>0. HandlerType(handler[n]) /\ handler = [m \in Batches |-> handler[m]]
  BY DEF TypeOK, HandlersCount
<1>1. /\ handler[n].at \in {"forget", "stamp"}
      /\ UNCHANGED <<clock, disconnected, judged, lastBatch, view, timeline, built>>
      /\ offlineSince' = [offlineSince EXCEPT ![handler[n].device] =
                            IF handler[n].at = "forget" THEN 0 ELSE clock]
      /\ NextDevice(n, handler[n].device)
  BY DEF ForgetEntry, StampEntry, summaryVars
<1>2. handler[n].device \in Devices
  BY <1>0, <1>1, HandlerFacts
<1>3. /\ handler'[n].snapshot = handler[n].snapshot /\ handler'[n].at = "detect"
      /\ handler'[n].todo = handler[n].todo \ {handler[n].device}
  BY <1>0, <1>1 DEF NextDevice
<1> QED
  BY <1>1, <1>2, <1>3

\* The other steps, in their order.
LEMMA RestFacts ==
    ASSUME TypeOK, HandlersCount, NEW n \in Batches
    PROVE  /\ Advance(n) =>
                 /\ UNCHANGED <<disconnected, offlineSince, judged, lastBatch, view, timeline, built>>
                 /\ handler[n].at = "advance" /\ clock' = clock + 1
                 /\ handler'[n].at = "snapshot"
           /\ TakeSnapshot(n) =>
                 /\ UNCHANGED <<clock, disconnected, offlineSince, lastBatch, view, timeline, built>>
                 /\ handler[n].at = "snapshot" /\ judged' = [judged EXCEPT ![n] = seen]
                 /\ handler'[n].at = "detect" /\ handler'[n].snapshot = seen
                 /\ handler'[n].todo = Devices
           /\ BuildSnapshot(n) =>
                 /\ UNCHANGED <<clock, disconnected, offlineSince, judged, lastBatch, view>>
                 /\ handler[n].at = "detect" /\ handler[n].todo = {}
                 /\ handler'[n].at = "record"
           /\ RecordBatch(n) =>
                 /\ UNCHANGED <<clock, disconnected, offlineSince, judged, view, timeline, built>>
                 /\ handler[n].at = "record" /\ lastBatch' = n /\ handler'[n].at = "summarise"
           /\ ReadLastBatch(n) =>
                 /\ UNCHANGED <<clock, disconnected, offlineSince, judged, lastBatch, view, timeline,
                                built>>
                 /\ handler[n].at = "summarise"
                 /\ handler'[n].at = "push" /\ handler'[n].batch = lastBatch
           /\ Push(n) =>
                 /\ UNCHANGED <<clock, disconnected, offlineSince, judged, lastBatch, timeline, built>>
                 /\ handler[n].at = "push" /\ handler'[n] = Done /\ handler'[n].at = "done"
                 /\ view' = [batch |-> handler[n].batch, offline |-> Cardinality(disconnected)]
<1>0. handler = [m \in Batches |-> handler[m]]
  BY DEF HandlersCount
<1>1. CASE Advance(n)
  BY <1>0, <1>1 DEF Advance, TakeSnapshot, BuildSnapshot, RecordBatch, ReadLastBatch, Push,
     detectorVars, summaryVars
<1>2. CASE TakeSnapshot(n)
  BY <1>0, <1>2 DEF Advance, TakeSnapshot, BuildSnapshot, RecordBatch, ReadLastBatch, Push,
     detectorVars, summaryVars
<1>3. CASE BuildSnapshot(n)
  BY <1>0, <1>3 DEF Advance, TakeSnapshot, BuildSnapshot, RecordBatch, ReadLastBatch, Push,
     detectorVars, summaryVars
<1>4. CASE RecordBatch(n)
  BY <1>0, <1>4 DEF Advance, TakeSnapshot, BuildSnapshot, RecordBatch, ReadLastBatch, Push,
     detectorVars, summaryVars
<1>5. CASE ReadLastBatch(n)
  BY <1>0, <1>5 DEF Advance, TakeSnapshot, BuildSnapshot, RecordBatch, ReadLastBatch, Push,
     detectorVars, summaryVars
<1>6. CASE Push(n)
  BY <1>0, <1>6 DEF Advance, TakeSnapshot, BuildSnapshot, RecordBatch, ReadLastBatch, Push,
     detectorVars, summaryVars, Done
<1> QED
  BY <1>1, <1>2, <1>3, <1>4, <1>5, <1>6

\* A device that is disconnected has reported.
LEMMA SeenStep ==
    ASSUME TypeOK, HandlersCount, EnoughReadings, OpenAnchored, SeenOnly, [Next]_vars
    PROVE  SeenOnly'
<1>1. CASE CloseBatch
  <2>1. /\ UNCHANGED <<seen, disconnected>> /\ handler'[Count + 1].at = "advance"
        /\ \A m \in Batches : m # Count + 1 => handler'[m] = handler[m]
    BY <1>1, CloseFacts DEF detectorVars
  <2> QED
    BY <2>1 DEF SeenOnly, Detecting
<1>2. ASSUME NEW n \in Batches, HandlerStep(n) PROVE SeenOnly'
  <2>1. seen' = seen /\ \A m \in Batches : m # n => handler'[m] = handler[m]
    BY <1>2, HandlerFrame
  <2>2. disconnected \subseteq seen /\ (Detecting(n) => handler[n].snapshot \subseteq seen)
    BY DEF SeenOnly
  <2>3. disconnected' \subseteq seen /\ (Detecting(n)' => handler'[n].snapshot \subseteq seen)
    <3>1. CASE Detect(n)
      BY <2>2, <3>1, DetectFacts DEF Detecting
    <3>2. CASE ForgetEntry(n) \/ StampEntry(n)
      BY <2>2, <3>2, EntryFacts DEF Detecting
    <3>3. CASE \/ Advance(n) \/ TakeSnapshot(n) \/ BuildSnapshot(n) \/ RecordBatch(n)
               \/ ReadLastBatch(n) \/ Push(n)
      BY <2>2, <3>3, RestFacts DEF Detecting
    <3> QED
      BY <1>2, <3>1, <3>2, <3>3 DEF HandlerStep
  <2> QED
    BY <2>1, <2>3 DEF SeenOnly, Detecting
<1>3. CASE UNCHANGED <<disconnected, handler>> /\ seen \subseteq seen'
  BY <1>3 DEF SeenOnly, Detecting
<1> QED
  BY <1>1, <1>2, <1>3, Steps, OtherFrame

\* The step of a handler while the latest started alone is a step of the latest.
LEMMA AloneSteps ==
    ASSUME TypeOK, HandlersCount, LatestAlone, Count \in alone, NEW n \in Batches, HandlerStep(n)
    PROVE  n = Count
BY HandlerFrame DEF LatestAlone

\* The handler of the latest batch, if alone, judges one device after the other.
LEMMA DetectStep ==
    ASSUME TypeOK, HandlersCount, EnoughReadings, OpenAnchored, LatestAlone, SeenOnly, DetectInv,
           [Next]_vars
    PROVE  DetectInv'
<1>1. CASE CloseBatch
  <2>1. Count' = Count + 1 /\ handler'[Count + 1].at = "advance"
    BY <1>1, CloseFacts
  <2> QED
    BY <2>1 DEF DetectInv, DetectedBy, Detecting, Detected
<1>2. ASSUME NEW n \in Batches, HandlerStep(n), n = Count, n \in alone PROVE DetectedBy(n)'
  <2>0. /\ DetectedBy(n) /\ judged \in [Batches -> SUBSET Devices]
        /\ disconnected \subseteq seen /\ disconnected \subseteq Devices
    BY <1>2 DEF DetectInv, SeenOnly, TypeOK
  <2>1. Reports(n)' = Reports(n)
    BY <1>2, HandlerFrame DEF Reports
  <2>2. CASE Advance(n)
    BY <2>2, RestFacts DEF DetectedBy, Detecting, Detected
  <2>3. CASE TakeSnapshot(n)
    <3>1. /\ handler'[n].snapshot = judged'[n] /\ disconnected' \subseteq judged'[n]
          /\ handler'[n].todo = Devices /\ handler'[n].at = "detect"
      BY <2>0, <2>3, RestFacts
    <3> QED
      BY <3>1 DEF DetectedBy, Detecting, Detected
  <2>4. CASE Detect(n)
    <3>1. PICK d \in handler[n].todo :
             /\ \/ d \in Reports(n) /\ disconnected' = disconnected \ {d}
                \/ /\ d \notin Reports(n) /\ d \in handler[n].snapshot
                   /\ disconnected' = disconnected \cup {d}
                \/ /\ d \notin Reports(n) /\ d \notin handler[n].snapshot
                   /\ disconnected' = disconnected
             /\ \/ handler'[n].at = "detect" /\ handler'[n].todo = handler[n].todo \ {d}
                \/ /\ handler'[n].at = "forget" /\ handler'[n].todo = handler[n].todo
                   /\ handler'[n].device = d /\ d \in Reports(n)
                \/ /\ handler'[n].at = "stamp" /\ handler'[n].todo = handler[n].todo
                   /\ handler'[n].device = d /\ d \notin Reports(n)
                   /\ d \in handler[n].snapshot
      BY <2>4, DetectFacts
    <3>2. /\ judged' = judged /\ handler[n].at = "detect"
          /\ handler[n].todo \subseteq Devices /\ handler'[n].snapshot = handler[n].snapshot
      BY <2>4, DetectFacts
    <3>3. /\ handler[n].snapshot = judged[n] /\ disconnected \subseteq judged[n]
          /\ \A e \in Devices \ handler[n].todo : e \in disconnected <=> e \in Missed(n)
      BY <2>0, <3>2 DEF DetectedBy, Detecting
    <3>4. /\ disconnected' \subseteq judged[n]
          /\ d \in disconnected' <=> d \in Missed(n)
          /\ \A e \in Devices : e # d => (e \in disconnected' <=> e \in disconnected)
      BY <3>1, <3>3 DEF Missed
    <3>5. Missed(n)' = Missed(n)
      BY <2>1, <3>2 DEF Missed
    <3> QED
      BY <2>1, <3>1, <3>2, <3>3, <3>4, <3>5 DEF DetectedBy, Detecting, Detected, Missed
  <2>5. CASE ForgetEntry(n) \/ StampEntry(n)
    <3>1. /\ handler[n].at \in {"forget", "stamp"} /\ handler[n].device \in Devices
          /\ UNCHANGED <<disconnected, judged>>
          /\ handler'[n].at = "detect" /\ handler'[n].snapshot = handler[n].snapshot
          /\ handler'[n].todo = handler[n].todo \ {handler[n].device}
      BY <2>5, EntryFacts
    <3> QED
      BY <2>0, <2>1, <3>1 DEF DetectedBy, Detecting, Detected, Missed
  <2>6. CASE BuildSnapshot(n)
    <3>1. /\ UNCHANGED <<disconnected, judged>> /\ handler[n].at = "detect"
          /\ handler[n].todo = {} /\ handler'[n].at = "record"
      BY <2>6, RestFacts
    <3>2. disconnected = Missed(n)
      BY <2>0, <3>1 DEF DetectedBy, Detecting, Missed
    <3> QED
      BY <2>1, <3>1, <3>2 DEF DetectedBy, Detecting, Detected, Missed
  <2>7. CASE RecordBatch(n)
    BY <2>0, <2>1, <2>7, RestFacts DEF DetectedBy, Detecting, Detected, Missed
  <2>8. CASE ReadLastBatch(n)
    BY <2>0, <2>1, <2>8, RestFacts DEF DetectedBy, Detecting, Detected, Missed
  <2>9. CASE Push(n)
    BY <2>0, <2>1, <2>9, RestFacts DEF DetectedBy, Detecting, Detected, Missed
  <2> QED
    BY <1>2, <2>2, <2>3, <2>4, <2>5, <2>6, <2>7, <2>8, <2>9 DEF HandlerStep
<1>3. ASSUME NEW n \in Batches, HandlerStep(n) PROVE DetectInv'
  <2>1. Count' = Count /\ alone' = alone
    BY <1>3, HandlerFrame
  <2>2. CASE Count \in alone
    <3>1. n = Count
      BY <1>3, <2>2, AloneSteps
    <3>2. DetectedBy(n)'
      BY <1>2, <1>3, <2>2, <3>1
    <3>3. Count' = n
      BY <2>1, <3>1
    <3> QED
      BY <3>2, <3>3 DEF DetectInv
  <2> QED
    BY <2>1, <2>2 DEF DetectInv
<1>4. CASE UNCHANGED <<closed, disconnected, handler, lastBatch, view, judged, alone>>
  BY <1>4 DEF DetectInv, DetectedBy, Detecting, Detected, Missed, Reports, Count
<1> QED
  BY <1>1, <1>3, <1>4, Steps, OtherFrame

\* What is settled for a device stays, where nothing of it changes.
LEMMA SettledSame ==
    ASSUME NEW k \in Nat, NEW d, MissedBy(k)' = MissedBy(k),
           \A i \in 1 .. k : Missed(i)' = Missed(i),
           offlineSince'[d] = offlineSince[d], d \in disconnected' <=> d \in disconnected,
           SettledAt(k, d)
    PROVE  SettledAt(k, d)'
<1>1. CASE d \notin MissedBy(k)
  BY <1>1 DEF SettledAt, SinceAt
<1>2. CASE d \in MissedBy(k)
  <2>1. /\ offlineSince[d] \in 1 .. k
        /\ \A i \in offlineSince[d] .. k : d \in Missed(i)
        /\ offlineSince[d] > 1 => d \notin Missed(offlineSince[d] - 1)
    BY <1>2 DEF SettledAt, SinceAt
  <2>2. offlineSince[d] > 1 => offlineSince[d] - 1 \in 1 .. k
    BY <2>1
  <2>3. \A i \in offlineSince[d] .. k : i \in 1 .. k
    BY <2>1
  <2> QED
    BY <1>2, <2>1, <2>2, <2>3 DEF SettledAt, SinceAt
<1> QED
  BY <1>1, <1>2

\* A device that stays connected, or stays disconnected, is settled by one more
\* batch as it was.
LEMMA SettledNext ==
    ASSUME NEW n \in Nat \ {0}, NEW d, SettledAt(n - 1, d),
           d \in MissedBy(n) <=> d \in disconnected
    PROVE  SettledAt(n, d)
<1>0. d \in MissedBy(n - 1) <=> d \in disconnected
  BY DEF SettledAt
<1>1. CASE d \notin disconnected
  BY <1>0, <1>1 DEF SettledAt, SinceAt
<1>2. CASE d \in disconnected
  <2>1. /\ offlineSince[d] \in 1 .. n - 1
        /\ \A i \in offlineSince[d] .. n - 1 : d \in Missed(i)
        /\ offlineSince[d] > 1 => d \notin Missed(offlineSince[d] - 1)
    BY <1>0, <1>2 DEF SettledAt, SinceAt
  <2>2. d \in Missed(n)
    BY <1>2 DEF MissedBy
  <2>3. \A i \in offlineSince[d] .. n : i \in offlineSince[d] .. n - 1 \/ i = n
    BY <2>1
  <2>4. offlineSince[d] \in 1 .. n
    BY <2>1
  <2> QED
    BY <1>2, <2>1, <2>2, <2>3, <2>4 DEF SettledAt, SinceAt
<1> QED
  BY <1>1, <1>2

\* A new batch closed: the batch before is settled, as its handler is done.
LEMMA OfflineClose ==
    ASSUME TypeOK, HandlersCount, EnoughReadings, OpenAnchored, OfflineInv, CloseBatch
    PROVE  OfflineInv'
<1> SUFFICES ASSUME NEW n, n = Count', alone' = Batches PROVE SettledBy(n)'
  BY DEF OfflineInv, Batches
<1>1. /\ Count \in Nat /\ Count' = Count + 1 /\ Count + 1 \in Batches
      /\ handler'[Count + 1].at = "advance"
      /\ UNCHANGED <<clock, disconnected, offlineSince, judged>>
      /\ DOMAIN closed = 1 .. Count /\ \A i \in DOMAIN closed : closed'[i] = closed[i]
  BY CloseFacts DEF detectorVars
<1>2. alone' = IF Running = {} THEN alone ELSE alone \ ({Count + 1} \cup Running)
  BY DEF CloseBatch, Count
<1>3. Running = {} /\ alone = Batches
  BY <1>1, <1>2 DEF TypeOK
<1>4. SettledBy(Count)
  BY <1>3 DEF OfflineInv
<1>5. CASE Count = 0
  <2>1. clock = 0 /\ \A d \in Devices : SettledAt(Count, d)
    BY <1>4, <1>5 DEF SettledBy
  <2>2. n = 1 /\ handler'[n].at = "advance" /\ clock' = n - 1
    BY <1>1, <1>5, <2>1
  <2>3. \A d \in Devices : SettledAt(n - 1, d)'
    BY <1>1, <1>5, <2>1, <2>2 DEF SettledAt, SinceAt, MissedBy
  <2> QED
    BY <2>2, <2>3 DEF SettledBy, Detected, Detecting
<1>6. CASE Count # 0
  <2>1. Count \in Batches /\ handler[Count] # NotClosed
    BY <1>1, <1>6, Constants DEF HandlersCount
  <2>2. handler[Count] = Done
    BY <1>3, <2>1 DEF Running
  <2>3. clock = Count /\ \A d \in Devices : SettledAt(Count, d)
    BY <1>1, <1>4, <1>6, <2>2 DEF SettledBy, Done, Detected
  <2>4. ASSUME NEW k, k = Count PROVE \A d \in Devices : SettledAt(k, d)'
    <3>1. \A i \in 1 .. k : Missed(i)' = Missed(i)
      BY <1>1, <2>4 DEF Missed, Reports
    <3>2. k \in Nat /\ MissedBy(k)' = MissedBy(k)
      BY <1>1, <2>4, <3>1 DEF MissedBy
    <3> QED
      BY <1>1, <2>3, <2>4, <3>1, <3>2, SettledSame
  <2>5. n \in Nat /\ n > 0 /\ n - 1 = Count /\ handler'[n].at = "advance" /\ clock' = n - 1
    BY <1>1, <2>3
  <2>6. \A d \in Devices : SettledAt(n - 1, d)'
    BY <2>4, <2>5
  <2> QED
    BY <2>5, <2>6 DEF SettledBy, Detected, Detecting
<1> QED
  BY <1>5, <1>6

\* The handler of batch n goes on.
LEMMA OfflineHandler ==
    ASSUME TypeOK, HandlersCount, SeenOnly, NEW n \in Batches, HandlerStep(n),
           SettledBy(n), DetectedBy(n), DetectedBy(n)'
    PROVE  SettledBy(n)'
<1>0. /\ closed' = closed /\ n \in Nat \ {0} /\ handler' = [m \in Batches |-> handler'[m]]
      /\ judged \in [Batches -> SUBSET Devices] /\ disconnected \subseteq Devices
      /\ offlineSince \in [Devices -> 0 .. MaxReadings]
      /\ clock = (IF handler[n].at = "advance" THEN n - 1 ELSE n)
      /\ clock \in Nat
  <2>1. n \in Nat /\ n > 0 /\ clock \in Nat
    BY Constants DEF TypeOK
  <2>2. closed' = closed /\ handler' = [m \in Batches |-> handler'[m]]
    BY HandlerFrame
  <2> QED
    BY <2>1, <2>2 DEF TypeOK, SettledBy
<1>1. \A i \in 1 .. n - 1 : i \in Batches /\ i # n
  BY <1>0, Constants
<1>2. ASSUME \A i \in Batches : i # n => judged'[i] = judged[i]
      PROVE  /\ \A i \in 1 .. n - 1 : Missed(i)' = Missed(i)
             /\ MissedBy(n - 1)' = MissedBy(n - 1)
  <2>1. \A i \in 1 .. n - 1 : Missed(i)' = Missed(i)
    BY <1>0, <1>1, <1>2 DEF Missed, Reports
  <2>2. n - 1 = 0 \/ n - 1 \in 1 .. n - 1
    BY <1>0
  <2> QED
    BY <2>1, <2>2 DEF MissedBy
<1>3. ASSUME judged' = judged
      PROVE  /\ \A i : Missed(i)' = Missed(i)
             /\ \A i : MissedBy(i)' = MissedBy(i)
  BY <1>0, <1>3 DEF Missed, Reports, MissedBy
<1>4. CASE Advance(n)
  <2>1. /\ UNCHANGED <<disconnected, offlineSince, judged>> /\ clock' = clock + 1
        /\ handler[n].at = "advance" /\ handler'[n].at = "snapshot"
    BY <1>4, RestFacts
  <2>2. \A d \in Devices : SettledAt(n - 1, d)
    BY <1>0, <2>1 DEF SettledBy
  <2>3. \A d \in Devices : SettledAt(n - 1, d)'
    BY <1>0, <1>3, <2>1, <2>2, SettledSame
  <2>4. clock' = n
    BY <1>0, <2>1
  <2> QED
    BY <1>0, <2>1, <2>3, <2>4 DEF SettledBy, Detected, Detecting
<1>5. CASE TakeSnapshot(n)
  <2>1. /\ UNCHANGED <<clock, disconnected, offlineSince>> /\ judged' = [judged EXCEPT ![n] = seen]
        /\ handler[n].at = "snapshot" /\ handler'[n].at = "detect" /\ handler'[n].todo = Devices
    BY <1>5, RestFacts
  <2>2. \A d \in Devices : SettledAt(n - 1, d)
    BY <1>0, <2>1 DEF SettledBy
  <2>3. /\ \A i \in 1 .. n - 1 : Missed(i)' = Missed(i)
        /\ MissedBy(n - 1)' = MissedBy(n - 1)
    BY <1>0, <1>2, <2>1
  <2>4. \A d \in Devices : SettledAt(n - 1, d)'
    BY <1>0, <2>1, <2>2, <2>3, SettledSame
  <2> QED
    BY <1>0, <2>1, <2>4 DEF SettledBy, Detected, Detecting
<1>6. CASE Detect(n)
  <2>1. /\ handler[n].at = "detect" /\ handler[n].todo \subseteq Devices
        /\ UNCHANGED <<clock, offlineSince, judged>>
    BY <1>6, DetectFacts
  <2>2. /\ \A d \in Devices : SettledAt(IF d \in handler[n].todo THEN n - 1 ELSE n, d)
        /\ handler[n].snapshot = judged[n] /\ disconnected \subseteq judged[n]
    BY <1>0, <2>1 DEF SettledBy, DetectedBy, Detecting
  <2>3. PICK d \in handler[n].todo :
           /\ \A e : e # d => (e \in disconnected' <=> e \in disconnected)
           /\ \/ /\ handler'[n].at = "detect" /\ handler'[n].todo = handler[n].todo \ {d}
                 /\ d \in disconnected' <=> d \in disconnected
                 /\ d \in disconnected' <=> d \in Missed(n)
              \/ /\ handler'[n].at = "forget" /\ handler'[n].todo = handler[n].todo
                 /\ handler'[n].device = d
              \/ /\ handler'[n].at = "stamp" /\ handler'[n].todo = handler[n].todo
                 /\ handler'[n].device = d /\ d \notin disconnected
    BY <1>6, <2>2, DetectFacts DEF Missed
  <2>4. d \in Devices /\ SettledAt(n - 1, d)
    BY <2>1, <2>2, <2>3
  <2>5. ASSUME NEW e \in Devices, e # d
        PROVE  SettledAt(IF e \in handler[n].todo THEN n - 1 ELSE n, e)'
    <3>1. e \in handler'[n].todo <=> e \in handler[n].todo
      BY <2>3, <2>5
    <3>2. SettledAt(IF e \in handler[n].todo THEN n - 1 ELSE n, e)
      BY <2>2
    <3> QED
      BY <1>0, <1>3, <2>1, <2>3, <2>5, <3>1, <3>2, SettledSame, SMTT(30)
  <2>6. ASSUME d \in disconnected' <=> d \in disconnected, d \in disconnected' <=> d \in Missed(n)
        PROVE  SettledAt(n, d)'
    <3>1. SettledAt(n, d)
      BY <1>0, <2>4, <2>6, SettledNext DEF MissedBy
    <3> QED
      BY <1>0, <1>3, <2>1, <2>6, <3>1, SettledSame
  <2>7. ASSUME d \notin disconnected PROVE d \notin MissedBy(n - 1)'
    BY <1>3, <2>1, <2>4, <2>7 DEF SettledAt
  <2>8. ASSUME NEW e \in Devices
        PROVE  \/ handler'[n].at \in {"forget", "stamp"} /\ e = handler'[n].device
               \/ SettledAt(IF e \in handler[n].todo THEN n - 1 ELSE n, e)'
    BY <2>3, <2>5, <2>6
  <2>9. clock' = n
    BY <1>0, <2>1
  <2>10. handler'[n].at = "stamp" => handler'[n].device \notin MissedBy(n - 1)'
    BY <2>3, <2>7
  <2>11. handler'[n].at \in {"detect", "forget", "stamp"}
    BY <2>3
  <2> QED
    BY <1>0, <2>8, <2>9, <2>10, <2>11 DEF SettledBy, Detected, Detecting
<1>7. CASE ForgetEntry(n) \/ StampEntry(n)
  <2> DEFINE d == handler[n].device
  <2>1. /\ handler[n].at \in {"forget", "stamp"} /\ d \in Devices
        /\ UNCHANGED <<clock, disconnected, judged>>
        /\ offlineSince' = [offlineSince EXCEPT ![d] = IF handler[n].at = "forget" THEN 0 ELSE clock]
        /\ handler'[n].at = "detect" /\ handler'[n].todo = handler[n].todo \ {d}
    BY <1>7, EntryFacts
  <2>2. /\ \A e \in Devices : e # d => SettledAt(IF e \in handler[n].todo THEN n - 1 ELSE n, e)
        /\ handler[n].at = "stamp" => d \notin MissedBy(n - 1)
        /\ clock = n
    BY <1>0, <2>1 DEF SettledBy, Detecting
  <2>3. ASSUME NEW e \in Devices, e # d
        PROVE  SettledAt(IF e \in handler[n].todo THEN n - 1 ELSE n, e)'
    <3>1. e \in handler'[n].todo <=> e \in handler[n].todo
      BY <2>1, <2>3
    <3>2. SettledAt(IF e \in handler[n].todo THEN n - 1 ELSE n, e)
      BY <2>2, <2>3
    <3>3. offlineSince'[e] = offlineSince[e]
      BY <1>0, <2>1, <2>3
    <3> QED
      BY <1>0, <1>3, <2>1, <2>3, <3>1, <3>2, <3>3, SettledSame
  <2>4. d \in disconnected <=> d \in Missed(n)
    BY <2>1 DEF DetectedBy
  <2>5. CASE handler[n].at = "forget"
    <3>1. d \notin Missed(n) /\ offlineSince'[d] = 0
      BY <1>0, <2>1, <2>5 DEF DetectedBy, Missed
    <3>2. ASSUME NEW e, e = d PROVE SettledAt(n, e)'
      BY <1>0, <1>3, <2>1, <2>4, <3>1, <3>2 DEF SettledAt, SinceAt, MissedBy
    <3> QED
      BY <1>0, <2>1, <2>2, <2>3, <3>2 DEF SettledBy, Detected, Detecting
  <2>6. CASE handler[n].at = "stamp"
    <3>1. d \in Missed(n) /\ offlineSince'[d] = n /\ (n > 1 => d \notin Missed(n - 1))
      BY <1>0, <2>1, <2>2, <2>6 DEF DetectedBy, MissedBy
    <3>2. ASSUME NEW e, e = d PROVE SettledAt(n, e)'
      <4>1. e \in disconnected' /\ e \in MissedBy(n)' /\ e \in Missed(n)'
        BY <1>0, <1>3, <2>1, <2>4, <3>1, <3>2 DEF MissedBy
      <4>2. n > 1 => e \notin Missed(n - 1)'
        BY <1>3, <2>1, <3>1, <3>2
      <4>3. offlineSince'[e] = n /\ n \in 1 .. n /\ \A i \in n .. n : i = n
        BY <1>0, <3>1, <3>2
      <4> QED
        BY <4>1, <4>2, <4>3 DEF SettledAt, SinceAt
    <3> QED
      BY <1>0, <2>1, <2>2, <2>3, <3>2 DEF SettledBy, Detected, Detecting
  <2> QED
    BY <2>1, <2>5, <2>6
<1>8. CASE BuildSnapshot(n)
  <2>1. /\ UNCHANGED <<clock, disconnected, offlineSince, judged>> /\ handler[n].at = "detect"
        /\ handler[n].todo = {} /\ handler'[n].at = "record"
    BY <1>8, RestFacts
  <2>2. \A d \in Devices : SettledAt(n, d)
    BY <1>0, <2>1 DEF SettledBy, Detecting
  <2>3. \A d \in Devices : SettledAt(n, d)'
    BY <1>0, <1>3, <2>1, <2>2, SettledSame
  <2> QED
    BY <1>0, <2>1, <2>3 DEF SettledBy, Detected, Detecting
<1>9. CASE RecordBatch(n) \/ ReadLastBatch(n) \/ Push(n)
  <2>1. /\ UNCHANGED <<clock, disconnected, offlineSince, judged>>
        /\ handler[n].at \in {"record", "summarise", "push"}
        /\ handler'[n].at \in {"summarise", "push", "done"}
    BY <1>9, RestFacts
  <2>2. \A d \in Devices : SettledAt(n, d)
    BY <2>1 DEF SettledBy, Detected
  <2>3. \A d \in Devices : SettledAt(n, d)'
    BY <1>0, <1>3, <2>1, <2>2, SettledSame
  <2> QED
    BY <1>0, <2>1, <2>3 DEF SettledBy, Detected, Detecting
<1> QED
  BY <1>4, <1>5, <1>6, <1>7, <1>8, <1>9 DEF HandlerStep

\* As long as no handlers overlap, every batch settles the entries of all devices.
LEMMA OfflineStep ==
    ASSUME TypeOK, HandlersCount, EnoughReadings, OpenAnchored, LatestAlone, SeenOnly, DetectInv,
           DetectInv', OfflineInv, [Next]_vars
    PROVE  OfflineInv'
<1>1. ASSUME NEW m \in Batches, HandlerStep(m), alone = Batches, NEW n, n = Count'
      PROVE  SettledBy(n)'
  <2>1. Count' = Count /\ alone' = alone /\ m \in 1 .. Count /\ closed \in Seq(Batch)
    BY <1>1, HandlerFrame DEF TypeOK
  <2>2. Count \in Batches
    <3>1. Count \in 0 .. MaxReadings
      BY ClockBound DEF TypeOK
    <3> QED
      BY <2>1, <3>1, Constants
  <2>3. n = Count /\ n = m
    BY <1>1, <2>1, <2>2, AloneSteps
  <2>4. SettledBy(n) /\ DetectedBy(n) /\ DetectedBy(n)'
    BY <1>1, <2>1, <2>2, <2>3 DEF OfflineInv, DetectInv
  <2> QED
    BY <1>1, <2>3, <2>4, OfflineHandler
<1>2. ASSUME NEW m \in Batches, HandlerStep(m) PROVE OfflineInv'
  <2>1. alone' = alone
    BY <1>2, HandlerFrame
  <2> QED
    BY <1>1, <1>2, <2>1 DEF OfflineInv, Batches
<1>3. CASE UNCHANGED <<closed, clock, disconnected, offlineSince, handler, judged, alone>>
  BY <1>3 DEF OfflineInv, SettledBy, SettledAt, SinceAt, MissedBy, Missed, Reports, Detected,
     Detecting, Count, Batches
<1> QED
  BY <1>2, <1>3, Steps, OtherFrame, OfflineClose

-----------------------------------------------------------------------------
(* The timeline.                                                               *)

\* A finite set of natural numbers that is not empty has a least one: the one
\* with the smallest set of numbers below it.
LEMMA Least ==
    ASSUME NEW S \in SUBSET Nat, IsFiniteSet(S), S # {}
    PROVE  \E x \in S : \A y \in S : x <= y
<1> DEFINE Below(x) == {y \in S : y < x}
           Belows == {Below(x) : x \in S}
           R == StrictSubsetOrdering(S)
<1>1. IsWellFoundedOn(R, SUBSET S)
  BY FS_StrictSubsetOrderingWellFounded, FS_FiniteSubsetsOfFinite
<1>2. \A T, U \in SUBSET S : T \subseteq U /\ T # U => <<T, U>> \in R
  BY DEF StrictSubsetOrdering
<1>3. Belows \subseteq SUBSET S /\ Belows # {}
  OBVIOUS
<1> HIDE DEF R
<1>4. \E T \in Belows : \A U \in Belows : ~ (<<U, T>> \in R)
  <2> HIDE DEF Belows
  <2> QED
    BY <1>1, <1>3, WFMin
<1>5. PICK x \in S : \A U \in Belows : ~ (<<U, Below(x)>> \in R)
  BY <1>4
<1>6. ASSUME NEW y \in S, y < x PROVE FALSE
  <2>1. y \in Below(x) /\ y \notin Below(y) /\ Below(y) \subseteq Below(x)
    <3>1. x \in Nat /\ y \in Nat /\ (\A z \in S : z \in Nat)
      OBVIOUS
    <3>2. \A z \in S : z < y => z < x
      BY <1>6, <3>1
    <3>3. ~ y < y
      BY <3>1
    <3> QED
      BY <1>6, <3>2, <3>3
  <2>2. Below(y) \in Belows /\ Below(y) \in SUBSET S /\ Below(x) \in SUBSET S
    OBVIOUS
  <2> HIDE DEF Below, Belows
  <2> QED
    BY <1>2, <1>5, <2>1, <2>2
<1>7. \A y \in S : x <= y
  BY <1>6
<1> QED
  BY <1>7

\* A new entry takes the place of the one with its time stamp.
Replaced(n) ==
    {s \in timeline : s.stamp # closed[n].stamp} \cup {[stamp |-> closed[n].stamp, batch |-> n]}

\* What the timeline holds before it is trimmed.
LEMMA ReplacedFacts ==
    ASSUME TypeOK, TimelineInv, NEW n \in DOMAIN closed, n \in Batches
    PROVE  /\ Replaced(n) \subseteq [stamp : Stamps, batch : Batches]
           /\ IsFiniteSet(Replaced(n))
           /\ \A s, t \in Replaced(n) : s.stamp = t.stamp => s = t
           /\ \A s \in timeline : s.stamp # closed[n].stamp => s \in Replaced(n)
           /\ \A s \in Replaced(n) : \/ s = [stamp |-> closed[n].stamp, batch |-> n]
                                     \/ s \in timeline /\ s.stamp # closed[n].stamp
           /\ [stamp |-> closed[n].stamp, batch |-> n] \in Replaced(n)
           /\ IF \E s \in timeline : s.stamp = closed[n].stamp
              THEN Cardinality(Replaced(n)) = Cardinality(timeline)
              ELSE Cardinality(Replaced(n)) = Cardinality(timeline) + 1
<1> DEFINE b == closed[n].stamp
           new == [stamp |-> b, batch |-> n]
           others == {s \in timeline : s.stamp # b}
<1>1. b \in Stamps /\ timeline \subseteq [stamp : Stamps, batch : Batches]
  <2>1. closed \in Seq(Batch) /\ timeline \subseteq [stamp : Stamps, batch : Batches]
    BY DEF TypeOK
  <2>2. closed[n] \in Batch
    BY <2>1
  <2> QED
    BY <2>1, <2>2 DEF Batch
<1>2. new \in [stamp : Stamps, batch : Batches] /\ new.stamp = b
  BY <1>1
<1>3. IsFiniteSet(timeline) /\ \A s, t \in timeline : s.stamp = t.stamp => s = t
  BY DEF TimelineInv
<1> HIDE DEF b, new
<1>4. new \notin others
  BY <1>2
<1>5. Replaced(n) = others \cup {new}
  BY DEF Replaced, b, new
<1>6. IsFiniteSet(others)
  BY <1>3, FS_Subset
<1>7. IsFiniteSet(Replaced(n)) /\ Cardinality(Replaced(n)) = Cardinality(others) + 1
  BY <1>4, <1>5, <1>6, FS_AddElement
<1>8. Cardinality(timeline) \in Nat /\ Cardinality(others) \in Nat
  BY <1>3, <1>6, FS_CardinalityType
<1>9. ASSUME NEW s \in timeline, s.stamp = b
      PROVE  Cardinality(Replaced(n)) = Cardinality(timeline)
  <2>1. others = timeline \ {s}
    BY <1>3, <1>9
  <2>2. Cardinality(others) = Cardinality(timeline) - 1
    BY <1>3, <2>1, FS_RemoveElement
  <2> QED
    BY <1>7, <1>8, <2>2
<1>10. ASSUME ~ \E s \in timeline : s.stamp = b
       PROVE  Cardinality(Replaced(n)) = Cardinality(timeline) + 1
  <2>1. others = timeline
    BY <1>10
  <2> QED
    BY <1>7, <2>1
<1>11. /\ Replaced(n) \subseteq [stamp : Stamps, batch : Batches]
       /\ \A s, t \in Replaced(n) : s.stamp = t.stamp => s = t
       /\ \A s \in timeline : s.stamp # b => s \in Replaced(n)
       /\ \A s \in Replaced(n) : s = new \/ (s \in timeline /\ s.stamp # b)
       /\ new \in Replaced(n)
  BY <1>1, <1>2, <1>3, <1>5
<1> QED
  BY <1>7, <1>9, <1>10, <1>11 DEF b, new

\* Trimming takes the oldest entry from a timeline that has one too many.
LEMMA TrimmedFacts ==
    ASSUME NEW T, T \subseteq [stamp : Stamps, batch : Batches], IsFiniteSet(T),
           \A s, t \in T : s.stamp = t.stamp => s = t, Cardinality(T) <= Capacity + 1
    PROVE  /\ IsFiniteSet(Trimmed(T)) /\ Trimmed(T) \subseteq T
           /\ Cardinality(Trimmed(T)) <= Capacity
           /\ Cardinality(T) <= Capacity => Trimmed(T) = T
           /\ Cardinality(T) > Capacity =>
                 /\ Cardinality(Trimmed(T)) = Capacity
                 /\ \A s \in T : s \in Trimmed(T) <=> \E older \in T : older.stamp < s.stamp
<1>0. Cardinality(T) \in Nat /\ Capacity \in Nat \ {0}
  BY Constants, FS_CardinalityType
<1>1. CASE Cardinality(T) <= Capacity
  <2>1. Trimmed(T) = T /\ ~ Cardinality(T) > Capacity
    BY <1>0, <1>1 DEF Trimmed
  <2> QED
    BY <1>1, <2>1
<1>2. CASE Cardinality(T) > Capacity
  <2>1. Trimmed(T) = {s \in T : \E older \in T : older.stamp < s.stamp}
    BY <1>2 DEF Trimmed
  <2>2. Cardinality(T) = Capacity + 1 /\ T # {}
    BY <1>0, <1>2, FS_EmptySet
  <2>3. \A s \in T : s.stamp \in Nat
    BY Constants DEF Stamps
  <2> DEFINE S == {s.stamp : s \in T}
  <2>4. S \in SUBSET Nat /\ S # {}
    BY <2>2, <2>3
  <2>5. IsFiniteSet(S)
    <3> DEFINE f == [s \in T |-> s.stamp]
    <3>1. f \in Surjection(T, S)
      BY DEF Surjection
    <3> QED
      BY <3>1, FS_Surjection
  <2>6. PICK x \in S : \A y \in S : x <= y
    BY <2>4, <2>5, Least
  <2>7. PICK oldest \in T : oldest.stamp = x
    OBVIOUS
  <2>8. \A s \in T : oldest.stamp <= s.stamp
    BY <2>6, <2>7
  <2>9. Trimmed(T) = T \ {oldest}
    <3>1. \A s \in T : (\E older \in T : older.stamp < s.stamp) <=> s # oldest
      BY <2>3, <2>7, <2>8
    <3> QED
      BY <2>1, <3>1
  <2>10. IsFiniteSet(Trimmed(T)) /\ Cardinality(Trimmed(T)) = Capacity
    <3>1. IsFiniteSet(T \ {oldest}) /\ Cardinality(T \ {oldest}) = Cardinality(T) - 1
      BY FS_RemoveElement
    <3> QED
      BY <1>0, <2>2, <2>9, <3>1
  <2> QED
    BY <1>0, <1>2, <2>1, <2>10
<1> QED
  BY <1>0, <1>1, <1>2

\* A batch is built: its time stamp has a new entry, and the oldest one goes if
\* there are too many.
LEMMA TimelineBuild ==
    ASSUME TypeOK, HandlersCount, TimelineInv, NEW n \in Batches, HandlerStep(n), BuildSnapshot(n)
    PROVE  /\ TimelineInv' /\ Cardinality(timeline') <= Capacity
           /\ timeline' \subseteq [stamp : Stamps, batch : Batches]
<1> DEFINE b == closed[n].stamp
           new == [stamp |-> b, batch |-> n]
           T == Replaced(n)
<1>1. /\ closed' = closed /\ n \in DOMAIN closed /\ closed \in Seq(Batch)
      /\ built \in Seq(Batches) /\ Cardinality(timeline) <= Capacity
      /\ timeline \subseteq [stamp : Stamps, batch : Batches]
  BY HandlerFrame DEF TypeOK
<1>2. timeline' = Trimmed(T) /\ built' = Append(built, n)
  BY DEF BuildSnapshot, Replaced
<1>3. /\ IsFiniteSet(timeline) /\ IsFiniteSet(BuiltStamps)
      /\ \A i \in DOMAIN built : built[i] \in DOMAIN closed
      /\ \A s, t \in timeline : s.stamp = t.stamp => s = t
      /\ \A s \in timeline : BuiltLast(s)
      /\ \A s \in timeline, u \in BuiltStamps : u > s.stamp => Kept(u)
      /\ \A u \in BuiltStamps : Cardinality(timeline) < Capacity => Kept(u)
  BY DEF TimelineInv
<1>4. Cardinality(timeline) \in Nat /\ Capacity \in Nat
  BY <1>3, FS_CardinalityType, Constants
<1>5. /\ T \subseteq [stamp : Stamps, batch : Batches] /\ IsFiniteSet(T)
      /\ \A s, t \in T : s.stamp = t.stamp => s = t
      /\ \A s \in timeline : s.stamp # b => s \in T
      /\ \A s \in T : s = new \/ (s \in timeline /\ s.stamp # b)
      /\ new \in T
      /\ IF Kept(b) THEN Cardinality(T) = Cardinality(timeline)
                    ELSE Cardinality(T) = Cardinality(timeline) + 1
  BY <1>1, ReplacedFacts DEF Kept
<1>6. Cardinality(T) <= Capacity + 1 /\ Cardinality(T) \in Nat
  BY <1>1, <1>4, <1>5
<1> HIDE DEF T
<1>7. /\ IsFiniteSet(timeline') /\ timeline' \subseteq T /\ Cardinality(timeline') <= Capacity
      /\ Cardinality(T) <= Capacity => timeline' = T
      /\ Cardinality(T) > Capacity =>
            /\ Cardinality(timeline') = Capacity
            /\ \A s \in T : s \in timeline' <=> \E older \in T : older.stamp < s.stamp
  BY <1>2, <1>5, <1>6, TrimmedFacts
<1>8. /\ Len(built) \in Nat /\ DOMAIN built = 1 .. Len(built)
      /\ Len(built') = Len(built) + 1 /\ DOMAIN built' = 1 .. Len(built) + 1
      /\ built'[Len(built) + 1] = n /\ \A i \in DOMAIN built : built'[i] = built[i]
      /\ \A i \in DOMAIN built' : i \in DOMAIN built \/ i = Len(built) + 1
  BY <1>1, <1>2
<1>9. \A i \in DOMAIN built' : built'[i] \in DOMAIN closed'
  BY <1>1, <1>3, <1>8
<1>10. BuiltStamps' = BuiltStamps \cup {b}
  <2>1. DOMAIN built' = DOMAIN built \cup {Len(built) + 1}
    BY <1>8
  <2> QED
    BY <1>1, <1>8, <2>1 DEF BuiltStamps
<1>11. IsFiniteSet(BuiltStamps')
  BY <1>3, <1>10, FS_AddElement
<1> HIDE DEF b
<1>12. new.stamp = b /\ new.batch = n
  OBVIOUS
<1> HIDE DEF new
<1>13. ASSUME NEW s \in T PROVE BuiltLast(s)'
  <2>1. CASE s = new
    <3>1. built'[Len(built) + 1] = s.batch /\ closed'[s.batch].stamp = s.stamp
      BY <1>1, <1>8, <1>12, <2>1 DEF b
    <3>2. Len(built) + 1 \in DOMAIN built' /\ (Len(built) + 1) + 1 .. Len(built') = {}
      BY <1>8
    <3> QED
      BY <3>1, <3>2 DEF BuiltLast
  <2>2. CASE s \in timeline /\ s.stamp # b
    <3>1. PICK i \in DOMAIN built :
             /\ built[i] = s.batch /\ closed[s.batch].stamp = s.stamp
             /\ \A j \in i + 1 .. Len(built) : closed[built[j]].stamp # s.stamp
      BY <1>3, <2>2 DEF BuiltLast
    <3>2. i \in DOMAIN built' /\ built'[i] = s.batch /\ closed'[s.batch].stamp = s.stamp
      BY <1>1, <1>8, <3>1
    <3>3. ASSUME NEW j \in i + 1 .. Len(built') PROVE closed'[built'[j]].stamp # s.stamp
      <4>1. CASE j = Len(built) + 1
        BY <1>1, <1>8, <2>2, <4>1 DEF b
      <4>2. CASE j # Len(built) + 1
        <5>1. j \in i + 1 .. Len(built) /\ j \in DOMAIN built
          BY <1>8, <4>2
        <5> QED
          BY <1>1, <1>8, <3>1, <5>1
      <4> QED
        BY <4>1, <4>2
    <3> QED
      BY <3>2, <3>3 DEF BuiltLast
  <2> QED
    BY <1>5, <2>1, <2>2
<1>14. b \in Nat /\ (\A s \in T : s.stamp \in Nat) /\ (\A s \in timeline : s.stamp \in Nat)
  <2>1. closed[n] \in Batch
    BY <1>1
  <2> QED
    BY <1>1, <1>5, <2>1, Constants DEF b, Batch, Stamps
<1>15. \A u \in BuiltStamps : u \in Nat
  <2> SUFFICES ASSUME NEW i \in DOMAIN built PROVE closed[built[i]].stamp \in Nat
    BY DEF BuiltStamps
  <2>1. closed[built[i]] \in Batch
    BY <1>1, <1>3
  <2> QED
    BY <2>1, Constants DEF Batch, Stamps
<1>16. ASSUME NEW u, Kept(u) PROVE \E s \in T : s.stamp = u
  BY <1>5, <1>12, <1>16 DEF Kept
<1>17. CASE Cardinality(T) <= Capacity
  <2>1. timeline' = T
    BY <1>7, <1>17
  <2>2. ASSUME NEW s \in T, NEW u \in BuiltStamps', u > s.stamp PROVE Kept(u)'
    <3>1. CASE u = b
      BY <1>5, <1>12, <2>1, <3>1 DEF Kept
    <3>2. CASE u # b /\ s \in timeline
      <4>1. Kept(u)
        BY <1>3, <1>10, <2>2, <3>2
      <4> QED
        BY <1>16, <2>1, <4>1 DEF Kept
    <3>3. CASE u # b /\ s = new
      <4>1. CASE Kept(b)
        <5>1. PICK t \in timeline : t.stamp = b
          BY <4>1 DEF Kept
        <5>2. Kept(u)
          BY <1>3, <1>10, <1>12, <2>2, <3>3, <5>1
        <5> QED
          BY <1>16, <2>1, <5>2 DEF Kept
      <4>2. CASE ~Kept(b)
        <5>1. Cardinality(timeline) < Capacity
          BY <1>4, <1>5, <1>17, <4>2
        <5>2. Kept(u)
          BY <1>3, <1>10, <3>3, <5>1
        <5> QED
          BY <1>16, <2>1, <5>2 DEF Kept
      <4> QED
        BY <4>1, <4>2
    <3> QED
      BY <1>5, <3>1, <3>2, <3>3
  <2>3. ASSUME NEW u \in BuiltStamps', Cardinality(timeline') < Capacity PROVE Kept(u)'
    <3>1. CASE u = b
      BY <1>5, <1>12, <2>1, <3>1 DEF Kept
    <3>2. CASE u # b
      <4>1. Cardinality(timeline) < Capacity
        BY <1>4, <1>5, <1>6, <2>1, <2>3
      <4>2. Kept(u)
        BY <1>3, <1>10, <3>2, <4>1
      <4> QED
        BY <1>16, <2>1, <4>2 DEF Kept
    <3> QED
      BY <3>1, <3>2
  <2> QED
    BY <1>5, <1>7, <1>9, <1>11, <1>13, <2>1, <2>2, <2>3 DEF TimelineInv
<1>18. CASE Cardinality(T) > Capacity
  <2>1. /\ Cardinality(timeline') = Capacity
        /\ \A s \in T : s \in timeline' <=> \E older \in T : older.stamp < s.stamp
    BY <1>7, <1>18
  <2>2. ASSUME NEW s \in timeline', NEW u \in BuiltStamps', u > s.stamp PROVE Kept(u)'
    <3>1. s \in T /\ s.stamp < u /\ \E older \in T : older.stamp < s.stamp
      BY <1>7, <1>10, <1>14, <1>15, <2>1, <2>2
    <3>2. PICK older \in T : older.stamp < s.stamp
      BY <3>1
    <3>3. older.stamp < u
      BY <1>10, <1>14, <1>15, <3>1, <3>2
    <3>4. \E t \in T : t.stamp = u
      <4>1. CASE u = b
        BY <1>5, <1>12, <4>1
      <4>2. CASE u # b
        <5>1. s \in timeline \/ older \in timeline
          BY <1>5, <1>14, <3>1, <3>2
        <5>2. Kept(u)
          BY <1>3, <1>10, <1>14, <1>15, <3>1, <3>3, <4>2, <5>1
        <5> QED
          BY <1>16, <5>2
      <4> QED
        BY <4>1, <4>2
    <3> QED
      BY <2>1, <3>1, <3>4 DEF Kept
  <2>3. ~ Cardinality(timeline') < Capacity
    BY <1>4, <2>1
  <2> QED
    BY <1>5, <1>7, <1>9, <1>11, <1>13, <2>2, <2>3 DEF TimelineInv
<1> QED
  BY <1>4, <1>5, <1>6, <1>7, <1>17, <1>18

\* The other steps leave the timeline, and what closed batches it was built of.
LEMMA TimelineOthers ==
    ASSUME TypeOK, TimelineInv, UNCHANGED <<timeline, built>>,
           \A i \in DOMAIN closed : i \in DOMAIN closed' /\ closed'[i] = closed[i]
    PROVE  TimelineInv'
<1>1. \A i \in DOMAIN built : built[i] \in DOMAIN closed
  BY DEF TimelineInv
<1>2. BuiltStamps' = BuiltStamps
  BY <1>1 DEF BuiltStamps
<1>3. \A s \in timeline : BuiltLast(s)'
  <2> SUFFICES ASSUME NEW s \in timeline PROVE BuiltLast(s)'
    OBVIOUS
  <2>1. PICK i \in DOMAIN built :
           /\ built[i] = s.batch /\ closed[s.batch].stamp = s.stamp
           /\ \A j \in i + 1 .. Len(built) : closed[built[j]].stamp # s.stamp
    BY DEF TimelineInv, BuiltLast
  <2>2. \A j \in i + 1 .. Len(built) : j \in DOMAIN built
    BY DEF TypeOK
  <2> QED
    BY <1>1, <2>1, <2>2 DEF BuiltLast
<1>4. \A u : Kept(u)' <=> Kept(u)
  BY DEF Kept
<1> QED
  BY <1>1, <1>2, <1>3, <1>4 DEF TimelineInv

\* The timeline changes only when a batch is built.
LEMMA TimelineStep ==
    ASSUME TypeOK, HandlersCount, EnoughReadings, OpenAnchored, TimelineInv, [Next]_vars
    PROVE  TimelineInv'
<1>1. CASE CloseBatch
  BY <1>1, CloseFacts, TimelineOthers DEF summaryVars
<1>2. ASSUME NEW n \in Batches, HandlerStep(n) PROVE TimelineInv'
  <2>1. CASE BuildSnapshot(n)
    BY <1>2, <2>1, TimelineBuild
  <2>2. CASE ~BuildSnapshot(n)
    <3>1. UNCHANGED <<timeline, built>>
      BY <1>2, <2>2, RestFacts, DetectFacts, EntryFacts DEF HandlerStep
    <3>2. closed' = closed
      BY <1>2, HandlerFrame
    <3> QED
      BY <3>1, <3>2, TimelineOthers
  <2> QED
    BY <2>1, <2>2
<1>3. CASE UNCHANGED <<closed, timeline, built>>
  BY <1>3, TimelineOthers
<1> QED
  BY <1>1, <1>2, <1>3, Steps, OtherFrame

\* The entries are those of the newest time stamps.
LEMMA TimelineNewest ==
    ASSUME TypeOK, TimelineInv
    PROVE  TimelineHoldsNewest
<1> DEFINE stamps == {s.stamp : s \in timeline}
           newer(t) == {u \in BuiltStamps : u > t}
           f == [s \in timeline |-> s.stamp]
<1>1. /\ IsFiniteSet(timeline) /\ IsFiniteSet(BuiltStamps)
      /\ \A i \in DOMAIN built : built[i] \in DOMAIN closed
      /\ \A s, t \in timeline : s.stamp = t.stamp => s = t
      /\ \A s \in timeline : BuiltLast(s)
      /\ \A s \in timeline, u \in BuiltStamps : u > s.stamp => Kept(u)
      /\ \A u \in BuiltStamps : Cardinality(timeline) < Capacity => Kept(u)
  BY DEF TimelineInv
<1>2. /\ Cardinality(timeline) \in Nat /\ Capacity \in Nat
      /\ Cardinality(timeline) <= Capacity
  BY <1>1, FS_CardinalityType, Constants DEF TypeOK
<1>3. stamps \subseteq BuiltStamps
  BY <1>1 DEF BuiltLast, BuiltStamps
<1>4. IsFiniteSet(stamps) /\ Cardinality(stamps) = Cardinality(timeline)
  <2>1. f \in Injection(timeline, stamps) /\ f \in Surjection(timeline, stamps)
    BY <1>1 DEF Injection, Surjection, IsInjective
  <2> QED
    BY <1>1, <2>1, FS_Surjection
<1>5. \A u : Kept(u) <=> u \in stamps
  BY DEF Kept
<1>6. \A u \in BuiltStamps : u \in Nat
  <2> SUFFICES ASSUME NEW i \in DOMAIN built PROVE closed[built[i]].stamp \in Nat
    BY DEF BuiltStamps
  <2>1. closed[built[i]] \in Batch
    BY <1>1 DEF TypeOK
  <2> QED
    BY <2>1, Constants DEF Batch, Stamps
<1>7. \A t \in stamps, u \in BuiltStamps : u > t => u \in stamps
  BY <1>1, <1>5
<1>8. \A t : IsFiniteSet(newer(t)) /\ Cardinality(newer(t)) \in Nat
  BY <1>1, FS_Subset, FS_CardinalityType
<1> HIDE DEF stamps
<1>9. ASSUME NEW t \in stamps PROVE Cardinality(newer(t)) < Capacity
  <2>1. newer(t) \subseteq stamps \ {t}
    BY <1>3, <1>6, <1>7
  <2>2. IsFiniteSet(stamps \ {t}) /\ Cardinality(stamps \ {t}) = Cardinality(stamps) - 1
    BY <1>4, FS_RemoveElement
  <2>3. Cardinality(newer(t)) <= Cardinality(stamps \ {t})
    BY <2>1, <2>2, FS_Subset
  <2> HIDE DEF newer
  <2> QED
    BY <1>2, <1>4, <1>8, <2>2, <2>3
<1>10. ASSUME NEW t \in BuiltStamps, Cardinality(newer(t)) < Capacity, t \notin stamps
       PROVE  FALSE
  <2>1. Cardinality(stamps) = Capacity
    BY <1>1, <1>2, <1>4, <1>5, <1>10
  <2>2. ASSUME NEW s \in stamps PROVE s \in newer(t)
    <3>1. s \in Nat /\ t \in Nat /\ s # t /\ s \in BuiltStamps
      BY <1>3, <1>6, <1>10
    <3>2. ~ t > s
      BY <1>7, <1>10
    <3> QED
      BY <3>1, <3>2
  <2>3. Cardinality(stamps) <= Cardinality(newer(t))
    BY <1>8, <2>2, FS_Subset
  <2> HIDE DEF newer
  <2> QED
    BY <1>2, <1>8, <1>10, <2>1, <2>3
<1>11. stamps = {t \in BuiltStamps : Cardinality(newer(t)) < Capacity}
  BY <1>3, <1>9, <1>10
<1> QED
  BY <1>1, <1>11 DEF TimelineHoldsNewest, BuiltLast, stamps

-----------------------------------------------------------------------------
(* Types, and the whole.                                                       *)

\* The types of the batcher's and the consumer's variables, and of the others.
BatcherType ==
    /\ anchor \in Stamps \cup {None} /\ packets \subseteq Reading /\ quiet \in BOOLEAN
    /\ ring \in [0 .. RingSize - 1 -> 0 .. MaxReadings] /\ writeIndex \in 0 .. RingSize - 1
    /\ seen \subseteq Devices
    /\ consumer = Idle \/ consumer \in [at : {"add"}, reading : Reading]
    /\ processed \in 0 .. MaxReadings
    /\ closed \in Seq(Batch) /\ orphans \subseteq Reading /\ alone \subseteq Batches

HandlersType ==
    /\ disconnected \subseteq Devices
    /\ clock \in 0 .. MaxReadings /\ offlineSince \in [Devices -> 0 .. MaxReadings]
    /\ \A n \in Batches : HandlerType(handler[n])
    /\ timeline \subseteq [stamp : Stamps, batch : Batches] /\ Cardinality(timeline) <= Capacity
    /\ lastBatch \in 0 .. MaxReadings
    /\ view \in [batch : 0 .. MaxReadings, offline : 0 .. Cardinality(Devices)]
    /\ built \in Seq(Batches) /\ judged \in [Batches -> SUBSET Devices]

\* Together they are TypeOK.
LEMMA TypeParts == TypeOK <=> BatcherType /\ HandlersType
BY DEF TypeOK, BatcherType, HandlersType

\* Batcher and consumer keep their types.
LEMMA BatcherTypeStep ==
    ASSUME TypeOK, HandlersCount, EnoughReadings, OpenAnchored, [Next]_vars
    PROVE  BatcherType'
<1>0. BatcherType
  BY TypeParts
<1>1. ASSUME NEW d \in Devices, NEW s \in Stamps, RecordTelemetry(d, s) PROVE BatcherType'
  <2>1. UNCHANGED <<anchor, packets, quiet, orphans, ring, writeIndex, closed, alone>>
    BY <1>1, RecordFacts, OtherFrame
  <2>2. /\ consumer' \in [at : {"add"}, reading : Reading] /\ seen' \subseteq Devices
        /\ processed' \in 0 .. MaxReadings
    BY <1>0, <1>1, RecordFacts, Constants DEF BatcherType
  <2> QED
    BY <1>0, <2>1, <2>2 DEF BatcherType
<1>2. CASE AddPackets
  <2>1. UNCHANGED <<seen, processed, ring, writeIndex, closed, alone>>
    BY <1>2, AddFacts, OtherFrame
  <2>2. /\ consumer' = Idle /\ anchor' \in Stamps /\ quiet' = FALSE
        /\ packets' \subseteq Reading /\ orphans' \subseteq Reading
    BY <1>0, <1>2, AddFacts DEF BatcherType
  <2> QED
    BY <1>0, <2>1, <2>2 DEF BatcherType
<1>3. CASE FallQuiet
  BY <1>0, <1>3 DEF FallQuiet, BatcherType
<1>4. CASE CloseBatch
  <2>1. /\ UNCHANGED <<quiet, orphans, seen, consumer, processed>>
        /\ anchor' = None /\ packets' = {}
        /\ [stamp |-> anchor, readings |-> packets] \in Batch
        /\ closed' = Append(closed, [stamp |-> anchor, readings |-> packets])
        /\ Count + 1 \in Batches
    BY <1>4, CloseFacts
  <2>2. closed' \in Seq(Batch)
    BY <1>0, <2>1 DEF BatcherType
  <2>3. /\ ring' = [ring EXCEPT ![writeIndex] = Count + 1] /\ writeIndex' = NextIndex(writeIndex)
        /\ alone' \subseteq alone
    BY <1>4 DEF CloseBatch, Count
  <2>4. writeIndex \in 0 .. RingSize - 1 /\ RingSize \in Nat \ {0} /\ Count + 1 \in 0 .. MaxReadings
    BY <1>0, <2>1, Constants DEF BatcherType
  <2>5. writeIndex' \in 0 .. RingSize - 1
    BY <2>3, <2>4, NextIndexWraps
  <2>6. ring' \in [0 .. RingSize - 1 -> 0 .. MaxReadings]
    BY <1>0, <2>3, <2>4 DEF BatcherType
  <2> QED
    BY <1>0, <2>1, <2>2, <2>3, <2>5, <2>6 DEF BatcherType
<1>5. ASSUME NEW n \in Batches, HandlerStep(n) PROVE BatcherType'
  <2>1. UNCHANGED <<anchor, packets, quiet, ring, writeIndex, closed, orphans, seen, consumer,
                    processed, alone>>
    BY <1>5, HandlerFrame DEF batcherVars
  <2> QED
    BY <1>0, <2>1 DEF BatcherType
<1>6. CASE UNCHANGED vars
  BY <1>0, <1>6 DEF vars, batcherVars, BatcherType
<1> QED
  BY <1>1, <1>2, <1>3, <1>4, <1>5, <1>6, Steps

\* So do the handlers, and what they write.
LEMMA HandlersTypeStep ==
    ASSUME TypeOK, HandlersCount, EnoughReadings, OpenAnchored, TimelineInv, [Next]_vars,
           BatcherType', HandlersCount', EnoughReadings'
    PROVE  HandlersType'
<1>0. HandlersType
  BY TypeParts
<1>1. CASE CloseBatch
  <2>1. /\ UNCHANGED <<clock, disconnected, offlineSince, timeline, lastBatch, view, built, judged>>
        /\ handler'[Count + 1] = [at |-> "advance"]
        /\ \A m \in Batches : m # Count + 1 => handler'[m] = handler[m]
    BY <1>1, CloseFacts DEF detectorVars, summaryVars
  <2>2. HandlerType([at |-> "advance"])
    BY DEF HandlerType
  <2>3. \A n \in Batches : HandlerType(handler'[n])
    BY <1>0, <2>1, <2>2 DEF HandlersType
  <2> QED
    BY <1>0, <2>1, <2>3 DEF HandlersType
<1>2. ASSUME NEW n \in Batches, HandlerStep(n) PROVE HandlersType'
  <2>1. /\ HandlerType(handler'[n]) /\ HandlerType(handler[n]) /\ seen \subseteq Devices
        /\ \A m \in Batches : m # n => handler'[m] = handler[m]
    BY <1>2, HandlerFrame DEF TypeOK
  <2>2. \A m \in Batches : HandlerType(handler'[m])
    BY <1>0, <2>1 DEF HandlersType
  <2>3. clock' \in 0 .. MaxReadings
    <3>1. (clock \in 0 .. Count /\ Count \in 0 .. MaxReadings)'
      <4>1. (closed \in Seq(Batch) /\ HandlersCount /\ EnoughReadings
              /\ processed \in 0 .. MaxReadings)'
        BY DEF BatcherType
      <4> QED
        BY <4>1, ClockBound, PTL
    <3> QED
      BY <3>1, Constants
  <2>4. n \in 0 .. MaxReadings
    BY Constants
  <2>5. CASE Advance(n) \/ TakeSnapshot(n)
    <3>1. /\ UNCHANGED <<disconnected, offlineSince, lastBatch, view, timeline, built>>
          /\ judged' = judged \/ judged' = [judged EXCEPT ![n] = seen]
      BY <2>5, RestFacts
    <3>2. judged' \in [Batches -> SUBSET Devices]
      BY <1>0, <2>1, <3>1 DEF HandlersType
    <3> QED
      BY <1>0, <2>2, <2>3, <3>1, <3>2 DEF HandlersType
  <2>6. CASE Detect(n)
    <3>1. UNCHANGED <<clock, offlineSince, judged, lastBatch, view, timeline, built>>
      BY <2>6, DetectFacts
    <3>2. disconnected' \subseteq Devices
      BY <1>0, <2>6, DetectFacts DEF HandlersType
    <3> QED
      BY <1>0, <2>2, <3>1, <3>2 DEF HandlersType
  <2>7. CASE ForgetEntry(n) \/ StampEntry(n)
    <3>1. /\ UNCHANGED <<clock, disconnected, judged, lastBatch, view, timeline, built>>
          /\ offlineSince' = [offlineSince EXCEPT ![handler[n].device] =
                                 IF handler[n].at = "forget" THEN 0 ELSE clock]
      BY <2>7, EntryFacts
    <3>2. clock \in 0 .. MaxReadings /\ 0 \in 0 .. MaxReadings
      BY <1>0, Constants DEF HandlersType
    <3>3. offlineSince' \in [Devices -> 0 .. MaxReadings]
      BY <1>0, <3>1, <3>2 DEF HandlersType
    <3> QED
      BY <1>0, <2>2, <3>1, <3>3 DEF HandlersType
  <2>8. CASE BuildSnapshot(n)
    <3>1. UNCHANGED <<clock, disconnected, offlineSince, judged, lastBatch, view>>
      BY <2>8, RestFacts
    <3>2. built' \in Seq(Batches)
      BY <1>0, <2>8 DEF BuildSnapshot, HandlersType
    <3>3. Cardinality(timeline') <= Capacity /\ timeline' \subseteq [stamp : Stamps, batch : Batches]
      BY <1>2, <2>8, TimelineBuild
    <3> QED
      BY <1>0, <2>2, <3>1, <3>2, <3>3 DEF HandlersType
  <2>9. CASE RecordBatch(n) \/ ReadLastBatch(n)
    <3>1. /\ UNCHANGED <<clock, disconnected, offlineSince, judged, view, timeline, built>>
          /\ lastBatch' = n \/ lastBatch' = lastBatch
      BY <2>9, RestFacts
    <3> QED
      BY <1>0, <2>2, <2>4, <3>1 DEF HandlersType
  <2>10. CASE Push(n)
    <3>1. /\ UNCHANGED <<clock, disconnected, offlineSince, judged, lastBatch, timeline, built>>
          /\ handler[n].at = "push"
          /\ view' = [batch |-> handler[n].batch, offline |-> Cardinality(disconnected)]
      BY <2>10, RestFacts
    <3>2. handler[n].batch \in Batches
      BY <2>1, <3>1, HandlerFacts
    <3>3. handler[n].batch \in 0 .. MaxReadings
      BY <3>2, Constants
    <3>4. Cardinality(disconnected) \in 0 .. Cardinality(Devices)
      <4>1. disconnected \in SUBSET Devices /\ IsFiniteSet(Devices)
        BY <1>0, Constants DEF HandlersType
      <4>2. /\ Cardinality(Devices) \in Nat /\ Cardinality(disconnected) \in Nat
            /\ Cardinality(disconnected) <= Cardinality(Devices)
        BY <4>1, FS_Subset, FS_CardinalityType
      <4> QED
        BY <4>2
    <3> QED
      BY <1>0, <2>2, <3>1, <3>3, <3>4 DEF HandlersType
  <2> QED
    BY <1>2, <2>5, <2>6, <2>7, <2>8, <2>9, <2>10 DEF HandlerStep
<1>3. CASE UNCHANGED <<clock, disconnected, offlineSince, handler, timeline, lastBatch, view, built,
                       judged>>
  BY <1>0, <1>3 DEF HandlersType
<1> QED
  BY <1>1, <1>2, <1>3, Steps, OtherFrame

\* What the program starts with.
LEMMA InitIInv == Init => IInv
<1> SUFFICES ASSUME Init PROVE IInv
  OBVIOUS
<1>0. /\ anchor = None /\ packets = {} /\ quiet = FALSE
      /\ ring = [i \in 0 .. RingSize - 1 |-> 0] /\ writeIndex = 0
      /\ seen = {} /\ consumer = Idle /\ clock = 0
      /\ disconnected = {} /\ offlineSince = [d \in Devices |-> 0]
      /\ handler = [n \in Batches |-> NotClosed]
      /\ timeline = {} /\ lastBatch = 0 /\ view = [batch |-> 0, offline |-> 0]
      /\ processed = 0 /\ closed = <<>> /\ orphans = {} /\ built = <<>>
      /\ judged = [n \in Batches |-> {}] /\ alone = Batches
  BY DEF Init
<1>1. Count = 0 /\ DOMAIN closed = {} /\ DOMAIN built = {}
  BY <1>0 DEF Count
<1>2. /\ MaxReadings \in Nat /\ RingSize \in Nat \ {0} /\ Capacity \in Nat
      /\ Cardinality(Devices) \in Nat /\ Cardinality({}) = 0 /\ IsFiniteSet({})
  BY Constants, FS_CardinalityType, FS_EmptySet
<1>3. BatcherType
  <2>1. 0 \in 0 .. RingSize - 1 /\ 0 \in 0 .. MaxReadings
    BY <1>2
  <2>2. ring \in [0 .. RingSize - 1 -> 0 .. MaxReadings]
    BY <1>0, <2>1
  <2>3. closed \in Seq(Batch)
    BY <1>0
  <2> QED
    BY <1>0, <2>1, <2>2, <2>3 DEF BatcherType
<1>4. HandlersType
  <2>1. \A n \in Batches : HandlerType(handler[n])
    BY <1>0 DEF HandlerType, NotClosed
  <2>2. view \in [batch : 0 .. MaxReadings, offline : 0 .. Cardinality(Devices)]
    BY <1>0, <1>2
  <2> QED
    BY <1>0, <1>2, <2>1, <2>2 DEF HandlersType
<1>5. EnoughReadings /\ OpenAnchored /\ BatchesAnchored /\ DropsOutsideWindow
  BY <1>0, <1>1 DEF EnoughReadings, OpenAnchored, BatchesAnchored, DropsOutsideWindow
<1>6. ReadingsPlaced
  <2>1. \A q : NotPlaced(q)
    BY <1>0, <1>1 DEF NotPlaced, BatchesOf, HeldOf
  <2>2. \A q \in 1 .. MaxReadings : q > processed
    BY <1>0
  <2> QED
    BY <1>0, <2>1, <2>2 DEF ReadingsPlaced
<1>7. RingInOrder
  <2> SUFFICES ASSUME NEW i \in 0 .. RingSize - 1
               PROVE  ring[i] = 0 /\ ~ RingAt(i) > 0
    BY DEF RingInOrder
  <2> QED
    BY <1>0, <1>1, <1>2 DEF RingAt
<1>8. HandlersCount
  <2>1. Advanced = {}
    BY <1>0 DEF Advanced, NotClosed
  <2>2. \A n \in Batches : n > Count
    BY <1>1, Constants
  <2> QED
    BY <1>0, <1>2, <2>1, <2>2 DEF HandlersCount, NotClosed
<1>9. LatestAlone /\ SeenOnly /\ DetectInv
  <2>1. 0 \notin Batches
    BY Constants
  <2> QED
    BY <1>0, <1>1, <2>1 DEF LatestAlone, Running, SeenOnly, Detecting, NotClosed, DetectInv
<1>10. OfflineInv
  <2> SUFFICES ASSUME NEW n, n = 0 PROVE SettledBy(n)
    BY <1>1 DEF OfflineInv
  <2>1. \A d \in Devices : SettledAt(n, d)
    BY <1>0 DEF SettledAt, SinceAt, MissedBy
  <2> QED
    BY <1>0, <2>1 DEF SettledBy
<1>11. TimelineInv
  <2>1. BuiltStamps = {}
    BY <1>1 DEF BuiltStamps
  <2> QED
    BY <1>0, <1>1, <1>2, <2>1 DEF TimelineInv
<1> QED
  BY <1>3, <1>4, <1>5, <1>6, <1>7, <1>8, <1>9, <1>10, <1>11, TypeParts DEF IInv

\* Every step keeps the invariant.
LEMMA StepIInv == IInv /\ [Next]_vars => IInv'
<1> SUFFICES ASSUME IInv, [Next]_vars PROVE IInv'
  OBVIOUS
<1> USE DEF IInv
<1>1. /\ EnoughReadings' /\ OpenAnchored' /\ BatchesAnchored' /\ ReadingsPlaced' /\ RingInOrder'
      /\ DropsOutsideWindow'
  BY EnoughStep, AnchoredStep, PlacedStep, RingStep, DropsStep
<1>2. HandlersCount' /\ LatestAlone' /\ TimelineInv' /\ SeenOnly' /\ DetectInv'
  BY HandlersStep, AloneStep, TimelineStep, SeenStep, DetectStep
<1>3. OfflineInv'
  BY <1>2, OfflineStep
<1>4. BatcherType'
  BY BatcherTypeStep
<1>5. HandlersType'
  BY <1>1, <1>2, <1>4, HandlersTypeStep
<1>6. TypeOK'
  BY <1>4, <1>5, TypeParts DEF TypeOK, BatcherType, HandlersType
<1> QED
  BY <1>1, <1>2, <1>3, <1>6

\* The inductive invariant holds throughout.
LEMMA Invariance == Spec => []IInv
BY InitIInv, StepIInv, PTL DEF Spec
-----------------------------------------------------------------------------
(* Theorems.                                                                   *)

\* Every variable has its type: no reading number, ring place or clock is past
\* its bound, and the timeline never holds more than Capacity time stamps.
THEOREM TypeCorrect == Spec => []TypeOK
<1>1. IInv => TypeOK
  BY DEF IInv
<1> QED
  BY <1>1, Invariance, PTL

\* TelemetryBatcher puts each reading it is handed in one batch, closed or open, or
\* drops it once, and drops only what is outside the window of a batch opened before,
\* whenever the timer closes a batch between the consumer's calls of Process and
\* AddPackets.
THEOREM ReadingsAreBatched == Spec => []ReadingsBatched
<1>1. IInv => ReadingsBatched
  BY PlacesCounted DEF IInv, ReadingsBatched
<1> QED
  BY <1>1, Invariance, PTL

\* When the handler of the latest batch overlapped no other, Detect has left
\* exactly the devices the batch misses as disconnected, whatever overlapped
\* before.
THEOREM DisconnectedAreMissed == Spec => []DisconnectedMatchesBatch
<1>1. IInv => DisconnectedMatchesBatch
  <2> SUFFICES ASSUME IInv, NEW n \in DOMAIN closed, n = Len(closed), n \in alone, Detected(n)
               PROVE  disconnected = Missed(n)
    BY DEF DisconnectedMatchesBatch
  <2> QED
    BY DEF IInv, DetectInv, DetectedBy, Count
<1> QED
  BY <1>1, Invariance, PTL

\* As long as no handlers overlap, OfflineSince is the clock of the first of the
\* batches a disconnected device missed in a row, and no other device has one.
THEOREM OfflineSinceIsFirstMissed == Spec => []OfflineSinceExact
<1>1. IInv => OfflineSinceExact
  <2> SUFFICES ASSUME IInv, NEW n \in DOMAIN closed, n = Len(closed), alone = Batches, Detected(n),
                      NEW d \in Devices
               PROVE  IF d \notin Missed(n) THEN offlineSince[d] = 0
                      ELSE /\ offlineSince[d] \in 1 .. n
                           /\ \A k \in offlineSince[d] .. n : d \in Missed(k)
                           /\ offlineSince[d] > 1 => d \notin Missed(offlineSince[d] - 1)
    BY DEF OfflineSinceExact
  <2>1. n # 0
    BY DEF IInv, TypeOK
  <2>2. SettledAt(n, d)
    BY DEF IInv, OfflineInv, SettledBy, Count
  <2> QED
    BY <2>1, <2>2 DEF SettledAt, SinceAt, MissedBy
<1> QED
  BY <1>1, Invariance, PTL

\* GetRecentBatches returns the latest batches, and SnapshotStore the newest time
\* stamps, each with the batch built last for it.
THEOREM NewestAreKept == Spec => []NewestKept
<1>1. IInv => NewestKept
  BY RingInOrderHolds, TimelineNewest DEF IInv, NewestKept
<1> QED
  BY <1>1, Invariance, PTL

\* When the handler of the latest batch is done, and overlapped no other, clients
\* have the summary of that batch with the present number of disconnected devices.
THEOREM ViewIsCurrent == Spec => []ViewCurrent
<1>1. IInv => ViewCurrent
  <2> SUFFICES ASSUME IInv, NEW n, n = Count, n \in alone, handler[n] = Done
               PROVE  view = [batch |-> n, offline |-> Cardinality(disconnected)]
    BY DEF ViewCurrent, Count
  <2> QED
    BY DEF IInv, DetectInv, DetectedBy, Done
<1> QED
  BY <1>1, Invariance, PTL
=============================================================================
