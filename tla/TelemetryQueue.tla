--------------------------- MODULE TelemetryQueue ---------------------------
(* backend/Services/Telemetry/TelemetryQueue.cs with its single reader,        *)
(* backend/BackgroundServices/TelemetryConsumer.cs.                            *)
(*                                                                             *)
(* Enqueue changes both queues under the lock but releases the semaphore       *)
(* after it, so a reading can be taken on the permit of another one.           *)
EXTENDS Naturals, Sequences, FiniteSets

CONSTANTS Producers,    \* threads that call Enqueue
          Severities,   \* severities a reading can have; 0 is "not critical"
          MaxItems      \* bound on the readings enqueued in one run

ASSUME ProducersAssumption == IsFiniteSet(Producers)
ASSUME SeveritiesAssumption == Severities \subseteq Nat
ASSUME MaxItemsAssumption == MaxItems \in Nat

VARIABLES fifo,         \* _fifo
          priority,     \* _priority, a set of entries
          signal,       \* _signal.CurrentCount
          sequence,     \* _sequence
          enqueued,     \* [fifo, priority]: _enqueuedFifo, _enqueuedPriority
          dequeued,     \* [fifo, priority]: _dequeuedFifo, _dequeuedPriority
          stats,        \* [depth, overtaken, total]: _maxFifoDepth, _maxOvertaken, _totalOvertaken
          producer,     \* where each producer is in Enqueue
          consumer,     \* where ExecuteAsync is
          cancelled,    \* stoppingToken
          delivered     \* history: the readings DequeueAsync returned, in order

queueVars == <<fifo, priority, sequence, enqueued, dequeued, stats, delivered>>
vars == <<fifo, priority, signal, sequence, enqueued, dequeued, stats,
          producer, consumer, cancelled, delivered>>

Item == [seq : Nat, sev : Severities]
Entry == [item : Item, before : Nat]

IsCritical(item) == item.sev > 0

\* Mutant: the severity is not negated, so the least severe comes first.
KeyBefore_NotNegated(a, b) ==
    \/ a.item.sev < b.item.sev
    \/ a.item.sev = b.item.sev /\ a.item.seq < b.item.seq

\* The order of the priority queue's keys (-Severity, Sequence).
KeyBefore(a, b) ==
    \/ a.item.sev > b.item.sev
    \/ a.item.sev = b.item.sev /\ a.item.seq < b.item.seq

Init ==
    /\ fifo = <<>> /\ priority = {} /\ signal = 0 /\ sequence = 0
    /\ enqueued = [fifo |-> 0, priority |-> 0]
    /\ dequeued = [fifo |-> 0, priority |-> 0]
    /\ stats = [depth |-> 0, overtaken |-> 0, total |-> 0]
    /\ producer = [p \in Producers |-> "idle"]
    /\ consumer = "loop" /\ cancelled = FALSE /\ delivered = <<>>

\* The larger of two naturals.
Larger(a, b) == IF a > b THEN a ELSE b

EnqueueCritical(item) ==
    /\ IsCritical(item)
    /\ priority' = priority \cup {[item |-> item, before |-> enqueued.fifo]}
    /\ enqueued' = [enqueued EXCEPT !.priority = @ + 1]
    /\ UNCHANGED <<fifo, stats>>

EnqueueNormal(item) ==
    /\ ~IsCritical(item)
    /\ fifo' = Append(fifo, item)
    /\ enqueued' = [enqueued EXCEPT !.fifo = @ + 1]
    /\ stats' = [stats EXCEPT !.depth = Larger(@, Len(fifo'))]
    /\ UNCHANGED priority

\* Enqueue up to the end of its lock.
Enqueue(p, sev) ==
    /\ producer[p] = "idle"
    /\ sequence < MaxItems
    /\ LET item == [seq |-> sequence + 1, sev |-> sev]
       IN  EnqueueCritical(item) \/ EnqueueNormal(item)
    /\ sequence' = sequence + 1
    /\ producer' = [producer EXCEPT ![p] = "release"]
    /\ UNCHANGED <<signal, dequeued, consumer, cancelled, delivered>>

\* Mutant: the call of Release is missing.
Release_Missing(p) ==
    /\ producer[p] = "release"
    /\ producer' = [producer EXCEPT ![p] = "idle"]
    /\ UNCHANGED <<queueVars, signal, consumer, cancelled>>

\* _signal.Release(), outside the lock.
Release(p) ==
    /\ producer[p] = "release"
    /\ signal' = signal + 1
    /\ producer' = [producer EXCEPT ![p] = "idle"]
    /\ UNCHANGED <<queueVars, consumer, cancelled>>

\* The test of the consumer's while loop, then the call of WaitAsync.
LoopTest ==
    /\ consumer = "loop"
    /\ consumer' = IF cancelled THEN "stopped" ELSE "waiting"
    /\ UNCHANGED <<queueVars, signal, producer, cancelled>>

\* Mutant: the consumer does not use up the permit.
WaitGranted_KeepsPermit ==
    /\ consumer = "waiting"
    /\ signal > 0
    /\ consumer' = "granted"
    /\ UNCHANGED <<queueVars, signal, producer, cancelled>>

\* WaitAsync takes a permit: it and a cancellation race once both are there.
WaitGranted ==
    /\ consumer = "waiting"
    /\ signal > 0
    /\ signal' = signal - 1
    /\ consumer' = "granted"
    /\ UNCHANGED <<queueVars, producer, cancelled>>

\* WaitAsync throws OperationCanceledException: the loop breaks.
WaitCancelled ==
    /\ consumer = "waiting"
    /\ cancelled
    /\ consumer' = "stopped"
    /\ UNCHANGED <<queueVars, signal, producer, cancelled>>

\* Mutant: normal readings served before the entry came are counted too.
Overtaken_CountsServed(entry) == entry.before

\* The entry's FifoEnqueuedBefore - _dequeuedFifo, cut off at 0.
Overtaken(entry) ==
    IF entry.before > dequeued.fifo THEN entry.before - dequeued.fifo ELSE 0

DequeuePriority ==
    \E entry \in priority :
        /\ \A other \in priority \ {entry} : KeyBefore(entry, other)
        /\ priority' = priority \ {entry}
        /\ dequeued' = [dequeued EXCEPT !.priority = @ + 1]
        /\ stats' = [stats EXCEPT !.total = @ + Overtaken(entry),
                                  !.overtaken = Larger(@, Overtaken(entry))]
        /\ delivered' = Append(delivered, entry.item)
        /\ consumer' = "processing"
        /\ UNCHANGED fifo

\* _fifo.Dequeue() throws InvalidOperationException on an empty queue, which
\* ExecuteAsync does not catch: the consumer would end for good.
DequeueFifo ==
    /\ priority = {}
    /\ dequeued' = [dequeued EXCEPT !.fifo = @ + 1]
    /\ fifo' = IF fifo = <<>> THEN fifo ELSE Tail(fifo)
    /\ delivered' = IF fifo = <<>> THEN delivered ELSE Append(delivered, Head(fifo))
    /\ consumer' = IF fifo = <<>> THEN "faulted" ELSE "processing"
    /\ UNCHANGED <<priority, stats>>

\* The locked part of DequeueAsync.
Dequeue ==
    /\ consumer = "granted"
    /\ DequeuePriority \/ DequeueFifo
    /\ UNCHANGED <<signal, sequence, enqueued, producer, cancelled>>

\* Process returns, or throws and the exception is logged.
FinishProcessing ==
    /\ consumer = "processing"
    /\ consumer' = "loop"
    /\ UNCHANGED <<queueVars, signal, producer, cancelled>>

\* The host stops.
Cancel ==
    /\ ~cancelled
    /\ cancelled' = TRUE
    /\ UNCHANGED <<queueVars, signal, producer, consumer>>

ConsumerStep ==
    LoopTest \/ WaitGranted \/ WaitCancelled \/ Dequeue \/ FinishProcessing

Next ==
    \/ \E p \in Producers : Release(p) \/ \E sev \in Severities : Enqueue(p, sev)
    \/ ConsumerStep
    \/ Cancel

Spec == Init /\ [][Next]_vars

\* A thread that left the lock goes on to Release, and the thread pool runs the
\* consumer; nothing obliges readings to arrive or the host to stop.
Fairness ==
    /\ \A p \in Producers : WF_vars(Release(p))
    /\ WF_vars(ConsumerStep)

FairSpec == Spec /\ Fairness
-----------------------------------------------------------------------------
Counters == [fifo : Nat, priority : Nat]

\* Every variable has its type.
TypeOK ==
    /\ fifo \in Seq(Item)
    /\ priority \in SUBSET Entry
    /\ signal \in Nat
    /\ sequence \in Nat
    /\ enqueued \in Counters
    /\ dequeued \in Counters
    /\ stats \in [depth : Nat, overtaken : Nat, total : Nat]
    /\ producer \in [Producers -> {"idle", "release"}]
    /\ consumer \in {"loop", "waiting", "granted", "processing", "stopped", "faulted"}
    /\ cancelled \in BOOLEAN
    /\ delivered \in Seq(Item)

Releasing == {p \in Producers : producer[p] = "release"}

\* The readings that wait are as many as the permits: those in the semaphore,
\* those of producers between the end of the lock and Release, and the one the
\* consumer holds.
PermitsMatchItems ==
    Len(fifo) + Cardinality(priority)
      = signal + Cardinality(Releasing) + (IF consumer = "granted" THEN 1 ELSE 0)

\* The consumer never takes a permit that has no reading behind it: _fifo.Dequeue
\* (TelemetryQueue.cs:87) never meets an empty queue, whatever the interleaving
\* of the producers' late Release calls with the priority overtakes.
ConsumerNeverFaults == consumer # "faulted"

\* The pairs of a critical reading that was served and an earlier normal reading
\* that was not served before it.
Inversions ==
    {x \in [at : DOMAIN delivered, normal : 1 .. sequence] :
        /\ IsCritical(delivered[x.at])
        /\ x.normal < delivered[x.at].seq
        /\ \/ \E j \in DOMAIN fifo : fifo[j].seq = x.normal
           \/ \E j \in (x.at + 1) .. Len(delivered) :
                 delivered[j].seq = x.normal /\ ~IsCritical(delivered[j])}

\* _totalOvertaken, which the queue computes from two counters only, is the
\* number of times a critical reading was served before an earlier normal one.
OvertakenCountsInversions == stats.total = Cardinality(Inversions)

\* The readings in the two queues.
Waiting == {fifo[i] : i \in DOMAIN fifo} \cup {e.item : e \in priority}

\* The queue implements the lock-free buffer it stands for: each Enqueue accepts
\* a reading, each dequeue takes the one the buffer would have served.
Buffer == INSTANCE PriorityBuffer WITH
    accepted <- sequence,
    pending <- Waiting,
    taken <- delivered
ImplementsBuffer == Buffer!Spec

\* Every accepted reading is eventually handed to the processor, unless the host
\* stops first: no Release is lost and no reading is left without a permit.
EveryReadingDelivered ==
    \A n \in 1 .. MaxItems :
        sequence >= n ~> (cancelled \/ \E i \in DOMAIN delivered : delivered[i].seq = n)

=============================================================================
