---------------------------- MODULE IngestProofs ----------------------------
(* Theorems about the two ways a message takes into the backend: TelemetryQueue *)
(* for any finite set of producers, any set of severities and any number of     *)
(* readings, and MqttSession for any set of devices and any number of faults.   *)
EXTENDS TelemetryQueue, MqttSession, FiniteSetTheorems, TLAPS

-----------------------------------------------------------------------------
(* TelemetryQueue.                                                             *)

\* TypeOK in two halves, which the provers take better one at a time.
SequencesTyped == fifo \in Seq(Item) /\ delivered \in Seq(Item)

ScalarsTyped ==
    /\ priority \in SUBSET Entry
    /\ signal \in Nat
    /\ sequence \in Nat
    /\ enqueued \in Counters
    /\ dequeued \in Counters
    /\ stats \in [depth : Nat, overtaken : Nat, total : Nat]
    /\ producer \in [Producers -> {"idle", "release"}]
    /\ consumer \in {"loop", "waiting", "granted", "processing", "stopped", "faulted"}
    /\ cancelled \in BOOLEAN

\* The two halves make TypeOK.
LEMMA TypeHalves == TypeOK <=> SequencesTyped /\ ScalarsTyped
BY DEF TypeOK, SequencesTyped, ScalarsTyped

\* The reading an Enqueue makes is a reading.
LEMMA NewItem ==
    ASSUME TypeOK, NEW sev \in Severities
    PROVE  [seq |-> sequence + 1, sev |-> sev] \in Item
BY DEF TypeOK, Item

\* A step keeps the two sequences typed.
LEMMA SequencesStep == TypeOK /\ [Next]_vars => SequencesTyped'
<1> SUFFICES ASSUME TypeOK, [Next]_vars PROVE SequencesTyped'
  OBVIOUS
<1>0. fifo \in Seq(Item) /\ delivered \in Seq(Item)
  BY DEF TypeOK
<1>1. ASSUME NEW p \in Producers, NEW sev \in Severities, Enqueue(p, sev)
      PROVE  SequencesTyped'
  <2> DEFINE item == [seq |-> sequence + 1, sev |-> sev]
  <2>1. item \in Item
    BY NewItem
  <2> HIDE DEF item
  <2>2. fifo' = fifo \/ fifo' = Append(fifo, item)
    BY <1>1 DEF Enqueue, EnqueueCritical, EnqueueNormal, item
  <2>3. delivered' = delivered
    BY <1>1 DEF Enqueue
  <2> QED
    BY <1>0, <2>1, <2>2, <2>3 DEF SequencesTyped
<1>2. CASE Dequeue
  <2>1. CASE DequeuePriority
    <3>1. PICK entry \in priority : delivered' = Append(delivered, entry.item) /\ fifo' = fifo
      BY <2>1 DEF DequeuePriority
    <3>2. entry.item \in Item
      BY DEF TypeOK, Entry
    <3> QED
      BY <1>0, <3>1, <3>2 DEF SequencesTyped
  <2>2. CASE DequeueFifo
    BY <1>0, <2>2 DEF DequeueFifo, SequencesTyped
  <2> QED
    BY <1>2, <2>1, <2>2 DEF Dequeue
<1>3. CASE fifo' = fifo /\ delivered' = delivered
  BY <1>0, <1>3 DEF SequencesTyped
<1> QED
  BY <1>1, <1>2, <1>3
  DEF Next, ConsumerStep, Release, LoopTest, WaitGranted, WaitCancelled,
      FinishProcessing, Cancel, queueVars, vars

\* A step keeps the other variables typed.
LEMMA ScalarsStep == TypeOK /\ [Next]_vars => ScalarsTyped'
<1> SUFFICES ASSUME TypeOK, [Next]_vars PROVE ScalarsTyped'
  OBVIOUS
<1>0. ScalarsTyped
  BY TypeHalves
<1>1. ASSUME NEW p \in Producers, NEW sev \in Severities, Enqueue(p, sev)
      PROVE  ScalarsTyped'
  <2> DEFINE item == [seq |-> sequence + 1, sev |-> sev]
  <2>1. item \in Item
    BY NewItem
  <2> HIDE DEF item
  <2>a. /\ sequence' \in Nat /\ producer' \in [Producers -> {"idle", "release"}]
        /\ UNCHANGED <<signal, dequeued, consumer, cancelled>>
    BY <1>0, <1>1 DEF Enqueue, ScalarsTyped
  <2>2. CASE EnqueueCritical(item)
    <3>1. [item |-> item, before |-> enqueued.fifo] \in Entry
      BY <1>0, <2>1 DEF Entry, ScalarsTyped, Counters
    <3> QED
      BY <1>0, <1>1, <2>2, <3>1 DEF Enqueue, EnqueueCritical, ScalarsTyped, Counters
  <2>3. CASE EnqueueNormal(item)
    <3>1. Len(fifo') \in Nat
      BY <2>1, <2>3 DEF EnqueueNormal, TypeOK
    <3>2. stats' \in [depth : Nat, overtaken : Nat, total : Nat]
      BY <1>0, <2>3, <3>1 DEF EnqueueNormal, ScalarsTyped, Larger
    <3>3. enqueued' \in Counters
      BY <1>0, <2>3 DEF EnqueueNormal, ScalarsTyped, Counters
    <3>4. priority' = priority
      BY <2>3 DEF EnqueueNormal
    <3> QED
      BY <1>0, <2>a, <3>2, <3>3, <3>4 DEF ScalarsTyped
  <2> QED
    BY <1>1, <2>2, <2>3 DEF Enqueue, item
<1>2. ASSUME NEW p \in Producers, Release(p)
      PROVE  ScalarsTyped'
  BY <1>0, <1>2 DEF Release, ScalarsTyped, queueVars
<1>3. CASE LoopTest \/ WaitGranted \/ WaitCancelled \/ FinishProcessing \/ Cancel
  <2>1. UNCHANGED queueVars /\ producer' = producer
    BY <1>3 DEF LoopTest, WaitGranted, WaitCancelled, FinishProcessing, Cancel
  <2>2. signal' \in Nat
    BY <1>0, <1>3
    DEF LoopTest, WaitGranted, WaitCancelled, FinishProcessing, Cancel, ScalarsTyped
  <2>3. /\ consumer' \in {"loop", "waiting", "granted", "processing", "stopped", "faulted"}
        /\ cancelled' \in BOOLEAN
    BY <1>0, <1>3
    DEF LoopTest, WaitGranted, WaitCancelled, FinishProcessing, Cancel, ScalarsTyped
  <2> QED
    BY <1>0, <2>1, <2>2, <2>3 DEF ScalarsTyped, queueVars
<1>4. CASE Dequeue
  <2>1. CASE DequeuePriority
    <3>1. PICK entry \in priority :
            /\ priority' = priority \ {entry}
            /\ dequeued' = [dequeued EXCEPT !.priority = @ + 1]
            /\ stats' = [stats EXCEPT !.total = @ + Overtaken(entry),
                                      !.overtaken = Larger(@, Overtaken(entry))]
            /\ consumer' = "processing"
      BY <2>1 DEF DequeuePriority
    <3>2. Overtaken(entry) \in Nat
      BY <1>0 DEF Overtaken, ScalarsTyped, Entry, Counters
    <3>3. stats' \in [depth : Nat, overtaken : Nat, total : Nat]
      <4>1. stats.total + Overtaken(entry) \in Nat /\ Larger(stats.overtaken, Overtaken(entry)) \in Nat
        BY <1>0, <3>2 DEF ScalarsTyped, Larger
      <4> QED
        BY <1>0, <3>1, <4>1 DEF ScalarsTyped
    <3> QED
      BY <1>0, <1>4, <3>1, <3>3 DEF Dequeue, ScalarsTyped, Counters
  <2>2. CASE DequeueFifo
    <3>1. consumer' \in {"faulted", "processing"}
      BY <2>2 DEF DequeueFifo
    <3> QED
      BY <1>0, <1>4, <2>2, <3>1 DEF Dequeue, DequeueFifo, ScalarsTyped, Counters
  <2> QED
    BY <1>4, <2>1, <2>2 DEF Dequeue
<1>5. CASE UNCHANGED vars
  BY <1>0, <1>5 DEF ScalarsTyped, vars
<1> QED
  BY <1>1, <1>2, <1>3, <1>4, <1>5 DEF Next, ConsumerStep

\* The initial state has the types.
LEMMA TypeInit == Init => TypeOK
<1> SUFFICES ASSUME Init PROVE SequencesTyped /\ ScalarsTyped
  BY TypeHalves
<1>1. SequencesTyped
  BY DEF Init, SequencesTyped
<1>2. ScalarsTyped
  BY DEF Init, ScalarsTyped, Counters
<1> QED
  BY <1>1, <1>2

\* TypeOK is inductive.
LEMMA TypeStep == TypeOK /\ [Next]_vars => TypeOK'
BY SequencesStep, ScalarsStep, TypeHalves DEF TypeOK, SequencesTyped, ScalarsTyped

\* TypeOK holds in every reachable state: no counter of the queue goes below
\* zero and no thread leaves its control states.
THEOREM TypeCorrect == Spec => []TypeOK
BY TypeInit, TypeStep, PTL DEF Spec
-----------------------------------------------------------------------------
\* The FIFO holds normal readings in arrival order, the priority queue critical
\* ones, each reading once.
QueueOrder ==
    /\ IsFiniteSet(priority)
    /\ \A i, j \in DOMAIN fifo : i < j => fifo[i].seq < fifo[j].seq
    /\ \A i \in DOMAIN fifo : fifo[i].seq <= sequence /\ ~IsCritical(fifo[i])
    /\ \A e \in priority : e.item.seq <= sequence /\ IsCritical(e.item)
    /\ \A e, f \in priority : e.item = f.item => e = f

\* The inductive invariant.
IInv == TypeOK /\ QueueOrder /\ PermitsMatchItems /\ ConsumerNeverFaults

\* The initial state satisfies the invariant.
LEMMA InvInit == Init => IInv
<1> SUFFICES ASSUME Init PROVE IInv
  OBVIOUS
<1>1. TypeOK
  BY TypeInit
<1>2. QueueOrder
  BY FS_EmptySet DEF Init, QueueOrder
<1>3. Releasing = {}
  BY DEF Init, Releasing
<1>4. Cardinality({}) = 0
  BY FS_EmptySet
<1>5. Len(fifo) = 0 /\ priority = {} /\ signal = 0 /\ consumer = "loop"
  BY DEF Init
<1>6. PermitsMatchItems
  BY <1>3, <1>4, <1>5 DEF PermitsMatchItems
<1> QED
  BY <1>1, <1>2, <1>5, <1>6 DEF IInv, ConsumerNeverFaults

\* The producers between the end of the lock and Release are finitely many.
LEMMA ReleasingFinite == IsFiniteSet(Releasing) /\ Cardinality(Releasing) \in Nat
<1>1. Releasing \subseteq Producers
  BY DEF Releasing
<1> QED
  BY <1>1, ProducersAssumption, FS_Subset, FS_CardinalityType

\* Enqueue adds one producer to those about to release.
LEMMA StartRelease ==
    ASSUME TypeOK, NEW p \in Producers, producer[p] = "idle",
           producer' = [producer EXCEPT ![p] = "release"]
    PROVE  Cardinality(Releasing') = Cardinality(Releasing) + 1
<1>1. Releasing' = Releasing \cup {p} /\ p \notin Releasing
  BY DEF Releasing, TypeOK
<1> QED
  BY <1>1, ReleasingFinite, FS_AddElement

\* Release takes one away.
LEMMA EndRelease ==
    ASSUME TypeOK, NEW p \in Producers, producer[p] = "release",
           producer' = [producer EXCEPT ![p] = "idle"]
    PROVE  Cardinality(Releasing') = Cardinality(Releasing) - 1
<1>1. Releasing' = Releasing \ {p} /\ p \in Releasing
  BY DEF Releasing, TypeOK
<1> QED
  BY <1>1, ReleasingFinite, FS_RemoveElement

\* Enqueue keeps the queues in order and adds one reading to them.
LEMMA EnqueueStep ==
    ASSUME TypeOK, QueueOrder, NEW sev \in Severities,
           sequence' = sequence + 1,
           LET item == [seq |-> sequence + 1, sev |-> sev]
           IN  EnqueueCritical(item) \/ EnqueueNormal(item)
    PROVE  /\ QueueOrder'
           /\ Len(fifo') + Cardinality(priority') = Len(fifo) + Cardinality(priority) + 1
<1> DEFINE item == [seq |-> sequence + 1, sev |-> sev]
<1>1. item \in Item /\ item.seq = sequence + 1
  BY NewItem
<1>2. sequence \in Nat /\ fifo \in Seq(Item) /\ priority \subseteq Entry /\ sequence' = sequence + 1
  BY DEF TypeOK
<1>3. EnqueueCritical(item) \/ EnqueueNormal(item)
  OBVIOUS
<1>4. Len(fifo) \in Nat /\ Cardinality(priority) \in Nat
  BY <1>2, FS_CardinalityType DEF QueueOrder
<1> HIDE DEF item
<1>5. CASE EnqueueCritical(item)
  <2> DEFINE entry == [item |-> item, before |-> enqueued.fifo]
  <2>1. IsCritical(item) /\ priority' = priority \cup {entry} /\ fifo' = fifo
    BY <1>5 DEF EnqueueCritical
  <2>2. entry.item = item
    OBVIOUS
  <2> HIDE DEF entry
  <2>3. \A e \in priority : e.item.seq \in Nat /\ e.item.seq <= sequence /\ e.item # item
    BY <1>1, <1>2 DEF QueueOrder, Entry, Item
  <2>4. entry \notin priority
    BY <2>2, <2>3
  <2>5. Cardinality(priority') = Cardinality(priority) + 1 /\ IsFiniteSet(priority')
    BY <2>1, <2>4, FS_AddElement DEF QueueOrder
  <2>6. \A e \in priority' : e.item.seq <= sequence' /\ IsCritical(e.item)
    BY <1>1, <1>2, <2>1, <2>2, <2>3 DEF QueueOrder
  <2>7. \A e, f \in priority' : e.item = f.item => e = f
    BY <2>1, <2>2, <2>3 DEF QueueOrder
  <2>8. \A i \in DOMAIN fifo' : fifo'[i].seq <= sequence' /\ ~IsCritical(fifo'[i])
    <3> SUFFICES ASSUME NEW i \in DOMAIN fifo
                 PROVE  fifo[i].seq <= sequence + 1 /\ ~IsCritical(fifo[i])
      BY <1>2, <2>1
    <3>1. fifo[i] \in Item
      BY <1>2
    <3>2. fifo[i].seq \in Nat
      BY <3>1 DEF Item
    <3> QED
      BY <1>2, <3>2 DEF QueueOrder
  <2> QED
    BY <1>4, <2>1, <2>5, <2>6, <2>7, <2>8 DEF QueueOrder
<1>6. CASE EnqueueNormal(item)
  <2>1. ~IsCritical(item) /\ fifo' = Append(fifo, item) /\ priority' = priority
    BY <1>6 DEF EnqueueNormal
  <2>2. /\ Len(fifo') = Len(fifo) + 1
        /\ DOMAIN fifo = 1 .. Len(fifo) /\ DOMAIN fifo' = 1 .. (Len(fifo) + 1)
        /\ fifo'[Len(fifo) + 1] = item
        /\ \A i \in DOMAIN fifo : fifo'[i] = fifo[i]
    BY <1>1, <1>2, <2>1
  <2>3. \A i \in DOMAIN fifo : fifo[i].seq \in Nat /\ fifo[i].seq <= sequence /\ ~IsCritical(fifo[i])
    <3>1. \A i \in DOMAIN fifo : fifo[i] \in Item
      BY <1>2
    <3> QED
      BY <3>1 DEF QueueOrder, Item
  <2>4. \A i \in DOMAIN fifo' : fifo'[i].seq <= sequence' /\ ~IsCritical(fifo'[i])
    BY <1>1, <1>2, <1>4, <2>1, <2>2, <2>3
  <2>5. \A i, j \in DOMAIN fifo' : i < j => fifo'[i].seq < fifo'[j].seq
    <3> SUFFICES ASSUME NEW i \in DOMAIN fifo', NEW j \in DOMAIN fifo', i < j
                 PROVE  fifo'[i].seq < fifo'[j].seq
      OBVIOUS
    <3>1. i \in DOMAIN fifo
      BY <1>4, <2>2
    <3>2. CASE j \in DOMAIN fifo
      BY <2>2, <3>1, <3>2 DEF QueueOrder
    <3>3. CASE j = Len(fifo) + 1
      BY <1>1, <1>2, <2>2, <2>3, <3>1, <3>3
    <3> QED
      BY <1>4, <2>2, <3>2, <3>3
  <2>6. \A e \in priority : e.item.seq <= sequence + 1
    BY <1>2 DEF QueueOrder, Entry, Item
  <2> QED
    BY <1>2, <1>4, <2>1, <2>2, <2>4, <2>5, <2>6 DEF QueueOrder
<1> QED
  BY <1>3, <1>5, <1>6

\* Taking from the priority queue keeps the order and takes one reading away.
LEMMA DequeuePriorityStep ==
    ASSUME TypeOK, QueueOrder, DequeuePriority, sequence' = sequence
    PROVE  /\ QueueOrder'
           /\ Len(fifo') + Cardinality(priority') = Len(fifo) + Cardinality(priority) - 1
           /\ consumer' = "processing"
<1>1. PICK entry \in priority :
        priority' = priority \ {entry} /\ fifo' = fifo /\ consumer' = "processing"
  BY DEF DequeuePriority
<1>2. IsFiniteSet(priority') /\ Cardinality(priority') = Cardinality(priority) - 1
  BY <1>1, FS_RemoveElement DEF QueueOrder
<1>3. Len(fifo) \in Nat /\ Cardinality(priority) \in Nat
  BY FS_CardinalityType DEF QueueOrder, TypeOK
<1> QED
  BY <1>1, <1>2, <1>3 DEF QueueOrder

\* Taking from a FIFO that is not empty does too.
LEMMA DequeueFifoStep ==
    ASSUME TypeOK, QueueOrder, DequeueFifo, fifo # <<>>, sequence' = sequence
    PROVE  /\ QueueOrder'
           /\ Len(fifo') + Cardinality(priority') = Len(fifo) + Cardinality(priority) - 1
           /\ consumer' = "processing"
<1>1. fifo' = Tail(fifo) /\ priority' = priority /\ consumer' = "processing"
  BY DEF DequeueFifo
<1>2. fifo \in Seq(Item)
  BY DEF TypeOK
<1>3. /\ Len(fifo) \in Nat \ {0} /\ Len(fifo') = Len(fifo) - 1
      /\ DOMAIN fifo = 1 .. Len(fifo) /\ DOMAIN fifo' = 1 .. (Len(fifo) - 1)
      /\ \A i \in DOMAIN fifo' : fifo'[i] = fifo[i + 1]
  BY <1>1, <1>2
<1>4. \A i \in DOMAIN fifo' : i + 1 \in DOMAIN fifo
  BY <1>3
<1>5. \A i, j \in DOMAIN fifo' : i < j => fifo'[i].seq < fifo'[j].seq
  BY <1>3, <1>4 DEF QueueOrder
<1>6. \A i \in DOMAIN fifo' : fifo'[i].seq <= sequence' /\ ~IsCritical(fifo'[i])
  BY <1>3, <1>4 DEF QueueOrder
<1>7. Cardinality(priority) \in Nat
  BY FS_CardinalityType DEF QueueOrder
<1> QED
  BY <1>1, <1>3, <1>5, <1>6, <1>7 DEF QueueOrder

\* The permits leave a reading for the consumer that holds one.
LEMMA GrantedHasReading ==
    ASSUME IInv, consumer = "granted", priority = {}
    PROVE  fifo # <<>>
<1>1. Cardinality(priority) = 0
  BY FS_EmptySet
<1>2. Len(fifo) = signal + Cardinality(Releasing) + 1
  BY <1>1 DEF IInv, PermitsMatchItems, TypeOK
<1> QED
  BY <1>2, ReleasingFinite DEF IInv, TypeOK

\* The invariant is inductive.
LEMMA InvStep == IInv /\ [Next]_vars => IInv'
<1> SUFFICES ASSUME IInv, [Next]_vars PROVE IInv'
  OBVIOUS
<1>0. TypeOK /\ QueueOrder /\ PermitsMatchItems /\ ConsumerNeverFaults
  BY DEF IInv
<1>t. TypeOK'
  BY <1>0, TypeStep
<1>n. /\ Len(fifo) \in Nat /\ Cardinality(priority) \in Nat
      /\ Cardinality(Releasing) \in Nat /\ signal \in Nat
  BY <1>0, ReleasingFinite, FS_CardinalityType DEF TypeOK, QueueOrder
<1>1. ASSUME NEW p \in Producers, NEW sev \in Severities, Enqueue(p, sev)
      PROVE  IInv'
  <2>1. /\ producer[p] = "idle" /\ producer' = [producer EXCEPT ![p] = "release"]
        /\ signal' = signal /\ consumer' = consumer /\ sequence' = sequence + 1
        /\ LET item == [seq |-> sequence + 1, sev |-> sev]
           IN  EnqueueCritical(item) \/ EnqueueNormal(item)
    BY <1>1 DEF Enqueue
  <2>2. /\ QueueOrder'
        /\ Len(fifo') + Cardinality(priority') = Len(fifo) + Cardinality(priority) + 1
    BY <1>0, <2>1, EnqueueStep
  <2>3. Cardinality(Releasing') = Cardinality(Releasing) + 1
    BY <1>0, <2>1, StartRelease
  <2>4. PermitsMatchItems'
    BY <1>0, <1>n, <2>1, <2>2, <2>3 DEF PermitsMatchItems
  <2> QED
    BY <1>0, <1>t, <2>1, <2>2, <2>4 DEF IInv, ConsumerNeverFaults
<1>2. ASSUME NEW p \in Producers, Release(p)
      PROVE  IInv'
  <2>1. /\ producer[p] = "release" /\ producer' = [producer EXCEPT ![p] = "idle"]
        /\ signal' = signal + 1 /\ consumer' = consumer
        /\ sequence' = sequence /\ fifo' = fifo /\ priority' = priority
    BY <1>2 DEF Release, queueVars
  <2>2. Cardinality(Releasing') = Cardinality(Releasing) - 1
    BY <1>0, <2>1, EndRelease
  <2>3. PermitsMatchItems'
    BY <1>0, <1>n, <2>1, <2>2 DEF PermitsMatchItems
  <2> QED
    BY <1>0, <1>t, <2>1, <2>3 DEF IInv, ConsumerNeverFaults, QueueOrder
<1>3. CASE LoopTest \/ WaitCancelled \/ FinishProcessing \/ Cancel \/ UNCHANGED vars
  <2>1. /\ fifo' = fifo /\ priority' = priority /\ sequence' = sequence
        /\ producer' = producer /\ signal' = signal
    BY <1>3 DEF LoopTest, WaitCancelled, FinishProcessing, Cancel, queueVars, vars
  <2>2. /\ consumer' = "granted" <=> consumer = "granted"
        /\ consumer' = "faulted" => consumer = "faulted"
    BY <1>3 DEF LoopTest, WaitCancelled, FinishProcessing, Cancel, vars
  <2>3. Cardinality(Releasing') = Cardinality(Releasing)
    BY <2>1 DEF Releasing
  <2>4. PermitsMatchItems'
    BY <1>0, <2>1, <2>2, <2>3 DEF PermitsMatchItems
  <2> QED
    BY <1>0, <1>t, <2>1, <2>2, <2>4 DEF IInv, QueueOrder, ConsumerNeverFaults
<1>5. CASE WaitGranted
  <2>1. /\ fifo' = fifo /\ priority' = priority /\ sequence' = sequence /\ producer' = producer
        /\ consumer = "waiting" /\ consumer' = "granted" /\ signal' = signal - 1
    BY <1>5 DEF WaitGranted, queueVars
  <2>2. Cardinality(Releasing') = Cardinality(Releasing)
    BY <2>1 DEF Releasing
  <2>3. PermitsMatchItems'
    BY <1>0, <1>n, <2>1, <2>2 DEF PermitsMatchItems
  <2> QED
    BY <1>0, <1>t, <2>1, <2>3 DEF IInv, QueueOrder, ConsumerNeverFaults
<1>4. CASE Dequeue
  <2>1. /\ consumer = "granted" /\ signal' = signal /\ sequence' = sequence /\ producer' = producer
        /\ DequeuePriority \/ DequeueFifo
    BY <1>4 DEF Dequeue
  <2>2. DequeueFifo => fifo # <<>>
    BY <2>1, GrantedHasReading DEF DequeueFifo
  <2>3. /\ QueueOrder'
        /\ Len(fifo') + Cardinality(priority') = Len(fifo) + Cardinality(priority) - 1
        /\ consumer' = "processing"
    BY <1>0, <2>1, <2>2, DequeuePriorityStep, DequeueFifoStep
  <2>4. Cardinality(Releasing') = Cardinality(Releasing)
    BY <2>1 DEF Releasing
  <2>5. PermitsMatchItems'
    BY <1>0, <1>n, <2>1, <2>3, <2>4 DEF PermitsMatchItems
  <2> QED
    BY <1>t, <2>3, <2>5 DEF IInv, ConsumerNeverFaults
<1> QED
  BY <1>1, <1>2, <1>3, <1>4, <1>5 DEF Next, ConsumerStep

\* The invariant holds in every reachable state.
LEMMA InvHolds == Spec => []IInv
BY InvInit, InvStep, PTL DEF Spec

\* Permits and readings match in every reachable state, for any number of
\* producers caught between the end of the lock and their Release.
THEOREM PermitsAccounted == Spec => []PermitsMatchItems
BY InvHolds, PTL DEF IInv

\* The consumer never dequeues from an empty FIFO, so no interleaving of
\* Enqueue calls can end the telemetry pipeline.
THEOREM NeverFaults == Spec => []ConsumerNeverFaults
BY InvHolds, PTL DEF IInv
-----------------------------------------------------------------------------
\* Numbers and severities are naturals.
LEMMA ItemFields == \A x \in Item : x.seq \in Nat /\ x.sev \in Nat
BY SeveritiesAssumption DEF Item

\* An Enqueue is an Accept of the abstract buffer.
LEMMA EnqueueAccepts ==
    ASSUME IInv, NEW p \in Producers, NEW sev \in Severities, Enqueue(p, sev)
    PROVE  Buffer!Accept
<1> DEFINE item == [seq |-> sequence + 1, sev |-> sev]
<1>1. /\ sequence < MaxItems /\ sequence' = sequence + 1 /\ delivered' = delivered
      /\ EnqueueCritical(item) \/ EnqueueNormal(item)
  BY DEF Enqueue
<1>2. item \in Item /\ fifo \in Seq(Item)
  BY NewItem DEF IInv, TypeOK
<1> HIDE DEF item
<1>3. Waiting' = Waiting \cup {item}
  <2>1. CASE EnqueueCritical(item)
    <3> DEFINE entry == [item |-> item, before |-> enqueued.fifo]
    <3>1. priority' = priority \cup {entry} /\ fifo' = fifo /\ entry.item = item
      BY <2>1 DEF EnqueueCritical
    <3> HIDE DEF entry
    <3>2. {e.item : e \in priority'} = {e.item : e \in priority} \cup {item}
      BY <3>1
    <3> QED
      BY <3>1, <3>2 DEF Waiting
  <2>2. CASE EnqueueNormal(item)
    <3>1. fifo' = Append(fifo, item) /\ priority' = priority
      BY <2>2 DEF EnqueueNormal
    <3>2. {fifo'[i] : i \in DOMAIN fifo'} = {fifo[i] : i \in DOMAIN fifo} \cup {item}
      BY <1>2, <3>1
    <3> QED
      BY <3>1, <3>2 DEF Waiting
  <2> QED
    BY <1>1, <2>1, <2>2
<1> QED
  BY <1>1, <1>3 DEF Buffer!Accept, item

\* Taking the first entry of the priority queue is a Take.
LEMMA DequeuePriorityTakes ==
    ASSUME IInv, DequeuePriority, sequence' = sequence
    PROVE  Buffer!Take
<1>1. PICK entry \in priority :
        /\ \A other \in priority \ {entry} : KeyBefore(entry, other)
        /\ priority' = priority \ {entry} /\ fifo' = fifo
        /\ delivered' = Append(delivered, entry.item)
  BY DEF DequeuePriority
<1>2. /\ fifo \in Seq(Item) /\ priority \subseteq Entry /\ QueueOrder
  BY DEF IInv, TypeOK
<1>3. entry.item \in Item /\ entry.item.sev > 0
  BY <1>2 DEF Entry, QueueOrder, IsCritical
<1>4. \A i \in DOMAIN fifo : fifo[i] \in Item
  BY <1>2
<1>5. \A i \in DOMAIN fifo : entry.item.sev > fifo[i].sev /\ fifo[i] # entry.item
  BY <1>2, <1>3, <1>4, ItemFields DEF QueueOrder, IsCritical
<1>6. Waiting' = Waiting \ {entry.item}
  BY <1>1, <1>2, <1>5 DEF Waiting, QueueOrder
<1>7. \A j \in Waiting \ {entry.item} : Buffer!Precedes(entry.item, j)
  BY <1>1, <1>5 DEF Waiting, Buffer!Precedes, KeyBefore
<1>8. entry.item \in Waiting
  BY DEF Waiting
<1> QED
  BY <1>1, <1>6, <1>7, <1>8 DEF Buffer!Take

\* Taking the head of the FIFO is a Take when no critical reading waits.
LEMMA DequeueFifoTakes ==
    ASSUME IInv, DequeueFifo, fifo # <<>>, sequence' = sequence
    PROVE  Buffer!Take
<1>1. /\ priority = {} /\ priority' = priority
      /\ fifo' = Tail(fifo) /\ delivered' = Append(delivered, Head(fifo))
  BY DEF DequeueFifo
<1>2. fifo \in Seq(Item) /\ QueueOrder
  BY DEF IInv, TypeOK
<1>3. /\ Len(fifo) \in Nat \ {0} /\ DOMAIN fifo = 1 .. Len(fifo)
      /\ DOMAIN fifo' = 1 .. (Len(fifo) - 1)
      /\ \A i \in DOMAIN fifo' : fifo'[i] = fifo[i + 1]
      /\ Head(fifo) = fifo[1] /\ 1 \in DOMAIN fifo
  BY <1>1, <1>2
<1>4. \A i \in DOMAIN fifo : fifo[i] \in Item
  BY <1>2
<1>5. \A i \in DOMAIN fifo : fifo[i].seq \in Nat /\ fifo[i].sev = 0
  BY <1>2, <1>4, ItemFields DEF QueueOrder, IsCritical
<1>6. \A i \in DOMAIN fifo : i # 1 => 1 < i /\ i - 1 \in DOMAIN fifo'
  BY <1>3
<1>7. \A i \in DOMAIN fifo : i # 1 => fifo[1].seq < fifo[i].seq
  BY <1>2, <1>3, <1>6 DEF QueueOrder
<1>8. \A i \in DOMAIN fifo : i # 1 => fifo[i] # fifo[1]
  BY <1>3, <1>5, <1>7
<1>9. {fifo'[i] : i \in DOMAIN fifo'} = {fifo[i] : i \in DOMAIN fifo} \ {Head(fifo)}
  <2>1. \A i \in DOMAIN fifo' : i + 1 \in DOMAIN fifo /\ i + 1 # 1 /\ fifo'[i] = fifo[i + 1]
    BY <1>3
  <2>2. \A i \in DOMAIN fifo : i # 1 => fifo[i] = fifo'[i - 1]
    BY <1>3, <1>6
  <2> QED
    BY <1>3, <1>6, <1>8, <2>1, <2>2
<1>10. Waiting = {fifo[i] : i \in DOMAIN fifo} /\ Waiting' = Waiting \ {Head(fifo)}
  BY <1>1, <1>9 DEF Waiting
<1>11. \A j \in Waiting \ {Head(fifo)} : Buffer!Precedes(Head(fifo), j)
  BY <1>3, <1>5, <1>7, <1>10 DEF Buffer!Precedes
<1>12. Head(fifo) \in Waiting
  BY <1>3, <1>10
<1> QED
  BY <1>1, <1>10, <1>11, <1>12 DEF Buffer!Take

\* The queue implements the buffer: for every interleaving of producers and
\* consumer, DequeueAsync returns each enqueued reading once, the most severe
\* critical one first, otherwise in arrival order.
THEOREM Implementation == Spec => ImplementsBuffer
<1>1. Init => Buffer!Init
  BY DEF Init, Buffer!Init, Waiting
<1>2. IInv /\ [Next]_vars => [Buffer!Next]_(Buffer!bufferVars)
  <2> SUFFICES ASSUME IInv, [Next]_vars
               PROVE  Buffer!Next \/ UNCHANGED Buffer!bufferVars
    OBVIOUS
  <2>1. ASSUME NEW p \in Producers, NEW sev \in Severities, Enqueue(p, sev)
        PROVE  Buffer!Next
    BY <2>1, EnqueueAccepts DEF Buffer!Next
  <2>2. CASE Dequeue
    <3>1. sequence' = sequence /\ consumer = "granted"
      BY <2>2 DEF Dequeue
    <3>2. DequeueFifo => fifo # <<>>
      BY <3>1, GrantedHasReading DEF DequeueFifo
    <3> QED
      BY <2>2, <3>1, <3>2, DequeuePriorityTakes, DequeueFifoTakes DEF Dequeue, Buffer!Next
  <2>3. CASE UNCHANGED queueVars
    BY <2>3 DEF queueVars, Waiting, Buffer!bufferVars
  <2> QED
    BY <2>1, <2>2, <2>3
    DEF Next, ConsumerStep, Release, LoopTest, WaitGranted, WaitCancelled,
        FinishProcessing, Cancel, queueVars, vars
<1> QED
  BY <1>1, <1>2, InvHolds, PTL DEF Spec, ImplementsBuffer, Buffer!Spec
-----------------------------------------------------------------------------
(* The overtaken readings.                                                     *)

\* A critical reading's entry knows which of the normal readings that wait came
\* before it: those up to the number that had been enqueued by then.
EntryCounts(e) ==
    /\ e.before <= enqueued.fifo
    /\ \A i \in DOMAIN fifo : fifo[i].seq < e.item.seq <=> dequeued.fifo + i <= e.before

\* The counters say how many normal readings wait, each entry which of them it
\* overtakes, and the total how many were overtaken.
CountsInv ==
    /\ enqueued.fifo = dequeued.fifo + Len(fifo)
    /\ \A i \in DOMAIN fifo : fifo[i].seq >= 1
    /\ \A i \in DOMAIN delivered : delivered[i].seq <= sequence
    /\ \A e \in priority : EntryCounts(e)
    /\ IsFiniteSet(Inversions) /\ OvertakenCountsInversions

\* The pairs that a served reading makes: the normal readings that wait, among
\* them the first k, came before it.
NewPairs(at, k) == {x \in [at : {at}, normal : Nat] : \E i \in 1 .. k : fifo[i].seq = x.normal}

\* The first k of an increasing FIFO make k pairs.
LEMMA NewPairsCounted ==
    ASSUME TypeOK, QueueOrder, NEW at \in Nat, NEW k \in 0 .. Len(fifo)
    PROVE  IsFiniteSet(NewPairs(at, k)) /\ Cardinality(NewPairs(at, k)) = k
<1> DEFINE f == [i \in 1 .. k |-> [at |-> at, normal |-> fifo[i].seq]]
<1>1. /\ fifo \in Seq(Item) /\ k \in Nat
      /\ \A i \in 1 .. k : i \in DOMAIN fifo /\ i \in Nat
  BY DEF TypeOK
<1>2. \A i \in 1 .. k : fifo[i].seq \in Nat
  <2>1. \A i \in DOMAIN fifo : fifo[i] \in Item
    BY <1>1
  <2> QED
    BY <1>1, <2>1, ItemFields
<1>3. \A i, j \in 1 .. k : fifo[i].seq = fifo[j].seq => i = j
  <2>1. \A i, j \in 1 .. k : i < j => fifo[i].seq < fifo[j].seq
    BY <1>1 DEF QueueOrder
  <2> SUFFICES ASSUME NEW i \in 1 .. k, NEW j \in 1 .. k, fifo[i].seq = fifo[j].seq
               PROVE  i = j
    OBVIOUS
  <2>2. ~(i < j) /\ ~(j < i)
    BY <1>2, <2>1
  <2> QED
    BY <1>1, <2>2
<1>4. /\ f \in [1 .. k -> NewPairs(at, k)]
      /\ \A i \in 1 .. k : f[i] = [at |-> at, normal |-> fifo[i].seq]
  BY <1>2 DEF NewPairs
<1> HIDE DEF f
<1>5. ASSUME NEW x \in NewPairs(at, k) PROVE \E i \in 1 .. k : f[i] = x
  <2>1. x = [at |-> at, normal |-> x.normal]
    BY DEF NewPairs
  <2>2. PICK i \in 1 .. k : fifo[i].seq = x.normal
    BY DEF NewPairs
  <2> QED
    BY <1>4, <2>1, <2>2
<1>6. \A i, j \in 1 .. k : f[i] = f[j] => i = j
  BY <1>3, <1>4
<1>7. f \in Bijection(1 .. k, NewPairs(at, k))
  BY <1>4, <1>5, <1>6 DEF Bijection, Injection, Surjection, IsInjective
<1>8. ExistsBijection(1 .. k, NewPairs(at, k))
  BY <1>7 DEF ExistsBijection
<1>9. IsFiniteSet(1 .. k) /\ Cardinality(1 .. k) = k
  BY <1>1, FS_Interval
<1> QED
  BY <1>8, <1>9, FS_Bijection

\* Where neither the queues nor what was served change, nothing does.
LEMMA CountsSame ==
    ASSUME CountsInv, UNCHANGED queueVars
    PROVE  CountsInv'
BY DEF CountsInv, EntryCounts, Inversions, OvertakenCountsInversions, queueVars

\* A reading that has just come was overtaken by none that was served.
LEMMA EnqueueCounts ==
    ASSUME IInv, CountsInv, NEW p \in Producers, NEW sev \in Severities, Enqueue(p, sev)
    PROVE  CountsInv'
<1> DEFINE item == [seq |-> sequence + 1, sev |-> sev]
<1>1. /\ sequence' = sequence + 1 /\ UNCHANGED <<dequeued, delivered>>
      /\ EnqueueCritical(item) \/ EnqueueNormal(item)
  BY DEF Enqueue
<1>2. item \in Item /\ item.seq = sequence + 1 /\ sequence \in Nat
  BY NewItem DEF IInv, TypeOK
<1> HIDE DEF item
<1>3. /\ fifo \in Seq(Item) /\ priority \subseteq Entry /\ enqueued \in Counters
      /\ dequeued.fifo \in Nat /\ enqueued.fifo \in Nat /\ Len(fifo) \in Nat
      /\ delivered \in Seq(Item) /\ stats \in [depth : Nat, overtaken : Nat, total : Nat]
  BY DEF IInv, TypeOK, Counters
<1>4. /\ \A i \in DOMAIN fifo : fifo[i].seq \in Nat /\ fifo[i].seq <= sequence
      /\ \A e \in priority : e.item.seq \in Nat /\ e.item.seq <= sequence /\ e.before \in Nat
      /\ \A i \in DOMAIN delivered : delivered[i].seq \in Nat /\ delivered[i].seq <= sequence
  <2>1. /\ \A i \in DOMAIN fifo : fifo[i] \in Item
        /\ \A e \in priority : e.item \in Item /\ e.before \in Nat
        /\ \A i \in DOMAIN delivered : delivered[i] \in Item
    BY <1>3 DEF Entry
  <2> QED
    BY <2>1, ItemFields DEF IInv, QueueOrder, CountsInv
<1>0. fifo' = fifo \/ fifo' = Append(fifo, item)
  BY <1>1 DEF EnqueueCritical, EnqueueNormal
<1>5. \A i \in DOMAIN fifo' : \/ i \in DOMAIN fifo /\ fifo'[i] = fifo[i]
                              \/ fifo'[i] = item
  BY <1>0, <1>2, <1>3
<1>6. \A i \in DOMAIN fifo : i \in DOMAIN fifo' /\ fifo'[i] = fifo[i]
  BY <1>0, <1>2, <1>3
<1>7. Inversions' = Inversions
  <2>1. \A n \in 1 .. sequence :
           (\E j \in DOMAIN fifo' : fifo'[j].seq = n) <=> (\E j \in DOMAIN fifo : fifo[j].seq = n)
    BY <1>2, <1>5, <1>6
  <2>2. \A i \in DOMAIN delivered, n \in 1 .. sequence' :
           n < delivered[i].seq => n \in 1 .. sequence
    BY <1>1, <1>2, <1>4
  <2>3. 1 .. sequence \subseteq 1 .. sequence'
    BY <1>1, <1>2
  <2> QED
    BY <1>1, <2>1, <2>2, <2>3 DEF Inversions
<1>8. stats'.total = stats.total
  BY <1>1, <1>3 DEF EnqueueCritical, EnqueueNormal
<1>9. \A i \in DOMAIN fifo' : fifo'[i].seq >= 1
  BY <1>2, <1>5 DEF CountsInv
<1>10. \A i \in DOMAIN delivered' : delivered'[i].seq <= sequence'
  BY <1>1, <1>2, <1>4
<1>11. CASE EnqueueCritical(item)
  <2>1. /\ fifo' = fifo /\ enqueued'.fifo = enqueued.fifo
        /\ priority' = priority \cup {[item |-> item, before |-> enqueued.fifo]}
    BY <1>3, <1>11 DEF EnqueueCritical, Counters
  <2>2. ASSUME NEW e \in priority' PROVE EntryCounts(e)'
    <3>1. CASE e \in priority
      BY <1>1, <2>1, <3>1 DEF CountsInv, EntryCounts
    <3>2. CASE e.item = item /\ e.before = enqueued.fifo
      BY <1>1, <1>2, <1>3, <1>4, <2>1, <3>2 DEF CountsInv, EntryCounts
    <3> QED
      BY <2>1, <3>1, <3>2
  <2> QED
    BY <1>1, <1>7, <1>8, <1>9, <1>10, <2>1, <2>2 DEF CountsInv, OvertakenCountsInversions
<1>12. CASE EnqueueNormal(item)
  <2>1. /\ fifo' = Append(fifo, item) /\ enqueued'.fifo = enqueued.fifo + 1
        /\ priority' = priority
    BY <1>3, <1>12 DEF EnqueueNormal, Counters
  <2>2. /\ Len(fifo') = Len(fifo) + 1
        /\ \A i \in DOMAIN fifo' : \/ i \in DOMAIN fifo /\ fifo'[i] = fifo[i]
                                   \/ i = Len(fifo) + 1 /\ fifo'[i] = item
    BY <1>2, <1>3, <2>1
  <2>3. ASSUME NEW e \in priority' PROVE EntryCounts(e)'
    <3>1. e \in priority /\ EntryCounts(e)
      BY <2>1 DEF CountsInv
    <3>2. e.before <= enqueued.fifo /\ enqueued.fifo = dequeued.fifo + Len(fifo)
      BY <3>1 DEF CountsInv, EntryCounts
    <3>3. e.before <= enqueued'.fifo
      BY <1>3, <1>4, <2>1, <3>1, <3>2
    <3>4. ASSUME NEW i \in DOMAIN fifo'
          PROVE  fifo'[i].seq < e.item.seq <=> dequeued'.fifo + i <= e.before
      <4>1. CASE i \in DOMAIN fifo /\ fifo'[i] = fifo[i]
        BY <1>1, <3>1, <4>1 DEF EntryCounts
      <4>2. CASE i = Len(fifo) + 1 /\ fifo'[i] = item
        BY <1>1, <1>2, <1>3, <1>4, <3>1, <3>2, <4>2
      <4> QED
        BY <2>2, <4>1, <4>2
    <3> QED
      BY <3>3, <3>4 DEF EntryCounts
  <2>4. enqueued'.fifo = dequeued'.fifo + Len(fifo')
    <3>1. /\ enqueued.fifo = dequeued.fifo + Len(fifo) /\ dequeued'.fifo = dequeued.fifo
          /\ enqueued'.fifo = enqueued.fifo + 1 /\ Len(fifo') = Len(fifo) + 1
      BY <1>1, <2>1, <2>2 DEF CountsInv
    <3>2. dequeued.fifo \in Nat /\ Len(fifo) \in Nat
      BY <1>3
    <3> QED
      BY <3>1, <3>2
  <2> QED
    BY <1>7, <1>8, <1>9, <1>10, <2>3, <2>4 DEF CountsInv, OvertakenCountsInversions
<1> QED
  BY <1>1, <1>11, <1>12

\* A critical reading that is served overtakes the normal ones that came before
\* it and wait: Overtaken of its entry.
LEMMA DequeuePriorityCounts ==
    ASSUME IInv, CountsInv, DequeuePriority, UNCHANGED <<sequence, enqueued>>
    PROVE  CountsInv'
<1>1. PICK entry \in priority :
        /\ priority' = priority \ {entry} /\ fifo' = fifo
        /\ dequeued' = [dequeued EXCEPT !.priority = @ + 1]
        /\ stats' = [stats EXCEPT !.total = @ + Overtaken(entry),
                                  !.overtaken = Larger(@, Overtaken(entry))]
        /\ delivered' = Append(delivered, entry.item)
  BY DEF DequeuePriority
<1> DEFINE at == Len(delivered) + 1
           k == Overtaken(entry)
<1>2. /\ fifo \in Seq(Item) /\ delivered \in Seq(Item) /\ sequence \in Nat
      /\ dequeued \in Counters /\ dequeued.fifo \in Nat /\ enqueued.fifo \in Nat
      /\ stats \in [depth : Nat, overtaken : Nat, total : Nat] /\ stats.total \in Nat
      /\ Len(fifo) \in Nat /\ DOMAIN fifo = 1 .. Len(fifo)
      /\ entry.item \in Item /\ entry.before \in Nat
  BY DEF IInv, TypeOK, Counters, Entry
<1>3. /\ entry.item.seq \in Nat /\ entry.item.seq <= sequence /\ IsCritical(entry.item)
      /\ entry.before <= dequeued.fifo + Len(fifo)
      /\ \A i \in DOMAIN fifo :
            fifo[i].seq < entry.item.seq <=> dequeued.fifo + i <= entry.before
  BY <1>2, ItemFields DEF IInv, QueueOrder, CountsInv, EntryCounts
<1>4. dequeued'.fifo = dequeued.fifo /\ stats'.total = stats.total + k
  BY <1>1, <1>2 DEF Counters
<1>5. /\ k \in 0 .. Len(fifo)
      /\ \A i \in DOMAIN fifo : i \in 1 .. k <=> fifo[i].seq < entry.item.seq
  BY <1>2, <1>3 DEF Overtaken
<1>6. \A i \in DOMAIN fifo : fifo[i].seq \in 1 .. sequence
  <2>1. \A i \in DOMAIN fifo : fifo[i] \in Item
    BY <1>2
  <2> QED
    BY <1>2, <2>1, ItemFields DEF IInv, QueueOrder, CountsInv
<1> HIDE DEF k
<1>7. /\ at \in Nat /\ DOMAIN delivered = 1 .. at - 1 /\ DOMAIN delivered' = 1 .. at
      /\ Len(delivered') = at /\ delivered'[at] = entry.item
      /\ \A i \in DOMAIN delivered : delivered'[i] = delivered[i]
  BY <1>1, <1>2
<1>8. Inversions' = Inversions \cup NewPairs(at, k)
  <2>1. ASSUME NEW i \in DOMAIN delivered, NEW n \in 1 .. sequence
        PROVE  (\E j \in (i + 1) .. Len(delivered') :
                   delivered'[j].seq = n /\ ~IsCritical(delivered'[j]))
               <=> (\E j \in (i + 1) .. Len(delivered) :
                       delivered[j].seq = n /\ ~IsCritical(delivered[j]))
    <3>1. \A j \in (i + 1) .. Len(delivered') :
             \/ j \in (i + 1) .. Len(delivered) /\ delivered'[j] = delivered[j]
             \/ j = at
      BY <1>2, <1>7
    <3>2. \A j \in (i + 1) .. Len(delivered) :
             j \in (i + 1) .. Len(delivered') /\ delivered'[j] = delivered[j]
      BY <1>2, <1>7
    <3> QED
      BY <1>3, <1>7, <3>1, <3>2
  <2>2. \A j : j \notin (at + 1) .. Len(delivered')
    BY <1>7
  <2>3. ASSUME NEW x \in [at : {at}, normal : 1 .. sequence]
        PROVE  x \in Inversions' <=> x \in NewPairs(at, k)
    <3>1. x \in Inversions' <=>
             x.normal < entry.item.seq /\ \E j \in DOMAIN fifo : fifo[j].seq = x.normal
      BY <1>1, <1>3, <1>7, <2>2 DEF Inversions
    <3>2. x \in NewPairs(at, k) <=> \E i \in 1 .. k : fifo[i].seq = x.normal
      BY <1>2 DEF NewPairs
    <3>3. \A i \in 1 .. k : i \in DOMAIN fifo
      BY <1>2, <1>5
    <3> QED
      BY <1>5, <3>1, <3>2, <3>3
  <2>4. ASSUME NEW x \in [at : DOMAIN delivered, normal : 1 .. sequence]
        PROVE  x \in Inversions' <=> x \in Inversions
    BY <1>1, <1>7, <2>1 DEF Inversions
  <2>5. NewPairs(at, k) \subseteq [at : {at}, normal : 1 .. sequence]
    <3>1. \A i \in 1 .. k : i \in DOMAIN fifo
      BY <1>2, <1>5
    <3> QED
      BY <1>6, <3>1 DEF NewPairs
  <2>6. \A x \in Inversions' : \/ x \in [at : {at}, normal : 1 .. sequence]
                               \/ x \in [at : DOMAIN delivered, normal : 1 .. sequence]
    BY <1>7 DEF Inversions
  <2>7. /\ Inversions \subseteq [at : DOMAIN delivered, normal : 1 .. sequence]
    BY DEF Inversions
  <2> QED
    BY <2>3, <2>4, <2>5, <2>6, <2>7
<1>9. Inversions \cap NewPairs(at, k) = {}
  BY <1>7 DEF Inversions, NewPairs
<1>10. /\ IsFiniteSet(NewPairs(at, k)) /\ Cardinality(NewPairs(at, k)) = k
  BY <1>5, <1>7, NewPairsCounted DEF IInv
<1>11. /\ IsFiniteSet(Inversions')
       /\ Cardinality(Inversions') = Cardinality(Inversions) + k
  <2>1. IsFiniteSet(Inversions) /\ Cardinality(Inversions) \in Nat /\ k \in Nat
    BY <1>5, FS_CardinalityType DEF CountsInv
  <2>2. /\ IsFiniteSet(Inversions \cup NewPairs(at, k))
        /\ Cardinality(Inversions \cup NewPairs(at, k))
              = Cardinality(Inversions) + Cardinality(NewPairs(at, k))
                - Cardinality(Inversions \cap NewPairs(at, k))
    BY <1>10, <2>1, FS_Union
  <2>3. Cardinality(Inversions \cap NewPairs(at, k)) = 0
    BY <1>9, FS_EmptySet
  <2> QED
    BY <1>8, <1>10, <2>1, <2>2, <2>3
<1>12. stats'.total = Cardinality(Inversions')
  BY <1>4, <1>11 DEF CountsInv, OvertakenCountsInversions
<1>13. \A i \in DOMAIN delivered' : delivered'[i].seq <= sequence'
  BY <1>3, <1>7 DEF CountsInv
<1>14. \A e \in priority' : EntryCounts(e)'
  BY <1>1, <1>4 DEF CountsInv, EntryCounts
<1> QED
  BY <1>1, <1>4, <1>11, <1>12, <1>13, <1>14 DEF CountsInv, OvertakenCountsInversions

\* A normal reading that is served is overtaken by no more and no fewer than before.
LEMMA DequeueFifoCounts ==
    ASSUME IInv, CountsInv, DequeueFifo, fifo # <<>>, UNCHANGED <<sequence, enqueued>>
    PROVE  CountsInv'
<1> DEFINE at == Len(delivered) + 1
           item == Head(fifo)
<1>1. /\ priority' = priority /\ stats' = stats
      /\ dequeued' = [dequeued EXCEPT !.fifo = @ + 1]
      /\ fifo' = Tail(fifo) /\ delivered' = Append(delivered, item)
  BY DEF DequeueFifo
<1>2. /\ fifo \in Seq(Item) /\ delivered \in Seq(Item) /\ sequence \in Nat
      /\ dequeued \in Counters /\ dequeued.fifo \in Nat /\ enqueued.fifo \in Nat
      /\ Len(fifo) \in Nat \ {0} /\ DOMAIN fifo = 1 .. Len(fifo)
      /\ item \in Item /\ item = fifo[1] /\ 1 \in DOMAIN fifo
  BY DEF IInv, TypeOK, Counters
<1>3. /\ Len(fifo') = Len(fifo) - 1 /\ DOMAIN fifo' = 1 .. Len(fifo) - 1
      /\ \A i \in DOMAIN fifo' : i + 1 \in DOMAIN fifo /\ fifo'[i] = fifo[i + 1] /\ i \in Nat
      /\ \A i \in DOMAIN fifo : i = 1 \/ (i - 1 \in DOMAIN fifo' /\ fifo'[i - 1] = fifo[i])
  <2>1. /\ Len(fifo') = Len(fifo) - 1 /\ DOMAIN fifo' = 1 .. Len(fifo) - 1
        /\ \A i \in DOMAIN fifo' : fifo'[i] = fifo[i + 1]
    BY <1>1, <1>2
  <2> QED
    BY <1>2, <2>1
<1>4. dequeued'.fifo = dequeued.fifo + 1
  BY <1>1, <1>2 DEF Counters
<1>5. item.seq <= sequence /\ ~IsCritical(item)
  BY <1>2 DEF IInv, QueueOrder
<1> HIDE DEF item
<1>6. /\ at \in Nat /\ DOMAIN delivered = 1 .. at - 1 /\ DOMAIN delivered' = 1 .. at
      /\ Len(delivered') = at /\ delivered'[at] = item
      /\ \A i \in DOMAIN delivered : delivered'[i] = delivered[i] /\ at \in (i + 1) .. at
  BY <1>1, <1>2
<1>7. Inversions' = Inversions
  <2>1. \A n : (\E j \in DOMAIN fifo : fifo[j].seq = n) <=>
                  \/ item.seq = n
                  \/ \E j \in DOMAIN fifo' : fifo'[j].seq = n
    BY <1>2, <1>3
  <2>2. ASSUME NEW i \in DOMAIN delivered, NEW n
        PROVE  (\E j \in (i + 1) .. Len(delivered') :
                   delivered'[j].seq = n /\ ~IsCritical(delivered'[j]))
               <=> \/ \E j \in (i + 1) .. Len(delivered) :
                         delivered[j].seq = n /\ ~IsCritical(delivered[j])
                   \/ item.seq = n
    <3>1. \A j \in (i + 1) .. Len(delivered') :
             \/ j \in (i + 1) .. Len(delivered) /\ delivered'[j] = delivered[j]
             \/ j = at
      BY <1>2, <1>6
    <3>2. \A j \in (i + 1) .. Len(delivered) :
             j \in (i + 1) .. Len(delivered') /\ delivered'[j] = delivered[j]
      BY <1>2, <1>6
    <3> QED
      BY <1>5, <1>6, <3>1, <3>2
  <2>3. ASSUME NEW x \in [at : DOMAIN delivered, normal : 1 .. sequence]
        PROVE  x \in Inversions' <=> x \in Inversions
    <3>1. x.at \in DOMAIN delivered /\ x.at \in DOMAIN delivered' /\ delivered'[x.at] = delivered[x.at]
      BY <1>6
    <3>2. x \in [at : DOMAIN delivered', normal : 1 .. sequence'] /\ sequence' = sequence
      BY <1>6
    <3> DEFINE Late(n) == \E j \in (x.at + 1) .. Len(delivered) :
                             delivered[j].seq = n /\ ~IsCritical(delivered[j])
               LateNow(n) == \E j \in (x.at + 1) .. Len(delivered') :
                                delivered'[j].seq = n /\ ~IsCritical(delivered'[j])
               InFifo(n) == \E j \in DOMAIN fifo : fifo[j].seq = n
               InFifoNow(n) == \E j \in DOMAIN fifo' : fifo'[j].seq = n
               Before(n) == IsCritical(delivered[x.at]) /\ n < delivered[x.at].seq
    <3>3. x \in Inversions <=> Before(x.normal) /\ (InFifo(x.normal) \/ Late(x.normal))
      BY DEF Inversions
    <3>4. x \in Inversions' <=> Before(x.normal) /\ (InFifoNow(x.normal) \/ LateNow(x.normal))
      BY <3>1, <3>2 DEF Inversions
    <3>5. InFifo(x.normal) <=> item.seq = x.normal \/ InFifoNow(x.normal)
      BY <2>1
    <3>6. LateNow(x.normal) <=> Late(x.normal) \/ item.seq = x.normal
      <4>1. \A n : (\E j \in (x.at + 1) .. Len(delivered') :
                       delivered'[j].seq = n /\ ~IsCritical(delivered'[j]))
                   <=> ((\E j \in (x.at + 1) .. Len(delivered) :
                           delivered[j].seq = n /\ ~IsCritical(delivered[j]))
                        \/ item.seq = n)
        BY <2>2, <3>1
      <4> QED
        BY <4>1
    <3> HIDE DEF Late, LateNow, InFifo, InFifoNow, Before
    <3> QED
      BY <3>3, <3>4, <3>5, <3>6
  <2>4. \A x \in Inversions' : x \in [at : DOMAIN delivered, normal : 1 .. sequence]
    BY <1>5, <1>6 DEF Inversions
  <2>5. \A x \in Inversions : x \in [at : DOMAIN delivered, normal : 1 .. sequence]
    BY DEF Inversions
  <2> QED
    BY <2>3, <2>4, <2>5
<1>8. \A i \in DOMAIN delivered' : delivered'[i].seq <= sequence'
  BY <1>5, <1>6 DEF CountsInv
<1>9. ASSUME NEW e \in priority' PROVE EntryCounts(e)'
  <2>1. e \in priority /\ EntryCounts(e) /\ e.before \in Nat
    BY <1>1 DEF CountsInv, IInv, TypeOK, Entry
  <2>2. \A i \in DOMAIN fifo' :
           fifo'[i].seq < e.item.seq <=> dequeued.fifo + (i + 1) <= e.before
    BY <1>3, <2>1 DEF EntryCounts
  <2>3. \A i \in DOMAIN fifo' : dequeued.fifo + (i + 1) = dequeued'.fifo + i
    <3>1. dequeued.fifo \in Nat
      BY <1>2
    <3>2. \A i \in DOMAIN fifo' : i \in Nat
      BY <1>3
    <3>3. \A i \in Nat : dequeued.fifo + (i + 1) = (dequeued.fifo + 1) + i
      BY <3>1
    <3> QED
      BY <1>4, <3>2, <3>3
  <2> QED
    BY <2>1, <2>2, <2>3 DEF EntryCounts
<1>10. \A i \in DOMAIN fifo' : fifo'[i].seq >= 1
  BY <1>3 DEF CountsInv
<1>11. enqueued'.fifo = dequeued'.fifo + Len(fifo')
  BY <1>2, <1>3, <1>4 DEF CountsInv
<1> QED
  BY <1>1, <1>7, <1>8, <1>9, <1>10, <1>11 DEF CountsInv, OvertakenCountsInversions

\* Every step keeps the counts.
LEMMA CountsStep == IInv /\ CountsInv /\ [Next]_vars => CountsInv'
<1> SUFFICES ASSUME IInv, CountsInv, [Next]_vars PROVE CountsInv'
  OBVIOUS
<1>1. CASE Dequeue
  <2>1. CASE DequeuePriority
    BY <1>1, <2>1, DequeuePriorityCounts DEF Dequeue
  <2>2. CASE DequeueFifo
    BY <1>1, <2>2, GrantedHasReading, DequeueFifoCounts DEF Dequeue, DequeueFifo
  <2> QED
    BY <1>1, <2>1, <2>2 DEF Dequeue
<1>2. CASE UNCHANGED queueVars
  BY <1>2, CountsSame
<1>3. ASSUME NEW p \in Producers, NEW sev \in Severities, Enqueue(p, sev) PROVE CountsInv'
  BY <1>3, EnqueueCounts
<1> QED
  BY <1>1, <1>2, <1>3 DEF Next, ConsumerStep, Release, LoopTest, WaitGranted, WaitCancelled,
     FinishProcessing, Cancel, vars, queueVars

\* They hold at first.
LEMMA CountsInit == Init => CountsInv
<1> SUFFICES ASSUME Init PROVE CountsInv
  OBVIOUS
<1>1. /\ fifo = <<>> /\ DOMAIN fifo = {} /\ delivered = <<>> /\ DOMAIN delivered = {}
      /\ priority = {} /\ enqueued.fifo = 0 /\ dequeued.fifo = 0 /\ stats.total = 0
      /\ Len(fifo) = 0
  BY DEF Init
<1>2. Inversions = {}
  BY <1>1 DEF Inversions
<1> QED
  BY <1>1, <1>2, FS_EmptySet DEF CountsInv, OvertakenCountsInversions

\* The total that two counters make up is the number of times a critical reading
\* was served before an earlier normal one: nothing is counted twice or missed,
\* whatever was enqueued between a critical reading's Enqueue and its dequeue.
THEOREM OvertakenCounted == Spec => []OvertakenCountsInversions
<1>1. IInv /\ CountsInv /\ [Next]_vars => (IInv /\ CountsInv)'
  BY InvStep, CountsStep
<1>2. CountsInv => OvertakenCountsInversions
  BY DEF CountsInv
<1> QED
  BY <1>1, <1>2, InvInit, CountsInit, PTL DEF Spec
-----------------------------------------------------------------------------
(* MqttSession: the types of its variables, and that no provisioning message    *)
(* disappears silently, through lost connections, ended sessions and restarts   *)
(* of broker and backend.                                                       *)

\* What the callback works on.
Message == [at : {"provision", "acknowledge"}, device : Devices, current : BOOLEAN]

\* While the connection its message came on stands, the callback handles the
\* first message of the queue; and what it is about to acknowledge is done.
HandlerSound ==
    handler # Free =>
        /\ handler.current => queue # <<>> /\ Head(queue) = handler.device
        /\ handler.at = "acknowledge" => handler.device \in registered \cup lost

\* The inductive invariant.
SessionIInv == SessionTypeOK /\ EveryDeviceAccounted /\ HandlerSound

\* What the queue holds.
LEMMA QueuedFacts ==
    ASSUME NEW q \in Seq(Devices)
    PROVE  /\ {q[i] : i \in DOMAIN q} \subseteq Devices
           /\ \A d \in Devices : {Append(q, d)[i] : i \in DOMAIN Append(q, d)}
                                     = {q[i] : i \in DOMAIN q} \cup {d}
           /\ q # <<>> => /\ {q[i] : i \in DOMAIN q}
                                 \subseteq {Head(q)} \cup {Tail(q)[i] : i \in DOMAIN Tail(q)}
                          /\ Head(q) \in Devices /\ Tail(q) \in Seq(Devices)
<1>1. DOMAIN q = 1 .. Len(q) /\ Len(q) \in Nat /\ \A i \in 1 .. Len(q) : q[i] \in Devices
  OBVIOUS
<1>2. ASSUME NEW d \in Devices
      PROVE  {Append(q, d)[i] : i \in DOMAIN Append(q, d)} = {q[i] : i \in DOMAIN q} \cup {d}
  <2>1. /\ DOMAIN Append(q, d) = 1 .. Len(q) + 1
        /\ \A i \in 1 .. Len(q) : Append(q, d)[i] = q[i]
        /\ Append(q, d)[Len(q) + 1] = d
    OBVIOUS
  <2>2. 1 .. Len(q) + 1 = 1 .. Len(q) \cup {Len(q) + 1}
    BY <1>1
  <2> QED
    BY <1>1, <2>1, <2>2
<1>3. ASSUME q # <<>>
      PROVE  /\ {q[i] : i \in DOMAIN q}
                    \subseteq {Head(q)} \cup {Tail(q)[i] : i \in DOMAIN Tail(q)}
             /\ Head(q) \in Devices /\ Tail(q) \in Seq(Devices)
  <2>1. /\ Head(q) = q[1] /\ Tail(q) \in Seq(Devices) /\ Len(q) >= 1
        /\ DOMAIN Tail(q) = 1 .. Len(q) - 1
        /\ \A i \in 1 .. Len(q) - 1 : Tail(q)[i] = q[i + 1]
    BY <1>1, <1>3
  <2>2. ASSUME NEW i \in 1 .. Len(q)
        PROVE  q[i] \in {Head(q)} \cup {Tail(q)[j] : j \in DOMAIN Tail(q)}
    <3>1. CASE i = 1
      BY <2>1, <3>1
    <3>2. CASE i # 1
      <4>1. i - 1 \in 1 .. Len(q) - 1 /\ q[i] = Tail(q)[i - 1]
        BY <1>1, <2>1, <3>2
      <4> QED
        BY <2>1, <4>1
    <3> QED
      BY <3>1, <3>2
  <2> QED
    BY <1>1, <2>1, <2>2
<1> QED
  BY <1>1, <1>2, <1>3

\* The fields of a message.
LEMMA MessageFacts ==
    ASSUME NEW h \in Message
    PROVE  /\ h.at \in {"provision", "acknowledge"} /\ h.device \in Devices
           /\ h.current \in BOOLEAN /\ h # Free
BY DEF Message, Free

LEMMA HandlerFacts ==
    ASSUME SessionTypeOK
    PROVE  /\ handler = Free \/ handler \in Message
           /\ handler.at \in {"provision", "acknowledge"} => handler # Free
BY DEF SessionTypeOK, HandlerType, Message, Free

LEMMA AtSet ==
    ASSUME NEW h \in Message, NEW r, r = [h EXCEPT !.at = "acknowledge"]
    PROVE  r \in Message /\ r.device = h.device /\ r.current = h.current
BY DEF Message

\* The connection of the callback's message is gone.
LEMMA OutdatedFacts ==
    ASSUME SessionTypeOK, NEW r, r = Outdated(handler)
    PROVE  /\ r = Free \/ r \in Message
           /\ r # Free => /\ handler # Free /\ ~r.current
                          /\ r.at = handler.at /\ r.device = handler.device
<1>1. CASE handler = Free
  BY <1>1 DEF Outdated
<1>2. CASE handler # Free
  <2>1. PICK h \in Message : h = handler
    BY <1>2, HandlerFacts
  <2>2. r = [h EXCEPT !.current = FALSE]
    BY <1>2, <2>1, Zenon DEF Outdated
  <2>3. r \in Message /\ ~r.current /\ r.at = h.at /\ r.device = h.device
    BY <2>2 DEF Message
  <2> QED
    BY <1>2, <2>1, <2>3
<1> QED
  BY <1>1, <1>2
-----------------------------------------------------------------------------
(* The steps.                                                                  *)

LEMMA Initially == SessionInit => SessionIInv
<1> SUFFICES ASSUME SessionInit PROVE SessionIInv
  OBVIOUS
<1>1. SessionTypeOK
  <2>1. faults \in 0 .. MaxFaults /\ queue \in Seq(Devices)
    BY FaultsAssumption DEF SessionInit
  <2> QED
    BY <2>1 DEF SessionInit, SessionTypeOK, HandlerType
<1>2. EveryDeviceAccounted
  BY DEF SessionInit, EveryDeviceAccounted
<1>3. HandlerSound
  BY DEF SessionInit, HandlerSound
<1> QED
  BY <1>1, <1>2, <1>3 DEF SessionIInv

\* The worker's loop, the provisioner's start and the network's return touch
\* neither the messages nor the callback.
LEMMA LoopStep ==
    ASSUME SessionIInv, WorkerStep \/ StartProvisioner \/ LinkReturns
    PROVE  SessionIInv'
<1>1. /\ queue' = queue /\ sessionsKept' = sessionsKept /\ handler' = handler
      /\ published' = published /\ registered' = registered /\ lost' = lost /\ faults' = faults
  BY Zenon DEF WorkerStep, PingFails, ConnectToSession, ConnectAnew, ConnectFails, Subscribe,
               SubscribeFails, StartProvisioner, LinkReturns, brokerVars, deviceVars, clientVars
<1>2. /\ reachable' \in BOOLEAN /\ connected' \in BOOLEAN /\ isSubscribed' \in BOOLEAN
      /\ session' \in {"none", "empty", "subscribed"}
      /\ worker' \in {"ping", "connect", "subscribe"}
      /\ provisioning' \in BOOLEAN
  BY DEF SessionIInv, SessionTypeOK, WorkerStep, PingFails, ConnectToSession, ConnectAnew, ConnectFails,
         Subscribe, SubscribeFails, StartProvisioner, LinkReturns, brokerVars, deviceVars, clientVars
<1>3. SessionTypeOK'
  BY <1>1, <1>2 DEF SessionIInv, SessionTypeOK, HandlerType
<1>4. EveryDeviceAccounted'
  BY <1>1 DEF SessionIInv, EveryDeviceAccounted, Queued
<1>5. HandlerSound'
  BY <1>1 DEF SessionIInv, HandlerSound
<1> QED
  BY <1>3, <1>4, <1>5 DEF SessionIInv

LEMMA PublishStep ==
    ASSUME SessionIInv, NEW d \in Devices, Publish(d)
    PROVE  SessionIInv'
<1>1. /\ queue \in Seq(Devices) /\ lost \subseteq Devices /\ published \subseteq Devices
      /\ EveryDeviceAccounted /\ HandlerSound
  BY DEF SessionIInv, SessionTypeOK
<1>2. /\ published' = published \cup {d}
      /\ UNCHANGED <<reachable, connected, worker, isSubscribed, session, sessionsKept, handler,
                     provisioning, registered, faults>>
      /\ \/ queue' = Append(queue, d) /\ lost' = lost
         \/ queue' = queue /\ lost' = lost \cup {d}
  BY Zenon DEF Publish, clientVars
<1>3. SessionTypeOK'
  <2>1. queue' \in Seq(Devices) /\ lost' \subseteq Devices /\ published' \subseteq Devices
    BY <1>1, <1>2
  <2> QED
    BY <1>2, <2>1 DEF SessionIInv, SessionTypeOK, HandlerType
<1>4. EveryDeviceAccounted'
  <2>1. Queued \subseteq Queued' /\ (d \in Queued' \/ d \in lost') /\ lost \subseteq lost'
    <3>1. CASE queue' = Append(queue, d) /\ lost' = lost
      <4>1. Queued' = Queued \cup {d}
        BY <1>1, <3>1, QueuedFacts DEF Queued
      <4> QED
        BY <3>1, <4>1
    <3>2. CASE queue' = queue /\ lost' = lost \cup {d}
      BY <3>2 DEF Queued
    <3> QED
      BY <1>2, <3>1, <3>2
  <2> QED
    BY <1>1, <1>2, <2>1 DEF EveryDeviceAccounted
<1>5. HandlerSound'
  <2>1. lost \subseteq lost' /\ registered' = registered /\ handler' = handler
    BY <1>2
  <2>2. queue # <<>> => queue' # <<>> /\ Head(queue') = Head(queue)
    BY <1>1, <1>2
  <2>3. handler' # Free /\ handler'.current => queue' # <<>> /\ Head(queue') = handler'.device
    BY <1>1, <2>1, <2>2, Zenon DEF HandlerSound
  <2>4. handler' # Free /\ handler'.at = "acknowledge"
            => handler'.device \in registered' \cup lost'
    BY <1>1, <2>1 DEF HandlerSound
  <2> QED
    BY <2>3, <2>4, Zenon DEF HandlerSound
<1> QED
  BY <1>3, <1>4, <1>5 DEF SessionIInv

LEMMA ReceiveStep == SessionIInv /\ Receive => SessionIInv'
<1> SUFFICES ASSUME SessionIInv, Receive PROVE SessionIInv'
  OBVIOUS
<1>1. queue \in Seq(Devices) /\ queue # <<>>
  BY DEF SessionIInv, SessionTypeOK, Receive
<1>2. PICK d \in Devices : d = Head(queue)
  BY <1>1, QueuedFacts
<1>3. /\ handler' = [at |-> "provision", device |-> d, current |-> TRUE]
      /\ UNCHANGED <<reachable, connected, worker, isSubscribed, session, queue, sessionsKept,
                     provisioning, published, registered, lost, faults>>
  BY <1>2, Zenon DEF Receive, clientVars, brokerVars, deviceVars
<1>4. /\ handler' \in Message /\ handler'.at = "provision" /\ handler'.device = d
  BY <1>3 DEF Message
<1>5. SessionTypeOK'
  BY <1>3, <1>4 DEF SessionIInv, SessionTypeOK, HandlerType, Message
<1>6. EveryDeviceAccounted'
  BY <1>3 DEF SessionIInv, EveryDeviceAccounted, Queued
<1>7. HandlerSound'
  BY <1>1, <1>2, <1>3, <1>4 DEF HandlerSound
<1> QED
  BY <1>5, <1>6, <1>7 DEF SessionIInv

\* The registration ends, one way or the other.
LEMMA ProvisionStep ==
    ASSUME SessionIInv, Provision \/ ProvisionFails
    PROVE  SessionIInv'
<1>1. handler # Free /\ handler \in Message
  BY HandlerFacts DEF SessionIInv, Provision, ProvisionFails
<1>2. PICK h \in Message : h = handler
  BY <1>1
<1>3. PICK r : r = [h EXCEPT !.at = "acknowledge"]
  BY Zenon
<1>4. /\ handler' = r
      /\ UNCHANGED <<reachable, connected, worker, isSubscribed, session, queue, sessionsKept,
                     provisioning, published>>
  BY <1>2, <1>3, Zenon DEF Provision, ProvisionFails, clientVars, brokerVars
<1>5. /\ r \in Message /\ r.device = h.device /\ r.current = h.current /\ h.device \in Devices
  BY <1>3, AtSet, MessageFacts, ZenonT(30)
<1>6. /\ registered \subseteq registered' /\ lost \subseteq lost'
      /\ registered' \subseteq Devices /\ lost' \subseteq Devices
      /\ h.device \in registered' \cup lost'
      /\ faults' \in 0 .. MaxFaults
  BY <1>2, <1>5, FaultsAssumption DEF SessionIInv, SessionTypeOK, Provision, ProvisionFails
<1>7. SessionTypeOK'
  BY <1>4, <1>5, <1>6 DEF SessionIInv, SessionTypeOK, HandlerType, Message
<1>8. EveryDeviceAccounted'
  BY <1>4, <1>6 DEF SessionIInv, EveryDeviceAccounted, Queued
<1>9. HandlerSound'
  <2>1. h.current => queue' # <<>> /\ Head(queue') = h.device
    BY <1>1, <1>2, <1>4, Zenon DEF SessionIInv, HandlerSound
  <2> QED
    BY <1>4, <1>5, <1>6, <2>1, Zenon DEF HandlerSound
<1> QED
  BY <1>7, <1>8, <1>9 DEF SessionIInv

\* The first message of the queue is acknowledged once it is done.
LEMMA AcknowledgeStep == SessionIInv /\ Acknowledge => SessionIInv'
<1> SUFFICES ASSUME SessionIInv, Acknowledge PROVE SessionIInv'
  OBVIOUS
<1>1. /\ handler # Free /\ handler.at = "acknowledge"
  BY HandlerFacts DEF SessionIInv, Acknowledge
<1>2. /\ queue' = IF handler.current THEN Tail(queue) ELSE queue
      /\ handler' = Free
      /\ UNCHANGED <<reachable, connected, worker, isSubscribed, session, sessionsKept,
                     provisioning, published, registered, lost, faults>>
  BY Zenon DEF Acknowledge, clientVars, deviceVars
<1>3. queue \in Seq(Devices) /\ EveryDeviceAccounted /\ HandlerSound
  BY DEF SessionIInv, SessionTypeOK
<1>4. queue' \in Seq(Devices) /\ Queued \subseteq Queued' \cup registered \cup lost
  <2>1. CASE handler.current
    <3>1. queue # <<>> /\ Head(queue) \in registered \cup lost
      BY <1>1, <1>3, <2>1, Zenon DEF HandlerSound
    <3>2. queue' = Tail(queue)
      BY <1>2, <2>1, Zenon
    <3>3. /\ Queued \subseteq {Head(queue)} \cup {Tail(queue)[i] : i \in DOMAIN Tail(queue)}
          /\ Tail(queue) \in Seq(Devices)
      BY <1>3, <3>1, QueuedFacts, Zenon DEF Queued
    <3>4. Queued' = {Tail(queue)[i] : i \in DOMAIN Tail(queue)}
      BY <3>2, Zenon DEF Queued
    <3> QED
      BY <3>1, <3>2, <3>3, <3>4
  <2>2. CASE ~handler.current
    <3>1. queue' = queue
      BY <1>2, <2>2, Zenon
    <3> QED
      BY <1>3, <3>1 DEF Queued
  <2> QED
    BY <2>1, <2>2
<1>5. SessionTypeOK'
  BY <1>2, <1>4 DEF SessionIInv, SessionTypeOK, HandlerType
<1>6. EveryDeviceAccounted'
  BY <1>2, <1>3, <1>4 DEF EveryDeviceAccounted
<1>7. HandlerSound'
  BY <1>2, Zenon DEF HandlerSound
<1> QED
  BY <1>5, <1>6, <1>7 DEF SessionIInv

\* A session that ends takes its messages with it, which is recorded; the
\* callback's message is outdated or gone.
LEMMA FaultStep == SessionIInv /\ Fault => SessionIInv'
<1> SUFFICES ASSUME SessionIInv, Fault PROVE SessionIInv'
  OBVIOUS
<1>1. /\ queue \in Seq(Devices) /\ lost \subseteq Devices /\ Queued \subseteq Devices
      /\ EveryDeviceAccounted /\ HandlerSound /\ SessionTypeOK
  BY QueuedFacts DEF SessionIInv, SessionTypeOK, Queued
<1>2. /\ sessionsKept' = sessionsKept /\ provisioning' = provisioning
      /\ published' = published /\ registered' = registered
      /\ faults < MaxFaults /\ faults' = faults + 1 /\ connected' = FALSE
      /\ handler' = Outdated(handler) \/ handler' = Free
      /\ UNCHANGED <<session, queue, lost>> \/ SessionEnds
  BY Zenon DEF Fault, LinkDrops, BrokerRestarts, BackendRestarts, ConnectionEnds
<1>3. reachable' \in BOOLEAN /\ isSubscribed' \in BOOLEAN /\ worker' \in {"ping", "connect", "subscribe"}
  BY <1>1 DEF SessionTypeOK, Fault, LinkDrops, BrokerRestarts, BackendRestarts
<1>4. /\ session' \in {"none", "empty", "subscribed"}
      /\ queue' \in Seq(Devices) /\ lost' \subseteq Devices /\ lost \subseteq lost'
      /\ Queued \subseteq Queued' \cup lost'
  <2>1. CASE UNCHANGED <<session, queue, lost>>
    BY <1>1, <2>1 DEF SessionTypeOK, Queued
  <2>2. CASE SessionEnds
    BY <1>1, <2>2 DEF SessionEnds
  <2> QED
    BY <1>2, <2>1, <2>2
<1>5. /\ handler' = Free \/ handler' \in Message
      /\ handler' # Free => /\ handler # Free /\ ~handler'.current
                            /\ handler'.at = handler.at /\ handler'.device = handler.device
  BY <1>1, <1>2, OutdatedFacts, Zenon
<1>6. SessionTypeOK'
  <2>1. faults' \in 0 .. MaxFaults
    BY <1>1, <1>2, FaultsAssumption DEF SessionTypeOK
  <2> QED
    BY <1>1, <1>2, <1>3, <1>4, <1>5, <2>1 DEF SessionTypeOK, HandlerType, Message
<1>7. EveryDeviceAccounted'
  BY <1>1, <1>2, <1>4 DEF EveryDeviceAccounted
<1>8. HandlerSound'
  <2>1. registered \cup lost \subseteq registered' \cup lost'
    BY <1>2, <1>4
  <2>2. handler # Free /\ handler.at = "acknowledge"
            => handler.device \in registered' \cup lost'
    BY <1>1, <2>1 DEF HandlerSound
  <2> QED
    BY <1>5, <2>2, Zenon DEF HandlerSound
<1> QED
  BY <1>6, <1>7, <1>8 DEF SessionIInv

LEMMA Step == SessionIInv /\ [SessionNext]_sessionVars => SessionIInv'
<1> SUFFICES ASSUME SessionIInv, [SessionNext]_sessionVars PROVE SessionIInv'
  OBVIOUS
<1>1. CASE WorkerStep \/ StartProvisioner \/ LinkReturns
  BY <1>1, LoopStep
<1>2. ASSUME NEW d \in Devices, Publish(d) PROVE SessionIInv'
  BY <1>2, PublishStep
<1>3. CASE Receive
  BY <1>3, ReceiveStep
<1>4. CASE Provision \/ ProvisionFails
  BY <1>4, ProvisionStep
<1>5. CASE Acknowledge
  BY <1>5, AcknowledgeStep
<1>6. CASE Fault
  BY <1>6, FaultStep
<1>7. CASE UNCHANGED sessionVars
  BY <1>7 DEF SessionIInv, SessionTypeOK, HandlerType, EveryDeviceAccounted, Queued, HandlerSound, sessionVars,
              clientVars, brokerVars, deviceVars
<1> QED
  BY <1>1, <1>2, <1>3, <1>4, <1>5, <1>6, <1>7, Zenon DEF SessionNext, HandlerStep

\* Every variable of MqttSession has its type.
THEOREM SessionTypeCorrect == SessionSpec => []SessionTypeOK
<1>1. SessionIInv => SessionTypeOK
  BY DEF SessionIInv
<1> QED
  BY <1>1, Initially, Step, PTL DEF SessionSpec

\* A device whose message was published waits in the broker until it is
\* registered, unless that it is lost is recorded: EveryDeviceAccounted of
\* MqttSession, for any devices and any number of faults.
THEOREM NothingVanishes == SessionSpec => []EveryDeviceAccounted
<1>1. SessionIInv => EveryDeviceAccounted
  BY DEF SessionIInv
<1> QED
  BY <1>1, Initially, Step, PTL DEF SessionSpec
=============================================================================
