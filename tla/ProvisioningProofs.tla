-------------------------- MODULE ProvisioningProofs --------------------------
(* The properties of Provisioning for any devices, places and requests, from   *)
(* one inductive invariant.                                                    *)
EXTENDS Provisioning, TLAPS

Busy(t) == task[t].at # "idle"

\* Two registrations of one device that are under way at a time are recorded.
OverlapsSeen ==
    \A t, u \in Tasks :
        t # u /\ Busy(t) /\ Busy(u) /\ task[t].device = task[u].device
            => task[t].device \in overlapped

\* Who registers has inserted before.
InsertedFirst == \A t \in Tasks : task[t].at = "register" => store[task[t].device] # None

\* A row is registered or about to be.
RowAwaited ==
    \A d \in Devices \ halfDone :
        store[d] # None =>
            registry[d] # None \/ \E t \in Tasks : task[t].at = "register" /\ task[t].device = d

\* What is about to be registered is what the row says.
PlaceAwaited ==
    \A t \in Tasks :
        /\ task[t].at = "register"
        /\ task[t].device \notin overlapped \cup halfDone
        /\ registry[task[t].device] = None
        => store[task[t].device] = task[t].place

\* A request past its test found no row, and nobody else is to write one.
TestedAlone ==
    \A r \in Requests :
        task[r].at \in {"upsert", "register"} /\ task[r].device \notin overlapped =>
            /\ created[task[r].device] = 0
            /\ task[r].at = "upsert" => store[task[r].device] = None

CreatedIsStored == \A d \in Devices : created[d] # 0 => store[d] # None

IInv ==
    /\ TypeOK
    /\ OverlapsSeen /\ InsertedFirst /\ RowAwaited /\ PlaceAwaited
    /\ TestedAlone /\ CreatedIsStored
    /\ RegisteredIsStored /\ PlacesAgree /\ CreatedOnce
-----------------------------------------------------------------------------
(* What the steps do to the tasks.                                             *)

TaskType == task \in [Tasks -> {Idle} \cup Working]

\* The fields of a task of Provisioning (TelemetryProcessor.ProcessProvisioning
\* and POST /api/devices): a busy one has a device and a place.
LEMMA TaskFacts ==
    ASSUME TaskType, NEW t \in Tasks
    PROVE  /\ task[t] = Idle <=> ~Busy(t)
           /\ Busy(t) => /\ task[t] \in Working
                         /\ task[t].at \in {"exists", "upsert", "register"}
                         /\ task[t].device \in Devices /\ task[t].place \in Places
<1>1. task[t] \in {Idle} \cup Working
    BY DEF TaskType
<1>2. CASE task[t] = Idle
    BY <1>2 DEF Idle, Busy
<1>3. CASE task[t] \in Working
    BY <1>3 DEF Working, Idle, Busy
<1> QED BY <1>1, <1>2, <1>3

\* A busy task that goes on keeps its device and its place.
LEMMA GoingOn ==
    ASSUME TaskType, NEW t \in Tasks, Busy(t),
           NEW label \in {"exists", "upsert", "register"}, Goto(t, label)
    PROVE  /\ TaskType'
           /\ \A u \in Tasks : u # t => task'[u] = task[u]
           /\ task'[t].at = label
           /\ task'[t].device = task[t].device /\ task'[t].place = task[t].place
<1>1. task[t] \in Working
    BY TaskFacts
<1>2. /\ [task[t] EXCEPT !.at = label] \in Working
      /\ [task[t] EXCEPT !.at = label].at = label
      /\ [task[t] EXCEPT !.at = label].device = task[t].device
      /\ [task[t] EXCEPT !.at = label].place = task[t].place
    BY <1>1 DEF Working
<1>3. task' = [task EXCEPT ![t] = [task[t] EXCEPT !.at = label]]
    BY DEF Goto
<1> QED BY <1>2, <1>3 DEF TaskType

\* A task that ends is idle, and the others are not touched.
LEMMA Ending ==
    ASSUME TaskType, NEW t \in Tasks, Finish(t)
    PROVE  /\ TaskType'
           /\ \A u \in Tasks : u # t => task'[u] = task[u]
           /\ task'[t].at = "idle"
    BY DEF TaskType, Finish, Idle

\* A task that begins has the device and the place it is given.
LEMMA Beginning ==
    ASSUME TaskType, NEW t \in Tasks, NEW d \in Devices, NEW place \in Places,
           NEW label \in {"exists", "upsert"}, Begin(t, d, place, label)
    PROVE  /\ TaskType'
           /\ \A u \in Tasks : u # t => task'[u] = task[u]
           /\ task'[t].at = label /\ task'[t].device = d /\ task'[t].place = place
           /\ ~Busy(t)
           /\ \A u \in Tasks : Busy(u) /\ task[u].device = d => d \in overlapped'
           /\ overlapped \subseteq overlapped'
           /\ overlapped' \subseteq overlapped \cup {d}
<1>1. [at |-> label, device |-> d, place |-> place] \in Working
    BY DEF Working
<1>2. task' = [task EXCEPT ![t] = [at |-> label, device |-> d, place |-> place]]
    BY DEF Begin
<1>3. \A u \in Tasks : Busy(u) /\ task[u].device = d => UnderWay(d)
    BY TaskFacts DEF UnderWay
<1>4. ~Busy(t)
    BY TaskFacts DEF Begin
<1> QED BY <1>1, <1>2, <1>3, <1>4 DEF TaskType, Begin
-----------------------------------------------------------------------------
(* Every step keeps the invariant.                                             *)

\* A registration that begins, by a provisioning message or a request.
LEMMA BeginKeeps ==
    ASSUME IInv, NEW t \in Tasks, NEW d \in Devices, NEW place \in Places,
           NEW label \in {"exists", "upsert"}, Begin(t, d, place, label),
           label = "upsert" => t \notin Requests
    PROVE  IInv'
<1> USE DEF IInv
<1>1. TaskType
    BY DEF TypeOK, TaskType
<1>2. /\ TaskType'
      /\ \A u \in Tasks : u # t => task'[u] = task[u]
      /\ task'[t].at = label /\ task'[t].device = d /\ task'[t].place = place
      /\ ~Busy(t)
      /\ \A u \in Tasks : Busy(u) /\ task[u].device = d => d \in overlapped'
      /\ overlapped \subseteq overlapped'
      /\ overlapped' \subseteq overlapped \cup {d}
    BY <1>1, Beginning
<1>3. UNCHANGED <<store, registry, faults, created, halfDone>> /\ calls' = calls + 1 /\ calls < MaxCalls
    BY DEF Begin
<1>4. TypeOK'
    BY <1>2, <1>3, BoundsAssumption DEF TypeOK, TaskType
<1>5. OverlapsSeen'
    BY <1>2 DEF OverlapsSeen, Busy
<1>6. InsertedFirst' /\ PlaceAwaited'
    BY <1>2, <1>3 DEF InsertedFirst, PlaceAwaited
<1>7. RowAwaited'
    BY <1>2, <1>3 DEF RowAwaited, Busy
<1>8. TestedAlone'
    BY <1>2, <1>3 DEF TestedAlone, Tasks
<1>9. CreatedIsStored' /\ RegisteredIsStored' /\ PlacesAgree' /\ CreatedOnce'
    BY <1>2, <1>3 DEF CreatedIsStored, RegisteredIsStored, PlacesAgree, CreatedOnce
<1> QED BY <1>4, <1>5, <1>6, <1>7, <1>8, <1>9

\* The endpoint's test, with its early return.
LEMMA ExistsKeeps ==
    ASSUME IInv, NEW r \in Requests, Exists(r)
    PROVE  IInv'
<1> USE DEF IInv
<1>1. TaskType /\ r \in Tasks /\ Busy(r) /\ task[r].at = "exists"
    BY DEF TypeOK, TaskType, Tasks, Exists, Busy
<1>2. UNCHANGED <<store, registry, calls, faults, created, overlapped, halfDone>>
    BY DEF Exists
<1>3. /\ TaskType'
      /\ \A u \in Tasks : u # r => task'[u] = task[u]
      /\ \/ task'[r].at = "idle"
         \/ /\ task'[r].at = "upsert" /\ task'[r].device = task[r].device
            /\ store[task[r].device] = None
    BY <1>1, GoingOn, Ending DEF Exists
<1>4. TypeOK'
    BY <1>2, <1>3 DEF TypeOK, TaskType
<1>5. OverlapsSeen'
    BY <1>1, <1>2, <1>3 DEF OverlapsSeen, Busy
<1>6. InsertedFirst' /\ PlaceAwaited'
    BY <1>2, <1>3 DEF InsertedFirst, PlaceAwaited
<1>7. RowAwaited'
    BY <1>1, <1>2, <1>3 DEF RowAwaited
<1>8. TestedAlone'
    BY <1>1, <1>2, <1>3, TaskFacts DEF TestedAlone, CreatedIsStored, Tasks
<1>9. CreatedIsStored' /\ RegisteredIsStored' /\ PlacesAgree' /\ CreatedOnce'
    BY <1>2 DEF CreatedIsStored, RegisteredIsStored, PlacesAgree, CreatedOnce
<1> QED BY <1>4, <1>5, <1>6, <1>7, <1>8, <1>9

\* The insertion, whether the statement answers or not.
LEMMA RowsKept ==
    ASSUME TypeOK, NEW t \in Tasks, Busy(t),
           store' = Upserted(task[t].device, task[t].place)
    PROVE  /\ store' \in [Devices -> Places \cup {None}]
           /\ \A d \in Devices : d # task[t].device => store'[d] = store[d]
           /\ store'[task[t].device] # None
           /\ store[task[t].device] # None => store'[task[t].device] = store[task[t].device]
           /\ store[task[t].device] = None => store'[task[t].device] = task[t].place
<1>1. task[t].device \in Devices /\ task[t].place \in Places
    BY TaskFacts DEF TypeOK, TaskType
<1> QED BY <1>1, NoneAssumption DEF TypeOK, Upserted

\* The insertion of a registration that goes on.
LEMMA UpsertKeeps ==
    ASSUME IInv, NEW t \in Tasks, Upsert(t)
    PROVE  IInv'
<1> USE DEF IInv
<1>1. TypeOK /\ TaskType /\ Busy(t) /\ task[t].at = "upsert" /\ task[t].device \in Devices
    BY TaskFacts DEF TypeOK, TaskType, Upsert, Busy
<1>2. UNCHANGED <<registry, calls, faults, created, overlapped, halfDone>>
    BY DEF Upsert
<1>3. /\ TaskType'
      /\ \A u \in Tasks : u # t => task'[u] = task[u]
      /\ task'[t].at = "register"
      /\ task'[t].device = task[t].device /\ task'[t].place = task[t].place
    BY <1>1, GoingOn DEF Upsert
<1>4. /\ store' \in [Devices -> Places \cup {None}]
      /\ \A d \in Devices : d # task[t].device => store'[d] = store[d]
      /\ store'[task[t].device] # None
      /\ store[task[t].device] # None => store'[task[t].device] = store[task[t].device]
      /\ store[task[t].device] = None => store'[task[t].device] = task[t].place
    BY <1>1, RowsKept DEF Upsert
<1>5. \A u \in Tasks : Busy(u) => task[u].device \in Devices
    BY <1>1, TaskFacts
<1>6. TypeOK'
    BY <1>2, <1>3, <1>4 DEF TypeOK, TaskType
<1>7. OverlapsSeen'
    BY <1>1, <1>2, <1>3 DEF OverlapsSeen, Busy
<1>8. InsertedFirst'
    BY <1>3, <1>4, <1>5 DEF InsertedFirst, Busy
<1>9. RowAwaited'
    BY <1>1, <1>2, <1>3, <1>4 DEF RowAwaited
<1>10. PlaceAwaited'
  <2> SUFFICES ASSUME NEW u \in Tasks, task'[u].at = "register",
                      task'[u].device \notin overlapped \cup halfDone,
                      registry[task'[u].device] = None
               PROVE  store'[task'[u].device] = task'[u].place
      BY <1>2 DEF PlaceAwaited
  <2>1. CASE u = t
    <3>1. store[task[t].device] = None
        BY <1>1, <1>3, <2>1 DEF RowAwaited, OverlapsSeen, Busy
    <3> QED BY <1>3, <1>4, <2>1, <3>1
  <2>2. CASE u # t
    <3>1. task'[u] = task[u] /\ Busy(u)
        BY <1>3, <2>2 DEF Busy
    <3>2. task[u].device # task[t].device
        BY <1>1, <2>2, <3>1 DEF OverlapsSeen
    <3> QED BY <1>4, <1>5, <3>1, <3>2 DEF PlaceAwaited
  <2> QED BY <2>1, <2>2
<1>11. TestedAlone'
  <2> SUFFICES ASSUME NEW r \in Requests, task'[r].at \in {"upsert", "register"},
                      task'[r].device \notin overlapped
               PROVE  /\ created[task'[r].device] = 0
                      /\ task'[r].at = "upsert" => store'[task'[r].device] = None
      BY <1>2 DEF TestedAlone
  <2>1. r \in Tasks
      BY DEF Tasks
  <2>2. CASE r = t
      BY <1>1, <1>3, <2>2 DEF TestedAlone
  <2>3. CASE r # t
    <3>1. task'[r] = task[r] /\ Busy(r)
        BY <1>3, <2>1, <2>3 DEF Busy
    <3>2. task[r].device # task[t].device
        BY <1>1, <2>1, <2>3, <3>1 DEF OverlapsSeen
    <3> QED BY <1>4, <1>5, <2>1, <3>1, <3>2 DEF TestedAlone
  <2> QED BY <2>2, <2>3
<1>12. CreatedIsStored' /\ RegisteredIsStored' /\ PlacesAgree' /\ CreatedOnce'
    BY <1>1, <1>2, <1>4 DEF CreatedIsStored, RegisteredIsStored, PlacesAgree, CreatedOnce
<1> QED BY <1>6, <1>7, <1>8, <1>9, <1>10, <1>11, <1>12

\* The insertion of a registration that fails: the row may be there.
LEMMA UpsertFailsKeeps ==
    ASSUME IInv, NEW t \in Tasks, UpsertFails(t)
    PROVE  IInv'
<1> USE DEF IInv
<1>1. TypeOK /\ TaskType /\ Busy(t) /\ task[t].at = "upsert" /\ task[t].device \in Devices
    BY TaskFacts DEF TypeOK, TaskType, UpsertFails, Busy
<1>2. /\ UNCHANGED <<registry, calls, created, overlapped>>
      /\ faults < MaxFaults /\ faults' = faults + 1
    BY DEF UpsertFails
<1>3. /\ TaskType'
      /\ \A u \in Tasks : u # t => task'[u] = task[u]
      /\ task'[t].at = "idle"
    BY <1>1, Ending DEF UpsertFails
<1>4. /\ store' \in [Devices -> Places \cup {None}]
      /\ halfDone \subseteq halfDone' /\ halfDone' \subseteq Devices
      /\ \A d \in Devices : store'[d] # store[d] => d = task[t].device /\ d \in halfDone'
      /\ \A d \in Devices : store[d] # None => store'[d] = store[d]
  <2>1. CASE UNCHANGED <<store, halfDone>>
      BY <1>1, <2>1 DEF TypeOK
  <2>2. CASE /\ store' = Upserted(task[t].device, task[t].place)
             /\ halfDone' = halfDone \cup {task[t].device}
    <3>1. /\ store' \in [Devices -> Places \cup {None}]
          /\ \A d \in Devices : d # task[t].device => store'[d] = store[d]
          /\ store[task[t].device] # None => store'[task[t].device] = store[task[t].device]
        BY <1>1, <2>2, RowsKept
    <3> QED BY <1>1, <2>2, <3>1 DEF TypeOK
  <2> QED BY <2>1, <2>2 DEF UpsertFails
<1>5. \A u \in Tasks : Busy(u) => task[u].device \in Devices
    BY <1>1, TaskFacts
<1>6. TypeOK'
    BY <1>2, <1>3, <1>4, BoundsAssumption DEF TypeOK, TaskType
<1>7. OverlapsSeen'
    BY <1>2, <1>3 DEF OverlapsSeen, Busy
<1>8. InsertedFirst'
    BY <1>3, <1>4, <1>5 DEF InsertedFirst, Busy
<1>9. RowAwaited'
    BY <1>1, <1>2, <1>3, <1>4 DEF RowAwaited
<1>10. PlaceAwaited'
    BY <1>2, <1>3, <1>4, <1>5 DEF PlaceAwaited, Busy
<1>11. TestedAlone'
  <2> SUFFICES ASSUME NEW r \in Requests, task'[r].at \in {"upsert", "register"},
                      task'[r].device \notin overlapped
               PROVE  /\ created[task'[r].device] = 0
                      /\ task'[r].at = "upsert" => store'[task'[r].device] = None
      BY <1>2 DEF TestedAlone
  <2>1. r \in Tasks /\ r # t
      BY <1>3 DEF Tasks
  <2>2. task'[r] = task[r] /\ Busy(r)
      BY <1>3, <2>1 DEF Busy
  <2>3. task[r].device # task[t].device
      BY <1>1, <2>1, <2>2 DEF OverlapsSeen
  <2> QED BY <1>4, <1>5, <2>1, <2>2, <2>3 DEF TestedAlone
<1>12. CreatedIsStored' /\ RegisteredIsStored' /\ PlacesAgree' /\ CreatedOnce'
    BY <1>2, <1>4 DEF CreatedIsStored, RegisteredIsStored, PlacesAgree, CreatedOnce
<1> QED BY <1>6, <1>7, <1>8, <1>9, <1>10, <1>11, <1>12

\* The registration.
LEMMA RegisterKeeps ==
    ASSUME IInv, NEW t \in Tasks, Register(t)
    PROVE  /\ IInv'
           /\ \A d \in Devices : registry[d] # None => registry'[d] = registry[d]
<1> USE DEF IInv
<1>1. /\ TypeOK /\ TaskType /\ Busy(t) /\ task[t].at = "register"
      /\ task[t].device \in Devices /\ task[t].place \in Places
    BY TaskFacts DEF TypeOK, TaskType, Register, Busy
<1>2. UNCHANGED <<store, calls, faults, overlapped, halfDone>>
    BY DEF Register
<1>3. /\ TaskType'
      /\ \A u \in Tasks : u # t => task'[u] = task[u]
      /\ task'[t].at = "idle"
    BY <1>1, Ending DEF Register
<1>4. /\ registry' \in [Devices -> Places \cup {None}]
      /\ \A d \in Devices : d # task[t].device => registry'[d] = registry[d]
      /\ registry'[task[t].device] # None
      /\ registry[task[t].device] # None => registry'[task[t].device] = registry[task[t].device]
      /\ registry[task[t].device] = None => registry'[task[t].device] = task[t].place
    BY <1>1, NoneAssumption DEF TypeOK, Register
<1>5. /\ created' \in [Devices -> Nat]
      /\ \A d \in Devices : d # task[t].device => created'[d] = created[d]
      /\ created'[task[t].device] \in {created[task[t].device], created[task[t].device] + 1}
      /\ t \notin Requests => created' = created
    BY <1>1 DEF TypeOK, Register, Tasks
<1>6. \A u \in Tasks : Busy(u) => task[u].device \in Devices
    BY <1>1, TaskFacts
<1>7. TypeOK'
    BY <1>2, <1>3, <1>4, <1>5 DEF TypeOK, TaskType
<1>8. OverlapsSeen'
    BY <1>2, <1>3 DEF OverlapsSeen, Busy
<1>9. InsertedFirst'
    BY <1>2, <1>3 DEF InsertedFirst
<1>10. RowAwaited'
    BY <1>1, <1>2, <1>3, <1>4 DEF RowAwaited
<1>11. PlaceAwaited'
    BY <1>2, <1>3, <1>4, <1>6 DEF PlaceAwaited, Busy
<1>12. TestedAlone'
  <2> SUFFICES ASSUME NEW r \in Requests, task'[r].at \in {"upsert", "register"},
                      task'[r].device \notin overlapped
               PROVE  /\ created'[task'[r].device] = 0
                      /\ task'[r].at = "upsert" => store[task'[r].device] = None
      BY <1>2 DEF TestedAlone
  <2>1. r \in Tasks /\ r # t
      BY <1>3 DEF Tasks
  <2>2. task'[r] = task[r] /\ Busy(r)
      BY <1>3, <2>1 DEF Busy
  <2>3. task[r].device # task[t].device
      BY <1>1, <2>1, <2>2, <1>2 DEF OverlapsSeen
  <2> QED BY <1>5, <1>6, <2>1, <2>2, <2>3 DEF TestedAlone
<1>13. CreatedIsStored' /\ RegisteredIsStored'
    BY <1>1, <1>2, <1>4, <1>5 DEF CreatedIsStored, RegisteredIsStored, InsertedFirst
<1>14. PlacesAgree'
    BY <1>1, <1>2, <1>4 DEF PlacesAgree, PlaceAwaited
<1>15. CreatedOnce'
  <2> SUFFICES ASSUME NEW d \in Devices \ overlapped PROVE created'[d] <= 1
      BY <1>2 DEF CreatedOnce
  <2>1. created[d] \in Nat /\ created[d] <= 1
      BY <1>1 DEF TypeOK, CreatedOnce
  <2>2. CASE d = task[t].device /\ t \in Requests
    <3>1. created[d] = 0
        BY <1>1, <2>2 DEF TestedAlone
    <3> QED BY <1>5, <2>2, <3>1
  <2>3. CASE d # task[t].device \/ t \notin Requests
      BY <1>5, <2>1, <2>3
  <2> QED BY <2>2, <2>3
<1>16. IInv'
    BY <1>7, <1>8, <1>9, <1>10, <1>11, <1>12, <1>13, <1>14, <1>15
<1> QED BY <1>4, <1>16

\* A restart loads what the table has.
LEMMA RestartKeeps ==
    ASSUME IInv, Restart
    PROVE  /\ IInv'
           /\ \A d \in Devices \ (overlapped \cup halfDone) :
                 registry[d] # None => registry'[d] = registry[d]
<1> USE DEF IInv
<1>1. /\ registry' = store /\ faults < MaxFaults /\ faults' = faults + 1
      /\ UNCHANGED <<store, calls, created, overlapped, halfDone>>
    BY DEF Restart, Loaded
<1>2. TaskType' /\ \A t \in Tasks : task'[t].at = "idle"
    BY DEF Restart, TaskType, Idle
<1>3. TypeOK'
    BY <1>1, <1>2, BoundsAssumption DEF TypeOK, TaskType
<1>4. OverlapsSeen' /\ InsertedFirst' /\ PlaceAwaited'
    BY <1>2 DEF OverlapsSeen, InsertedFirst, PlaceAwaited, Busy
<1>5. RowAwaited' /\ RegisteredIsStored' /\ PlacesAgree'
    BY <1>1 DEF RowAwaited, RegisteredIsStored, PlacesAgree
<1>6. TestedAlone'
    BY <1>2 DEF TestedAlone, Tasks
<1>7. CreatedIsStored' /\ CreatedOnce'
    BY <1>1 DEF CreatedIsStored, CreatedOnce
<1>8. \A d \in Devices \ (overlapped \cup halfDone) :
         registry[d] # None => registry'[d] = registry[d]
    BY <1>1 DEF PlacesAgree
<1> QED BY <1>3, <1>4, <1>5, <1>6, <1>7, <1>8
-----------------------------------------------------------------------------
(* The theorems.                                                               *)

LEMMA InitEstablishes ==
    ASSUME Init
    PROVE  IInv
<1>1. TypeOK
    BY BoundsAssumption DEF Init, TypeOK
<1>2. \A t \in Tasks : task[t].at = "idle"
    BY DEF Init, Idle
<1>3. OverlapsSeen /\ InsertedFirst /\ PlaceAwaited /\ TestedAlone
    BY <1>2 DEF OverlapsSeen, InsertedFirst, PlaceAwaited, TestedAlone, Busy, Tasks
<1>4. RowAwaited /\ CreatedIsStored /\ RegisteredIsStored /\ PlacesAgree /\ CreatedOnce
    BY DEF Init, RowAwaited, CreatedIsStored, RegisteredIsStored, PlacesAgree, CreatedOnce
<1> QED BY <1>1, <1>3, <1>4 DEF IInv

\* Every step keeps the invariant, and no step moves a registered device unless
\* registrations of it overlapped or failed half way.
LEMMA NextKeeps ==
    ASSUME IInv, [Next]_vars
    PROVE  /\ IInv'
           /\ \A d \in Devices \ (overlapped' \cup halfDone') :
                 registry[d] # None => registry'[d] = registry[d]
<1>1. ASSUME NEW t \in Tasks, NEW d \in Devices, NEW place \in Places,
             NEW label \in {"exists", "upsert"}, Begin(t, d, place, label),
             label = "upsert" => t \notin Requests
      PROVE  IInv' /\ registry' = registry
    BY <1>1, BeginKeeps DEF Begin
<1>2. ASSUME NEW d \in Devices, NEW place \in Places, BeginProvision(d, place)
      PROVE  IInv' /\ registry' = registry
    BY <1>1, <1>2, HandlerAssumption DEF BeginProvision, Tasks
<1>3. ASSUME NEW r \in Requests, NEW d \in Devices, NEW place \in Places,
             BeginRequest(r, d, place)
      PROVE  IInv' /\ registry' = registry
    BY <1>1, <1>3 DEF BeginRequest, Tasks
<1>4. ASSUME NEW t \in Tasks, Upsert(t)
      PROVE  IInv' /\ registry' = registry
    BY <1>4, UpsertKeeps DEF Upsert
<1>5. ASSUME NEW t \in Tasks, Register(t)
      PROVE  /\ IInv'
             /\ \A d \in Devices : registry[d] # None => registry'[d] = registry[d]
    BY <1>5, RegisterKeeps
<1>6. ASSUME NEW r \in Requests, Exists(r)
      PROVE  IInv' /\ registry' = registry
    BY <1>6, ExistsKeeps DEF Exists
<1>7. ASSUME NEW t \in Tasks, UpsertFails(t)
      PROVE  IInv' /\ registry' = registry
    BY <1>7, UpsertFailsKeeps DEF UpsertFails
<1>8. CASE Restart
    BY <1>8, RestartKeeps DEF Restart
<1>9. CASE UNCHANGED vars
    BY <1>9 DEF vars, IInv, TypeOK, OverlapsSeen, InsertedFirst, RowAwaited, PlaceAwaited,
                TestedAlone, CreatedIsStored, RegisteredIsStored, PlacesAgree, CreatedOnce, Busy
<1> QED BY <1>2, <1>3, <1>4, <1>5, <1>6, <1>7, <1>8, <1>9 DEF Next, TaskStep

LEMMA Invariance == Spec => []IInv
<1>1. Init => IInv
    BY InitEstablishes
<1>2. IInv /\ [Next]_vars => IInv'
    BY NextKeeps
<1> QED BY <1>1, <1>2, PTL DEF Spec

\* Every variable of Provisioning keeps its type (TypeOK).
THEOREM TypeCorrect == Spec => []TypeOK
<1>1. IInv => TypeOK
    BY DEF IInv
<1> QED BY <1>1, Invariance, PTL

\* A stored device is registered once nobody is registering it, unless the
\* statement that wrote its row was reported as failed.
LEMMA StoredIsKnown == Spec => []StoredIsRegistered
<1>1. IInv => StoredIsRegistered
  <2> SUFFICES ASSUME IInv, NEW d \in Devices \ halfDone, store[d] # None, ~UnderWay(d)
               PROVE  registry[d] # None
      BY DEF StoredIsRegistered
  <2>1. ASSUME NEW t \in Tasks, task[t].at = "register", task[t].device = d
        PROVE  FALSE
      BY <2>1 DEF UnderWay, Idle
  <2> QED BY <2>1 DEF IInv, RowAwaited
<1> QED BY <1>1, Invariance, PTL

\* For any number of requests, failures and restarts: no device is registered that
\* a restart would forget, as in ProcessProvisioning and in POST /api/devices the
\* row is there first; what is stored is registered in the end; and both agree on
\* every device whose registrations neither overlapped nor failed half way.
THEOREM Agreement == Spec => []TableAndRegistryAgree
<1>1. IInv => RegisteredIsStored /\ PlacesAgree
    BY DEF IInv
<1>2. RegisteredIsStored /\ PlacesAgree /\ StoredIsRegistered => TableAndRegistryAgree
    BY DEF TableAndRegistryAgree
<1> QED BY <1>1, <1>2, Invariance, StoredIsKnown, PTL

\* A device is created once, unless registrations of it overlapped: the test of
\* the endpoint and its insertion are two statements.
THEOREM CreatedAtMostOnce == Spec => []CreatedOnce
<1>1. IInv => CreatedOnce
    BY DEF IInv
<1> QED BY <1>1, Invariance, PTL

\* A registered device stays where it is, through repeated provisioning and
\* restarts, unless registrations of it overlapped or failed half way.
THEOREM PlaceStays == Spec => PlaceKept
<1>1. IInv /\ [Next]_vars =>
        [\A d \in Devices \ (overlapped' \cup halfDone') :
            registry[d] # None => registry'[d] = registry[d]]_vars
    BY NextKeeps
<1> QED BY <1>1, Invariance, PTL DEF Spec, PlaceKept
=============================================================================
