----------------------------- MODULE Provisioning -----------------------------
(* How a device comes into the database and the registry: the provisioning     *)
(* handler TelemetryProcessor.ProcessProvisioning, the registration endpoint   *)
(* POST /api/devices (Endpoints/DeviceEndpoints.cs), DeviceStore's queries and *)
(* the loading of the registry at startup (Program.cs).                        *)
(*                                                                             *)
(* The endpoint tests, inserts and registers in three steps with an await      *)
(* between them, the handler inserts and registers in two; requests and        *)
(* handler interleave.  A place is what the registry keeps of a device: its    *)
(* zone, subzone, chainage and category.                                       *)
EXTENDS Naturals, FiniteSets

CONSTANTS Devices,      \* device ids
          Places,       \* where a device can be registered
          Requests,     \* registration requests
          MaxCalls,     \* bound on the registrations started
          MaxFaults     \* bound on database failures and restarts

ASSUME BoundsAssumption == MaxCalls \in Nat /\ MaxFaults \in Nat

VARIABLES store,        \* the devices table: each device's place, None without a row
          registry,     \* DeviceRegistry
          task,         \* where the handler and each request is
          calls,        \* registrations started
          faults,       \* database failures and restarts so far
          created,      \* history: the requests' answers 201 per device
          overlapped,   \* history: devices of which two registrations were under way
                        \* at a time
          halfDone      \* history: devices whose row a failed registration wrote

vars == <<store, registry, task, calls, faults, created, overlapped, halfDone>>

None == "none"
Handler == "handler"
Tasks == Requests \cup {Handler}

ASSUME NoneAssumption == None \notin Places
ASSUME HandlerAssumption == Handler \notin Requests

Idle == [at |-> "idle"]

Init ==
    /\ store = [d \in Devices |-> None]
    /\ registry = [d \in Devices |-> None]
    /\ task = [t \in Tasks |-> Idle]
    /\ calls = 0 /\ faults = 0
    /\ created = [d \in Devices |-> 0]
    /\ overlapped = {} /\ halfDone = {}

Goto(t, label) == task' = [task EXCEPT ![t].at = label]

Finish(t) == task' = [task EXCEPT ![t] = Idle]

\* A registration of d has started and not ended.
UnderWay(d) == \E t \in Tasks : task[t] # Idle /\ task[t].device = d

Begin(t, d, place, label) ==
    /\ task[t] = Idle
    /\ calls < MaxCalls
    /\ calls' = calls + 1
    /\ task' = [task EXCEPT ![t] = [at |-> label, device |-> d, place |-> place]]
    /\ overlapped' = IF UnderWay(d) THEN overlapped \cup {d} ELSE overlapped
    /\ UNCHANGED <<store, registry, faults, created, halfDone>>

\* A provisioning message; messages are handled one at a time.
BeginProvision(d, place) == Begin(Handler, d, place, "upsert")

\* A valid POST /api/devices.
BeginRequest(r, d, place) == Begin(r, d, place, "exists")

\* Mutant: the endpoint does not look whether the device exists.
Exists_Untested(r) ==
    /\ task[r].at = "exists"
    /\ Goto(r, "upsert")
    /\ UNCHANGED <<store, registry, calls, faults, created, overlapped, halfDone>>

\* DeviceExists; then 409 Conflict, or the rest of the endpoint.
Exists(r) ==
    /\ task[r].at = "exists"
    /\ IF store[task[r].device] # None THEN Finish(r) ELSE Goto(r, "upsert")
    /\ UNCHANGED <<store, registry, calls, faults, created, overlapped, halfDone>>

\* Mutant: a conflict updates the place too.
Upserted_UpdatesPlace(d, place) == [store EXCEPT ![d] = place]

\* INSERT ... ON CONFLICT DO UPDATE, which leaves the place alone.
Upserted(d, place) == [store EXCEPT ![d] = IF @ = None THEN place ELSE @]

Upsert(t) ==
    /\ task[t].at = "upsert"
    /\ store' = Upserted(task[t].device, task[t].place)
    /\ Goto(t, "register")
    /\ UNCHANGED <<registry, calls, faults, created, overlapped, halfDone>>

\* UpsertDevice throws: the handler logs it, a request ends with an error.  The
\* row may have been written nevertheless, when the answer was lost.
UpsertFails(t) ==
    /\ task[t].at = "upsert"
    /\ faults < MaxFaults
    /\ faults' = faults + 1
    /\ \/ UNCHANGED <<store, halfDone>>
       \/ /\ store' = Upserted(task[t].device, task[t].place)
          /\ halfDone' = halfDone \cup {task[t].device}
    /\ Finish(t)
    /\ UNCHANGED <<registry, calls, created, overlapped>>

\* Register: TryAdd, which keeps a device that is registered already.
Register(t) ==
    /\ task[t].at = "register"
    /\ registry' = [registry EXCEPT ![task[t].device] = IF @ = None THEN task[t].place ELSE @]
    /\ created' = IF t = Handler THEN created ELSE [created EXCEPT ![task[t].device] = @ + 1]
    /\ Finish(t)
    /\ UNCHANGED <<store, calls, faults, overlapped, halfDone>>

\* Startup: every row of the table is registered.
Loaded == store

\* The backend stops, its statements end with it, and it starts again and loads
\* the registry before it serves anything.
Restart ==
    /\ faults < MaxFaults
    /\ faults' = faults + 1
    /\ registry' = Loaded
    /\ task' = [t \in Tasks |-> Idle]
    /\ UNCHANGED <<store, calls, created, overlapped, halfDone>>

TaskStep(t) == Upsert(t) \/ Register(t) \/ (t \in Requests /\ Exists(t))

Next ==
    \/ \E d \in Devices, place \in Places :
          BeginProvision(d, place) \/ \E r \in Requests : BeginRequest(r, d, place)
    \/ \E t \in Tasks : TaskStep(t) \/ UpsertFails(t)
    \/ Restart

Spec == Init /\ [][Next]_vars
-----------------------------------------------------------------------------
Working == [at : {"exists", "upsert", "register"}, device : Devices, place : Places]

\* Every variable has its type.
TypeOK ==
    /\ store \in [Devices -> Places \cup {None}]
    /\ registry \in [Devices -> Places \cup {None}]
    /\ task \in [Tasks -> {Idle} \cup Working]
    /\ calls \in 0 .. MaxCalls /\ faults \in 0 .. MaxFaults
    /\ created \in [Devices -> Nat]
    /\ overlapped \subseteq Devices /\ halfDone \subseteq Devices

\* No device is registered that a restart would forget: in every interleaving,
\* failure and crash the row is there first.
RegisteredIsStored == \A d \in Devices : registry[d] # None => store[d] # None

\* A device of the table is known to the registry as soon as no registration of
\* it is under way, however they overlapped, unless one that reported a failure
\* wrote the row (such a device's telemetry is dropped until it is provisioned
\* again or the backend restarts).
StoredIsRegistered ==
    \A d \in Devices \ halfDone : store[d] # None /\ ~UnderWay(d) => registry[d] # None

\* Registry and table agree on where a device is, unless two registrations of it
\* overlapped or one failed half way: then the one that inserts first and the one
\* that registers first may be different, until a restart.
PlacesAgree ==
    \A d \in Devices \ (overlapped \cup halfDone) :
        registry[d] # None => registry[d] = store[d]

\* What the table and the registry know of the devices fits together.
TableAndRegistryAgree == RegisteredIsStored /\ StoredIsRegistered /\ PlacesAgree

\* A registered device stays where it is, through repeated provisioning and
\* restarts, as long as registrations of it do not overlap or fail half way.
PlaceKept ==
    [][\A d \in Devices \ (overlapped' \cup halfDone') :
          registry[d] # None => registry'[d] = registry[d]]_vars

\* Without overlaps at most one request is told that it created the device.
CreatedOnce == \A d \in Devices \ overlapped : created[d] <= 1
=============================================================================
