--------------------------- MODULE DeviceRegistry ---------------------------
(* backend/Services/State/DeviceRegistry.cs: a ConcurrentDictionary of         *)
(* immutable device states, updated by loops that read a state, build the next *)
(* one and try to put it in the place of the one read.  The telemetry consumer *)
(* writes LastSeenUtc and BatteryPct, command threads write Override, all of   *)
(* them in the same state object.                                              *)
EXTENDS Naturals

CONSTANTS Devices,     \* device ids
          Threads,     \* threads that call the registry
          Overrides,   \* device overrides
          MaxStamp,    \* bound on the arrival stamps of telemetry
          MaxCalls     \* bound on the calls in one run

ASSUME StampAssumption == MaxStamp \in Nat /\ MaxCalls \in Nat

VARIABLES devices,   \* _devices
          thread,    \* where each thread is in its call
          result,    \* what the last call of each thread returned
          calls      \* calls made so far

vars == <<devices, thread, result, calls>>

\* The registry's promise, and the vocabulary of states, calls and outcomes.
Atomic == INSTANCE AtomicRegistry WITH
    call <- [t \in Threads |-> IF thread[t].at = "idle" THEN [type |-> "none"]
                                           ELSE thread[t].op]

Idle == [at |-> "idle"]

Init ==
    /\ devices = [d \in Devices |-> Atomic!Absent]
    /\ thread = [t \in Threads |-> Idle]
    /\ result = [t \in Threads |-> Atomic!NoResult]
    /\ calls = 0

Call(t, op) ==
    /\ thread[t] = Idle
    /\ calls < MaxCalls
    /\ thread' = [thread EXCEPT ![t] = [at |-> "called", op |-> op]]
    /\ calls' = calls + 1
    /\ UNCHANGED <<devices, result>>

Return(t, r) ==
    /\ result' = [result EXCEPT ![t] = r]
    /\ thread' = [thread EXCEPT ![t] = Idle]

\* Mutant: the dictionary's indexer in place of TryAdd, which overwrites.
Register_Overwrites(t) ==
    /\ thread[t].at = "called"
    /\ thread[t].op.type = "register"
    /\ devices' = [devices EXCEPT ![thread[t].op.device] = Atomic!Fresh]
    /\ Return(t, [done |-> TRUE])
    /\ UNCHANGED calls

\* Register: TryAdd, which the dictionary makes atomic.
Register(t) ==
    /\ thread[t].at = "called"
    /\ thread[t].op.type = "register"
    /\ LET d == thread[t].op.device
       IN  IF devices[d].registered
           THEN devices' = devices /\ Return(t, [done |-> FALSE])
           ELSE /\ devices' = [devices EXCEPT ![d] = Atomic!Fresh]
                /\ Return(t, [done |-> TRUE])
    /\ UNCHANGED calls

\* TryGetValue finds no device: UnknownDevice, or false.
ReadUnknown(t) ==
    /\ thread[t].at = "called"
    /\ thread[t].op.type # "register"
    /\ ~devices[thread[t].op.device].registered
    /\ Return(t, [done |-> FALSE])
    /\ UNCHANGED <<devices, calls>>

\* RecordTelemetry reads a state at least as recent: Stale.
ReadStale(t) ==
    /\ thread[t].at = "called"
    /\ thread[t].op.type = "telemetry"
    /\ LET state == devices[thread[t].op.device]
       IN  state.registered /\ thread[t].op.at <= state.lastSeen
    /\ Return(t, [done |-> FALSE, stale |-> TRUE])
    /\ UNCHANGED <<devices, calls>>

\* TryGetValue finds a state to change.
Read(t) ==
    /\ thread[t].at = "called"
    /\ thread[t].op.type # "register"
    /\ LET state == devices[thread[t].op.device]
       IN  /\ state.registered
           /\ thread[t].op.type = "telemetry" => thread[t].op.at > state.lastSeen
           /\ thread' = [thread EXCEPT ![t] = [at |-> "read", op |-> @.op, current |-> state]]
    /\ UNCHANGED <<devices, result, calls>>

\* Mutant: the new state is stored whatever the dictionary holds by now.
UpdateDone_NoCompare(t) ==
    /\ thread[t].at = "read"
    /\ LET op == thread[t].op
           current == thread[t].current
       IN  /\ devices' = [devices EXCEPT ![op.device] = Atomic!Changed(op, current)]
           /\ Return(t, [done |-> TRUE, before |-> current])
    /\ UNCHANGED calls

\* TryUpdate succeeds: the state in the dictionary equals, field by field, the one read.
UpdateDone(t) ==
    /\ thread[t].at = "read"
    /\ LET op == thread[t].op
           current == thread[t].current
       IN  /\ devices[op.device] = current
           /\ devices' = [devices EXCEPT ![op.device] = Atomic!Changed(op, current)]
           /\ Return(t, [done |-> TRUE, before |-> current])
    /\ UNCHANGED calls

\* Mutant: the loop tries again with the state it read first.
UpdateLost_NoReread(t) ==
    /\ thread[t].at = "read"
    /\ devices[thread[t].op.device] # thread[t].current
    /\ UNCHANGED vars

\* TryUpdate fails: the loop starts again.
UpdateLost(t) ==
    /\ thread[t].at = "read"
    /\ devices[thread[t].op.device] # thread[t].current
    /\ thread' = [thread EXCEPT ![t] = [at |-> "called", op |-> @.op]]
    /\ UNCHANGED <<devices, result, calls>>

Step(t) ==
    \/ Register(t) \/ ReadUnknown(t) \/ ReadStale(t)
    \/ Read(t) \/ UpdateDone(t) \/ UpdateLost(t)

Next == \E t \in Threads : Step(t) \/ \E op \in Atomic!Op : Call(t, op)

Spec == Init /\ [][Next]_vars

\* A thread inside a call is scheduled; nothing obliges calls to be made.
FairSpec == Spec /\ \A t \in Threads : WF_vars(Step(t))
-----------------------------------------------------------------------------
ThreadState ==
    {Idle} \cup [at : {"called"}, op : Atomic!Op]
           \cup [at : {"read"}, op : Atomic!Op, current : Atomic!State]

\* Every variable has its type.
TypeOK ==
    /\ devices \in [Devices -> Atomic!State]
    /\ thread \in [Threads -> ThreadState]
    /\ calls \in 0 .. MaxCalls

\* A thread that goes on to TryUpdate read a registered device it may change.
ReadJustified ==
    \A t \in Threads :
        thread[t].at = "read" =>
            /\ thread[t].op.type # "register"
            /\ thread[t].current.registered
            /\ thread[t].op.type = "telemetry" => thread[t].op.at > thread[t].current.lastSeen

\* Whatever calls race, a device's LastSeenUtc never goes back and a registered
\* device stays registered.
LastSeenMonotone ==
    [][\A d \in Devices :
          /\ devices'[d].lastSeen >= devices[d].lastSeen
          /\ devices[d].registered => devices'[d].registered]_vars

\* The loops implement the atomic registry: no telemetry and no override is
\* lost to a concurrent update, and TryApply reports the very state it replaced.
ImplementsAtomic == Atomic!Spec

\* Every call returns: a TryUpdate fails only because another call succeeded, so
\* finitely many calls cannot keep a loop from ending.
CallsReturn == <>[](\A t \in Threads : thread[t] = Idle)
=============================================================================
