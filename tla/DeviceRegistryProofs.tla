------------------------ MODULE DeviceRegistryProofs ------------------------
(* Theorems about DeviceRegistry for any devices, threads and overrides.       *)
EXTENDS DeviceRegistry, TLAPS

\* Calls name a device and have one of four types.
LEMMA OpFacts ==
    \A op \in Atomic!Op :
        /\ op.device \in Devices
        /\ op.type \in {"register", "telemetry", "set", "restore"}
        /\ op.type = "telemetry" => op.at \in 1 .. MaxStamp /\ op.battery \in 0 .. MaxStamp
        /\ op.type = "set" => op.to \in Overrides
        /\ op.type = "restore" => op.to \in Overrides \cup {Atomic!None}
BY DEF Atomic!Op

\* A change makes a state of a state.
LEMMA ChangedType ==
    ASSUME NEW op \in Atomic!Op, op.type # "register", NEW state \in Atomic!State
    PROVE  Atomic!Changed(op, state) \in Atomic!State
<1>1. CASE op.type = "telemetry"
  <2>1. op.at \in 0 .. MaxStamp /\ op.battery \in 0 .. MaxStamp
    BY <1>1, OpFacts, StampAssumption
  <2>2. Atomic!Changed(op, state) = [state EXCEPT !.lastSeen = op.at, !.battery = op.battery]
    BY <1>1 DEF Atomic!Changed
  <2> QED
    BY <2>1, <2>2 DEF Atomic!State
<1>2. CASE op.type = "set"
  BY <1>2, OpFacts DEF Atomic!Changed, Atomic!State
<1>3. CASE op.type = "restore"
  <2>1. (IF state.override = op.from THEN op.to ELSE state.override) \in Overrides \cup {Atomic!None}
    BY <1>3, OpFacts DEF Atomic!State
  <2>2. Atomic!Changed(op, state) =
          [state EXCEPT !.override = IF state.override = op.from THEN op.to ELSE state.override]
    BY <1>3 DEF Atomic!Changed
  <2> QED
    BY <2>1, <2>2 DEF Atomic!State
<1> QED
  BY <1>1, <1>2, <1>3, OpFacts

\* A new device has a state.
LEMMA FreshType == Atomic!Fresh \in Atomic!State /\ Atomic!Absent \in Atomic!State
<1>1. 0 \in 0 .. MaxStamp
  BY StampAssumption
<1>2. Atomic!Absent \in Atomic!State
  BY <1>1 DEF Atomic!Absent, Atomic!State
<1>3. Atomic!Fresh \in Atomic!State
  BY <1>2 DEF Atomic!Fresh, Atomic!State
<1> QED
  BY <1>2, <1>3

\* The states of a thread.
LEMMA ThreadFacts ==
    ASSUME NEW s \in ThreadState
    PROVE  /\ s.at \in {"idle", "called", "read"}
           /\ s.at = "idle" <=> s = Idle
           /\ s.at # "idle" => s.op \in Atomic!Op
           /\ s.at = "read" => s.current \in Atomic!State
<1>1. CASE s = Idle
  BY <1>1 DEF Idle
<1>2. CASE s \in [at : {"called"}, op : Atomic!Op]
  BY <1>2 DEF Idle
<1>3. CASE s \in [at : {"read"}, op : Atomic!Op, current : Atomic!State]
  BY <1>3 DEF Idle
<1> QED
  BY <1>1, <1>2, <1>3 DEF ThreadState

\* A device that is not registered has no telemetry.
UnregisteredUnseen == \A d \in Devices : ~devices[d].registered => devices[d].lastSeen = 0

\* The part of the invariant that concerns types and reads.
Base == TypeOK /\ ReadJustified

\* The inductive invariant.
IInv == Base /\ UnregisteredUnseen

\* The initial state satisfies the invariant.
LEMMA InvInit == Init => IInv
<1> SUFFICES ASSUME Init PROVE IInv
  OBVIOUS
<1>1. /\ devices = [d \in Devices |-> Atomic!Absent]
      /\ thread = [t \in Threads |-> Idle] /\ calls = 0
  BY DEF Init
<1>2. Idle \in ThreadState
  BY DEF ThreadState
<1>3. TypeOK
  BY <1>1, <1>2, FreshType, StampAssumption DEF TypeOK
<1>4. ReadJustified
  BY <1>1 DEF ReadJustified, Idle
<1>5. UnregisteredUnseen
  BY <1>1 DEF UnregisteredUnseen, Atomic!Absent
<1> QED
  BY <1>3, <1>4, <1>5 DEF IInv, Base

\* Steps preserve the types and what a read justifies.
LEMMA BaseStep == Base /\ [Next]_vars => Base'
<1> SUFFICES ASSUME Base, [Next]_vars PROVE Base'
  OBVIOUS
<1>0. /\ devices \in [Devices -> Atomic!State]
      /\ thread \in [Threads -> ThreadState]
      /\ calls \in 0 .. MaxCalls
      /\ ReadJustified
  BY DEF Base, TypeOK
<1>1. ASSUME NEW t \in Threads, NEW op \in Atomic!Op, Call(t, op)
      PROVE  Base'
  <2>1. [at |-> "called", op |-> op] \in ThreadState
    BY DEF ThreadState
  <2>2. TypeOK'
    BY <1>0, <1>1, <2>1, StampAssumption DEF Call, TypeOK
  <2>3. ReadJustified'
    BY <1>0, <1>1 DEF Call, ReadJustified
  <2> QED
    BY <2>2, <2>3 DEF Base
<1>2. ASSUME NEW t \in Threads, Step(t)
      PROVE  Base'
  <2>0. /\ thread[t].op \in Atomic!Op
        /\ thread[t].op.device \in Devices
        /\ devices[thread[t].op.device] \in Atomic!State
    <3>1. thread[t] \in ThreadState /\ thread[t].at # "idle"
      BY <1>0, <1>2 DEF Step, Register, ReadUnknown, ReadStale, Read, UpdateDone, UpdateLost
    <3> QED
      BY <1>0, <3>1, ThreadFacts, OpFacts
  <2>1. Idle \in ThreadState
    BY DEF ThreadState
  <2>2. CASE Register(t) \/ ReadUnknown(t) \/ ReadStale(t)
    <3>1. devices' \in [Devices -> Atomic!State]
      BY <1>0, <2>2, FreshType DEF Register, ReadUnknown, ReadStale
    <3>2. thread' = [thread EXCEPT ![t] = Idle] /\ calls' = calls
      BY <2>2 DEF Register, ReadUnknown, ReadStale, Return
    <3> QED
      BY <1>0, <2>1, <3>1, <3>2 DEF Base, TypeOK, ReadJustified, Idle
  <2>3. CASE Read(t)
    <3> DEFINE new == [at |-> "read", op |-> thread[t].op,
                       current |-> devices[thread[t].op.device]]
    <3>1. new \in ThreadState
      BY <2>0 DEF ThreadState
    <3>2. /\ thread' = [thread EXCEPT ![t] = new] /\ devices' = devices /\ calls' = calls
          /\ new.op.type # "register" /\ new.current.registered
          /\ new.op.type = "telemetry" => new.op.at > new.current.lastSeen
      BY <2>3 DEF Read
    <3> HIDE DEF new
    <3> QED
      BY <1>0, <3>1, <3>2 DEF Base, TypeOK, ReadJustified
  <2>4. CASE UpdateDone(t)
    <3>1. /\ thread[t].at = "read" /\ thread[t].op.type # "register"
          /\ thread[t].current \in Atomic!State
      BY <1>0, <2>4, ThreadFacts DEF UpdateDone, ReadJustified
    <3>2. Atomic!Changed(thread[t].op, thread[t].current) \in Atomic!State
      BY <2>0, <3>1, ChangedType
    <3>3. devices' = [devices EXCEPT ![thread[t].op.device] =
                         Atomic!Changed(thread[t].op, thread[t].current)]
      BY <2>4 DEF UpdateDone
    <3>4. devices' \in [Devices -> Atomic!State]
      BY <1>0, <3>2, <3>3
    <3>5. thread' = [thread EXCEPT ![t] = Idle] /\ calls' = calls
      BY <2>4 DEF UpdateDone, Return
    <3> QED
      BY <1>0, <2>1, <3>4, <3>5 DEF Base, TypeOK, ReadJustified, Idle
  <2>5. CASE UpdateLost(t)
    <3> DEFINE new == [at |-> "called", op |-> thread[t].op]
    <3>1. new \in ThreadState
      BY <2>0 DEF ThreadState
    <3>2. thread' = [thread EXCEPT ![t] = new] /\ devices' = devices /\ calls' = calls
      BY <2>5 DEF UpdateLost
    <3>3. new.at = "called"
      OBVIOUS
    <3> HIDE DEF new
    <3> QED
      BY <1>0, <3>1, <3>2, <3>3 DEF Base, TypeOK, ReadJustified
  <2> QED
    BY <1>2, <2>2, <2>3, <2>4, <2>5 DEF Step
<1>3. CASE UNCHANGED vars
  BY <1>0, <1>3 DEF Base, TypeOK, ReadJustified, vars
<1> QED
  BY <1>1, <1>2, <1>3 DEF Next

\* A step changes at most the device of its call: it registers it, or puts in
\* place a change of the very state the device has.
LEMMA DeviceStep ==
    ASSUME Base, NEW t \in Threads, Step(t)
    PROVE  LET op == thread[t].op
           IN  \/ devices' = devices
               \/ /\ ~devices[op.device].registered
                  /\ devices' = [devices EXCEPT ![op.device] = Atomic!Fresh]
               \/ /\ devices[op.device].registered
                  /\ op.type = "telemetry" => op.at > devices[op.device].lastSeen
                  /\ op.type # "register"
                  /\ devices' = [devices EXCEPT ![op.device] =
                                    Atomic!Changed(op, devices[op.device])]
BY DEF Step, Register, ReadUnknown, ReadStale, Read, UpdateDone, UpdateLost, Base, ReadJustified

\* A change that is allowed does not turn LastSeenUtc back or unregister.
LEMMA ChangedForward ==
    ASSUME NEW op \in Atomic!Op, op.type # "register", NEW state \in Atomic!State,
           op.type = "telemetry" => op.at > state.lastSeen
    PROVE  /\ Atomic!Changed(op, state).lastSeen >= state.lastSeen
           /\ Atomic!Changed(op, state).registered = state.registered
<1>0. state.lastSeen \in Nat
  BY StampAssumption DEF Atomic!State
<1>1. CASE op.type = "telemetry"
  <2>1. Atomic!Changed(op, state) = [state EXCEPT !.lastSeen = op.at, !.battery = op.battery]
    BY <1>1 DEF Atomic!Changed
  <2>2. op.at \in Nat
    BY <1>1, OpFacts, StampAssumption
  <2> QED
    BY <1>0, <1>1, <2>1, <2>2 DEF Atomic!State
<1>2. CASE op.type \in {"set", "restore"}
  <2>1. \E o : Atomic!Changed(op, state) = [state EXCEPT !.override = o]
    BY <1>2 DEF Atomic!Changed
  <2> QED
    BY <1>0, <2>1 DEF Atomic!State
<1> QED
  BY <1>1, <1>2, OpFacts

\* The operation of a thread that takes a step.
LEMMA StepOp ==
    ASSUME Base, NEW t \in Threads, Step(t)
    PROVE  /\ thread[t].at # "idle"
           /\ thread[t].op \in Atomic!Op
           /\ thread[t].op.device \in Devices
           /\ devices[thread[t].op.device] \in Atomic!State
<1>1. thread[t] \in ThreadState /\ thread[t].at # "idle" /\ devices \in [Devices -> Atomic!State]
  BY DEF Base, TypeOK, Step, Register, ReadUnknown, ReadStale, Read, UpdateDone, UpdateLost
<1> QED
  BY <1>1, ThreadFacts, OpFacts

\* Steps turn no LastSeenUtc back, unregister nothing, and leave a device that
\* stays unregistered alone.
LEMMA ForwardStep ==
    ASSUME IInv, Next, NEW d \in Devices
    PROVE  /\ devices'[d].lastSeen >= devices[d].lastSeen
           /\ devices[d].registered => devices'[d].registered
           /\ ~devices'[d].registered => devices'[d] = devices[d]
<1>0. devices \in [Devices -> Atomic!State] /\ Base
  BY DEF IInv, Base, TypeOK
<1>1. devices[d].lastSeen \in Nat
  BY <1>0, StampAssumption DEF Atomic!State
<1>2. CASE devices' = devices
  BY <1>1, <1>2
<1>3. ASSUME NEW t \in Threads, Step(t), devices' # devices
      PROVE  /\ devices'[d].lastSeen >= devices[d].lastSeen
             /\ devices[d].registered => devices'[d].registered
             /\ ~devices'[d].registered => devices'[d] = devices[d]
  <2> DEFINE op == thread[t].op
             old == devices[op.device]
  <2>1. op \in Atomic!Op /\ op.device \in Devices /\ old \in Atomic!State
    BY <1>0, <1>3, StepOp
  <2>2. CASE ~old.registered /\ devices' = [devices EXCEPT ![op.device] = Atomic!Fresh]
    <3>1. Atomic!Fresh.lastSeen = 0 /\ Atomic!Fresh.registered
      BY DEF Atomic!Fresh, Atomic!Absent
    <3>2. old.lastSeen = 0
      BY <2>1, <2>2 DEF IInv, UnregisteredUnseen
    <3> QED
      BY <1>0, <1>1, <2>1, <2>2, <3>1, <3>2
  <2>3. CASE /\ old.registered
             /\ op.type = "telemetry" => op.at > old.lastSeen
             /\ op.type # "register"
             /\ devices' = [devices EXCEPT ![op.device] = Atomic!Changed(op, old)]
    <3>1. /\ Atomic!Changed(op, old).lastSeen >= old.lastSeen
          /\ Atomic!Changed(op, old).registered
      BY <2>1, <2>3, ChangedForward
    <3> QED
      BY <1>0, <1>1, <2>1, <2>3, <3>1
  <2> QED
    BY <1>0, <1>3, <2>2, <2>3, DeviceStep
<1> QED
  BY <1>2, <1>3 DEF Next, Call

\* The invariant is inductive.
LEMMA InvStep == IInv /\ [Next]_vars => IInv'
<1>1. IInv /\ Next => UnregisteredUnseen'
  BY ForwardStep DEF IInv, UnregisteredUnseen
<1>2. IInv /\ UNCHANGED vars => UnregisteredUnseen'
  BY DEF IInv, UnregisteredUnseen, vars
<1> QED
  BY <1>1, <1>2, BaseStep DEF IInv

\* The invariant holds in every reachable state.
LEMMA InvHolds == Spec => []IInv
BY InvInit, InvStep, PTL DEF Spec

\* TypeOK holds in every reachable state: whatever calls race, the dictionary
\* holds well-formed states.
THEOREM TypeCorrect == Spec => []TypeOK
BY InvHolds, PTL DEF IInv, Base

\* LastSeenUtc never goes back and registered devices stay, for any number of
\* threads racing on any number of devices.
THEOREM NeverBack == Spec => LastSeenMonotone
<1> DEFINE Forward == \A d \in Devices :
              /\ devices'[d].lastSeen >= devices[d].lastSeen
              /\ devices[d].registered => devices'[d].registered
<1>1. IInv /\ [Next]_vars => [Forward]_vars
  BY ForwardStep
<1> QED
  BY <1>1, InvHolds, PTL DEF Spec, LastSeenMonotone
-----------------------------------------------------------------------------
\* The abstract call of each thread.
AbsCall == [t \in Threads |-> IF thread[t].at = "idle" THEN [type |-> "none"]
                                                       ELSE thread[t].op]

\* A thread inside a call has its operation as the abstract call.
LEMMA AbsCallOf ==
    ASSUME Base, NEW t \in Threads, thread[t].at # "idle"
    PROVE  AbsCall[t] = thread[t].op /\ AbsCall[t] # Atomic!NoCall
<1>1. thread[t].op \in Atomic!Op
  BY ThreadFacts DEF Base, TypeOK
<1>2. thread[t].op.type # "none"
  BY <1>1, OpFacts
<1> QED
  BY <1>2 DEF AbsCall, Atomic!NoCall

\* A return ends the abstract call.
LEMMA AbsReturn ==
    ASSUME Base, NEW t \in Threads, thread' = [thread EXCEPT ![t] = Idle]
    PROVE  AbsCall' = [AbsCall EXCEPT ![t] = Atomic!NoCall]
<1>1. thread'[t].at = "idle"
  BY DEF Base, TypeOK, Idle
<1>2. \A u \in Threads \ {t} : thread'[u] = thread[u]
  BY DEF Base, TypeOK
<1>3. AbsCall'[t] = Atomic!NoCall
  BY <1>1 DEF AbsCall, Atomic!NoCall
<1>4. \A u \in Threads \ {t} : AbsCall'[u] = AbsCall[u]
  BY <1>2 DEF AbsCall
<1>5. AbsCall' = [u \in Threads |-> AbsCall'[u]] /\ AbsCall = [u \in Threads |-> AbsCall[u]]
  BY DEF AbsCall
<1> QED
  BY <1>3, <1>4, <1>5

\* A step that returns the outcome of the operation on the device's state, and
\* changes the device accordingly, is the abstract operation.
LEMMA ReturnPerforms ==
    ASSUME Base, NEW t \in Threads, Step(t),
           Return(t, Atomic!Outcome(thread[t].op, devices[thread[t].op.device])),
           calls' = calls,
           devices' = [devices EXCEPT ![thread[t].op.device] =
                         IF ~Atomic!Outcome(thread[t].op, devices[thread[t].op.device]).done THEN @
                         ELSE IF thread[t].op.type = "register" THEN Atomic!Fresh
                         ELSE Atomic!Changed(thread[t].op, @)]
    PROVE  Atomic!Perform(t)
<1>1. AbsCall[t] = thread[t].op /\ AbsCall[t] # Atomic!NoCall
  BY StepOp, AbsCallOf
<1>2. AbsCall' = [AbsCall EXCEPT ![t] = Atomic!NoCall]
  BY AbsReturn DEF Return
<1>3. result' = [result EXCEPT ![t] = Atomic!Outcome(AbsCall[t], devices[AbsCall[t].device])]
  BY <1>1 DEF Return
<1>4. devices' = [devices EXCEPT ![AbsCall[t].device] =
                    IF ~Atomic!Outcome(AbsCall[t], devices[AbsCall[t].device]).done THEN @
                    ELSE IF AbsCall[t].type = "register" THEN Atomic!Fresh
                    ELSE Atomic!Changed(AbsCall[t], @)]
  BY <1>1
<1>5. (/\ AbsCall[t] # Atomic!NoCall
       /\ result' = [result EXCEPT ![t] =
                        Atomic!Outcome(AbsCall[t], devices[AbsCall[t].device])]
       /\ devices' = [devices EXCEPT ![AbsCall[t].device] =
                         IF ~Atomic!Outcome(AbsCall[t], devices[AbsCall[t].device]).done THEN @
                         ELSE IF AbsCall[t].type = "register" THEN Atomic!Fresh
                         ELSE Atomic!Changed(AbsCall[t], @)]
       /\ AbsCall' = [AbsCall EXCEPT ![t] = Atomic!NoCall]
       /\ UNCHANGED calls)
      => Atomic!Perform(t)
  BY Zenon DEF Atomic!Perform, AbsCall
<1> QED
  BY <1>1, <1>2, <1>3, <1>4, <1>5

\* Every step of a thread is its abstract operation or changes nothing abstract.
LEMMA StepRefines ==
    ASSUME IInv, NEW t \in Threads, Step(t)
    PROVE  Atomic!Perform(t) \/ UNCHANGED <<devices, AbsCall, result, calls>>
<1> DEFINE op == thread[t].op
           old == devices[op.device]
<1>0. /\ Base /\ op \in Atomic!Op /\ op.device \in Devices /\ old \in Atomic!State
      /\ devices \in [Devices -> Atomic!State]
      /\ thread \in [Threads -> ThreadState]
  BY StepOp DEF IInv, Base, TypeOK
<1>1. CASE Register(t)
  <2>1. op.type = "register" /\ calls' = calls
    BY <1>1 DEF Register
  <2>2. CASE old.registered
    <3>1. devices' = devices /\ Return(t, [done |-> FALSE])
      BY <1>1, <2>2 DEF Register
    <3>2. Atomic!Outcome(op, old) = [done |-> FALSE]
      BY <2>1, <2>2 DEF Atomic!Outcome
    <3>3. devices' = [devices EXCEPT ![op.device] =
                      IF ~Atomic!Outcome(op, old).done THEN @
                      ELSE IF op.type = "register" THEN Atomic!Fresh
                      ELSE Atomic!Changed(op, @)]
      BY <1>0, <3>1, <3>2
    <3> QED
      BY <1>0, <2>1, <3>1, <3>2, <3>3, ReturnPerforms
  <2>3. CASE ~old.registered
    <3>1. /\ devices' = [devices EXCEPT ![op.device] = Atomic!Fresh]
          /\ Return(t, [done |-> TRUE])
      BY <1>1, <2>3 DEF Register
    <3>2. Atomic!Outcome(op, old) = [done |-> TRUE]
      BY <2>1, <2>3 DEF Atomic!Outcome
    <3>3. devices' = [devices EXCEPT ![op.device] =
                      IF ~Atomic!Outcome(op, old).done THEN @
                      ELSE IF op.type = "register" THEN Atomic!Fresh
                      ELSE Atomic!Changed(op, @)]
      BY <1>0, <2>1, <3>1, <3>2
    <3> QED
      BY <1>0, <2>1, <3>1, <3>2, <3>3, ReturnPerforms
  <2> QED
    BY <2>2, <2>3
<1>2. CASE ReadUnknown(t)
  <2>1. /\ op.type # "register" /\ ~old.registered /\ devices' = devices
        /\ Return(t, [done |-> FALSE]) /\ calls' = calls
    BY <1>2 DEF ReadUnknown
  <2>2. Atomic!Outcome(op, old) = [done |-> FALSE]
    BY <2>1 DEF Atomic!Outcome
  <2>3. devices' = [devices EXCEPT ![op.device] =
                      IF ~Atomic!Outcome(op, old).done THEN @
                      ELSE IF op.type = "register" THEN Atomic!Fresh
                      ELSE Atomic!Changed(op, @)]
    BY <1>0, <2>1, <2>2
  <2> QED
    BY <1>0, <2>1, <2>2, <2>3, ReturnPerforms
<1>3. CASE ReadStale(t)
  <2>1. /\ op.type = "telemetry" /\ old.registered /\ op.at <= old.lastSeen
        /\ devices' = devices
        /\ Return(t, [done |-> FALSE, stale |-> TRUE]) /\ calls' = calls
    BY <1>3 DEF ReadStale
  <2>2. Atomic!Outcome(op, old) = [done |-> FALSE, stale |-> TRUE]
    BY <2>1 DEF Atomic!Outcome, Atomic!Stale
  <2>3. devices' = [devices EXCEPT ![op.device] =
                      IF ~Atomic!Outcome(op, old).done THEN @
                      ELSE IF op.type = "register" THEN Atomic!Fresh
                      ELSE Atomic!Changed(op, @)]
    BY <1>0, <2>1, <2>2
  <2> QED
    BY <1>0, <2>1, <2>2, <2>3, ReturnPerforms
<1>4. CASE UpdateDone(t)
  <2>1. /\ thread[t].current = old
        /\ op.type # "register" /\ old.registered
        /\ op.type = "telemetry" => op.at > old.lastSeen
        /\ devices' = [devices EXCEPT ![op.device] = Atomic!Changed(op, old)]
        /\ Return(t, [done |-> TRUE, before |-> old]) /\ calls' = calls
    BY <1>0, <1>4 DEF UpdateDone, Base, ReadJustified
  <2>2. ~Atomic!Stale(op, old)
    <3>1. op.type = "telemetry" => op.at \in Nat /\ old.lastSeen \in Nat
      BY <1>0, OpFacts, StampAssumption DEF Atomic!State
    <3> QED
      BY <2>1, <3>1 DEF Atomic!Stale
  <2>3. Atomic!Outcome(op, old) = [done |-> TRUE, before |-> old]
    BY <2>1, <2>2 DEF Atomic!Outcome
  <2>4. devices' = [devices EXCEPT ![op.device] =
                      IF ~Atomic!Outcome(op, old).done THEN @
                      ELSE IF op.type = "register" THEN Atomic!Fresh
                      ELSE Atomic!Changed(op, @)]
    BY <1>0, <2>1, <2>3
  <2> QED
    BY <1>0, <2>1, <2>3, <2>4, ReturnPerforms
<1>5. CASE Read(t) \/ UpdateLost(t)
  <2>1. PICK new : /\ thread' = [thread EXCEPT ![t] = new]
                   /\ new.at # "idle" /\ new.op = op
                   /\ devices' = devices /\ result' = result /\ calls' = calls
    BY <1>5 DEF Read, UpdateLost
  <2>2. thread'[t].at # "idle" /\ thread'[t].op = op
    BY <1>0, <2>1
  <2>3. \A u \in Threads \ {t} : thread'[u] = thread[u]
    BY <1>0, <2>1
  <2>4. thread[t].at # "idle"
    BY <1>0, StepOp
  <2>5. AbsCall' = AbsCall
    BY <2>2, <2>3, <2>4 DEF AbsCall
  <2> QED
    BY <2>1, <2>5
<1> QED
  BY <1>1, <1>2, <1>3, <1>4, <1>5 DEF Step

\* The compare-and-swap loops implement the atomic registry: each call takes
\* effect at one instant, for any number of threads, devices and overrides.
THEOREM Implementation == Spec => ImplementsAtomic
<1>1. Init => Atomic!Init
  <2> SUFFICES ASSUME Init PROVE Atomic!Init
    OBVIOUS
  <2>1. AbsCall = [t \in Threads |-> Atomic!NoCall]
    BY DEF Init, AbsCall, Idle, Atomic!NoCall
  <2> QED
    BY <2>1 DEF Init, Atomic!Init, AbsCall
<1>2. IInv /\ [Next]_vars => [Atomic!Next]_(Atomic!registryVars)
  <2> SUFFICES ASSUME IInv, [Next]_vars
               PROVE  Atomic!Next \/ UNCHANGED <<devices, AbsCall, result, calls>>
    BY DEF Atomic!registryVars, AbsCall
  <2>0. Base /\ thread \in [Threads -> ThreadState]
    BY DEF IInv, Base, TypeOK
  <2>1. ASSUME NEW t \in Threads, NEW op \in Atomic!Op, Call(t, op)
        PROVE  Atomic!Call(t, op)
    <3>1. thread[t].at = "idle" /\ thread' = [thread EXCEPT ![t] = [at |-> "called", op |-> op]]
      BY <2>1 DEF Call, Idle
    <3>2. AbsCall[t] = Atomic!NoCall
      BY <3>1 DEF AbsCall, Atomic!NoCall
    <3>3. thread'[t].at = "called" /\ thread'[t].op = op
      BY <2>0, <3>1
    <3>4. \A u \in Threads \ {t} : thread'[u] = thread[u]
      BY <2>0, <3>1
    <3>5. AbsCall' = [AbsCall EXCEPT ![t] = op]
      BY <3>3, <3>4 DEF AbsCall
    <3> QED
      BY <2>1, <3>2, <3>5 DEF Call, Atomic!Call, AbsCall
  <2>2. ASSUME NEW t \in Threads, Step(t)
        PROVE  Atomic!Next \/ UNCHANGED <<devices, AbsCall, result, calls>>
    BY <2>2, StepRefines DEF Atomic!Next
  <2>3. CASE UNCHANGED vars
    BY <2>3 DEF vars, AbsCall
  <2> QED
    BY <2>1, <2>2, <2>3 DEF Next, Atomic!Next
<1> QED
  BY <1>1, <1>2, InvHolds, PTL DEF Spec, ImplementsAtomic, Atomic!Spec
=============================================================================
