--------------------------- MODULE AtomicRegistry ---------------------------
(* What the device registry promises its callers: every call takes effect at   *)
(* one instant between its start and its return.                               *)
EXTENDS Naturals

CONSTANTS Devices,     \* device ids
          Threads,     \* threads that call the registry
          Overrides,   \* device overrides
          MaxStamp,    \* bound on the arrival stamps of telemetry
          MaxCalls     \* bound on the calls in one run

VARIABLES devices,   \* the registered devices' states
          call,      \* the call each thread has under way
          result,    \* what the last call of each thread returned
          calls      \* calls made so far

registryVars == <<devices, call, result, calls>>

None == "none"
NoCall == [type |-> "none"]
NoResult == [returned |-> FALSE]
Absent == [registered |-> FALSE, lastSeen |-> 0, battery |-> 0, override |-> None]
Fresh == [Absent EXCEPT !.registered = TRUE]

State == [registered : BOOLEAN, lastSeen : 0 .. MaxStamp, battery : 0 .. MaxStamp,
          override : Overrides \cup {None}]

\* The calls: Register(d), RecordTelemetry(d, at, battery), and TryApply(d, change)
\* for the two changes the code makes, setting an override and, for the undo,
\* replacing it if it is still a given one.
Op == [type : {"register"}, device : Devices]
      \cup [type : {"telemetry"}, device : Devices, at : 1 .. MaxStamp, battery : 0 .. MaxStamp]
      \cup [type : {"set"}, device : Devices, to : Overrides]
      \cup [type : {"restore"}, device : Devices, from : Overrides, to : Overrides \cup {None}]

\* A device that has telemetry at least as recent refuses the reading.
Stale(op, state) == op.type = "telemetry" /\ op.at <= state.lastSeen

\* The state a call that is not refused leaves.
Changed(op, state) ==
    CASE op.type = "telemetry" -> [state EXCEPT !.lastSeen = op.at, !.battery = op.battery]
      [] op.type = "set" -> [state EXCEPT !.override = op.to]
      [] op.type = "restore" -> [state EXCEPT !.override = IF @ = op.from THEN op.to ELSE @]

\* What a call returns from a state: TryApply's "before" where it applies.
Outcome(op, state) ==
    CASE op.type = "register" /\ state.registered -> [done |-> FALSE]
      [] op.type = "register" /\ ~state.registered -> [done |-> TRUE]
      [] op.type # "register" /\ ~state.registered -> [done |-> FALSE]
      [] op.type # "register" /\ state.registered /\ Stale(op, state) -> [done |-> FALSE, stale |-> TRUE]
      [] OTHER -> [done |-> TRUE, before |-> state]

Init ==
    /\ devices = [d \in Devices |-> Absent]
    /\ call = [t \in Threads |-> NoCall]
    /\ result = [t \in Threads |-> NoResult]
    /\ calls = 0

Call(t, op) ==
    /\ call[t] = NoCall
    /\ calls < MaxCalls
    /\ call' = [call EXCEPT ![t] = op]
    /\ calls' = calls + 1
    /\ UNCHANGED <<devices, result>>

Perform(t) ==
    /\ call[t] # NoCall
    /\ LET op == call[t]
           state == devices[op.device]
       IN  /\ result' = [result EXCEPT ![t] = Outcome(op, state)]
           /\ devices' = [devices EXCEPT ![op.device] =
                            IF ~Outcome(op, state).done THEN @
                            ELSE IF op.type = "register" THEN Fresh
                            ELSE Changed(op, @)]
    /\ call' = [call EXCEPT ![t] = NoCall]
    /\ UNCHANGED calls

Next == \E t \in Threads : Perform(t) \/ \E op \in Op : Call(t, op)

Spec == Init /\ [][Next]_registryVars
=============================================================================
