------------------------------ MODULE Commands ------------------------------
(* backend/Services/Commands/CommandService.cs: valve and reboot commands put  *)
(* a temporary override on devices, and the latest valve commands can be       *)
(* undone while they have not expired.                                         *)
(*                                                                             *)
(* Issue, Undo and GetHistory hold CommandService._lock, so one of them runs   *)
(* at a time; the batch clock advances on the timer thread between any two of  *)
(* their steps.  TryApply is the atomic update that DeviceRegistry implements. *)
(* The sets that Mute, Unmute and Acknowledge change are in AlertLifecycle:    *)
(* here such a command is a "note" that changed some of its targets or none.   *)
EXTENDS Integers, Sequences, FiniteSets

CONSTANTS Devices,        \* registered devices
          Actuators,      \* those with a valve
          GraceBatches,   \* CommandService.GraceBatches
          HistoryLimit,   \* CommandService.HistoryLimit
          MaxBatch,       \* bound on the batch clock
          MaxCommands     \* bound on the commands issued

ASSUME ActuatorsAssumption == Actuators \subseteq Devices /\ IsFiniteSet(Devices)
ASSUME BoundsAssumption ==
    /\ GraceBatches \in Nat \ {0} /\ HistoryLimit \in Nat \ {0}
    /\ MaxBatch \in Nat /\ MaxCommands \in Nat

VARIABLES clock,      \* BatchClock.Current
          override,   \* Override of each device's state
          undo,       \* _undo, the top last
          history,    \* _history, the newest first
          lastId,     \* _lastId
          holder,     \* what the holder of _lock is doing
          affected,   \* history: the devices each recorded command put an override on
          undone      \* history: the commands Undo took back

vars == <<clock, override, undo, history, lastId, holder, affected, undone>>

ValveCommands == {"OpenValve", "CloseValve"}
OverrideCommands == ValveCommands \cup {"Reboot"}
Commands == OverrideCommands \cup {"Note"}

\* DeviceOverride; id is its CommandId, 0 where there is no override.
NoOverride == [kind |-> "none", until |-> 0, id |-> 0]
Override == [kind : OverrideCommands \cup {"none"}, until : Nat, id : Nat]

Free == [at |-> "free"]

Init ==
    /\ clock = 0
    /\ override = [d \in Devices |-> NoOverride]
    /\ undo = <<>> /\ history = <<>>
    /\ lastId = 0 /\ holder = Free
    /\ affected = [n \in 1 .. MaxCommands |-> {}] /\ undone = {}

\* BatchClock.Advance, when a batch closes.
Advance ==
    /\ clock < MaxBatch
    /\ clock' = clock + 1
    /\ UNCHANGED <<override, undo, history, lastId, holder, affected, undone>>
-----------------------------------------------------------------------------
(* Issue.                                                                      *)

\* Valve commands go to actuators only.
Targets(type, wanted) == IF type \in ValveCommands THEN wanted \cap Actuators ELSE wanted

\* The lock, the id and the batch, read once.
BeginIssue(type, wanted) ==
    /\ holder = Free
    /\ lastId < MaxCommands
    /\ Targets(type, wanted) # {}
    /\ holder' = [at |-> "issue", type |-> type, id |-> lastId + 1, batch |-> clock,
                  todo |-> Targets(type, wanted), changed |-> {}, priors |-> override]
    /\ UNCHANGED <<clock, override, undo, history, lastId, affected, undone>>

IsRebooting(d, batch) == override[d].kind = "Reboot" /\ override[d].until > batch

\* A valve command passes over a device that is rebooting.
SkipRebooting(d) ==
    /\ holder.type \in ValveCommands
    /\ IsRebooting(d, holder.batch)
    /\ holder' = [holder EXCEPT !.todo = @ \ {d}]
    /\ UNCHANGED override

\* Mutant: a valve command does not look whether the device is rebooting.
PutOverride_IgnoresReboot(d) ==
    /\ holder.type \in OverrideCommands
    /\ override' = [override EXCEPT ![d] = [kind |-> holder.type, id |-> holder.id,
                                            until |-> holder.batch + GraceBatches]]
    /\ holder' = [holder EXCEPT !.todo = @ \ {d}, !.changed = @ \cup {d},
                                !.priors = [@ EXCEPT ![d] = override[d]]]

\* TryApply puts the override and keeps the one it replaced.
PutOverride(d) ==
    /\ holder.type \in OverrideCommands
    /\ ~(holder.type \in ValveCommands /\ IsRebooting(d, holder.batch))
    /\ override' = [override EXCEPT ![d] = [kind |-> holder.type, id |-> holder.id,
                                            until |-> holder.batch + GraceBatches]]
    /\ holder' = [holder EXCEPT !.todo = @ \ {d}, !.changed = @ \cup {d},
                                !.priors = [@ EXCEPT ![d] = override[d]]]

\* A mute, unmute or acknowledge that changes something for d, or does not.
NoteDevice(d) ==
    /\ holder.type = "Note"
    /\ \E c \in {{}, {d}} :
          holder' = [holder EXCEPT !.todo = @ \ {d}, !.changed = @ \cup c]
    /\ UNCHANGED override

IssueToDevice ==
    /\ holder.at = "issue"
    /\ \E d \in holder.todo : SkipRebooting(d) \/ PutOverride(d) \/ NoteDevice(d)
    /\ UNCHANGED <<clock, undo, history, lastId, affected, undone>>

\* The newest HistoryLimit records.
Capped(records) == SubSeq(records, 1, IF Len(records) > HistoryLimit THEN HistoryLimit
                                                                    ELSE Len(records))

\* Without a change, an error; else the record, the undo entry and the history.
EndIssue ==
    /\ holder.at = "issue"
    /\ holder.todo = {}
    /\ IF holder.changed = {}
       THEN UNCHANGED <<undo, history, lastId, affected>>
       ELSE /\ lastId' = holder.id
            /\ undo' = IF holder.type \in ValveCommands
                       THEN Append(undo, [id |-> holder.id, batch |-> holder.batch,
                                          devices |-> holder.changed,
                                          priors |-> holder.priors])
                       ELSE undo
            /\ history' = Capped(<<[id |-> holder.id, type |-> holder.type,
                                   batch |-> holder.batch, undone |-> FALSE]>> \o history)
            /\ affected' = IF holder.type \in OverrideCommands
                           THEN [affected EXCEPT ![holder.id] = holder.changed]
                           ELSE affected
    /\ holder' = Free
    /\ UNCHANGED <<clock, override, undone>>
-----------------------------------------------------------------------------
(* Undo and GetHistory.                                                        *)

Top == undo[Len(undo)]

\* Mutant: the bottom entry decides that the stack is cleared.
TopExpired_Bottom == undo # <<>> /\ undo[1].batch + GraceBatches <= clock

\* The top entry has expired: DropExpired clears the stack.
TopExpired == undo # <<>> /\ Top.batch + GraceBatches <= clock

\* GetHistory, or an Undo that finds nothing left.
DropExpired ==
    /\ holder = Free
    /\ TopExpired
    /\ undo' = <<>>
    /\ UNCHANGED <<clock, override, history, lastId, holder, affected, undone>>

\* TryPop.
BeginUndo ==
    /\ holder = Free
    /\ undo # <<>>
    /\ ~TopExpired
    /\ undo' = SubSeq(undo, 1, Len(undo) - 1)
    /\ holder' = [at |-> "undo", entry |-> Top, todo |-> Top.devices]
    /\ UNCHANGED <<clock, override, history, lastId, affected, undone>>

\* Mutant: the prior override comes back where the command's own is gone.
Restore_WrongTest(d) ==
    /\ override' = IF override[d].id # holder.entry.id
                   THEN [override EXCEPT ![d] = holder.entry.priors[d]]
                   ELSE override
    /\ holder' = [holder EXCEPT !.todo = @ \ {d}]

\* Mutant: the prior override always comes back.
Restore_Always(d) ==
    /\ override' = [override EXCEPT ![d] = holder.entry.priors[d]]
    /\ holder' = [holder EXCEPT !.todo = @ \ {d}]

\* TryApply: the prior override comes back where the command's own still is.
Restore(d) ==
    /\ override' = IF override[d].id = holder.entry.id
                   THEN [override EXCEPT ![d] = holder.entry.priors[d]]
                   ELSE override
    /\ holder' = [holder EXCEPT !.todo = @ \ {d}]

RestoreDevice ==
    /\ holder.at = "undo"
    /\ \E d \in holder.todo : Restore(d)
    /\ UNCHANGED <<clock, undo, history, lastId, affected, undone>>

\* Mutant: the newest record is marked, whichever was undone.
EndUndo_MarksNewest ==
    /\ holder.at = "undo"
    /\ holder.todo = {}
    /\ history' = [i \in DOMAIN history |->
                      IF i = 1 THEN [history[i] EXCEPT !.undone = TRUE] ELSE history[i]]
    /\ undone' = undone \cup {holder.entry.id}
    /\ holder' = Free
    /\ UNCHANGED <<clock, override, undo, lastId, affected>>

\* The record in the history, if it is still there, is marked.
EndUndo ==
    /\ holder.at = "undo"
    /\ holder.todo = {}
    /\ history' = [i \in DOMAIN history |->
                      IF history[i].id = holder.entry.id
                      THEN [history[i] EXCEPT !.undone = TRUE] ELSE history[i]]
    /\ undone' = undone \cup {holder.entry.id}
    /\ holder' = Free
    /\ UNCHANGED <<clock, override, undo, lastId, affected>>

\* The command that Undo would take back, 0 for none.
UndoableId == IF undo # <<>> /\ ~TopExpired THEN Top.id ELSE 0
-----------------------------------------------------------------------------
Next ==
    \/ Advance
    \/ \E type \in Commands, wanted \in SUBSET Devices : BeginIssue(type, wanted)
    \/ IssueToDevice \/ EndIssue
    \/ DropExpired
    \/ BeginUndo \/ RestoreDevice \/ EndUndo

Spec == Init /\ [][Next]_vars
-----------------------------------------------------------------------------
Entry == [id : Nat, batch : Nat, devices : SUBSET Devices, priors : [Devices -> Override]]
Record == [id : Nat, type : Commands, batch : Nat, undone : BOOLEAN]

Holder ==
    {Free}
    \cup [at : {"issue"}, type : Commands, id : 1 .. MaxCommands, batch : Nat,
          todo : SUBSET Devices, changed : SUBSET Devices, priors : [Devices -> Override]]
    \cup [at : {"undo"}, entry : Entry, todo : SUBSET Devices]

\* Every variable has its type.
TypeOK ==
    /\ clock \in Nat
    /\ override \in [Devices -> Override]
    /\ undo \in Seq(Entry)
    /\ history \in Seq(Record) /\ Len(history) <= HistoryLimit
    /\ lastId \in Nat
    /\ holder \in Holder
    /\ affected \in [1 .. MaxCommands -> SUBSET Devices]
    /\ undone \subseteq Nat

\* No device shows the override of a command that was undone: neither its undo
\* nor a later undo, whose saved priors are older, puts it back.
NoUndoneOverride == \A d \in Devices : override[d].id \notin undone

\* The commands that put an override on d and were not undone.
Standing(d) == {n \in 1 .. lastId : d \in affected[n] /\ n \notin undone}

\* Between commands every device has exactly the override of the newest command
\* that reached it and was not undone, whatever order commands, expiries and
\* undos came in.
OverrideIsNewestStanding ==
    holder = Free =>
        \A d \in Devices :
            IF Standing(d) = {} THEN override[d] = NoOverride
            ELSE /\ override[d].id \in Standing(d)
                 /\ \A n \in Standing(d) : n <= override[d].id

\* A live reboot, shown for its 3 batches (README.md:111), is ended by nothing
\* but another reboot, though Issue tests it with the batch it read earlier.
RebootNotInterrupted ==
    [][\A d \in Devices :
          IsRebooting(d, clock) /\ override'[d] # override[d] => override'[d].kind = "Reboot"]_vars

\* DropExpired looks at the top entry only and clears them all: every entry it
\* drops has expired.
DropsOnlyExpired ==
    [][undo # <<>> /\ undo' = <<>> /\ holder' = Free =>
          \A i \in DOMAIN undo : undo[i].batch + GraceBatches <= clock]_vars

\* The history holds the newest commands, up to its limit, newest first and
\* without a gap, and marks exactly the undone ones.
HistoryAccurate ==
    /\ Len(history) = IF lastId < HistoryLimit THEN lastId ELSE HistoryLimit
    /\ \A i \in DOMAIN history :
          /\ history[i].id = lastId + 1 - i
          /\ history[i].undone = (history[i].id \in undone)

\* "You can undo this from Command History."
\* (frontend/src/components/commands/CommandDialog.jsx:50): the command that
\* Undo would take back is in the history, where the page looks for it.
UndoableInHistory ==
    holder = Free /\ undo # <<>> /\ ~TopExpired
        => \E i \in DOMAIN history : history[i].id = Top.id
=============================================================================
