--------------------------- MODULE CommandsProofs ---------------------------
(* Theorems about Commands for any devices, limits and bounds: the types, that *)
(* no undone override comes back, that nothing but a reboot ends a reboot,     *)
(* that the newest standing command decides every override, and that the       *)
(* history, its labels and the clearing of the undo stack are right.           *)
EXTENDS CommandHistoryPage, TLAPS

\* An override that may be on d outside the command that is being issued, for an
\* undo stack, a last id and a set of undone commands: its command is recorded
\* and not undone, and if it can still be undone, it is a valve command that
\* reached d.
Sound(d, o, stack, last, gone) ==
    /\ o.id <= last /\ o.id \notin gone
    /\ \A i \in DOMAIN stack :
          o.id = stack[i].id => d \in stack[i].devices /\ o.kind \in ValveCommands

\* The same for the present stack, id and set.
SoundNow(d, o) == Sound(d, o, undo, lastId, undone)

\* The undo stack: ids grow towards the top, none is undone, and each entry's
\* saved overrides are older than its command.
StackSound ==
    \A i \in DOMAIN undo :
        /\ undo[i].id \in 1 .. lastId /\ undo[i].id \notin undone
        /\ \A j \in DOMAIN undo : j < i => undo[j].id < undo[i].id
        /\ \A d \in Devices :
              /\ SoundNow(d, undo[i].priors[d])
              /\ undo[i].priors[d].id < undo[i].id

\* A command that is being issued has a new id, and only the devices it changed
\* can have it as their override.
IssueSound ==
    holder.at = "issue" =>
        /\ holder.id = lastId + 1 /\ holder.batch <= clock
        /\ holder.todo \cap holder.changed = {}
        /\ \A d \in Devices :
              /\ SoundNow(d, holder.priors[d])
              /\ \/ SoundNow(d, override[d])
                 \/ /\ d \in holder.changed
                    /\ override[d].id = holder.id /\ override[d].kind = holder.type

\* The command that is being undone is newer than all that can be undone, and
\* only on the devices still to do.
UndoSound ==
    holder.at = "undo" =>
        /\ holder.entry.id \in 1 .. lastId /\ holder.entry.id \notin undone
        /\ \A i \in DOMAIN undo : undo[i].id < holder.entry.id
        /\ \A d \in Devices :
              /\ SoundNow(d, holder.entry.priors[d])
              /\ holder.entry.priors[d].id < holder.entry.id
              /\ override[d].id = holder.entry.id =>
                    d \in holder.todo /\ override[d].kind \in ValveCommands

\* Unless a command is being issued, every override is sound.
OverridesSound ==
    holder.at # "issue" => \A d \in Devices : SoundNow(d, override[d])

\* The part of the invariant beside the types.
AllSound ==
    /\ undone \subseteq 1 .. lastId
    /\ StackSound /\ IssueSound /\ UndoSound /\ OverridesSound

\* The inductive invariant.
IInv == TypeOK /\ AllSound
-----------------------------------------------------------------------------
(* Types.                                                                      *)

\* What the holder of the lock may be doing.
LEMMA HolderFacts ==
    ASSUME NEW h \in Holder
    PROVE  /\ h.at \in {"free", "issue", "undo"}
           /\ h.at = "free" <=> h = Free
           /\ h.at = "issue" =>
                 /\ h \in [at : {"issue"}, type : Commands, id : 1 .. MaxCommands, batch : Nat,
                           todo : SUBSET Devices, changed : SUBSET Devices,
                           priors : [Devices -> Override]]
                 /\ h.type \in Commands /\ h.id \in 1 .. MaxCommands /\ h.batch \in Nat
                 /\ h.todo \in SUBSET Devices /\ h.changed \in SUBSET Devices
                 /\ h.priors \in [Devices -> Override]
           /\ h.at = "undo" =>
                 /\ h \in [at : {"undo"}, entry : Entry, todo : SUBSET Devices]
                 /\ h.entry \in Entry /\ h.todo \in SUBSET Devices
<1>1. CASE h = Free
  BY <1>1 DEF Free
<1>2. CASE h.at = "issue" /\ h # Free
  BY <1>2 DEF Holder, Free
<1>3. CASE h.at # "issue" /\ h # Free
  BY <1>3 DEF Holder, Free
<1> QED
  BY <1>1, <1>2, <1>3

\* What an entry of the undo stack holds.
LEMMA EntryFacts ==
    \A e \in Entry : /\ e.id \in Nat /\ e.batch \in Nat /\ e.devices \in SUBSET Devices
                     /\ e.priors \in [Devices -> Override]
BY DEF Entry

\* What an override holds.
LEMMA OverrideFacts ==
    \A o \in Override : o.id \in Nat /\ o.until \in Nat
BY DEF Override

\* The limited history is a sequence of the same records.
LEMMA CappedType ==
    ASSUME NEW S, NEW s \in Seq(S)
    PROVE  Capped(s) \in Seq(S) /\ Len(Capped(s)) <= HistoryLimit
<1>1. HistoryLimit \in Nat /\ Len(s) \in Nat
  BY BoundsAssumption
<1>2. CASE Len(s) > HistoryLimit
  BY <1>1, <1>2 DEF Capped
<1>3. CASE Len(s) <= HistoryLimit
  BY <1>1, <1>3 DEF Capped
<1> QED
  BY <1>1, <1>2, <1>3

\* The initial state has the types.
LEMMA TypeInit == Init => TypeOK
<1> SUFFICES ASSUME Init PROVE TypeOK
  OBVIOUS
<1>1. NoOverride \in Override
  BY DEF NoOverride, Override
<1>2. Free \in Holder
  BY DEF Holder
<1>3. history = <<>> /\ undo = <<>> /\ Len(history) = 0
  BY DEF Init
<1> QED
  BY <1>1, <1>2, <1>3, BoundsAssumption DEF Init, TypeOK

\* The start of a command.
LEMMA BeginIssueType ==
    ASSUME TypeOK, NEW type \in Commands, NEW wanted \in SUBSET Devices, BeginIssue(type, wanted)
    PROVE  TypeOK'
<1>1. Targets(type, wanted) \in SUBSET Devices
  BY DEF Targets
<1>2. lastId + 1 \in 1 .. MaxCommands
  BY BoundsAssumption DEF TypeOK, BeginIssue
<1>3. clock \in Nat /\ override \in [Devices -> Override]
  BY DEF TypeOK
<1>4. [at |-> "issue", type |-> type, id |-> lastId + 1, batch |-> clock,
       todo |-> Targets(type, wanted), changed |-> {}, priors |-> override] \in Holder
  BY <1>1, <1>2, <1>3 DEF Holder
<1>5. holder' \in Holder
  BY <1>4 DEF BeginIssue
<1> QED
  BY <1>5 DEF TypeOK, BeginIssue

\* The override a command puts in place.
LEMMA NewOverrideType ==
    ASSUME TypeOK, holder.at = "issue", holder.type \in OverrideCommands
    PROVE  [kind |-> holder.type, id |-> holder.id, until |-> holder.batch + GraceBatches]
              \in Override
<1>1. holder.id \in Nat /\ holder.batch + GraceBatches \in Nat
  BY HolderFacts, BoundsAssumption DEF TypeOK
<1> QED
  BY <1>1 DEF Override

\* A command reaches one of its devices.
LEMMA IssueToDeviceType ==
    ASSUME TypeOK, holder.at = "issue", NEW d \in holder.todo,
           SkipRebooting(d) \/ PutOverride(d) \/ NoteDevice(d)
    PROVE  override' \in [Devices -> Override] /\ holder' \in Holder
<1>0. /\ holder \in [at : {"issue"}, type : Commands, id : 1 .. MaxCommands, batch : Nat,
                     todo : SUBSET Devices, changed : SUBSET Devices,
                     priors : [Devices -> Override]]
      /\ holder.todo \in SUBSET Devices /\ holder.changed \in SUBSET Devices
      /\ holder.priors \in [Devices -> Override]
      /\ override \in [Devices -> Override]
      /\ d \in Devices
  BY HolderFacts DEF TypeOK
<1>1. CASE SkipRebooting(d)
  <2>1. holder.todo \ {d} \in SUBSET Devices
    BY <1>0
  <2>2. holder' = [holder EXCEPT !.todo = holder.todo \ {d}] /\ override' = override
    BY <1>1 DEF SkipRebooting
  <2> QED
    BY <1>0, <2>1, <2>2 DEF Holder
<1>2. CASE PutOverride(d)
  <2>1. holder.todo \ {d} \in SUBSET Devices /\ holder.changed \cup {d} \in SUBSET Devices
    BY <1>0
  <2>2. [holder.priors EXCEPT ![d] = override[d]] \in [Devices -> Override]
    BY <1>0
  <2>3. holder' = [holder EXCEPT !.todo = holder.todo \ {d},
                                 !.changed = holder.changed \cup {d},
                                 !.priors = [holder.priors EXCEPT ![d] = override[d]]]
    BY <1>2 DEF PutOverride
  <2>4. holder' \in Holder
    BY <1>0, <2>1, <2>2, <2>3 DEF Holder
  <2>5. override' \in [Devices -> Override]
    BY <1>0, <1>2, NewOverrideType DEF PutOverride
  <2> QED
    BY <2>4, <2>5
<1>3. CASE NoteDevice(d)
  <2>1. PICK c \in {{}, {d}} :
           holder' = [holder EXCEPT !.todo = holder.todo \ {d},
                                    !.changed = holder.changed \cup c]
    BY <1>3 DEF NoteDevice
  <2>2. holder.todo \ {d} \in SUBSET Devices /\ holder.changed \cup c \in SUBSET Devices
    BY <1>0
  <2>3. override' = override
    BY <1>3 DEF NoteDevice
  <2> QED
    BY <1>0, <2>1, <2>2, <2>3 DEF Holder
<1> QED
  BY <1>1, <1>2, <1>3

\* The end of a command.
LEMMA EndIssueType ==
    ASSUME TypeOK, EndIssue
    PROVE  TypeOK'
<1>0. /\ holder.type \in Commands /\ holder.id \in 1 .. MaxCommands /\ holder.batch \in Nat
      /\ holder.changed \in SUBSET Devices /\ holder.priors \in [Devices -> Override]
      /\ undo \in Seq(Entry) /\ history \in Seq(Record) /\ Len(history) <= HistoryLimit
      /\ lastId \in Nat /\ affected \in [1 .. MaxCommands -> SUBSET Devices]
  BY HolderFacts DEF TypeOK, EndIssue
<1>1. holder.id \in Nat
  BY <1>0, BoundsAssumption
<1>2. [id |-> holder.id, batch |-> holder.batch, devices |-> holder.changed,
       priors |-> holder.priors] \in Entry
  BY <1>0, <1>1 DEF Entry
<1>3. [id |-> holder.id, type |-> holder.type, batch |-> holder.batch, undone |-> FALSE] \in Record
  BY <1>0, <1>1 DEF Record
<1>4. undo' \in Seq(Entry)
  <2> DEFINE new == [id |-> holder.id, batch |-> holder.batch, devices |-> holder.changed,
                     priors |-> holder.priors]
  <2>1. undo' = undo \/ undo' = Append(undo, new)
    BY Zenon DEF EndIssue
  <2>2. new \in Entry
    BY <1>2
  <2> HIDE DEF new
  <2> QED
    BY <1>0, <2>1, <2>2
<1>7. lastId' \in Nat
  BY <1>0, <1>1 DEF EndIssue
<1>8. affected' \in [1 .. MaxCommands -> SUBSET Devices]
  <2>1. affected' = affected \/ affected' = [affected EXCEPT ![holder.id] = holder.changed]
    BY Zenon DEF EndIssue
  <2> QED
    BY <1>0, <2>1
<1>5. history' \in Seq(Record) /\ Len(history') <= HistoryLimit
  <2> DEFINE longer == <<[id |-> holder.id, type |-> holder.type, batch |-> holder.batch, undone |-> FALSE]>> \o history
  <2>1. longer \in Seq(Record)
    BY <1>0, <1>3
  <2>2. history' = history \/ history' = Capped(longer)
    BY DEF EndIssue
  <2> HIDE DEF longer
  <2> QED
    BY <1>0, <2>1, <2>2, CappedType
<1>6. holder' \in Holder
  BY DEF EndIssue, Holder
<1> QED
  BY <1>4, <1>5, <1>6, <1>7, <1>8 DEF TypeOK, EndIssue

\* The undo stack is emptied.
LEMMA DropExpiredType == TypeOK /\ DropExpired => TypeOK'
BY DEF TypeOK, DropExpired

\* The top entry is an entry, and without it the stack is a shorter one.
LEMMA PopFacts ==
    ASSUME undo \in Seq(Entry), undo # <<>>
    PROVE  /\ Len(undo) \in Nat \ {0} /\ Len(undo) \in DOMAIN undo
           /\ Top \in Entry /\ Top = undo[Len(undo)]
           /\ LET rest == SubSeq(undo, 1, Len(undo) - 1)
              IN  /\ rest \in Seq(Entry)
                  /\ DOMAIN rest = 1 .. Len(undo) - 1
                  /\ \A i \in DOMAIN rest : i \in DOMAIN undo /\ rest[i] = undo[i]
<1>1. Len(undo) \in Nat \ {0} /\ Len(undo) \in DOMAIN undo
  OBVIOUS
<1>2. Top \in Entry /\ Top = undo[Len(undo)]
  BY <1>1 DEF Top
<1> QED
  BY <1>1, <1>2

\* The start of an undo.
LEMMA BeginUndoType == TypeOK /\ BeginUndo => TypeOK'
<1> SUFFICES ASSUME TypeOK, BeginUndo PROVE TypeOK'
  OBVIOUS
<1>1. undo' \in Seq(Entry) /\ Top \in Entry
  BY PopFacts DEF TypeOK, BeginUndo
<1>2. Top.devices \in SUBSET Devices
  BY <1>1, EntryFacts
<1>3. holder' \in Holder
  <2>1. holder' = [at |-> "undo", entry |-> Top, todo |-> Top.devices]
    BY DEF BeginUndo
  <2> QED
    BY <1>1, <1>2, <2>1 DEF Holder
<1> QED
  BY <1>1, <1>3 DEF TypeOK, BeginUndo

\* An undo reaches one of its devices.
LEMMA RestoreDeviceType == TypeOK /\ RestoreDevice => TypeOK'
<1> SUFFICES ASSUME TypeOK, RestoreDevice PROVE TypeOK'
  OBVIOUS
<1>0. /\ holder \in [at : {"undo"}, entry : Entry, todo : SUBSET Devices]
      /\ holder.entry \in Entry /\ holder.todo \in SUBSET Devices
      /\ override \in [Devices -> Override]
  BY HolderFacts DEF TypeOK, RestoreDevice
<1>1. PICK d \in holder.todo : Restore(d)
  BY DEF RestoreDevice
<1>2. override' = override \/ override' = [override EXCEPT ![d] = holder.entry.priors[d]]
  BY <1>1 DEF Restore
<1>3. holder.entry.priors[d] \in Override
  BY <1>0, EntryFacts
<1>4. override' \in [Devices -> Override]
  BY <1>0, <1>2, <1>3
<1>5. holder' \in Holder
  <2>1. holder' = [holder EXCEPT !.todo = holder.todo \ {d}]
    BY <1>1 DEF Restore
  <2>2. holder.todo \ {d} \in SUBSET Devices
    BY <1>0
  <2> QED
    BY <1>0, <2>1, <2>2 DEF Holder
<1> QED
  BY <1>4, <1>5 DEF TypeOK, RestoreDevice

\* The end of an undo.
LEMMA EndUndoType == TypeOK /\ EndUndo => TypeOK'
<1> SUFFICES ASSUME TypeOK, EndUndo PROVE TypeOK'
  OBVIOUS
<1>0. /\ holder.entry \in Entry /\ history \in Seq(Record)
      /\ Len(history) <= HistoryLimit /\ undone \subseteq Nat
  BY HolderFacts DEF TypeOK, EndUndo
<1>1. holder.entry.id \in Nat
  BY <1>0, EntryFacts
<1>2. undone' \subseteq Nat
  BY <1>0, <1>1 DEF EndUndo
<1>3. \A r \in Record : [r EXCEPT !.undone = TRUE] \in Record
  BY DEF Record
<1>4. history' \in Seq(Record) /\ Len(history') = Len(history)
  <2>1. history' = [i \in DOMAIN history |->
                       IF history[i].id = holder.entry.id
                       THEN [history[i] EXCEPT !.undone = TRUE] ELSE history[i]]
    BY DEF EndUndo
  <2>2. \A i \in DOMAIN history :
           (IF history[i].id = holder.entry.id
            THEN [history[i] EXCEPT !.undone = TRUE] ELSE history[i]) \in Record
    BY <1>0, <1>3
  <2>3. DOMAIN history = 1 .. Len(history) /\ Len(history) \in Nat
    BY <1>0
  <2> QED
    BY <2>1, <2>2, <2>3
<1>5. holder' \in Holder
  BY DEF EndUndo, Holder
<1> QED
  BY <1>0, <1>2, <1>4, <1>5 DEF TypeOK, EndUndo

\* Every step keeps the types.
LEMMA TypeStep == TypeOK /\ [Next]_vars => TypeOK'
<1> SUFFICES ASSUME TypeOK, [Next]_vars PROVE TypeOK'
  OBVIOUS
<1>1. CASE Advance
  BY <1>1 DEF TypeOK, Advance
<1>2. CASE IssueToDevice
  <2>1. override' \in [Devices -> Override] /\ holder' \in Holder
    BY <1>2, IssueToDeviceType DEF IssueToDevice
  <2> QED
    BY <1>2, <2>1 DEF TypeOK, IssueToDevice
<1>3. CASE UNCHANGED vars
  BY <1>3 DEF TypeOK, vars
<1> QED
  BY <1>1, <1>2, <1>3, BeginIssueType, EndIssueType, DropExpiredType, BeginUndoType,
     RestoreDeviceType, EndUndoType DEF Next

\* The variables of the command service keep their types.
THEOREM TypeCorrect == Spec => []TypeOK
BY TypeInit, TypeStep, PTL DEF Spec
-----------------------------------------------------------------------------
(* The inductive invariant.                                                    *)

\* The initial state satisfies it.
LEMMA SoundInit == Init => AllSound
<1> SUFFICES ASSUME Init PROVE AllSound
  OBVIOUS
<1>1. undo = <<>> /\ lastId = 0 /\ undone = {} /\ holder.at = "free" /\ DOMAIN undo = {}
  BY DEF Init, Free
<1>2. \A d \in Devices : override[d].id = 0
  BY DEF Init, NoOverride
<1> QED
  BY <1>1, <1>2 DEF AllSound, StackSound, IssueSound, UndoSound, OverridesSound, SoundNow, Sound

\* The clock does not disturb it.
LEMMA AdvanceSound == IInv /\ Advance => AllSound'
<1> SUFFICES ASSUME IInv, Advance PROVE AllSound'
  OBVIOUS
<1>1. clock \in Nat /\ clock' = clock + 1
  BY DEF IInv, TypeOK, Advance
<1>2. UNCHANGED <<override, undo, lastId, holder, undone>>
  BY DEF Advance
<1>3. holder.at = "issue" => holder.batch \in Nat
  BY HolderFacts DEF IInv, TypeOK
<1>4. IssueSound'
  BY <1>1, <1>2, <1>3 DEF IInv, AllSound, IssueSound, SoundNow
<1>5. StackSound' /\ UndoSound' /\ OverridesSound'
  BY <1>2 DEF IInv, AllSound, StackSound, UndoSound, OverridesSound, SoundNow
<1> QED
  BY <1>2, <1>4, <1>5 DEF IInv, AllSound

\* A command begins with the overrides that are there.
LEMMA BeginIssueSound ==
    ASSUME IInv, NEW type \in Commands, NEW wanted \in SUBSET Devices, BeginIssue(type, wanted)
    PROVE  AllSound'
<1>1. UNCHANGED <<clock, override, undo, lastId, undone>> /\ holder.at = "free"
  BY DEF BeginIssue, Free
<1>2. /\ holder'.at = "issue" /\ holder'.id = lastId + 1 /\ holder'.batch = clock
      /\ holder'.changed = {} /\ holder'.priors = override
  BY DEF BeginIssue
<1>3. clock \in Nat
  BY DEF IInv, TypeOK
<1>4. \A d \in Devices : SoundNow(d, override[d])
  BY <1>1 DEF IInv, AllSound, OverridesSound
<1>5. IssueSound'
  BY <1>1, <1>2, <1>3, <1>4 DEF IssueSound, SoundNow
<1>6. StackSound' /\ UndoSound' /\ OverridesSound'
  BY <1>1, <1>2 DEF IInv, AllSound, StackSound, UndoSound, OverridesSound, SoundNow
<1> QED
  BY <1>1, <1>5, <1>6 DEF IInv, AllSound

\* A command reaches one of its devices.
LEMMA IssueToDeviceSound == IInv /\ IssueToDevice => AllSound'
<1> SUFFICES ASSUME IInv, IssueToDevice PROVE AllSound'
  OBVIOUS
<1>0. /\ UNCHANGED <<clock, undo, lastId, undone>> /\ holder.at = "issue"
      /\ override \in [Devices -> Override]
      /\ holder \in [at : {"issue"}, type : Commands, id : 1 .. MaxCommands, batch : Nat,
                     todo : SUBSET Devices, changed : SUBSET Devices,
                     priors : [Devices -> Override]]
      /\ holder.priors \in [Devices -> Override] /\ holder.todo \in SUBSET Devices
  BY HolderFacts DEF IInv, TypeOK, IssueToDevice
<1>1. PICK d \in holder.todo : SkipRebooting(d) \/ PutOverride(d) \/ NoteDevice(d)
  BY DEF IssueToDevice
<1>2. /\ holder.id = lastId + 1 /\ holder.batch <= clock
      /\ holder.todo \cap holder.changed = {}
      /\ \A x \in Devices :
            /\ SoundNow(x, holder.priors[x])
            /\ \/ SoundNow(x, override[x])
               \/ /\ x \in holder.changed
                  /\ override[x].id = holder.id /\ override[x].kind = holder.type
  BY <1>0 DEF IInv, AllSound, IssueSound
<1>3. d \in Devices /\ d \notin holder.changed /\ SoundNow(d, override[d])
  BY <1>0, <1>2
<1>4. /\ holder'.at = "issue" /\ holder'.id = holder.id /\ holder'.batch = holder.batch
      /\ holder'.type = holder.type /\ holder'.todo = holder.todo \ {d}
      /\ holder.changed \subseteq holder'.changed
      /\ holder'.changed \subseteq holder.changed \cup {d}
  BY <1>0, <1>1, ZenonT(30) DEF SkipRebooting, PutOverride, NoteDevice
<1>5. \A x \in Devices :
         /\ SoundNow(x, holder'.priors[x])
         /\ \/ SoundNow(x, override'[x])
            \/ /\ x \in holder'.changed
               /\ override'[x].id = holder.id /\ override'[x].kind = holder.type
  <2>1. CASE SkipRebooting(d) \/ NoteDevice(d)
    <3>1. holder'.priors = holder.priors /\ override' = override
      BY <1>0, <2>1 DEF SkipRebooting, NoteDevice
    <3> QED
      BY <1>2, <1>4, <3>1
  <2>2. CASE PutOverride(d)
    <3>1. /\ holder'.priors = [holder.priors EXCEPT ![d] = override[d]]
          /\ holder'.changed = holder.changed \cup {d}
      BY <1>0, <2>2 DEF PutOverride
    <3>2. override' = [override EXCEPT ![d] = [kind |-> holder.type, id |-> holder.id,
                                               until |-> holder.batch + GraceBatches]]
      BY <2>2 DEF PutOverride
    <3>3. /\ override'[d].id = holder.id /\ override'[d].kind = holder.type
          /\ \A x \in Devices \ {d} : override'[x] = override[x]
      BY <1>0, <1>3, <3>2
    <3>4. /\ holder'.priors[d] = override[d]
          /\ \A x \in Devices \ {d} : holder'.priors[x] = holder.priors[x]
      BY <1>0, <1>3, <3>1
    <3> QED
      BY <1>2, <1>3, <1>4, <3>1, <3>3, <3>4
  <2> QED
    BY <1>1, <2>1, <2>2
<1>6. IssueSound'
  <2>1. holder'.todo \cap holder'.changed = {}
    BY <1>2, <1>4
  <2> QED
    BY <1>0, <1>2, <1>4, <1>5, <2>1 DEF IssueSound, SoundNow
<1>7. StackSound' /\ UndoSound' /\ OverridesSound'
  BY <1>0, <1>4 DEF IInv, AllSound, StackSound, UndoSound, OverridesSound, SoundNow
<1> QED
  BY <1>0, <1>6, <1>7 DEF IInv, AllSound

\* The end of a command that changed nothing, or that cannot be undone.
LEMMA EndIssueKeepsStack ==
    ASSUME IInv, EndIssue, undo' = undo
    PROVE  AllSound'
<1>0. /\ holder.at = "issue" /\ UNCHANGED <<clock, override, undone>> /\ holder'.at = "free"
      /\ lastId \in Nat
      /\ \A x \in Devices : override[x] \in Override /\ override[x].id \in Nat
      /\ undo \in Seq(Entry) /\ holder.id = lastId + 1 /\ undone \subseteq 1 .. lastId
      /\ StackSound
      /\ \A x \in Devices :
            \/ SoundNow(x, override[x])
            \/ /\ x \in holder.changed
               /\ override[x].id = holder.id /\ override[x].kind = holder.type
  BY OverrideFacts DEF EndIssue, Free, IInv, AllSound, IssueSound, TypeOK
<1>1. \/ holder.changed = {} /\ lastId' = lastId
      \/ lastId' = holder.id
  BY DEF EndIssue
<1>2. lastId' \in Nat /\ lastId <= lastId'
  BY <1>0, <1>1
<1>3. ASSUME NEW x, NEW o \in Override, SoundNow(x, o)
      PROVE  Sound(x, o, undo, lastId', undone)
  <2>1. o.id \in Nat /\ o.id <= lastId'
    BY <1>0, <1>2, <1>3, OverrideFacts DEF SoundNow, Sound
  <2> QED
    BY <1>3, <2>1 DEF SoundNow, Sound
<1>4. StackSound'
  <2>1. \A i \in DOMAIN undo : undo[i].id \in 1 .. lastId'
    BY <1>0, <1>2 DEF StackSound
  <2>2. \A i \in DOMAIN undo : undo[i].priors \in [Devices -> Override]
    BY <1>0, EntryFacts
  <2>3. \A i \in DOMAIN undo : \A x \in Devices :
            Sound(x, undo[i].priors[x], undo, lastId', undone)
    BY <1>0, <1>3, <2>2 DEF StackSound
  <2> QED
    BY <1>0, <2>1, <2>3 DEF StackSound, SoundNow
<1>5. OverridesSound'
  <2> SUFFICES ASSUME NEW x \in Devices
               PROVE  Sound(x, override[x], undo, lastId', undone)
    BY <1>0 DEF OverridesSound, SoundNow
  <2>1. CASE SoundNow(x, override[x])
    BY <1>0, <1>3, <2>1
  <2>2. CASE x \in holder.changed /\ override[x].id = holder.id
    <3>1. lastId' = holder.id
      BY <1>1, <2>2
    <3>2. \A i \in DOMAIN undo : undo[i].id # override[x].id
      BY <1>0, <2>2 DEF StackSound
    <3>3. override[x].id <= lastId' /\ override[x].id \notin undone
      BY <1>0, <2>2, <3>1
    <3> QED
      BY <3>2, <3>3 DEF Sound
  <2> QED
    BY <1>0, <2>1, <2>2
<1>6. IssueSound' /\ UndoSound'
  BY <1>0 DEF IssueSound, UndoSound
<1>7. (undone \subseteq 1 .. lastId)'
  BY <1>0, <1>2
<1> QED
  BY <1>4, <1>5, <1>6, <1>7 DEF AllSound

\* The end of a valve command that changed something pushes an entry.
LEMMA EndIssuePushes ==
    ASSUME IInv, EndIssue, holder.changed # {}, holder.type \in ValveCommands
    PROVE  AllSound'
<1> DEFINE new == [id |-> holder.id, batch |-> holder.batch,
                   devices |-> holder.changed, priors |-> holder.priors]
<1>0. /\ holder.at = "issue" /\ UNCHANGED <<clock, override, undone>> /\ holder'.at = "free"
      /\ lastId \in Nat
      /\ \A x \in Devices : override[x] \in Override /\ override[x].id \in Nat
      /\ undo \in Seq(Entry) /\ holder.id = lastId + 1 /\ undone \subseteq 1 .. lastId
      /\ StackSound
      /\ \A x \in Devices : SoundNow(x, holder.priors[x])
      /\ \A x \in Devices :
            \/ SoundNow(x, override[x])
            \/ /\ x \in holder.changed
               /\ override[x].id = holder.id /\ override[x].kind = holder.type
  BY OverrideFacts DEF EndIssue, Free, IInv, AllSound, IssueSound, TypeOK
<1>1. lastId' = holder.id /\ undo' = Append(undo, new)
  BY DEF EndIssue
<1>2. /\ new.id = holder.id /\ new.devices = holder.changed /\ new.priors = holder.priors
      /\ holder.priors \in [Devices -> Override]
  BY <1>0, HolderFacts DEF IInv, TypeOK
<1> HIDE DEF new
<1>3. /\ Len(undo) \in Nat /\ DOMAIN undo = 1 .. Len(undo)
      /\ DOMAIN undo' = 1 .. Len(undo) + 1
      /\ \A i \in DOMAIN undo : undo'[i] = undo[i]
      /\ undo'[Len(undo) + 1] = new
  BY <1>0, <1>1
<1>4. ASSUME NEW x, NEW o \in Override, SoundNow(x, o)
      PROVE  Sound(x, o, undo', lastId', undone) /\ o.id < lastId'
  <2>1. o.id \in Nat /\ o.id <= lastId /\ o.id \notin undone
    BY <1>4, OverrideFacts DEF SoundNow, Sound
  <2>2. o.id < lastId' /\ o.id # new.id
    BY <1>0, <1>1, <1>2, <2>1
  <2>3. ASSUME NEW i \in DOMAIN undo', o.id = undo'[i].id
        PROVE  x \in undo'[i].devices /\ o.kind \in ValveCommands
    <3>1. i \in DOMAIN undo
      BY <1>3, <2>2, <2>3
    <3> QED
      BY <1>3, <1>4, <2>3, <3>1 DEF SoundNow, Sound
  <2> QED
    BY <1>0, <1>1, <2>1, <2>2, <2>3 DEF Sound
<1>5. \A i \in DOMAIN undo :
         /\ undo[i].id \in 1 .. lastId /\ undo[i].id \notin undone
         /\ \A j \in DOMAIN undo : j < i => undo[j].id < undo[i].id
         /\ undo[i].priors \in [Devices -> Override]
         /\ \A x \in Devices : undo[i].priors[x].id < undo[i].id
         /\ \A x \in Devices : SoundNow(x, undo[i].priors[x])
  BY <1>0, EntryFacts DEF StackSound
<1>6. StackSound'
  <2>1. ASSUME NEW i \in DOMAIN undo'
        PROVE  /\ undo'[i].id \in 1 .. lastId' /\ undo'[i].id \notin undone
               /\ \A j \in DOMAIN undo' : j < i => undo'[j].id < undo'[i].id
               /\ \A x \in Devices :
                     /\ Sound(x, undo'[i].priors[x], undo', lastId', undone)
                     /\ undo'[i].priors[x].id < undo'[i].id
    <3>1. CASE i \in DOMAIN undo
      <4>1. \A j \in DOMAIN undo' : j < i => j \in DOMAIN undo
        BY <1>3, <3>1
      <4>2. undo'[i].id \in 1 .. lastId'
        BY <1>0, <1>1, <1>3, <1>5, <3>1
      <4>3. \A j \in DOMAIN undo' : j < i => undo'[j].id < undo'[i].id
        BY <1>3, <1>5, <3>1, <4>1
      <4>4. \A x \in Devices : Sound(x, undo'[i].priors[x], undo', lastId', undone)
        BY <1>3, <1>4, <1>5, <3>1
      <4> QED
        BY <1>3, <1>5, <3>1, <4>2, <4>3, <4>4
    <3>2. CASE i = Len(undo) + 1
      <4>1. undo'[i].id = lastId + 1 /\ undo'[i].priors = holder.priors
        BY <1>0, <1>2, <1>3, <3>2
      <4>2. \A j \in DOMAIN undo' : j < i => undo'[j].id < undo'[i].id
        BY <1>0, <1>3, <1>5, <3>2, <4>1
      <4>3. undo'[i].id \in 1 .. lastId' /\ undo'[i].id \notin undone
        BY <1>0, <1>1, <4>1
      <4>4. \A x \in Devices : /\ Sound(x, undo'[i].priors[x], undo', lastId', undone)
                               /\ undo'[i].priors[x].id < undo'[i].id
        BY <1>0, <1>1, <1>2, <1>4, <4>1
      <4> QED
        BY <4>2, <4>3, <4>4
    <3> QED
      BY <1>3, <2>1, <3>1, <3>2
  <2> QED
    BY <1>0, <2>1 DEF StackSound, SoundNow
<1>7. OverridesSound'
  <2> SUFFICES ASSUME NEW x \in Devices
               PROVE  Sound(x, override[x], undo', lastId', undone)
    BY <1>0 DEF OverridesSound, SoundNow
  <2>1. CASE SoundNow(x, override[x])
    BY <1>0, <1>4, <2>1
  <2>2. CASE x \in holder.changed /\ override[x].id = holder.id /\ override[x].kind = holder.type
    <3>1. override[x].id <= lastId' /\ override[x].id \notin undone
      BY <1>0, <1>1, <2>2
    <3>2. ASSUME NEW i \in DOMAIN undo', override[x].id = undo'[i].id
          PROVE  undo'[i] = new
      BY <1>0, <1>3, <1>5, <2>2, <3>2
    <3> QED
      BY <1>2, <2>2, <3>1, <3>2 DEF Sound
  <2> QED
    BY <1>0, <2>1, <2>2
<1>8. IssueSound' /\ UndoSound'
  BY <1>0 DEF IssueSound, UndoSound
<1>9. (undone \subseteq 1 .. lastId)'
  BY <1>0, <1>1
<1> QED
  BY <1>6, <1>7, <1>8, <1>9 DEF AllSound

\* The end of a command.
LEMMA EndIssueSound == IInv /\ EndIssue => AllSound'
<1> SUFFICES ASSUME IInv, EndIssue PROVE AllSound'
  OBVIOUS
<1>1. CASE holder.changed # {} /\ holder.type \in ValveCommands
  BY <1>1, EndIssuePushes
<1>2. CASE ~(holder.changed # {} /\ holder.type \in ValveCommands)
  <2>1. undo' = undo
    BY <1>2 DEF EndIssue
  <2> QED
    BY <2>1, EndIssueKeepsStack
<1> QED
  BY <1>1, <1>2

\* Emptying the stack asks less of every override.
LEMMA DropExpiredSound == IInv /\ DropExpired => AllSound'
<1> SUFFICES ASSUME IInv, DropExpired PROVE AllSound'
  OBVIOUS
<1>1. /\ UNCHANGED <<override, lastId, holder, undone>> /\ holder.at = "free"
      /\ undo' = <<>> /\ DOMAIN undo' = {}
  BY DEF DropExpired, Free
<1> QED
  BY <1>1 DEF IInv, AllSound, StackSound, IssueSound, UndoSound, OverridesSound, SoundNow, Sound

\* An undo begins with the newest command that can be undone.
LEMMA BeginUndoSound == IInv /\ BeginUndo => AllSound'
<1> SUFFICES ASSUME IInv, BeginUndo PROVE AllSound'
  OBVIOUS
<1>0. /\ UNCHANGED <<override, lastId, undone>> /\ holder.at = "free"
      /\ undo \in Seq(Entry) /\ undo # <<>> /\ StackSound /\ undone \subseteq 1 .. lastId
      /\ \A x \in Devices : SoundNow(x, override[x])
  BY DEF BeginUndo, Free, IInv, AllSound, OverridesSound, TypeOK
<1>1. /\ Len(undo) \in Nat \ {0} /\ Len(undo) \in DOMAIN undo /\ Top = undo[Len(undo)]
      /\ DOMAIN undo' = 1 .. Len(undo) - 1
      /\ \A i \in DOMAIN undo' : i \in DOMAIN undo /\ undo'[i] = undo[i] /\ i < Len(undo)
  <2>1. undo' = SubSeq(undo, 1, Len(undo) - 1)
    BY DEF BeginUndo
  <2> QED
    BY <1>0, <2>1, PopFacts
<1>2. holder'.at = "undo" /\ holder'.entry = Top /\ holder'.todo = Top.devices
  BY DEF BeginUndo
<1>3. ASSUME NEW x, NEW o, SoundNow(x, o)
      PROVE  Sound(x, o, undo', lastId', undone')
  BY <1>0, <1>1, <1>3 DEF SoundNow, Sound
<1>4. StackSound'
  BY <1>0, <1>1, <1>3 DEF StackSound, SoundNow
<1>5. UndoSound'
  <2>1. /\ Top.id \in 1 .. lastId /\ Top.id \notin undone
        /\ \A i \in DOMAIN undo' : undo'[i].id < Top.id
    BY <1>0, <1>1 DEF StackSound
  <2>2. \A x \in Devices : /\ Sound(x, Top.priors[x], undo', lastId', undone')
                           /\ Top.priors[x].id < Top.id
    BY <1>0, <1>1, <1>3 DEF StackSound
  <2>3. \A x \in Devices : override[x].id = Top.id =>
            x \in Top.devices /\ override[x].kind \in ValveCommands
    BY <1>0, <1>1 DEF SoundNow, Sound
  <2> QED
    BY <1>0, <1>2, <2>1, <2>2, <2>3 DEF UndoSound, SoundNow
<1>6. IssueSound' /\ OverridesSound'
  BY <1>0, <1>2, <1>3 DEF IssueSound, OverridesSound, SoundNow
<1> QED
  BY <1>0, <1>4, <1>5, <1>6 DEF AllSound

\* An undo reaches one of its devices: what a step of it does to the override.
LEMMA RestoreFacts ==
    ASSUME IInv, RestoreDevice
    PROVE  /\ UNCHANGED <<clock, undo, lastId, undone>>
           /\ holder.at = "undo" /\ holder'.at = "undo" /\ holder'.entry = holder.entry
           /\ \E d \in Devices :
                 /\ holder'.todo = holder.todo \ {d}
                 /\ \A x \in Devices \ {d} : override'[x] = override[x]
                 /\ IF override[d].id = holder.entry.id
                    THEN override'[d] = holder.entry.priors[d]
                    ELSE override'[d] = override[d]
<1>0. /\ holder \in [at : {"undo"}, entry : Entry, todo : SUBSET Devices]
      /\ holder.todo \in SUBSET Devices /\ override \in [Devices -> Override]
  BY HolderFacts DEF IInv, TypeOK, RestoreDevice
<1>1. PICK d \in holder.todo : Restore(d)
  BY DEF RestoreDevice
<1>2. holder' = [holder EXCEPT !.todo = holder.todo \ {d}]
  BY <1>1 DEF Restore
<1>3. d \in Devices
  BY <1>0
<1>4. /\ \A x \in Devices \ {d} : override'[x] = override[x]
      /\ IF override[d].id = holder.entry.id
         THEN override'[d] = holder.entry.priors[d]
         ELSE override'[d] = override[d]
  <2>1. CASE override[d].id = holder.entry.id
    <3>1. override' = [override EXCEPT ![d] = holder.entry.priors[d]]
      BY <1>1, <2>1 DEF Restore
    <3> QED
      BY <1>0, <1>3, <2>1, <3>1
  <2>2. CASE override[d].id # holder.entry.id
    <3>1. override' = override
      BY <1>1, <2>2 DEF Restore
    <3> QED
      BY <2>2, <3>1
  <2> QED
    BY <2>1, <2>2
<1>5. holder'.at = "undo" /\ holder'.entry = holder.entry /\ holder'.todo = holder.todo \ {d}
  BY <1>0, <1>2
<1>6. UNCHANGED <<clock, undo, lastId, undone>> /\ holder.at = "undo"
  BY DEF RestoreDevice
<1> QED
  BY <1>3, <1>4, <1>5, <1>6

\* An undo puts back an older override, which is sound.
LEMMA RestoreDeviceSound == IInv /\ RestoreDevice => AllSound'
<1> SUFFICES ASSUME IInv, RestoreDevice PROVE AllSound'
  OBVIOUS
<1>0. /\ UNCHANGED <<clock, undo, lastId, undone>>
      /\ holder.at = "undo" /\ holder'.at = "undo" /\ holder'.entry = holder.entry
  BY RestoreFacts
<1>1. PICK d \in Devices :
         /\ holder'.todo = holder.todo \ {d}
         /\ \A x \in Devices \ {d} : override'[x] = override[x]
         /\ IF override[d].id = holder.entry.id
            THEN override'[d] = holder.entry.priors[d]
            ELSE override'[d] = override[d]
  BY RestoreFacts
<1>2. /\ holder.entry.id \in 1 .. lastId /\ holder.entry.id \notin undone
      /\ \A i \in DOMAIN undo : undo[i].id < holder.entry.id
      /\ \A x \in Devices :
            /\ SoundNow(x, holder.entry.priors[x])
            /\ holder.entry.priors[x].id < holder.entry.id
            /\ override[x].id = holder.entry.id =>
                  x \in holder.todo /\ override[x].kind \in ValveCommands
      /\ \A x \in Devices : SoundNow(x, override[x])
  BY <1>0 DEF IInv, AllSound, UndoSound, OverridesSound
<1>3. /\ lastId \in Nat /\ holder.entry.id \in Nat
      /\ \A x \in Devices : holder.entry.priors[x].id \in Nat
  BY <1>0, HolderFacts, EntryFacts, OverrideFacts DEF IInv, TypeOK
<1>4. \A x \in Devices :
         /\ SoundNow(x, override'[x])
         /\ override'[x].id = holder.entry.id =>
               x \in holder'.todo /\ override'[x].kind \in ValveCommands
  <2>1. SoundNow(d, override'[d]) /\ override'[d].id # holder.entry.id
    BY <1>1, <1>2, <1>3
  <2> QED
    BY <1>1, <1>2, <2>1
<1>5. UndoSound' /\ OverridesSound'
  BY <1>0, <1>2, <1>4 DEF UndoSound, OverridesSound, SoundNow
<1>6. IssueSound' /\ StackSound'
  BY <1>0 DEF IInv, AllSound, IssueSound, StackSound, SoundNow
<1> QED
  BY <1>0, <1>5, <1>6 DEF IInv, AllSound

\* A command is undone once no device has its override.
LEMMA EndUndoSound == IInv /\ EndUndo => AllSound'
<1> SUFFICES ASSUME IInv, EndUndo PROVE AllSound'
  OBVIOUS
<1>0. /\ UNCHANGED <<override, undo, lastId>> /\ holder.at = "undo" /\ holder.todo = {}
      /\ holder'.at = "free" /\ undone' = undone \cup {holder.entry.id}
      /\ undone \subseteq 1 .. lastId /\ StackSound
      /\ undo \in Seq(Entry)
  BY DEF EndUndo, Free, IInv, AllSound, TypeOK
<1>1. /\ holder.entry.id \in 1 .. lastId
      /\ \A i \in DOMAIN undo : undo[i].id < holder.entry.id
      /\ \A x \in Devices : override[x].id # holder.entry.id
      /\ \A x \in Devices : SoundNow(x, override[x])
  BY <1>0 DEF IInv, AllSound, UndoSound, OverridesSound
<1>2. ASSUME NEW x, NEW o, SoundNow(x, o), o.id # holder.entry.id
      PROVE  Sound(x, o, undo, lastId, undone')
  BY <1>0, <1>2 DEF SoundNow, Sound
<1>3. \A i \in DOMAIN undo :
         /\ undo[i].id \in Nat
         /\ \A x \in Devices : undo[i].priors[x].id \in Nat
  BY <1>0, EntryFacts, OverrideFacts
<1>4. holder.entry.id \in Nat
  BY <1>1
<1>5. StackSound'
  <2>1. \A i \in DOMAIN undo :
           /\ undo[i].id \notin undone'
           /\ \A x \in Devices : undo[i].priors[x].id # holder.entry.id
    BY <1>0, <1>1, <1>3, <1>4 DEF StackSound
  <2>2. \A i \in DOMAIN undo : \A x \in Devices :
            Sound(x, undo[i].priors[x], undo, lastId, undone')
    BY <1>0, <1>2, <2>1 DEF StackSound
  <2> QED
    BY <1>0, <2>1, <2>2 DEF StackSound, SoundNow
<1>6. OverridesSound' /\ IssueSound' /\ UndoSound'
  BY <1>0, <1>1, <1>2 DEF OverridesSound, IssueSound, UndoSound, SoundNow
<1> QED
  BY <1>0, <1>1, <1>5, <1>6 DEF AllSound

\* Every step keeps the inductive invariant.
LEMMA InvStep == IInv /\ [Next]_vars => IInv'
<1> SUFFICES ASSUME IInv, [Next]_vars PROVE AllSound'
  BY TypeStep DEF IInv
<1>1. CASE UNCHANGED vars
  BY <1>1 DEF IInv, AllSound, StackSound, IssueSound, UndoSound, OverridesSound, SoundNow, vars
<1> QED
  BY <1>1, AdvanceSound, BeginIssueSound, IssueToDeviceSound, EndIssueSound, DropExpiredSound,
     BeginUndoSound, RestoreDeviceSound, EndUndoSound DEF Next

\* The inductive invariant holds.
LEMMA InvHolds == Spec => []IInv
<1>1. Init => IInv
  BY TypeInit, SoundInit DEF IInv
<1> QED
  BY <1>1, InvStep, PTL DEF Spec

\* The invariant says it of every override.
LEMMA NotUndone == IInv => NoUndoneOverride
<1> SUFFICES ASSUME IInv, NEW d \in Devices PROVE override[d].id \notin undone
  BY DEF NoUndoneOverride
<1>1. CASE SoundNow(d, override[d])
  BY <1>1 DEF SoundNow, Sound
<1>2. CASE holder.at = "issue" /\ override[d].id = lastId + 1
  BY <1>2 DEF IInv, AllSound, TypeOK
<1> QED
  BY <1>1, <1>2 DEF IInv, AllSound, OverridesSound, IssueSound

\* No device shows the override of a command that was undone.
THEOREM NoneUndone == Spec => []NoUndoneOverride
BY NotUndone, InvHolds, PTL

\* A command that is issued ends a live reboot only if it is a reboot itself.
LEMMA PutOverrideKeepsReboot ==
    ASSUME IInv, NEW d \in Devices, NEW e \in Devices, IsRebooting(d, clock),
           holder.at = "issue", PutOverride(e), override'[d] # override[d]
    PROVE  override'[d].kind = "Reboot"
<1>1. /\ override \in [Devices -> Override] /\ clock \in Nat
      /\ holder \in Holder /\ holder.batch <= clock
  BY DEF IInv, AllSound, IssueSound, TypeOK
<1>2. holder.batch \in Nat
  BY <1>1, HolderFacts
<1>3. d = e /\ override'[d].kind = holder.type
  BY <1>1 DEF PutOverride
<1>4. override[d].kind = "Reboot" /\ override[d].until > clock /\ override[d].until \in Nat
  BY <1>1, OverrideFacts DEF IsRebooting
<1>5. IsRebooting(d, holder.batch)
  BY <1>1, <1>2, <1>4 DEF IsRebooting
<1>6. holder.type \in OverrideCommands /\ holder.type \notin ValveCommands
  BY <1>3, <1>5 DEF PutOverride
<1> QED
  BY <1>3, <1>6 DEF OverrideCommands

\* An undo replaces valve overrides only.
LEMMA RestoreKeepsReboot ==
    ASSUME IInv, NEW d \in Devices, NEW e \in Devices, IsRebooting(d, clock),
           holder.at = "undo", Restore(e)
    PROVE  override'[d] = override[d]
<1>1. override \in [Devices -> Override]
  BY DEF IInv, TypeOK
<1>2. override[d].id # holder.entry.id
  BY DEF IInv, AllSound, UndoSound, IsRebooting, ValveCommands
<1> QED
  BY <1>1, <1>2 DEF Restore

\* A live reboot is ended by nothing but another reboot.
THEOREM RebootKept == Spec => RebootNotInterrupted
<1>1. ASSUME IInv, [Next]_vars, NEW d \in Devices,
             IsRebooting(d, clock), override'[d] # override[d]
      PROVE  override'[d].kind = "Reboot"
  <2>1. CASE IssueToDevice
    <3>1. holder.at = "issue" /\ holder.todo \in SUBSET Devices
      BY <1>1, <2>1, HolderFacts DEF IssueToDevice, IInv, TypeOK
    <3>2. PICK e \in holder.todo : SkipRebooting(e) \/ PutOverride(e) \/ NoteDevice(e)
      BY <2>1 DEF IssueToDevice
    <3>3. PutOverride(e)
      BY <1>1, <3>2 DEF SkipRebooting, NoteDevice
    <3> QED
      BY <1>1, <3>1, <3>3, PutOverrideKeepsReboot
  <2>2. CASE RestoreDevice
    <3>1. holder.at = "undo" /\ holder.todo \in SUBSET Devices
      BY <1>1, <2>2, HolderFacts DEF RestoreDevice, IInv, TypeOK
    <3>2. PICK e \in holder.todo : Restore(e)
      BY <2>2 DEF RestoreDevice
    <3> QED
      BY <1>1, <3>1, <3>2, RestoreKeepsReboot
  <2>3. CASE UNCHANGED override
    BY <1>1, <2>3
  <2> QED
    BY <1>1, <2>1, <2>2, <2>3 DEF Next, vars, Advance, BeginIssue, EndIssue, DropExpired,
       BeginUndo, EndUndo
<1>2. IInv /\ [Next]_vars =>
         [\A d \in Devices :
             IsRebooting(d, clock) /\ override'[d] # override[d]
                => override'[d].kind = "Reboot"]_vars
  BY <1>1
<1> QED
  BY <1>2, InvHolds, PTL DEF Spec, RebootNotInterrupted
-----------------------------------------------------------------------------
(* What the steps do to the undo stack, the history and the overrides.         *)

\* Batches grow towards the top of the undo stack, and none is later than the
\* clock or than the batch that the command being issued has read.
BatchesGrow ==
    \A i \in DOMAIN undo :
        /\ undo[i].batch <= clock
        /\ holder.at = "issue" => undo[i].batch <= holder.batch
        /\ \A j \in DOMAIN undo : j < i => undo[j].batch <= undo[i].batch

\* The history: newest first, of commands that were issued, with their undos.
HistoryInv ==
    /\ \A i \in DOMAIN history : history[i].id \in 1 .. lastId
    /\ HistoryAccurate

\* o is the override that a device has from the commands of S: that of the newest.
NewestOf(S, o) ==
    IF S = {} THEN o = NoOverride ELSE o.id \in S /\ \A n \in S : n <= o.id

\* Those of the commands S before n.
Before(S, n) == {m \in S : m < n}

\* What an entry with saved overrides knows of the devices.
EntryNewest(entry) ==
    /\ entry.devices = affected[entry.id]
    /\ \A d \in Devices : NewestOf(Before(Standing(d), entry.id), entry.priors[d])

\* The saved overrides are those of the newest commands before; a device that a
\* command or an undo still has to reach has the override from before it, and
\* one that was reached the one from after it.
NewestInv ==
    /\ \A n \in 1 .. MaxCommands : n > lastId => affected[n] = {}
    /\ \A i \in DOMAIN undo : EntryNewest(undo[i])
    /\ holder.at = "free" => \A d \in Devices : NewestOf(Standing(d), override[d])
    /\ holder.at = "issue" =>
          \A d \in Devices :
              /\ NewestOf(Standing(d), holder.priors[d])
              /\ IF d \in holder.changed /\ holder.type \in OverrideCommands
                 THEN override[d].id = holder.id
                 ELSE override[d] = holder.priors[d]
    /\ holder.at = "undo" =>
          /\ EntryNewest(holder.entry)
          /\ holder.todo \subseteq holder.entry.devices
          /\ \A d \in Devices :
                NewestOf(IF d \in holder.todo THEN Standing(d) ELSE Standing(d) \ {holder.entry.id},
                         override[d])

\* An override lasts as long as the record of its command says.
Dated(o) == \A i \in DOMAIN history :
    history[i].id = o.id => o.until = history[i].batch + GraceBatches

\* An entry of the undo stack has the batch of its record, and overrides it
\* saved last as long as their records say.
EntryDated(entry) ==
    /\ \A i \in DOMAIN history : history[i].id = entry.id => history[i].batch = entry.batch
    /\ \A d \in Devices : Dated(entry.priors[d])

\* A command in the history that is in force can be undone or is being undone.
LabelsInv ==
    /\ \A i \in DOMAIN undo : EntryDated(undo[i])
    /\ \A i \in DOMAIN history :
          /\ history[i].type \in ValveCommands
          /\ ~history[i].undone
          /\ history[i].batch + GraceBatches > clock
          => \/ \E j \in DOMAIN undo : undo[j].id = history[i].id
             \/ holder.at = "undo" /\ holder.entry.id = history[i].id
    /\ \A d \in Devices :
          \/ Dated(override[d])
          \/ holder.at = "issue" /\ override[d].id = holder.id
    /\ holder.at = "issue" =>
          \A d \in Devices :
              /\ Dated(holder.priors[d])
              /\ override[d].id = holder.id => override[d].until = holder.batch + GraceBatches
    /\ holder.at = "undo" => EntryDated(holder.entry)
-----------------------------------------------------------------------------
\* The entry and the record of the command that ends.
NewEntry == [id |-> holder.id, batch |-> holder.batch, devices |-> holder.changed,
             priors |-> holder.priors]
NewRecord == [id |-> holder.id, type |-> holder.type, batch |-> holder.batch, undone |-> FALSE]

\* What the two hold.
LEMMA NewFacts ==
    ASSUME TypeOK, holder.at = "issue"
    PROVE  /\ NewEntry \in Entry /\ NewEntry.id = holder.id /\ NewEntry.batch = holder.batch
           /\ NewEntry.devices = holder.changed /\ NewEntry.priors = holder.priors
           /\ NewRecord \in Record /\ NewRecord.id = holder.id
           /\ NewRecord.type = holder.type /\ NewRecord.batch = holder.batch
           /\ NewRecord.undone = FALSE
<1>1. /\ holder.type \in Commands /\ holder.id \in 1 .. MaxCommands /\ holder.batch \in Nat
      /\ holder.changed \in SUBSET Devices /\ holder.priors \in [Devices -> Override]
  BY HolderFacts DEF TypeOK
<1>2. holder.id \in Nat
  BY <1>1, BoundsAssumption
<1> QED
  BY <1>1, <1>2 DEF NewEntry, NewRecord, Entry, Record

\* The stack with an entry more.
LEMMA PushedFacts ==
    ASSUME undo \in Seq(Entry), NEW e \in Entry, undo' = Append(undo, e)
    PROVE  /\ Len(undo) \in Nat /\ DOMAIN undo = 1 .. Len(undo)
           /\ DOMAIN undo' = 1 .. Len(undo) + 1
           /\ \A i \in DOMAIN undo : i \in DOMAIN undo' /\ undo'[i] = undo[i] /\ i <= Len(undo)
           /\ undo'[Len(undo) + 1] = e
           /\ \A i \in DOMAIN undo' : i \in DOMAIN undo \/ i = Len(undo) + 1
OBVIOUS

\* The stack without its top entry.
LEMMA PoppedFacts ==
    ASSUME TypeOK, BeginUndo
    PROVE  /\ UNCHANGED <<clock, override, history, lastId, affected, undone>>
           /\ holder.at = "free" /\ holder'.at = "undo"
           /\ holder'.entry = Top /\ holder'.todo = Top.devices
           /\ Len(undo) \in DOMAIN undo /\ Top = undo[Len(undo)] /\ Top \in Entry
           /\ DOMAIN undo' = 1 .. Len(undo) - 1
           /\ \A i \in DOMAIN undo' : i \in DOMAIN undo /\ undo'[i] = undo[i] /\ i < Len(undo)
           /\ \A i \in DOMAIN undo : i = Len(undo) \/ i \in DOMAIN undo'
<1>1. UNCHANGED <<clock, override, history, lastId, affected, undone>> /\ holder.at = "free"
  BY DEF BeginUndo, Free
<1>2. holder' = [at |-> "undo", entry |-> Top, todo |-> Top.devices]
  BY DEF BeginUndo
<1>3. undo' = SubSeq(undo, 1, Len(undo) - 1) /\ undo \in Seq(Entry) /\ undo # <<>>
  BY DEF BeginUndo, TypeOK
<1>4. /\ Len(undo) \in Nat \ {0} /\ Len(undo) \in DOMAIN undo
      /\ Top \in Entry /\ Top = undo[Len(undo)]
      /\ DOMAIN undo' = 1 .. Len(undo) - 1
      /\ \A i \in DOMAIN undo' : i \in DOMAIN undo /\ undo'[i] = undo[i]
  BY <1>3, PopFacts
<1>5. DOMAIN undo = 1 .. Len(undo)
  BY <1>3
<1>6. /\ \A i \in DOMAIN undo' : i < Len(undo)
      /\ \A i \in DOMAIN undo : i = Len(undo) \/ i \in DOMAIN undo'
  BY <1>4, <1>5
<1>7. holder'.at = "undo" /\ holder'.entry = Top /\ holder'.todo = Top.devices
  BY <1>2
<1> QED
  BY <1>1, <1>4, <1>6, <1>7

\* The limited history with a record more.
LEMMA CappedFacts ==
    ASSUME NEW S, NEW s \in Seq(S), NEW r \in S, NEW c, c = Capped(<<r>> \o s)
    PROVE  /\ Len(c) \in Nat /\ DOMAIN c = 1 .. Len(c)
           /\ Len(c) = IF Len(s) + 1 > HistoryLimit THEN HistoryLimit ELSE Len(s) + 1
           /\ \A i \in DOMAIN c : \/ i = 1 /\ c[i] = r
                                  \/ i - 1 \in DOMAIN s /\ c[i] = s[i - 1]
<1> DEFINE longer == <<r>> \o s
<1>1. /\ longer \in Seq(S) /\ Len(longer) = Len(s) + 1 /\ Len(s) \in Nat
      /\ \A i \in 1 .. Len(longer) : longer[i] = IF i = 1 THEN r ELSE s[i - 1]
  OBVIOUS
<1>0. c = Capped(longer)
  OBVIOUS
<1> HIDE DEF longer
<1>2. PICK n \in Nat : /\ n <= Len(longer) /\ c = SubSeq(longer, 1, n)
                      /\ n = IF Len(longer) > HistoryLimit THEN HistoryLimit ELSE Len(longer)
  <2>1. HistoryLimit \in Nat /\ Len(longer) \in Nat
    BY <1>1, BoundsAssumption
  <2>2. CASE Len(longer) > HistoryLimit
    BY <1>0, <2>1, <2>2 DEF Capped
  <2>3. CASE ~(Len(longer) > HistoryLimit)
    BY <1>0, <2>1, <2>3 DEF Capped
  <2> QED
    BY <2>2, <2>3
<1>3. Len(c) = n /\ DOMAIN c = 1 .. n /\ \A i \in 1 .. n : c[i] = longer[i]
  BY <1>1, <1>2
<1>4. DOMAIN s = 1 .. Len(s)
  OBVIOUS
<1>5. ASSUME NEW i \in 1 .. n
      PROVE  (i = 1 /\ c[i] = r) \/ (i - 1 \in DOMAIN s /\ c[i] = s[i - 1])
  <2>1. i \in 1 .. Len(longer) /\ c[i] = longer[i]
    BY <1>1, <1>2, <1>3
  <2>2. i = 1 \/ i - 1 \in 1 .. Len(s)
    BY <1>1, <1>2
  <2>3. CASE i = 1
    BY <1>1, <2>1, <2>3
  <2>4. CASE i # 1
    BY <1>1, <1>4, <2>1, <2>2, <2>4
  <2> QED
    BY <2>3, <2>4
<1> QED
  BY <1>1, <1>2, <1>3, <1>5

\* The end of a command.
LEMMA EndIssueFacts ==
    ASSUME TypeOK, EndIssue
    PROVE  /\ UNCHANGED <<clock, override, undone>>
           /\ holder.at = "issue" /\ holder'.at = "free" /\ holder.todo = {}
           /\ \/ holder.changed = {} /\ UNCHANGED <<undo, history, lastId, affected>>
              \/ /\ holder.changed # {} /\ lastId' = holder.id
                 /\ undo' = IF holder.type \in ValveCommands THEN Append(undo, NewEntry) ELSE undo
                 /\ affected' = IF holder.type \in OverrideCommands
                                THEN [affected EXCEPT ![holder.id] = holder.changed]
                                ELSE affected
                 /\ Len(history') = IF Len(history) + 1 > HistoryLimit THEN HistoryLimit
                                                                       ELSE Len(history) + 1
                 /\ \A i \in DOMAIN history' :
                       /\ i \in Nat
                       /\ \/ i = 1 /\ history'[i] = NewRecord
                          \/ i - 1 \in DOMAIN history /\ history'[i] = history[i - 1]
<1>1. /\ UNCHANGED <<clock, override, undone>>
      /\ holder.at = "issue" /\ holder'.at = "free" /\ holder.todo = {}
  BY DEF EndIssue, Free
<1>2. CASE holder.changed = {}
  BY <1>1, <1>2 DEF EndIssue
<1>3. CASE holder.changed # {}
  <2>1. /\ lastId' = holder.id
        /\ undo' = IF holder.type \in ValveCommands THEN Append(undo, NewEntry) ELSE undo
        /\ affected' = IF holder.type \in OverrideCommands
                       THEN [affected EXCEPT ![holder.id] = holder.changed]
                       ELSE affected
        /\ history' = Capped(<<NewRecord>> \o history)
    BY <1>3 DEF EndIssue, NewEntry, NewRecord
  <2>2. NewRecord \in Record /\ history \in Seq(Record)
    BY <1>1, NewFacts DEF TypeOK
  <2>3. /\ Len(history') \in Nat /\ DOMAIN history' = 1 .. Len(history')
        /\ Len(history') = IF Len(history) + 1 > HistoryLimit THEN HistoryLimit
                                                              ELSE Len(history) + 1
        /\ \A i \in DOMAIN history' : \/ i = 1 /\ history'[i] = NewRecord
                                      \/ i - 1 \in DOMAIN history /\ history'[i] = history[i - 1]
    BY <2>1, <2>2, CappedFacts
  <2> QED
    BY <1>1, <1>3, <2>1, <2>3
<1> QED
  BY <1>2, <1>3

\* A command reaches one of its devices.
LEMMA IssueFacts ==
    ASSUME TypeOK, IssueToDevice
    PROVE  /\ UNCHANGED <<clock, undo, history, lastId, affected, undone>>
           /\ holder.at = "issue" /\ holder'.at = "issue"
           /\ holder'.id = holder.id /\ holder'.batch = holder.batch /\ holder'.type = holder.type
           /\ holder'.todo \subseteq holder.todo
           /\ \/ /\ override' = override /\ holder'.priors = holder.priors
                 /\ holder'.changed = holder.changed \/ holder.type \notin OverrideCommands
              \/ /\ holder.type \in OverrideCommands
                 /\ \E d \in Devices \cap holder.todo :
                       /\ override'[d].id = holder.id
                       /\ override'[d].until = holder.batch + GraceBatches
                       /\ holder'.priors[d] = override[d]
                       /\ holder'.changed = holder.changed \cup {d}
                       /\ \A x \in Devices \ {d} : /\ override'[x] = override[x]
                                                   /\ holder'.priors[x] = holder.priors[x]
<1>0. /\ UNCHANGED <<clock, undo, history, lastId, affected, undone>> /\ holder.at = "issue"
      /\ override \in [Devices -> Override]
      /\ holder \in [at : {"issue"}, type : Commands, id : 1 .. MaxCommands, batch : Nat,
                     todo : SUBSET Devices, changed : SUBSET Devices,
                     priors : [Devices -> Override]]
      /\ holder.priors \in [Devices -> Override] /\ holder.todo \in SUBSET Devices
  BY HolderFacts DEF TypeOK, IssueToDevice
<1>1. PICK d \in holder.todo : SkipRebooting(d) \/ PutOverride(d) \/ NoteDevice(d)
  BY DEF IssueToDevice
<1>2. /\ holder'.at = "issue" /\ holder'.id = holder.id /\ holder'.batch = holder.batch
      /\ holder'.type = holder.type /\ holder'.todo = holder.todo \ {d}
  BY <1>0, <1>1 DEF SkipRebooting, PutOverride, NoteDevice
<1>3. CASE SkipRebooting(d) \/ NoteDevice(d)
  <2>1. /\ override' = override /\ holder'.priors = holder.priors
        /\ holder'.changed = holder.changed \/ holder.type = "Note"
    BY <1>0, <1>3 DEF SkipRebooting, NoteDevice
  <2> QED
    BY <1>0, <1>2, <2>1 DEF OverrideCommands, ValveCommands
<1>4. CASE PutOverride(d)
  <2>1. /\ holder'.priors = [holder.priors EXCEPT ![d] = override[d]]
        /\ holder'.changed = holder.changed \cup {d}
        /\ holder.type \in OverrideCommands
    BY <1>0, <1>4 DEF PutOverride
  <2>2. override' = [override EXCEPT ![d] = [kind |-> holder.type, id |-> holder.id,
                                             until |-> holder.batch + GraceBatches]]
    BY <1>4 DEF PutOverride
  <2>3. /\ override'[d].id = holder.id /\ override'[d].until = holder.batch + GraceBatches
        /\ \A x \in Devices \ {d} : override'[x] = override[x]
    BY <1>0, <2>2
  <2>4. /\ holder'.priors[d] = override[d]
        /\ \A x \in Devices \ {d} : holder'.priors[x] = holder.priors[x]
    BY <1>0, <2>1
  <2> QED
    BY <1>0, <1>2, <2>1, <2>3, <2>4
<1> QED
  BY <1>1, <1>3, <1>4

\* The record of the command that was undone is marked, the others are as before.
LEMMA MarkedFacts ==
    ASSUME TypeOK, EndUndo
    PROVE  /\ UNCHANGED <<clock, override, undo, lastId, affected>>
           /\ holder.at = "undo" /\ holder.todo = {} /\ holder'.at = "free"
           /\ undone' = undone \cup {holder.entry.id}
           /\ DOMAIN history' = DOMAIN history /\ Len(history') = Len(history)
           /\ \A i \in DOMAIN history :
                 /\ history'[i].id = history[i].id /\ history'[i].type = history[i].type
                 /\ history'[i].batch = history[i].batch
                 /\ history'[i].undone = (history[i].id = holder.entry.id \/ history[i].undone)
<1>1. /\ UNCHANGED <<clock, override, undo, lastId, affected>>
      /\ holder.at = "undo" /\ holder.todo = {} /\ holder'.at = "free"
      /\ undone' = undone \cup {holder.entry.id}
  BY DEF EndUndo, Free
<1>2. history' = [i \in DOMAIN history |->
                     IF history[i].id = holder.entry.id
                     THEN [history[i] EXCEPT !.undone = TRUE] ELSE history[i]]
  BY DEF EndUndo
<1>3. \A i \in DOMAIN history : history[i] \in Record
  BY DEF TypeOK
<1>4. \A r \in Record : /\ [r EXCEPT !.undone = TRUE].id = r.id
                        /\ [r EXCEPT !.undone = TRUE].type = r.type
                        /\ [r EXCEPT !.undone = TRUE].batch = r.batch
                        /\ [r EXCEPT !.undone = TRUE].undone = TRUE
                        /\ r.undone \in BOOLEAN
  BY DEF Record
<1>5. ASSUME NEW i \in DOMAIN history
      PROVE  /\ history'[i].id = history[i].id /\ history'[i].type = history[i].type
             /\ history'[i].batch = history[i].batch
             /\ history'[i].undone = (history[i].id = holder.entry.id \/ history[i].undone)
  <2>1. CASE history[i].id = holder.entry.id
    BY <1>2, <1>3, <1>4, <2>1, Zenon
  <2>2. CASE history[i].id # holder.entry.id
    BY <1>2, <1>3, <1>4, <2>2, Zenon
  <2> QED
    BY <2>1, <2>2
<1>6. Len(history') = Len(history)
  <2>1. history \in Seq(Record) /\ history' \in Seq(Record)
    BY EndUndoType DEF TypeOK
  <2>2. /\ Len(history) \in Nat /\ Len(history') \in Nat
        /\ DOMAIN history = 1 .. Len(history) /\ DOMAIN history' = 1 .. Len(history')
    BY <2>1
  <2>3. 1 .. Len(history) = 1 .. Len(history')
    BY <1>2, <2>2, Zenon
  <2>4. \A m, n \in Nat : 1 .. m = 1 .. n => m = n
    OBVIOUS
  <2> QED
    BY <2>2, <2>3, <2>4
<1> QED
  BY <1>1, <1>2, <1>5, <1>6
-----------------------------------------------------------------------------
(* The batches of the undo stack, and the history.                             *)

\* A new entry goes on top with the latest batch of all.
LEMMA BatchesStep == IInv /\ BatchesGrow /\ [Next]_vars => BatchesGrow'
<1> SUFFICES ASSUME IInv, BatchesGrow, [Next]_vars PROVE BatchesGrow'
  OBVIOUS
<1>0. /\ TypeOK /\ clock \in Nat /\ undo \in Seq(Entry)
      /\ \A i \in DOMAIN undo : undo[i].batch \in Nat
      /\ holder.at = "issue" => holder.batch \in Nat /\ holder.batch <= clock
  BY HolderFacts, EntryFacts DEF IInv, AllSound, IssueSound, TypeOK
<1>1. CASE Advance
  BY <1>0, <1>1 DEF Advance, BatchesGrow
<1>2. ASSUME NEW type \in Commands, NEW wanted \in SUBSET Devices, BeginIssue(type, wanted)
      PROVE  BatchesGrow'
  <2>1. holder'.at = "issue" /\ holder'.batch = clock /\ UNCHANGED <<undo, clock>>
    BY <1>2 DEF BeginIssue
  <2> QED
    BY <2>1 DEF BatchesGrow
<1>3. CASE IssueToDevice
  BY <1>0, <1>3, IssueFacts DEF BatchesGrow
<1>4. CASE EndIssue
  <2>1. /\ clock' = clock /\ holder'.at = "free" /\ holder.at = "issue"
        /\ undo' = undo \/ undo' = Append(undo, NewEntry)
        /\ NewEntry \in Entry /\ NewEntry.batch = holder.batch
    BY <1>0, <1>4, EndIssueFacts, NewFacts
  <2>2. CASE undo' = undo
    BY <2>1, <2>2 DEF BatchesGrow
  <2>3. CASE undo' = Append(undo, NewEntry)
    BY <1>0, <2>1, <2>3, PushedFacts DEF BatchesGrow
  <2> QED
    BY <2>1, <2>2, <2>3
<1>5. CASE DropExpired
  <2>1. DOMAIN undo' = {}
    BY <1>5 DEF DropExpired
  <2> QED
    BY <2>1 DEF BatchesGrow
<1>6. CASE BeginUndo
  BY <1>0, <1>6, PoppedFacts DEF BatchesGrow
<1>7. CASE RestoreDevice
  BY <1>7, RestoreFacts DEF BatchesGrow
<1>8. CASE EndUndo
  BY <1>0, <1>8, MarkedFacts DEF BatchesGrow
<1>9. CASE UNCHANGED vars
  BY <1>9 DEF BatchesGrow, vars
<1> QED
  BY <1>1, <1>2, <1>3, <1>4, <1>5, <1>6, <1>7, <1>8, <1>9 DEF Next

\* What clearing the stack drops has expired: its top entry has, and the others
\* are not of a later batch.
LEMMA ExpiredBelow ==
    ASSUME TypeOK, BatchesGrow, TopExpired
    PROVE  \A i \in DOMAIN undo : undo[i].batch + GraceBatches <= clock
<1>1. /\ Len(undo) \in Nat \ {0} /\ Len(undo) \in DOMAIN undo /\ Top = undo[Len(undo)]
      /\ DOMAIN undo = 1 .. Len(undo)
  BY PopFacts DEF TypeOK, TopExpired
<1>2. /\ \A i \in DOMAIN undo : undo[i].batch \in Nat
      /\ GraceBatches \in Nat /\ clock \in Nat
  BY EntryFacts, BoundsAssumption DEF TypeOK
<1>3. \A i \in DOMAIN undo : i = Len(undo) \/ i < Len(undo)
  BY <1>1
<1>4. Top.batch + GraceBatches <= clock
  BY DEF TopExpired
<1> QED
  BY <1>1, <1>2, <1>3, <1>4 DEF BatchesGrow

\* Equivalent Booleans are equal.
LEMMA BooleansEqual == \A a, b \in BOOLEAN : (a <=> b) => a = b
OBVIOUS

\* A new record goes first, and the record of an undone command is marked.
LEMMA HistoryStep == IInv /\ HistoryInv /\ [Next]_vars => HistoryInv'
<1> SUFFICES ASSUME IInv, HistoryInv, [Next]_vars PROVE HistoryInv'
  OBVIOUS
<1>0. TypeOK /\ lastId \in Nat /\ undone \subseteq 1 .. lastId /\ history \in Seq(Record)
  BY DEF IInv, AllSound, TypeOK
<1>1. CASE UNCHANGED <<history, lastId, undone>>
  BY <1>1 DEF HistoryInv, HistoryAccurate
<1>2. CASE EndIssue
  <2>1. CASE holder.changed = {}
    BY <1>0, <1>1, <1>2, <2>1, EndIssueFacts
  <2>2. CASE holder.changed # {}
    <3>1. /\ undone' = undone /\ holder.at = "issue" /\ lastId' = holder.id
          /\ Len(history') = IF Len(history) + 1 > HistoryLimit THEN HistoryLimit
                                                                ELSE Len(history) + 1
          /\ \A i \in DOMAIN history' :
                /\ i \in Nat
                /\ \/ i = 1 /\ history'[i] = NewRecord
                   \/ i - 1 \in DOMAIN history /\ history'[i] = history[i - 1]
      BY <1>0, <1>2, <2>2, EndIssueFacts
    <3>2. NewRecord.id = lastId + 1 /\ NewRecord.undone = FALSE /\ lastId' = lastId + 1
      BY <1>0, <3>1, NewFacts DEF IInv, AllSound, IssueSound
    <3>3. NewRecord.id \notin undone
      BY <1>0, <3>2
    <3>4. /\ \A i \in DOMAIN history : history[i].id \in 1 .. lastId
          /\ Len(history) = IF lastId < HistoryLimit THEN lastId ELSE HistoryLimit
          /\ \A i \in DOMAIN history : history[i].id = lastId + 1 - i
          /\ \A i \in DOMAIN history : history[i].undone = (history[i].id \in undone)
      BY <1>0 DEF HistoryInv, HistoryAccurate
    <3>5. \A i \in DOMAIN history' : history'[i].id \in 1 .. lastId'
      BY <1>0, <3>1, <3>2, <3>4
    <3>6. ASSUME NEW i \in DOMAIN history'
          PROVE  history'[i].undone = (history'[i].id \in undone')
      <4>1. CASE history'[i] = NewRecord
        <5>1. history'[i].undone = FALSE /\ history'[i].id \notin undone'
          BY <3>1, <3>2, <3>3, <4>1, Zenon
        <5>2. history'[i].undone \in BOOLEAN /\ (history'[i].undone <=> history'[i].id \in undone')
          BY <5>1, Zenon
        <5> QED
          BY <5>2, BooleansEqual
      <4>2. CASE i - 1 \in DOMAIN history /\ history'[i] = history[i - 1]
        BY <3>1, <3>4, <4>2, Zenon
      <4> QED
        BY <3>1, <4>1, <4>2
    <3>7. ASSUME NEW i \in DOMAIN history'
          PROVE  history'[i].id = lastId' + 1 - i
      <4>1. i \in Nat
        BY <3>1
      <4>2. CASE i = 1 /\ history'[i] = NewRecord
        BY <1>0, <3>2, <4>2
      <4>3. CASE i - 1 \in DOMAIN history /\ history'[i] = history[i - 1]
        <5>1. history'[i].id = lastId + 1 - (i - 1)
          BY <3>4, <4>3
        <5> QED
          BY <1>0, <3>2, <4>1, <5>1
      <4> QED
        BY <3>1, <4>2, <4>3
    <3>8. Len(history') = IF lastId' < HistoryLimit THEN lastId' ELSE HistoryLimit
      BY <1>0, <3>1, <3>2, <3>4, BoundsAssumption
    <3> QED
      BY <3>5, <3>6, <3>7, <3>8 DEF HistoryInv, HistoryAccurate
  <2> QED
    BY <2>1, <2>2
<1>3. CASE EndUndo
  <2>1. /\ lastId' = lastId /\ undone' = undone \cup {holder.entry.id}
        /\ DOMAIN history' = DOMAIN history /\ Len(history') = Len(history)
        /\ \A i \in DOMAIN history :
              /\ history'[i].id = history[i].id
              /\ history'[i].undone = (history[i].id = holder.entry.id \/ history[i].undone)
    BY <1>0, <1>3, MarkedFacts
  <2>2. ASSUME NEW i \in DOMAIN history
        PROVE  history'[i].undone = (history'[i].id \in undone')
    <3>1. history[i].undone = (history[i].id \in undone)
      BY Zenon DEF HistoryInv, HistoryAccurate
    <3>2. history[i].id \in undone' <=> history[i].id = holder.entry.id \/ history[i].undone
      BY <2>1, <3>1, Zenon
    <3>3. history'[i].undone \in BOOLEAN /\ (history'[i].undone <=> history'[i].id \in undone')
      BY <2>1, <3>2, Zenon
    <3> QED
      BY <3>3, BooleansEqual
  <2> QED
    BY <2>1, <2>2 DEF HistoryInv, HistoryAccurate
<1> QED
  BY <1>1, <1>2, <1>3 DEF Next, vars, Advance, BeginIssue, IssueToDevice, DropExpired, BeginUndo,
     RestoreDevice
-----------------------------------------------------------------------------
(* The newest of the commands that stand.                                      *)

\* Standing commands are recorded ones, and do not change with the history.
LEMMA StandingFacts ==
    ASSUME TypeOK, NEW d
    PROVE  /\ Standing(d) \subseteq 1 .. lastId /\ lastId \in Nat
           /\ \A n : n \in Standing(d) <=> n \in 1 .. lastId /\ d \in affected[n] /\ n \notin undone
           /\ UNCHANGED <<lastId, affected, undone>> => Standing(d)' = Standing(d)
BY DEF Standing, TypeOK

\* Where none of the variables changes that the invariant reads.
LEMMA NewestSame ==
    ASSUME TypeOK, NewestInv, UNCHANGED <<override, lastId, affected, undone, holder>>,
           undo' = undo \/ undo' = <<>>
    PROVE  NewestInv'
<1>1. \A d \in Devices : Standing(d)' = Standing(d)
  BY StandingFacts
<1>2. \A i \in DOMAIN undo' : i \in DOMAIN undo /\ undo'[i] = undo[i]
  OBVIOUS
<1> QED
  BY <1>1, <1>2 DEF NewestInv, EntryNewest

\* A command starts with the overrides that stand.
LEMMA BeginIssueNewest ==
    ASSUME IInv, NewestInv, NEW type \in Commands, NEW wanted \in SUBSET Devices,
           BeginIssue(type, wanted)
    PROVE  NewestInv'
<1>1. /\ UNCHANGED <<override, undo, lastId, affected, undone>> /\ holder.at = "free"
      /\ holder'.at = "issue" /\ holder'.priors = override /\ holder'.changed = {}
  BY DEF BeginIssue, Free
<1>2. \A d \in Devices : Standing(d)' = Standing(d)
  BY <1>1, StandingFacts DEF IInv
<1> QED
  BY <1>1, <1>2 DEF NewestInv, EntryNewest

\* A device that the command reaches leaves its override to the priors.
LEMMA IssueToDeviceNewest ==
    ASSUME IInv, NewestInv, IssueToDevice
    PROVE  NewestInv'
<1>1. /\ UNCHANGED <<undo, lastId, affected, undone>>
      /\ holder.at = "issue" /\ holder'.at = "issue"
      /\ holder'.id = holder.id /\ holder'.type = holder.type
  BY IssueFacts DEF IInv
<1>2. \A d \in Devices : Standing(d)' = Standing(d)
  BY <1>1, StandingFacts DEF IInv
<1>3. \A d \in Devices :
         /\ NewestOf(Standing(d), holder.priors[d])
         /\ IF d \in holder.changed /\ holder.type \in OverrideCommands
            THEN override[d].id = holder.id
            ELSE override[d] = holder.priors[d]
  BY <1>1 DEF NewestInv
<1>4. \A d \in Devices :
         /\ NewestOf(Standing(d), holder'.priors[d])
         /\ IF d \in holder'.changed /\ holder.type \in OverrideCommands
            THEN override'[d].id = holder.id
            ELSE override'[d] = holder'.priors[d]
  <2>1. CASE /\ override' = override /\ holder'.priors = holder.priors
             /\ holder'.changed = holder.changed \/ holder.type \notin OverrideCommands
    BY <1>3, <2>1
  <2>2. ASSUME holder.type \in OverrideCommands,
               NEW e \in Devices \cap holder.todo,
               override'[e].id = holder.id, holder'.priors[e] = override[e],
               holder'.changed = holder.changed \cup {e},
               \A x \in Devices \ {e} : /\ override'[x] = override[x]
                                        /\ holder'.priors[x] = holder.priors[x]
        PROVE  \A d \in Devices :
                  /\ NewestOf(Standing(d), holder'.priors[d])
                  /\ IF d \in holder'.changed /\ holder.type \in OverrideCommands
                     THEN override'[d].id = holder.id
                     ELSE override'[d] = holder'.priors[d]
    <3>1. e \notin holder.changed
      BY <1>1, <2>2 DEF IInv, AllSound, IssueSound
    <3>2. NewestOf(Standing(e), holder'.priors[e])
      BY <1>3, <2>2, <3>1
    <3> QED
      BY <1>3, <2>2, <3>2
  <2> QED
    BY <2>1, <2>2, IssueFacts DEF IInv
<1> QED
  BY <1>1, <1>2, <1>4 DEF NewestInv, EntryNewest

\* The command that ends is the newest of all on the devices it changed.
LEMMA EndIssueNewest ==
    ASSUME IInv, NewestInv, EndIssue
    PROVE  NewestInv'
<1>0. /\ TypeOK /\ UNCHANGED <<override, undone>> /\ holder.at = "issue" /\ holder'.at = "free"
      /\ lastId \in Nat /\ holder.id = lastId + 1 /\ holder.id \in 1 .. MaxCommands
      /\ undone \subseteq 1 .. lastId /\ affected \in [1 .. MaxCommands -> SUBSET Devices]
      /\ undo \in Seq(Entry) /\ MaxCommands \in Nat
  BY EndIssueFacts, HolderFacts, BoundsAssumption DEF IInv, AllSound, IssueSound, TypeOK
<1>1. /\ \A n \in 1 .. MaxCommands : n > lastId => affected[n] = {}
      /\ \A i \in DOMAIN undo : EntryNewest(undo[i])
      /\ \A d \in Devices :
            /\ NewestOf(Standing(d), holder.priors[d])
            /\ IF d \in holder.changed /\ holder.type \in OverrideCommands
               THEN override[d].id = holder.id
               ELSE override[d] = holder.priors[d]
  BY <1>0 DEF NewestInv
<1>2. CASE holder.changed = {}
  <2>1. UNCHANGED <<undo, lastId, affected>>
    BY <1>0, <1>2, EndIssueFacts
  <2>2. \A d \in Devices : Standing(d)' = Standing(d)
    BY <1>0, <2>1, StandingFacts
  <2> QED
    BY <1>0, <1>1, <1>2, <2>1, <2>2 DEF NewestInv, EntryNewest
<1>3. CASE holder.changed # {}
  <2>1. /\ lastId' = lastId + 1
        /\ undo' = IF holder.type \in ValveCommands THEN Append(undo, NewEntry) ELSE undo
        /\ affected' = IF holder.type \in OverrideCommands
                       THEN [affected EXCEPT ![holder.id] = holder.changed]
                       ELSE affected
    BY <1>0, <1>3, EndIssueFacts
  <2>2. /\ \A n \in 1 .. MaxCommands : n # holder.id => affected'[n] = affected[n]
        /\ affected'[holder.id] = IF holder.type \in OverrideCommands THEN holder.changed ELSE {}
    <3>1. CASE holder.type \in OverrideCommands
      <4>1. affected' = [affected EXCEPT ![holder.id] = holder.changed]
        BY <2>1, <3>1
      <4> QED
        BY <1>0, <3>1, <4>1
    <3>2. CASE holder.type \notin OverrideCommands
      <4>1. affected' = affected /\ holder.id > lastId
        BY <1>0, <2>1, <3>2
      <4> QED
        BY <1>0, <1>1, <3>2, <4>1
    <3> QED
      BY <3>1, <3>2
  <2>3. ASSUME NEW d \in Devices
        PROVE  Standing(d)' = Standing(d) \cup
                  (IF d \in holder.changed /\ holder.type \in OverrideCommands
                   THEN {holder.id} ELSE {})
    <3>1. \A n : n \in 1 .. lastId' <=> n \in 1 .. lastId \/ n = holder.id
      BY <1>0, <2>1
    <3>2. \A n \in 1 .. lastId : n \in 1 .. MaxCommands /\ n # holder.id
      BY <1>0
    <3>3. holder.id \notin undone /\ undone' = undone
      BY <1>0
    <3> QED
      BY <1>0, <2>2, <3>1, <3>2, <3>3 DEF Standing
  <2>4. ASSUME NEW d \in Devices
        PROVE  /\ Before(Standing(d)', holder.id) = Standing(d)
               /\ \A n \in 1 .. lastId : Before(Standing(d)', n) = Before(Standing(d), n)
               /\ \A n \in Standing(d)' : n <= holder.id
    BY <1>0, <2>3, StandingFacts DEF Before
  <2>5. \A n \in 1 .. MaxCommands : n > lastId' => affected'[n] = {}
    BY <1>0, <1>1, <2>1, <2>2
  <2>6. ASSUME NEW i \in DOMAIN undo'
        PROVE  /\ undo'[i].devices = affected'[undo'[i].id]
               /\ \A d \in Devices :
                     NewestOf(Before(Standing(d)', undo'[i].id), undo'[i].priors[d])
    <3>1. CASE i \in DOMAIN undo /\ undo'[i] = undo[i]
      <4>1. undo[i].id \in 1 .. lastId
        BY <3>1 DEF IInv, AllSound, StackSound
      <4>2. undo[i].id \in 1 .. MaxCommands /\ undo[i].id # holder.id
        BY <1>0, <4>1
      <4> QED
        BY <1>1, <2>2, <2>4, <3>1, <4>1, <4>2 DEF EntryNewest
    <3>2. CASE undo'[i] = NewEntry /\ holder.type \in ValveCommands
      <4>1. /\ NewEntry.id = holder.id /\ NewEntry.devices = holder.changed
            /\ NewEntry.priors = holder.priors
        BY <1>0, NewFacts
      <4>2. holder.type \in OverrideCommands
        BY <3>2 DEF OverrideCommands
      <4> QED
        BY <1>1, <2>2, <2>4, <3>2, <4>1, <4>2
    <3>3. CASE undo' = undo
      BY <3>1, <3>3
    <3>4. CASE undo' = Append(undo, NewEntry) /\ holder.type \in ValveCommands
      <4>1. NewEntry \in Entry
        BY <1>0, NewFacts
      <4> QED
        BY <1>0, <3>1, <3>2, <3>4, <4>1, PushedFacts
    <3> QED
      BY <2>1, <3>3, <3>4
  <2>7. ASSUME NEW d \in Devices
        PROVE  NewestOf(Standing(d)', override[d])
    <3>1. CASE d \in holder.changed /\ holder.type \in OverrideCommands
      <4>1. override[d].id = holder.id /\ holder.id \in Standing(d)'
        BY <1>1, <2>3, <3>1
      <4> QED
        BY <2>4, <4>1 DEF NewestOf
    <3>2. CASE ~(d \in holder.changed /\ holder.type \in OverrideCommands)
      <4>1. override[d] = holder.priors[d] /\ Standing(d)' = Standing(d)
        BY <1>1, <2>3, <3>2
      <4> QED
        BY <1>1, <4>1
    <3> QED
      BY <3>1, <3>2
  <2> QED
    BY <1>0, <2>5, <2>6, <2>7 DEF NewestInv, EntryNewest
<1> QED
  BY <1>2, <1>3

\* The undo starts with the newest entry.
LEMMA BeginUndoNewest ==
    ASSUME IInv, NewestInv, BeginUndo
    PROVE  NewestInv'
<1>1. /\ UNCHANGED <<override, lastId, affected, undone>>
      /\ holder.at = "free" /\ holder'.at = "undo" /\ holder'.entry = Top
      /\ holder'.todo = Top.devices
      /\ Len(undo) \in DOMAIN undo /\ Top = undo[Len(undo)]
      /\ \A i \in DOMAIN undo' : i \in DOMAIN undo /\ undo'[i] = undo[i]
  BY PoppedFacts DEF IInv
<1>2. \A d \in Devices : Standing(d)' = Standing(d)
  BY <1>1, StandingFacts DEF IInv
<1>3. EntryNewest(Top) /\ \A d \in Devices : NewestOf(Standing(d), override[d])
  BY <1>1 DEF NewestInv
<1>4. ASSUME NEW d \in Devices
      PROVE  NewestOf(IF d \in Top.devices THEN Standing(d) ELSE Standing(d) \ {Top.id},
                      override[d])
  <2>1. CASE d \in Top.devices
    BY <1>3, <2>1
  <2>2. CASE d \notin Top.devices
    <3>1. Top.id \notin Standing(d)
      BY <1>3, <2>2, StandingFacts DEF EntryNewest, IInv
    <3>2. Standing(d) \ {Top.id} = Standing(d)
      BY <3>1
    <3> QED
      BY <1>3, <2>2, <3>2
  <2> QED
    BY <2>1, <2>2
<1> QED
  BY <1>1, <1>2, <1>3, <1>4 DEF NewestInv, EntryNewest

\* What comes back is the newest override before the command that is undone.
LEMMA RestoreNewest ==
    ASSUME IInv, NewestInv, RestoreDevice
    PROVE  NewestInv'
<1>0. /\ TypeOK /\ UNCHANGED <<undo, lastId, undone>> /\ affected' = affected
      /\ holder.at = "undo" /\ holder'.at = "undo" /\ holder'.entry = holder.entry
  BY RestoreFacts DEF IInv, RestoreDevice
<1>1. PICK e \in Devices :
         /\ holder'.todo = holder.todo \ {e}
         /\ \A x \in Devices \ {e} : override'[x] = override[x]
         /\ IF override[e].id = holder.entry.id
            THEN override'[e] = holder.entry.priors[e]
            ELSE override'[e] = override[e]
  BY RestoreFacts
<1> DEFINE id == holder.entry.id
<1>2. \A d \in Devices : Standing(d)' = Standing(d)
  BY <1>0, StandingFacts
<1>3. /\ EntryNewest(holder.entry) /\ holder.todo \subseteq holder.entry.devices
      /\ \A d \in Devices :
            NewestOf(IF d \in holder.todo THEN Standing(d) ELSE Standing(d) \ {id}, override[d])
  BY <1>0 DEF NewestInv
<1>4. NewestOf(Standing(e) \ {id}, override'[e])
  <2>1. CASE override[e].id = id
    <3>1. e \in holder.todo /\ id \in 1 .. lastId
      BY <1>0, <2>1 DEF IInv, AllSound, UndoSound
    <3>2. NewestOf(Standing(e), override[e]) /\ lastId \in Nat
      BY <1>0, <1>3, <3>1 DEF TypeOK
    <3>3. Standing(e) # {}
      BY <2>1, <3>1, <3>2 DEF NewestOf, NoOverride
    <3>4. \A n \in Standing(e) : n <= id /\ n \in Nat
      BY <1>0, <2>1, <3>2, <3>3, StandingFacts DEF NewestOf
    <3>5. Before(Standing(e), id) = Standing(e) \ {id}
      BY <3>1, <3>4 DEF Before
    <3> QED
      BY <1>1, <1>3, <2>1, <3>5 DEF EntryNewest
  <2>2. CASE override[e].id # id
    <3>1. override'[e] = override[e]
      BY <1>1, <2>2
    <3>2. NewestOf(Standing(e), override[e]) => NewestOf(Standing(e) \ {id}, override[e])
      BY <2>2 DEF NewestOf
    <3> QED
      BY <1>3, <3>1, <3>2
  <2> QED
    BY <2>1, <2>2
<1>5. \A d \in Devices :
         NewestOf(IF d \in holder'.todo THEN Standing(d) ELSE Standing(d) \ {id}, override'[d])
  BY <1>1, <1>3, <1>4
<1> QED
  BY <1>0, <1>1, <1>2, <1>3, <1>5 DEF NewestInv, EntryNewest

\* The undone command stands on no device, and no entry is newer.
LEMMA EndUndoNewest ==
    ASSUME IInv, NewestInv, EndUndo
    PROVE  NewestInv'
<1>0. /\ TypeOK /\ UNCHANGED <<override, undo, lastId, affected>>
      /\ holder.at = "undo" /\ holder.todo = {} /\ holder'.at = "free"
      /\ undone' = undone \cup {holder.entry.id}
  BY MarkedFacts DEF IInv
<1>1. \A d \in Devices : Standing(d)' = Standing(d) \ {holder.entry.id}
  BY <1>0 DEF Standing
<1>2. /\ holder.entry.id \in 1 .. lastId /\ lastId \in Nat
      /\ \A i \in DOMAIN undo : undo[i].id < holder.entry.id /\ undo[i].id \in 1 .. lastId
  BY <1>0 DEF IInv, AllSound, UndoSound, StackSound, TypeOK
<1>3. \A d \in Devices, i \in DOMAIN undo :
         Before(Standing(d)', undo[i].id) = Before(Standing(d), undo[i].id)
  BY <1>0, <1>1, <1>2, StandingFacts DEF Before
<1> QED
  BY <1>0, <1>1, <1>3 DEF NewestInv, EntryNewest

\* Every step keeps the overrides those of the newest commands.
LEMMA NewestStep == IInv /\ NewestInv /\ [Next]_vars => NewestInv'
<1> SUFFICES ASSUME IInv, NewestInv, [Next]_vars PROVE NewestInv'
  OBVIOUS
<1>1. CASE Advance \/ DropExpired \/ UNCHANGED vars
  <2>1. /\ UNCHANGED <<override, lastId, affected, undone, holder>>
        /\ undo' = undo \/ undo' = <<>>
    BY <1>1 DEF Advance, DropExpired, vars
  <2> QED
    BY <2>1, NewestSame DEF IInv
<1> QED
  BY <1>1, BeginIssueNewest, IssueToDeviceNewest, EndIssueNewest, BeginUndoNewest, RestoreNewest,
     EndUndoNewest DEF Next
-----------------------------------------------------------------------------
(* The labels of the history.                                                  *)

\* A record is still owed an undo: a valve command in force and not undone.
Owed(record) ==
    record.type \in ValveCommands /\ ~record.undone /\ record.batch + GraceBatches > clock

\* What a record of the history holds.
LEMMA RecordsHave ==
    ASSUME IInv
    PROVE  \A i \in DOMAIN history : /\ history[i].batch \in Nat /\ history[i].id \in Nat
                                    /\ history[i].undone \in BOOLEAN
<1>1. \A i \in DOMAIN history : history[i] \in Record
  BY DEF IInv, TypeOK
<1> QED
  BY <1>1 DEF Record

\* Time only ends what was owed.
LEMMA AdvanceLabels ==
    ASSUME IInv, LabelsInv, Advance
    PROVE  LabelsInv'
<1>1. /\ UNCHANGED <<override, undo, history, lastId, holder, affected, undone>>
      /\ clock \in Nat /\ clock' = clock + 1 /\ GraceBatches \in Nat
  BY BoundsAssumption DEF Advance, IInv, TypeOK
<1>2. \A i \in DOMAIN history : history[i].batch \in Nat
  BY RecordsHave
<1>3. \A i \in DOMAIN history :
         history[i].batch + GraceBatches > clock' => history[i].batch + GraceBatches > clock
  BY <1>1, <1>2
<1> QED
  BY <1>1, <1>3 DEF LabelsInv, EntryDated, Dated

\* The priors of a command are the overrides, which are dated.
LEMMA BeginIssueLabels ==
    ASSUME IInv, LabelsInv, NEW type \in Commands, NEW wanted \in SUBSET Devices,
           BeginIssue(type, wanted)
    PROVE  LabelsInv'
<1>1. /\ UNCHANGED <<clock, override, undo, history>> /\ holder.at = "free"
      /\ holder'.at = "issue" /\ holder'.id = lastId + 1 /\ holder'.priors = override
  BY DEF BeginIssue, Free
<1>2. \A d \in Devices : override[d].id # lastId + 1
  <2>1. \A d \in Devices : override[d].id <= lastId /\ override[d].id \in Nat /\ lastId \in Nat
    BY <1>1, OverrideFacts DEF IInv, AllSound, OverridesSound, SoundNow, Sound, TypeOK
  <2> QED
    BY <2>1
<1> QED
  BY <1>1, <1>2 DEF LabelsInv, EntryDated, Dated

\* The override a command puts lasts as long as its record will say.
LEMMA IssueToDeviceLabels ==
    ASSUME IInv, LabelsInv, IssueToDevice
    PROVE  LabelsInv'
<1>0. /\ UNCHANGED <<clock, undo, history>> /\ holder.at = "issue" /\ holder'.at = "issue"
      /\ holder'.id = holder.id /\ holder'.batch = holder.batch
      /\ holder.todo \cap holder.changed = {}
  BY IssueFacts DEF IInv, AllSound, IssueSound
<1>1. \A d \in Devices : Dated(holder.priors[d])
  BY <1>0 DEF LabelsInv
<1>2. CASE override' = override /\ holder'.priors = holder.priors
  BY <1>0, <1>2 DEF LabelsInv, EntryDated, Dated
<1>3. CASE ~(override' = override /\ holder'.priors = holder.priors)
  <2>1. PICK d \in Devices \cap holder.todo :
           /\ override'[d].id = holder.id
           /\ override'[d].until = holder.batch + GraceBatches
           /\ holder'.priors[d] = override[d]
           /\ \A x \in Devices \ {d} : /\ override'[x] = override[x]
                                       /\ holder'.priors[x] = holder.priors[x]
    BY <1>3, IssueFacts DEF IInv
  <2>2. Dated(override[d])
    <3>1. override[d].id # holder.id
      <4>1. SoundNow(d, override[d]) /\ holder.id = lastId + 1 /\ lastId \in Nat
        BY <1>0, <2>1 DEF IInv, AllSound, IssueSound, TypeOK
      <4>2. override[d].id \in Nat /\ override[d].id <= lastId
        BY <4>1, <2>1, OverrideFacts DEF SoundNow, Sound, IInv, TypeOK
      <4> QED
        BY <4>1, <4>2
    <3> QED
      BY <3>1, <2>1 DEF LabelsInv
  <2>3. \A x \in Devices : Dated(holder'.priors[x])
    BY <1>1, <2>1, <2>2
  <2>4. \A x \in Devices : Dated(override'[x]) \/ override'[x].id = holder.id
    BY <2>1 DEF LabelsInv
  <2>5. \A x \in Devices :
           override'[x].id = holder.id => override'[x].until = holder.batch + GraceBatches
    BY <1>0, <2>1 DEF LabelsInv
  <2> QED
    BY <1>0, <2>3, <2>4, <2>5 DEF LabelsInv, EntryDated, Dated
<1> QED
  BY <1>2, <1>3

\* The record that is new belongs to the override and the entry that are new.
LEMMA EndIssueLabels ==
    ASSUME IInv, HistoryInv, LabelsInv, EndIssue
    PROVE  LabelsInv'
<1>0. /\ TypeOK /\ UNCHANGED <<clock, override, undone>>
      /\ holder.at = "issue" /\ holder'.at = "free"
      /\ lastId \in Nat /\ holder.id = lastId + 1 /\ undo \in Seq(Entry)
  BY EndIssueFacts DEF IInv, AllSound, IssueSound, TypeOK
<1>1. /\ \A i \in DOMAIN undo : EntryDated(undo[i])
      /\ \A d \in Devices :
            /\ Dated(holder.priors[d])
            /\ Dated(override[d]) \/ override[d].id = holder.id
            /\ override[d].id = holder.id => override[d].until = holder.batch + GraceBatches
      /\ \A i \in DOMAIN history : history[i].id \in 1 .. lastId /\ history[i].id # holder.id
      /\ \A i \in DOMAIN history :
            Owed(history[i]) => \E j \in DOMAIN undo : undo[j].id = history[i].id
  BY <1>0 DEF LabelsInv, HistoryInv, Owed
<1>2. \A d \in Devices : Dated(override[d])
  BY <1>1 DEF Dated
<1>3. CASE holder.changed = {}
  <2>1. UNCHANGED <<undo, history>>
    BY <1>0, <1>3, EndIssueFacts
  <2> QED
    BY <1>0, <1>1, <1>2, <2>1 DEF LabelsInv, EntryDated, Dated, Owed
<1>4. CASE holder.changed # {}
  <2>1. /\ undo' = IF holder.type \in ValveCommands THEN Append(undo, NewEntry) ELSE undo
        /\ \A i \in DOMAIN history' :
              \/ history'[i] = NewRecord
              \/ \E j \in DOMAIN history : history'[i] = history[j]
    BY <1>0, <1>4, EndIssueFacts
  <2>2. /\ NewEntry \in Entry /\ NewEntry.id = holder.id /\ NewEntry.batch = holder.batch
        /\ NewEntry.priors = holder.priors
        /\ NewRecord.id = holder.id /\ NewRecord.type = holder.type
        /\ NewRecord.batch = holder.batch
    BY <1>0, NewFacts
  <2>3. ASSUME NEW o, o.id # holder.id, Dated(o), NEW i \in DOMAIN history',
               history'[i].id = o.id
        PROVE  o.until = history'[i].batch + GraceBatches
    BY <2>1, <2>2, <2>3 DEF Dated
  <2>4. ASSUME NEW d \in Devices, NEW i \in DOMAIN history', history'[i].id = override[d].id
        PROVE  override[d].until = history'[i].batch + GraceBatches
    <3>1. CASE override[d].id = holder.id
      BY <1>1, <2>1, <2>2, <2>4, <3>1
    <3>2. CASE override[d].id # holder.id
      BY <1>2, <2>3, <2>4, <3>2
    <3> QED
      BY <3>1, <3>2
  <2>5. ASSUME NEW e, EntryDated(e), e.id # holder.id,
               \A d \in Devices : e.priors[d].id # holder.id
        PROVE  /\ \A i \in DOMAIN history' :
                     history'[i].id = e.id => history'[i].batch = e.batch
               /\ \A d \in Devices, i \in DOMAIN history' :
                     history'[i].id = e.priors[d].id =>
                        e.priors[d].until = history'[i].batch + GraceBatches
    <3>1. \A i \in DOMAIN history' : history'[i].id = e.id => history'[i].batch = e.batch
      BY <2>1, <2>2, <2>5 DEF EntryDated
    <3>2. \A d \in Devices : Dated(e.priors[d])
      BY <2>5 DEF EntryDated
    <3> QED
      BY <2>3, <2>5, <3>1, <3>2
  <2>6. \A d \in Devices : holder.priors[d].id # holder.id
    <3>1. \A d \in Devices : holder.priors[d].id <= lastId /\ holder.priors[d].id \in Nat
      BY <1>0, HolderFacts, OverrideFacts DEF IInv, AllSound, IssueSound, SoundNow, Sound, TypeOK
    <3> QED
      BY <1>0, <3>1
  <2>7. ASSUME NEW k \in DOMAIN undo
        PROVE  undo[k].id # holder.id /\ \A d \in Devices : undo[k].priors[d].id # holder.id
    <3>1. /\ undo[k].id \in 1 .. lastId
          /\ \A d \in Devices : undo[k].priors[d].id < undo[k].id
      BY DEF IInv, AllSound, StackSound
    <3>2. \A d \in Devices : undo[k].priors[d].id \in Nat
      BY <1>0, EntryFacts, OverrideFacts
    <3> QED
      BY <1>0, <3>1, <3>2
  <2>8. ASSUME NEW k \in DOMAIN undo'
        PROVE  /\ \A i \in DOMAIN history' :
                     history'[i].id = undo'[k].id => history'[i].batch = undo'[k].batch
               /\ \A d \in Devices, i \in DOMAIN history' :
                     history'[i].id = undo'[k].priors[d].id =>
                        undo'[k].priors[d].until = history'[i].batch + GraceBatches
    <3>1. CASE k \in DOMAIN undo /\ undo'[k] = undo[k]
      BY <1>1, <2>5, <2>7, <3>1
    <3>2. CASE undo'[k] = NewEntry
      <4>1. \A i \in DOMAIN history' : history'[i].id = holder.id => history'[i].batch = holder.batch
        BY <1>1, <2>1, <2>2
      <4> QED
        BY <1>1, <2>2, <2>3, <2>6, <3>2, <4>1
    <3> QED
      BY <1>0, <2>1, <2>2, <3>1, <3>2, PushedFacts
  <2>9. ASSUME NEW i \in DOMAIN history', Owed(history'[i])
        PROVE  \E j \in DOMAIN undo' : undo'[j].id = history'[i].id
    <3>1. CASE history'[i] = NewRecord
      <4>1. undo' = Append(undo, NewEntry)
        BY <2>1, <2>2, <2>9, <3>1 DEF Owed
      <4>2. Len(undo) + 1 \in DOMAIN undo' /\ undo'[Len(undo) + 1] = NewEntry
        BY <1>0, <2>2, <4>1
      <4> QED
        BY <2>2, <3>1, <4>2
    <3>2. CASE \E j \in DOMAIN history : history'[i] = history[j]
      <4>1. PICK k \in DOMAIN undo : undo[k].id = history'[i].id
        BY <1>1, <2>9, <3>2
      <4>2. k \in DOMAIN undo' /\ undo'[k] = undo[k]
        BY <1>0, <2>1, <2>2, PushedFacts
      <4> QED
        BY <4>1, <4>2
    <3> QED
      BY <2>1, <3>1, <3>2
  <2> QED
    BY <1>0, <2>4, <2>8, <2>9 DEF LabelsInv, EntryDated, Dated, Owed
<1> QED
  BY <1>3, <1>4

\* What is dropped is not owed an undo any more.
LEMMA DropExpiredLabels ==
    ASSUME IInv, BatchesGrow, LabelsInv, DropExpired
    PROVE  LabelsInv'
<1>1. /\ UNCHANGED <<clock, override, history>> /\ holder' = holder
      /\ undo' = <<>> /\ holder.at = "free" /\ TopExpired
  BY DEF DropExpired, Free
<1>2. \A i \in DOMAIN undo : undo[i].batch + GraceBatches <= clock
  BY <1>1, ExpiredBelow DEF IInv
<1>3. ASSUME NEW i \in DOMAIN history PROVE ~Owed(history[i])
  <2>1. SUFFICES ASSUME Owed(history[i]) PROVE FALSE
    OBVIOUS
  <2>2. PICK j \in DOMAIN undo : undo[j].id = history[i].id
    BY <1>1, <2>1 DEF LabelsInv, Owed
  <2>3. history[i].batch = undo[j].batch
    BY <2>2 DEF LabelsInv, EntryDated
  <2>4. undo[j].batch \in Nat /\ clock \in Nat /\ GraceBatches \in Nat
    BY EntryFacts, BoundsAssumption DEF IInv, TypeOK
  <2> QED
    BY <1>2, <2>1, <2>3, <2>4 DEF Owed
<1>4. DOMAIN undo' = {}
  BY <1>1
<1> QED
  BY <1>1, <1>3, <1>4 DEF LabelsInv, Dated, Owed

\* The record of the top entry is being undone from here on.
LEMMA BeginUndoLabels ==
    ASSUME IInv, LabelsInv, BeginUndo
    PROVE  LabelsInv'
<1>1. /\ UNCHANGED <<clock, override, history>>
      /\ holder.at = "free" /\ holder'.at = "undo" /\ holder'.entry = Top
      /\ Len(undo) \in DOMAIN undo /\ Top = undo[Len(undo)]
      /\ \A i \in DOMAIN undo' : i \in DOMAIN undo /\ undo'[i] = undo[i]
      /\ \A i \in DOMAIN undo : i = Len(undo) \/ i \in DOMAIN undo'
  BY PoppedFacts DEF IInv
<1>2. \A i \in DOMAIN history : Owed(history[i]) =>
         \/ \E j \in DOMAIN undo' : undo'[j].id = history[i].id
         \/ Top.id = history[i].id
  BY <1>1 DEF LabelsInv, Owed
<1> QED
  BY <1>1, <1>2 DEF LabelsInv, EntryDated, Dated, Owed

\* What comes back is dated as it was saved.
LEMMA RestoreLabels ==
    ASSUME IInv, LabelsInv, RestoreDevice
    PROVE  LabelsInv'
<1>1. /\ UNCHANGED <<clock, undo, history>>
      /\ holder.at = "undo" /\ holder'.at = "undo" /\ holder'.entry = holder.entry
  BY RestoreFacts DEF RestoreDevice
<1>2. PICK e \in Devices :
         /\ \A x \in Devices \ {e} : override'[x] = override[x]
         /\ override'[e] = holder.entry.priors[e] \/ override'[e] = override[e]
  BY RestoreFacts
<1>3. \A d \in Devices : Dated(override'[d])
  BY <1>1, <1>2 DEF LabelsInv, EntryDated
<1> QED
  BY <1>1, <1>3 DEF LabelsInv, EntryDated, Dated

\* The record of the undone command is marked, so nothing is owed for it.
LEMMA EndUndoLabels ==
    ASSUME IInv, LabelsInv, EndUndo
    PROVE  LabelsInv'
<1>1. /\ UNCHANGED <<clock, override, undo>> /\ holder.at = "undo" /\ holder'.at = "free"
      /\ DOMAIN history' = DOMAIN history
      /\ \A i \in DOMAIN history :
            /\ history'[i].id = history[i].id /\ history'[i].type = history[i].type
            /\ history'[i].batch = history[i].batch
            /\ history'[i].undone = (history[i].id = holder.entry.id \/ history[i].undone)
  BY MarkedFacts DEF IInv
<1>2. \A i \in DOMAIN history : Owed(history[i])' =>
         Owed(history[i]) /\ history[i].id # holder.entry.id
  BY <1>1 DEF Owed
<1>3. \A i \in DOMAIN history' : Owed(history[i])' =>
         \E j \in DOMAIN undo' : undo'[j].id = history'[i].id
  BY <1>1, <1>2 DEF LabelsInv, Owed
<1> QED
  BY <1>1, <1>3 DEF LabelsInv, EntryDated, Dated, Owed

\* Every step keeps the records, the entries and the overrides in agreement.
LEMMA LabelsStep == IInv /\ BatchesGrow /\ HistoryInv /\ LabelsInv /\ [Next]_vars => LabelsInv'
<1> SUFFICES ASSUME IInv, BatchesGrow, HistoryInv, LabelsInv, [Next]_vars PROVE LabelsInv'
  OBVIOUS
<1>1. CASE UNCHANGED vars
  BY <1>1 DEF LabelsInv, EntryDated, Dated, vars
<1> QED
  BY <1>1, AdvanceLabels, BeginIssueLabels, IssueToDeviceLabels, EndIssueLabels,
     DropExpiredLabels, BeginUndoLabels, RestoreLabels, EndUndoLabels DEF Next
-----------------------------------------------------------------------------
(* The theorems.                                                               *)

\* The inductive invariant of all that follows.
CommandsInv == IInv /\ BatchesGrow /\ HistoryInv /\ NewestInv /\ LabelsInv

\* It holds at first.
LEMMA CommandsInvInit == Init => CommandsInv
<1> SUFFICES ASSUME Init PROVE CommandsInv
  OBVIOUS
<1>1. /\ undo = <<>> /\ DOMAIN undo = {} /\ history = <<>> /\ DOMAIN history = {}
      /\ holder.at = "free" /\ lastId = 0 /\ undone = {}
      /\ \A n \in 1 .. MaxCommands : affected[n] = {}
      /\ \A d \in Devices : override[d] = NoOverride
  BY DEF Init, Free
<1>2. IInv
  BY TypeInit, SoundInit DEF IInv
<1>3. BatchesGrow /\ HistoryInv
  BY <1>1, BoundsAssumption DEF BatchesGrow, HistoryInv, HistoryAccurate
<1>4. \A d \in Devices : Standing(d) = {}
  BY <1>1 DEF Standing
<1>5. NewestInv
  BY <1>1, <1>4 DEF NewestInv, NewestOf
<1>6. LabelsInv
  BY <1>1 DEF LabelsInv, Dated
<1> QED
  BY <1>2, <1>3, <1>5, <1>6 DEF CommandsInv

\* Every step keeps it.
LEMMA CommandsInvStep == CommandsInv /\ [Next]_vars => CommandsInv'
BY InvStep, BatchesStep, HistoryStep, NewestStep, LabelsStep DEF CommandsInv

\* It always holds.
LEMMA CommandsInvHolds == Spec => []CommandsInv
BY CommandsInvInit, CommandsInvStep, PTL DEF Spec

\* Between commands every device has exactly the override of the newest command
\* that reached it and was not undone.
THEOREM NewestStands == Spec => []OverrideIsNewestStanding
<1>1. CommandsInv => OverrideIsNewestStanding
  BY DEF CommandsInv, NewestInv, NewestOf, OverrideIsNewestStanding, Free
<1> QED
  BY <1>1, CommandsInvHolds, PTL

\* The history holds the newest commands, up to its limit, newest first and
\* without a gap, and marks exactly the undone ones.
THEOREM HistoryIsAccurate == Spec => []HistoryAccurate
<1>1. CommandsInv => HistoryAccurate
  BY DEF CommandsInv, HistoryInv
<1> QED
  BY <1>1, CommandsInvHolds, PTL

\* What DropExpired clears has expired, though it looks at the top entry only.
THEOREM OnlyExpiredDropped == Spec => DropsOnlyExpired
<1>1. ASSUME CommandsInv, [Next]_vars, undo # <<>>, undo' = <<>>, holder' = Free
      PROVE  \A i \in DOMAIN undo : undo[i].batch + GraceBatches <= clock
  <2>1. CASE DropExpired
    BY <1>1, <2>1, ExpiredBelow DEF DropExpired, CommandsInv, IInv
  <2>2. CASE BeginUndo
    BY <1>1, <2>2, PoppedFacts DEF CommandsInv, IInv, Free
  <2>3. CASE EndIssue
    <3>1. undo' = undo \/ undo' = Append(undo, NewEntry)
      BY <1>1, <2>3, EndIssueFacts DEF CommandsInv, IInv
    <3>2. undo \in Seq(Entry) /\ NewEntry \in Entry
      BY <1>1, <2>3, EndIssueFacts, NewFacts DEF CommandsInv, IInv, TypeOK
    <3> QED
      BY <1>1, <3>1, <3>2
  <2>4. CASE undo' = undo
    BY <1>1, <2>4
  <2> QED
    BY <1>1, <2>1, <2>2, <2>3, <2>4 DEF Next, Advance, BeginIssue, IssueToDevice, RestoreDevice,
       EndUndo, vars
<1>2. CommandsInv /\ [Next]_vars =>
         [undo # <<>> /\ undo' = <<>> /\ holder' = Free =>
             \A i \in DOMAIN undo : undo[i].batch + GraceBatches <= clock]_vars
  BY <1>1
<1> QED
  BY <1>2, CommandsInvHolds, PTL DEF Spec, DropsOnlyExpired
-----------------------------------------------------------------------------
(* The history page: what an answer says against what holds later.             *)

\* An override lasts as long as the record says, if it is its command's.
DatedFor(record, o) == o.id = record.id => o.until = record.batch + GraceBatches

\* An entry of the undo stack agrees with the record.
EntryKept(record, entry) ==
    /\ entry.id = record.id => entry.batch = record.batch
    /\ \A d \in Devices : DatedFor(record, entry.priors[d])

\* A record that was read agrees with all that can still be of its command.
RecordKept(record) ==
    /\ record.id \in 1 .. lastId
    /\ record.undone => record.id \in undone
    /\ \A i \in DOMAIN undo : EntryKept(record, undo[i])
    /\ \A d \in Devices : DatedFor(record, override[d])
    /\ holder.at = "issue" => \A d \in Devices : DatedFor(record, holder.priors[d])
    /\ holder.at = "undo" => EntryKept(record, holder.entry)

\* The types of the answer.
AnswerType ==
    answer \in [at : {"none", "clock", "sent"}, history : Seq(Record), undoableId : Nat,
                currentBatch : Nat, overtaken : BOOLEAN]

\* Nothing was issued or undone since GetHistory: the history is the one that
\* was read, and the undo stack too unless it was cleared.
NotOvertaken ==
    /\ holder.at # "undo"
    /\ history = answer.history
    /\ undo # <<>> => Top.id = answer.undoableId

\* A command that was in force in the batch of the answer can still be undone,
\* unless the stack was cleared.
ActiveKept ==
    undo # <<>> =>
        \A i \in DOMAIN history :
            /\ history[i].type \in ValveCommands
            /\ ~history[i].undone
            /\ history[i].batch + GraceBatches > answer.currentBatch
            => \E j \in DOMAIN undo : undo[j].id = history[i].id

\* What holds of the answer.
AnswerInv ==
    /\ AnswerType
    /\ \A record \in Shown : RecordKept(record)
    /\ answer.at = "sent" => answer.currentBatch <= clock
    /\ answer.at # "none" /\ ~answer.overtaken => NotOvertaken
    /\ answer.at = "sent" /\ ~answer.overtaken => ActiveKept

\* The inductive invariant of the page.
PageInv == CommandsInv /\ AnswerInv

\* What the answer holds.
LEMMA AnswerFacts ==
    ASSUME AnswerType
    PROVE  /\ answer.at \in {"none", "clock", "sent"} /\ answer.history \in Seq(Record)
           /\ answer.undoableId \in Nat /\ answer.currentBatch \in Nat
           /\ answer.overtaken \in BOOLEAN
           /\ Shown \subseteq Record
           /\ \A i \in DOMAIN answer.history : answer.history[i] \in Shown
           /\ \A record \in Shown : /\ record.id \in Nat /\ record.batch \in Nat
                                    /\ record.undone \in BOOLEAN
<1>1. /\ answer.at \in {"none", "clock", "sent"} /\ answer.history \in Seq(Record)
      /\ answer.undoableId \in Nat /\ answer.currentBatch \in Nat
      /\ answer.overtaken \in BOOLEAN
  BY DEF AnswerType
<1>2. \A i \in DOMAIN answer.history : answer.history[i] \in Record
  BY <1>1
<1>3. Shown \subseteq Record /\ \A i \in DOMAIN answer.history : answer.history[i] \in Shown
  BY <1>2 DEF Shown
<1>4. \A record \in Record : record.id \in Nat /\ record.batch \in Nat /\ record.undone \in BOOLEAN
  BY DEF Record
<1> QED
  BY <1>1, <1>3, <1>4

\* A step of the page is a step of the commands or none.
LEMMA PageStepIsStep == [PageNext]_pageVars => [Next]_vars
BY DEF PageNext, pageVars, vars, GetHistory, ReadBatch, CommandStep, Next

\* A record that was read agrees with every state that follows: new ids are
\* greater, and what comes back is what was saved.
LEMMA RecordStep ==
    ASSUME CommandsInv, [Next]_vars, NEW record \in Record, RecordKept(record)
    PROVE  RecordKept(record)'
<1>0. /\ IInv /\ TypeOK /\ lastId \in Nat /\ record.id \in Nat /\ undo \in Seq(Entry)
      /\ record.id \in 1 .. lastId
  BY DEF CommandsInv, IInv, TypeOK, RecordKept, Record
<1>1. CASE UNCHANGED vars
  BY <1>1 DEF vars, RecordKept, EntryKept, DatedFor
<1>2. CASE Advance
  BY <1>2 DEF Advance, RecordKept, EntryKept, DatedFor
<1>3. ASSUME NEW type \in Commands, NEW wanted \in SUBSET Devices, BeginIssue(type, wanted)
      PROVE  RecordKept(record)'
  <2>1. /\ UNCHANGED <<override, undo, lastId, undone>>
        /\ holder'.at = "issue" /\ holder'.priors = override
    BY <1>3 DEF BeginIssue
  <2> QED
    BY <2>1 DEF RecordKept, EntryKept, DatedFor
<1>4. CASE IssueToDevice
  <2>1. /\ UNCHANGED <<undo, lastId, undone>> /\ holder.at = "issue" /\ holder'.at = "issue"
        /\ holder.id # record.id
    <3>1. holder.at = "issue" /\ holder.id = lastId + 1
      BY <1>0, <1>4, IssueFacts DEF IInv, AllSound, IssueSound
    <3> QED
      BY <1>0, <1>4, <3>1, IssueFacts
  <2>2. CASE override' = override /\ holder'.priors = holder.priors
    BY <2>1, <2>2 DEF RecordKept, EntryKept, DatedFor
  <2>3. CASE ~(override' = override /\ holder'.priors = holder.priors)
    <3>1. PICK d \in Devices \cap holder.todo :
             /\ override'[d].id = holder.id
             /\ holder'.priors[d] = override[d]
             /\ \A x \in Devices \ {d} : /\ override'[x] = override[x]
                                         /\ holder'.priors[x] = holder.priors[x]
      BY <1>0, <1>4, <2>3, IssueFacts
    <3>2. \A x \in Devices : DatedFor(record, override'[x]) /\ DatedFor(record, holder'.priors[x])
      BY <2>1, <3>1 DEF RecordKept, DatedFor
    <3> QED
      BY <2>1, <3>2 DEF RecordKept, EntryKept, DatedFor
  <2> QED
    BY <2>2, <2>3
<1>5. CASE EndIssue
  <2>1. /\ UNCHANGED <<override, undone>> /\ holder.at = "issue" /\ holder'.at = "free"
        /\ holder.id = lastId + 1
    BY <1>0, <1>5, EndIssueFacts DEF IInv, AllSound, IssueSound
  <2>2. CASE UNCHANGED <<undo, lastId>>
    BY <2>1, <2>2 DEF RecordKept, EntryKept, DatedFor
  <2>3. CASE ~UNCHANGED <<undo, lastId>>
    <3>1. /\ lastId' = holder.id
          /\ undo' = IF holder.type \in ValveCommands THEN Append(undo, NewEntry) ELSE undo
      BY <1>0, <1>5, <2>3, EndIssueFacts
    <3>2. /\ NewEntry \in Entry /\ NewEntry.id = holder.id /\ NewEntry.priors = holder.priors
      BY <1>0, <2>1, NewFacts
    <3>3. EntryKept(record, NewEntry)
      BY <1>0, <2>1, <3>2 DEF RecordKept, EntryKept
    <3>4. \A i \in DOMAIN undo' : EntryKept(record, undo'[i])
      <4>1. CASE undo' = undo
        BY <4>1 DEF RecordKept
      <4>2. CASE undo' = Append(undo, NewEntry)
        BY <1>0, <3>2, <3>3, <4>2, PushedFacts DEF RecordKept
      <4> QED
        BY <3>1, <4>1, <4>2
    <3>5. record.id \in 1 .. lastId'
      BY <1>0, <2>1, <3>1
    <3> QED
      BY <2>1, <3>4, <3>5 DEF RecordKept, EntryKept, DatedFor
  <2> QED
    BY <2>2, <2>3
<1>6. CASE DropExpired
  <2>1. UNCHANGED <<override, lastId, holder, undone>> /\ DOMAIN undo' = {}
    BY <1>6 DEF DropExpired
  <2> QED
    BY <2>1 DEF RecordKept, EntryKept, DatedFor
<1>7. CASE BeginUndo
  <2>1. /\ UNCHANGED <<override, lastId, undone>> /\ holder'.at = "undo" /\ holder'.entry = Top
        /\ Len(undo) \in DOMAIN undo /\ Top = undo[Len(undo)]
        /\ \A i \in DOMAIN undo' : i \in DOMAIN undo /\ undo'[i] = undo[i]
    BY <1>0, <1>7, PoppedFacts
  <2> QED
    BY <2>1 DEF RecordKept, EntryKept, DatedFor
<1>8. CASE RestoreDevice
  <2>1. /\ UNCHANGED <<undo, lastId, undone>>
        /\ holder.at = "undo" /\ holder'.at = "undo" /\ holder'.entry = holder.entry
    BY <1>0, <1>8, RestoreFacts
  <2>2. PICK e \in Devices :
           /\ \A x \in Devices \ {e} : override'[x] = override[x]
           /\ override'[e] = holder.entry.priors[e] \/ override'[e] = override[e]
    BY <1>0, <1>8, RestoreFacts
  <2>3. \A d \in Devices : DatedFor(record, override'[d])
    BY <2>1, <2>2 DEF RecordKept, EntryKept
  <2> QED
    BY <2>1, <2>3 DEF RecordKept, EntryKept, DatedFor
<1>9. CASE EndUndo
  <2>1. /\ UNCHANGED <<override, undo, lastId>> /\ holder'.at = "free"
        /\ undone \subseteq undone'
    BY <1>0, <1>9, MarkedFacts
  <2> QED
    BY <2>1 DEF RecordKept, EntryKept, DatedFor
<1> QED
  BY <1>1, <1>2, <1>3, <1>4, <1>5, <1>6, <1>7, <1>8, <1>9 DEF Next

\* The endpoint reads the history: its records agree with what is there.
LEMMA GetHistoryAnswer ==
    ASSUME PageInv, GetHistory
    PROVE  AnswerInv'
<1>0. /\ CommandsInv /\ IInv /\ TypeOK /\ CommandsInv'
      /\ history \in Seq(Record) /\ undo \in Seq(Entry) /\ holder.at = "free"
  <2>1. [Next]_vars
    BY DEF GetHistory, Next
  <2> QED
    BY <2>1, CommandsInvStep DEF PageInv, CommandsInv, IInv, TypeOK, GetHistory, Free
<1>1. /\ UNCHANGED <<clock, override, history, lastId, holder, undone>>
      /\ undo' = <<>> \/ (undo' = undo /\ ~TopExpired)
  BY DEF GetHistory, DropExpired, vars, TopExpired
<1>2. answer' = [at |-> "clock", history |-> history, undoableId |-> UndoableId,
                 currentBatch |-> 0, overtaken |-> FALSE]
  BY DEF GetHistory
<1>3. undo # <<>> => Top \in Entry /\ Top.id \in Nat
  BY <1>0, PopFacts, EntryFacts
<1>4. UndoableId \in Nat
  BY <1>3 DEF UndoableId
<1>5. AnswerType'
  BY <1>0, <1>2, <1>4 DEF AnswerType
<1>6. ASSUME NEW i \in DOMAIN history
      PROVE  RecordKept(history[i])
  <2>1. history[i].id \in 1 .. lastId /\ (history[i].undone => history[i].id \in undone)
    BY <1>0 DEF CommandsInv, HistoryInv, HistoryAccurate
  <2>2. \A j \in DOMAIN undo : EntryKept(history[i], undo[j])
    BY <1>0 DEF CommandsInv, LabelsInv, EntryDated, Dated, EntryKept, DatedFor
  <2>3. \A d \in Devices : DatedFor(history[i], override[d])
    BY <1>0 DEF CommandsInv, LabelsInv, Dated, DatedFor
  <2> QED
    BY <1>0, <2>1, <2>2, <2>3 DEF RecordKept
<1>7. \A record \in Shown' : RecordKept(record)'
  <2>1. \A i \in DOMAIN history : history[i] \in Record
    BY <1>0
  <2>2. \A record \in Shown' : record \in Record /\ RecordKept(record)
    BY <1>2, <1>6, <2>1 DEF Shown
  <2>3. [Next]_vars
    BY DEF GetHistory, Next
  <2> QED
    BY <1>0, <2>2, <2>3, RecordStep
<1>8. NotOvertaken'
  <2>1. undo' # <<>> => Top' = Top /\ Top.id = UndoableId
    BY <1>1 DEF Top, UndoableId
  <2> QED
    BY <1>0, <1>1, <1>2, <2>1 DEF NotOvertaken
<1> QED
  BY <1>2, <1>5, <1>7, <1>8 DEF AnswerInv

\* The endpoint reads the batch: what is in force then can still be undone.
LEMMA ReadBatchAnswer ==
    ASSUME PageInv, ReadBatch
    PROVE  AnswerInv'
<1>0. /\ CommandsInv /\ AnswerInv /\ AnswerType /\ clock \in Nat
      /\ UNCHANGED <<clock, override, undo, history, lastId, holder, affected, undone>>
  BY DEF PageInv, CommandsInv, IInv, TypeOK, AnswerInv, ReadBatch, vars
<1>1. /\ answer'.at = "sent" /\ answer'.currentBatch = clock
      /\ answer'.history = answer.history /\ answer'.undoableId = answer.undoableId
      /\ answer'.overtaken = answer.overtaken /\ answer.at = "clock"
      /\ AnswerType'
  BY <1>0 DEF AnswerType, ReadBatch
<1>2. Shown' = Shown
  BY <1>1 DEF Shown
<1>3. \A record \in Shown' : RecordKept(record)'
  BY <1>0, <1>2 DEF AnswerInv, RecordKept, EntryKept, DatedFor
<1>4. ~answer.overtaken => NotOvertaken /\ NotOvertaken'
  BY <1>0, <1>1 DEF AnswerInv, NotOvertaken, Top
<1>5. ~answer.overtaken => ActiveKept'
  BY <1>0, <1>1, <1>4 DEF ActiveKept, NotOvertaken, CommandsInv, LabelsInv
<1> QED
  BY <1>0, <1>1, <1>3, <1>4, <1>5 DEF AnswerInv

\* What a step of the commands leaves of an answer that it does not overtake.
LEMMA QuietStep ==
    ASSUME CommandsInv, Next, history' = history, ~BeginUndo, holder.at # "undo"
    PROVE  /\ holder'.at # "undo"
           /\ undo' = undo \/ undo' = <<>>
<1>0. IInv /\ TypeOK
  BY DEF CommandsInv, IInv
<1>1. CASE Advance
  BY <1>1 DEF Advance
<1>2. ASSUME NEW type \in Commands, NEW wanted \in SUBSET Devices, BeginIssue(type, wanted)
      PROVE  holder'.at = "issue" /\ undo' = undo
  BY <1>2 DEF BeginIssue
<1>3. CASE IssueToDevice
  BY <1>0, <1>3, IssueFacts
<1>4. CASE EndIssue
  <2>1. holder'.at = "free"
    BY <1>4 DEF EndIssue, Free
  <2>2. UNCHANGED undo
    <3>1. SUFFICES ASSUME holder.changed # {} PROVE FALSE
      BY <1>4 DEF EndIssue
    <3>2. holder.at = "issue" /\ lastId' = holder.id /\ holder.id = lastId + 1 /\ lastId \in Nat
      BY <1>0, <1>4, <3>1, EndIssueFacts DEF IInv, AllSound, IssueSound, TypeOK
    <3>3. HistoryAccurate /\ HistoryAccurate' /\ history \in Seq(Record)
      <4>1. CommandsInv'
        BY CommandsInvStep
      <4> QED
        BY <1>0, <4>1 DEF CommandsInv, HistoryInv, TypeOK
    <3>4. Len(history) \in Nat /\ DOMAIN history = 1 .. Len(history)
      BY <3>3
    <3>5. 1 \in DOMAIN history'
      BY <1>4, <3>1, <3>2, <3>3, BoundsAssumption, <3>4 DEF HistoryAccurate
    <3> QED
      BY <3>2, <3>3, <3>5 DEF HistoryAccurate
  <2> QED
    BY <2>1, <2>2
<1>5. CASE DropExpired
  BY <1>5 DEF DropExpired
<1>6. CASE RestoreDevice
  BY <1>0, <1>6, RestoreFacts
<1>7. CASE EndUndo
  BY <1>7 DEF EndUndo
<1> QED
  BY <1>1, <1>2, <1>3, <1>4, <1>5, <1>6, <1>7 DEF Next

\* The commands go on behind the page.
LEMMA CommandStepAnswer ==
    ASSUME PageInv, CommandStep
    PROVE  AnswerInv'
<1>0. /\ CommandsInv /\ AnswerInv /\ AnswerType /\ Next /\ clock \in Nat /\ clock' \in Nat
      /\ clock <= clock'
  <2>1. CommandsInv /\ CommandsInv' /\ AnswerInv /\ AnswerType /\ Next
    BY CommandsInvStep DEF PageInv, AnswerInv, CommandStep
  <2>2. clock \in Nat /\ clock' \in Nat
    BY <2>1 DEF CommandsInv, IInv, TypeOK
  <2>3. clock' = clock \/ clock' = clock + 1
    BY <2>1 DEF Next, Advance, BeginIssue, IssueToDevice, EndIssue, DropExpired, BeginUndo,
       RestoreDevice, EndUndo
  <2> QED
    BY <2>1, <2>2, <2>3
<1>1. /\ answer'.at = answer.at /\ answer'.history = answer.history
      /\ answer'.undoableId = answer.undoableId /\ answer'.currentBatch = answer.currentBatch
      /\ AnswerType'
      /\ answer.at # "none" /\ ~answer'.overtaken =>
            ~answer.overtaken /\ history' = history /\ ~BeginUndo
  <2>1. CASE answer' = answer /\ ~(answer.at # "none" /\ (history' # history \/ BeginUndo))
    BY <1>0, <2>1 DEF AnswerType
  <2>2. CASE answer' = [answer EXCEPT !.overtaken = TRUE]
    BY <1>0, <2>2 DEF AnswerType
  <2> QED
    BY <2>1, <2>2 DEF CommandStep
<1>2. Shown' = Shown /\ Shown \subseteq Record
  BY <1>0, <1>1, AnswerFacts DEF Shown
<1>3. \A record \in Shown' : RecordKept(record)'
  BY <1>0, <1>2, RecordStep DEF AnswerInv
<1>4. answer'.at = "sent" => answer'.currentBatch <= clock'
  <2>1. answer.currentBatch \in Nat
    BY <1>0, AnswerFacts
  <2> QED
    BY <1>0, <1>1, <2>1 DEF AnswerInv
<1>5. ASSUME answer'.at # "none", ~answer'.overtaken
      PROVE  NotOvertaken' /\ (answer'.at = "sent" => ActiveKept')
  <2>1. /\ NotOvertaken /\ history' = history /\ ~BeginUndo
        /\ answer.at = "sent" => ActiveKept
    BY <1>0, <1>1, <1>5 DEF AnswerInv
  <2>2. holder'.at # "undo" /\ (undo' = undo \/ undo' = <<>>)
    BY <1>0, <2>1, QuietStep DEF NotOvertaken
  <2>3. NotOvertaken'
    BY <1>1, <2>1, <2>2 DEF NotOvertaken, Top
  <2>4. answer'.at = "sent" => ActiveKept'
    BY <1>1, <2>1, <2>2 DEF ActiveKept
  <2> QED
    BY <2>3, <2>4
<1> QED
  BY <1>1, <1>3, <1>4, <1>5 DEF AnswerInv

\* It holds at first.
LEMMA PageInvInit == PageInit => PageInv
<1> SUFFICES ASSUME PageInit PROVE PageInv
  OBVIOUS
<1>1. CommandsInv
  BY CommandsInvInit DEF PageInit
<1>2. answer.at = "none" /\ AnswerType /\ answer.history = <<>>
  BY DEF PageInit, NoAnswer, AnswerType
<1>3. Shown = {}
  BY <1>2 DEF Shown
<1> QED
  BY <1>1, <1>2, <1>3 DEF PageInv, AnswerInv

\* Every step keeps it.
LEMMA PageInvStep == PageInv /\ [PageNext]_pageVars => PageInv'
<1> SUFFICES ASSUME PageInv, [PageNext]_pageVars PROVE PageInv'
  OBVIOUS
<1>1. CommandsInv'
  BY PageStepIsStep, CommandsInvStep DEF PageInv
<1>2. CASE UNCHANGED pageVars
  <2>1. AnswerInv'
    BY <1>2 DEF PageInv, AnswerInv, pageVars, AnswerType, Shown, RecordKept, EntryKept, DatedFor,
       NotOvertaken, ActiveKept, Top
  <2> QED
    BY <1>1, <2>1 DEF PageInv
<1> QED
  BY <1>1, <1>2, GetHistoryAnswer, ReadBatchAnswer, CommandStepAnswer DEF PageNext, PageInv

\* It always holds.
LEMMA PageInvHolds == PageSpec => []PageInv
BY PageInvInit, PageInvStep, PTL DEF PageSpec

\* What the page says of a record that has ended stays true.
LEMMA EndedTrue ==
    ASSUME PageInv, answer.at = "sent", NEW record \in Shown
    PROVE  EndedLabelsTrue(record)
<1>0. /\ IInv /\ RecordKept(record) /\ clock \in Nat /\ GraceBatches \in Nat
      /\ record.id \in Nat \ {0} /\ record.batch \in Nat /\ record.undone \in BOOLEAN
      /\ answer.currentBatch \in Nat /\ answer.currentBatch <= clock
      /\ undo \in Seq(Entry)
  <2>1. AnswerInv /\ AnswerType /\ IInv /\ RecordKept(record)
    BY DEF PageInv, CommandsInv, AnswerInv
  <2>2. record.id \in 1 .. lastId /\ lastId \in Nat
    BY <2>1 DEF RecordKept, IInv, TypeOK
  <2> QED
    BY <2>1, <2>2, AnswerFacts, BoundsAssumption DEF AnswerInv, IInv, TypeOK
<1>1. StatusOf(record) = "Undone" => record.undone
  BY <1>0 DEF StatusOf
<1>2. StatusOf(record) = "Expired" =>
         ~record.undone /\ record.batch + GraceBatches <= answer.currentBatch
  BY <1>0 DEF StatusOf
<1>3. ASSUME record.undone
      PROVE  record.id \in undone /\ \A d \in Devices : override[d].id # record.id
  BY <1>0, <1>3, NotUndone DEF RecordKept, NoUndoneOverride
<1>4. ASSUME record.batch + GraceBatches <= answer.currentBatch
      PROVE  /\ record.id # UndoableId
             /\ \A d \in Devices : override[d].id = record.id => override[d].until <= clock
  <2>1. record.batch + GraceBatches <= clock
    BY <1>0, <1>4
  <2>2. ASSUME record.id = UndoableId PROVE FALSE
    <3>1. undo # <<>> /\ ~TopExpired /\ record.id = Top.id
      BY <1>0, <2>2 DEF UndoableId
    <3>2. Top.batch = record.batch
      BY <1>0, <3>1, PopFacts DEF RecordKept, EntryKept
    <3> QED
      BY <2>1, <3>1, <3>2 DEF TopExpired
  <2> QED
    BY <1>0, <2>1, <2>2 DEF RecordKept, DatedFor
<1> QED
  BY <1>1, <1>2, <1>3, <1>4 DEF EndedLabelsTrue

\* What it says of the others is true until the answer is overtaken.
LEMMA LiveTrue ==
    ASSUME PageInv, answer.at = "sent", ~answer.overtaken, NEW record \in ShownValves
    PROVE  LiveLabelsTrue(record)
<1> DEFINE expired == record.batch + GraceBatches <= answer.currentBatch
<1>0. /\ IInv /\ RecordKept(record) /\ NotOvertaken /\ ActiveKept
      /\ clock \in Nat /\ GraceBatches \in Nat /\ lastId \in Nat
      /\ record.id \in Nat \ {0} /\ record.batch \in Nat /\ record.undone \in BOOLEAN
      /\ record.type \in ValveCommands
      /\ answer.currentBatch \in Nat /\ answer.currentBatch <= clock
      /\ answer.undoableId \in Nat /\ undo \in Seq(Entry)
  <2>1. record \in Shown /\ record.type \in ValveCommands
    BY DEF ShownValves
  <2>2. AnswerInv /\ AnswerType /\ IInv /\ RecordKept(record)
    BY <2>1 DEF PageInv, CommandsInv, AnswerInv
  <2>3. record.id \in 1 .. lastId /\ lastId \in Nat
    BY <2>2 DEF RecordKept, IInv, TypeOK
  <2> QED
    BY <2>1, <2>2, <2>3, AnswerFacts, BoundsAssumption DEF AnswerInv, IInv, TypeOK
<1>1. PICK i \in DOMAIN history : record = history[i]
  BY <1>0 DEF ShownValves, Shown, NotOvertaken
<1>2. undo # <<>> =>
         /\ Len(undo) \in Nat \ {0} /\ Len(undo) \in DOMAIN undo /\ DOMAIN undo = 1 .. Len(undo)
         /\ Top = undo[Len(undo)] /\ Top.id = answer.undoableId
         /\ Top.id \in Nat \ {0} /\ Top.id \notin undone /\ Top.batch \in Nat
  <2>1. \A j \in DOMAIN undo : undo[j].id \in 1 .. lastId /\ undo[j].id \notin undone
    BY <1>0 DEF IInv, AllSound, StackSound
  <2> QED
    BY <1>0, <2>1, PopFacts, EntryFacts DEF NotOvertaken
<1>3. /\ record.undone => StatusOf(record) = "Undone"
      /\ ~record.undone /\ expired => StatusOf(record) = "Expired"
      /\ ~record.undone /\ ~expired =>
            StatusOf(record) = IF record.id = answer.undoableId THEN "Next to undo" ELSE "Active"
  BY <1>0 DEF StatusOf
<1>4. ASSUME UndoOffers(record) PROVE UndoableId \in {record.id, 0}
  <2>1. CASE undo = <<>>
    BY <2>1 DEF UndoableId
  <2>2. CASE undo # <<>>
    BY <1>2, <1>4, <2>2 DEF UndoableId, UndoOffers
  <2> QED
    BY <2>1, <2>2
<1>5. ASSUME undo # <<>>, ~record.undone, ~expired
      PROVE  \E j \in DOMAIN undo : undo[j].id = record.id
  <2>1. record.batch + GraceBatches > answer.currentBatch
    BY <1>0, <1>5
  <2> QED
    BY <1>0, <1>1, <1>5, <2>1 DEF ActiveKept
<1>6. ASSUME clock = answer.currentBatch, StatusOf(record) = "Next to undo"
      PROVE  record.id = UndoableId
  <2>1. ~record.undone /\ ~expired /\ record.id = answer.undoableId
    BY <1>3, <1>6
  <2>2. undo # <<>>
    <3>0. record.batch + GraceBatches > answer.currentBatch
      BY <1>0, <2>1
    <3>1. record.batch + GraceBatches > clock
      BY <1>6, <3>0
    <3>2. \E j \in DOMAIN undo : undo[j].id = record.id
      BY <1>0, <1>1, <2>1, <3>1 DEF PageInv, CommandsInv, LabelsInv, NotOvertaken
    <3> QED
      BY <3>2
  <2>3. Top.id = record.id /\ Top.batch = record.batch
    BY <1>0, <1>2, <2>1, <2>2 DEF RecordKept, EntryKept
  <2> QED
    BY <1>0, <1>6, <2>1, <2>2, <2>3 DEF UndoableId, TopExpired
<1>7. ASSUME clock = answer.currentBatch, record.id = UndoableId
      PROVE  StatusOf(record) = "Next to undo"
  <2>1. undo # <<>> /\ ~TopExpired /\ record.id = Top.id
    BY <1>0, <1>7 DEF UndoableId
  <2>2. Top.batch = record.batch /\ record.id = answer.undoableId
    BY <1>0, <1>2, <2>1 DEF RecordKept, EntryKept
  <2>3. ~record.undone
    BY <1>0, <1>2, <2>1 DEF RecordKept
  <2>4. ~expired
    BY <1>0, <1>2, <1>7, <2>1, <2>2 DEF TopExpired
  <2> QED
    BY <1>3, <2>2, <2>3, <2>4
<1>8. ASSUME StatusOf(record) = "Active", undo # <<>>
      PROVE  \E j \in 1 .. Len(undo) - 1 : undo[j].id = record.id
  <2>1. ~record.undone /\ ~expired /\ record.id # answer.undoableId
    BY <1>3, <1>8
  <2>2. PICK j \in DOMAIN undo : undo[j].id = record.id
    BY <1>5, <1>8, <2>1
  <2>3. j # Len(undo)
    BY <1>2, <1>8, <2>1, <2>2
  <2> QED
    BY <1>2, <1>8, <2>2, <2>3
<1>9. ASSUME StatusOf(record) \in {"Active", "Next to undo"}, NEW d \in Devices,
             override[d].id = record.id
      PROVE  override[d].until > answer.currentBatch
  <2>1. ~expired
    BY <1>3, <1>9
  <2>2. override[d].until = record.batch + GraceBatches
    BY <1>0, <1>9 DEF RecordKept, DatedFor
  <2> QED
    BY <1>0, <2>1, <2>2
<1> QED
  BY <1>4, <1>6, <1>7, <1>8, <1>9 DEF LiveLabelsTrue

\* The Status column and the Undo button are true of the devices and of Undo,
\* for an answer whose two parts were read at different times: what has ended
\* stays so, and the rest until a command or an undo overtakes the answer.
THEOREM LabelsAreTrue == PageSpec => []LabelsMatchUndo
<1>1. PageInv => LabelsMatchUndo
  <2> SUFFICES ASSUME PageInv, answer.at = "sent", NEW record \in ShownValves
               PROVE  /\ EndedLabelsTrue(record)
                      /\ ~answer.overtaken => LiveLabelsTrue(record)
    BY DEF LabelsMatchUndo
  <2>1. record \in Shown
    BY DEF ShownValves
  <2> QED
    BY <2>1, EndedTrue, LiveTrue
<1> QED
  BY <1>1, PageInvHolds, PTL
=============================================================================
