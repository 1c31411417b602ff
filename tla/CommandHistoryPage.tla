------------------------- MODULE CommandHistoryPage -------------------------
(* GET /api/commands (backend/Endpoints/CommandEndpoints.cs) and the Status    *)
(* column and Undo button that frontend/src/pages/CommandHistory.jsx makes of  *)
(* its answer.  The endpoint reads twice: GetHistory takes the history and the *)
(* undoable command under CommandService._lock, and clock.Current is read      *)
(* after the lock is gone.  Commands, undos and batches may come between the   *)
(* two, and after them, while the page shows what it was sent.                 *)
EXTENDS Commands

CONSTANT MaxAnswered    \* bound on the commands issued where the history is asked for

ASSUME MaxAnsweredAssumption == MaxAnswered \in Nat

VARIABLE answer    \* the latest answer; overtaken: a command or an undo came since

pageVars == <<clock, override, undo, history, lastId, holder, affected, undone, answer>>

NoAnswer == [at |-> "none", history |-> <<>>, undoableId |-> 0, currentBatch |-> 0,
             overtaken |-> FALSE]

PageInit == Init /\ answer = NoAnswer

\* commands.GetHistory(): DropExpired, the list and the top's id, under the lock.
GetHistory ==
    /\ holder = Free
    /\ answer.at # "clock" /\ lastId <= MaxAnswered
    /\ DropExpired \/ (~TopExpired /\ UNCHANGED vars)
    /\ answer' = [at |-> "clock", history |-> history, undoableId |-> UndoableId,
                  currentBatch |-> 0, overtaken |-> FALSE]

\* clock.Current, and the answer goes to the page.
ReadBatch ==
    /\ answer.at = "clock"
    /\ answer' = [answer EXCEPT !.at = "sent", !.currentBatch = clock]
    /\ UNCHANGED vars

\* A step of the commands; a new record or an undo overtakes the answer.
CommandStep ==
    /\ Next
    /\ answer.at # "none" /\ holder'.at = "issue" => holder'.id <= MaxAnswered
    /\ answer' = IF answer.at # "none" /\ (history' # history \/ BeginUndo)
                 THEN [answer EXCEPT !.overtaken = TRUE] ELSE answer

PageNext == GetHistory \/ ReadBatch \/ CommandStep

PageSpec == PageInit /\ [][PageNext]_pageVars
-----------------------------------------------------------------------------
\* Mutant: a command counts as active for one batch more.
StatusOf_Late(record) ==
    CASE record.undone -> "Undone"
      [] ~record.undone /\ record.batch + GraceBatches < answer.currentBatch -> "Expired"
      [] OTHER -> IF record.id = answer.undoableId THEN "Next to undo" ELSE "Active"

\* statusOf: the Status column of the valve commands.
StatusOf(record) ==
    CASE record.undone -> "Undone"
      [] ~record.undone /\ record.batch + GraceBatches <= answer.currentBatch -> "Expired"
      [] OTHER -> IF record.id = answer.undoableId THEN "Next to undo" ELSE "Active"

\* The Undo button names this record of the list and is enabled where there is one.
UndoOffers(record) == record.id = answer.undoableId

Shown == {answer.history[i] : i \in DOMAIN answer.history}
ShownValves == {record \in Shown : record.type \in ValveCommands}

\* Undone stays so: no device has the override.  Expired is for good: Undo will
\* not take the command back, though the button may still offer it where a batch
\* closed between the endpoint's two reads, and no device is in its force.
EndedLabelsTrue(record) ==
    /\ StatusOf(record) = "Undone" =>
           record.id \in undone /\ \A d \in Devices : override[d].id # record.id
    /\ StatusOf(record) = "Expired" =>
           /\ record.id # UndoableId
           /\ \A d \in Devices : override[d].id = record.id => override[d].until <= clock

\* Until a command or an undo overtakes the answer, Undo takes back the command that
\* the button and the label name, or nothing; the label names it exactly in the
\* batch the answer tells; and Active commands come after it.
LiveLabelsTrue(record) ==
    LET label == StatusOf(record)
    IN  /\ UndoOffers(record) => UndoableId \in {record.id, 0}
        /\ clock = answer.currentBatch =>
               (label = "Next to undo" <=> record.id = UndoableId)
        /\ label = "Active" /\ undo # <<>> =>
               \E j \in 1 .. Len(undo) - 1 : undo[j].id = record.id
        /\ label \in {"Active", "Next to undo"} =>
               \A d \in Devices :
                  override[d].id = record.id => override[d].until > answer.currentBatch

LabelsMatchUndo ==
    answer.at = "sent" =>
        \A record \in ShownValves :
            EndedLabelsTrue(record) /\ (~answer.overtaken => LiveLabelsTrue(record))
=============================================================================
