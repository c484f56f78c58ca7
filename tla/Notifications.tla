--------------------------- MODULE Notifications ---------------------------
(***************************************************************************)
(* The notification queue of notification_service.py: in memory, bounded,  *)
(* filled by schedules, timers and the system, emptied by the pages.       *)
(* Only whether an entry was read is kept of it.                           *)
(***************************************************************************)
EXTENDS Naturals, Sequences

CONSTANT MaxQueue    \* MAX_QUEUE, 50 in the code

ASSUME QueueAssumption == MaxQueue \in Nat

VARIABLE notes       \* _queue: the read flags, oldest first

NotesTypeOK == notes \in Seq(BOOLEAN) /\ Len(notes) <= MaxQueue

NotesInit == notes = <<>>

\* Fault: nothing makes room.
PushedUnbounded(q) == Append(q, FALSE)

\* push_notification(): the oldest entry makes room.
Pushed(q) ==
    LET longer == Append(q, FALSE)
    IN  IF Len(longer) > MaxQueue THEN Tail(longer) ELSE longer

MarkRead ==
    \E i \in DOMAIN notes : notes' = [notes EXCEPT ![i] = TRUE]

MarkAllRead == notes' = [i \in DOMAIN notes |-> TRUE]

DeleteOne ==
    \E i \in DOMAIN notes :
        notes' = SubSeq(notes, 1, i - 1) \o SubSeq(notes, i + 1, Len(notes))

ClearAll == notes' = <<>>

\* What the pages do with the queue; the process loses it when it ends.
NotesNext == MarkRead \/ MarkAllRead \/ DeleteOne \/ ClearAll
============================================================================
