---------------------------- MODULE Appointments ----------------------------
(***************************************************************************)
(* Online booking, rescheduling and cancellation of appointments           *)
(* (src/src/scheduling/scheduling.service.ts) by several customers, and    *)
(* the company's Google calendar (external). Every call writes the job row *)
(* first, asks the calendar next, and takes the write back if that fails.  *)
(* A call takes one step per database or calendar await. The database lets *)
(* no two jobs of a tenant hold one window (unique index on tenantId,      *)
(* serviceWindowStart, serviceWindowEnd); all jobs here are one tenant's.  *)
(* Technicians and operators, who may also move the job, are left to       *)
(* JobWorkflow.                                                            *)
(***************************************************************************)
EXTENDS Naturals

CONSTANTS
    Jobs,
    Windows,
    NoWindow,   \* serviceWindowStart and serviceWindowEnd are null
    Calls,      \* requests that can be in progress at once
    MaxEvents,  \* bound: calendar events ever inserted
    MaxFaults   \* bound: lost answers, failed statements and crashes

ASSUME AppointmentAssumption ==
    /\ NoWindow \notin Windows
    /\ MaxEvents \in Nat
    /\ MaxFaults \in Nat

VARIABLES
    status, window, eventId,    \* columns of each job; eventId 0 is null
    calendar,       \* external: the window of each event, NoWindow if deleted
    inserted,       \* external: how many events were ever inserted
    serves,         \* the job of each call, which its slot or management token names
    pc,             \* where each call stands
    slot,           \* the window its slot token asks for
    original,       \* the window it read, to be restored
    event,          \* the calendar event it read or was given
    beaten,         \* history: jobs whose undo found the window taken by another job
    faults

rowVars == <<status, window, eventId>>
calendarVars == <<calendar, inserted>>
callVars == <<serves, pc, slot, original, event>>
vars == <<rowVars, calendarVars, callVars, beaten, faults>>

EventIds == 1..MaxEvents
CallPc == {"idle",
           "confirmRead", "reserving", "inserting", "inserted", "insertFailed",
           "moveRead", "moving", "patching", "patched", "patchFailed", "unpatching", "unpatchFailed",
           "cancelling", "deleting", "deleted", "deleteFailed"}

TypeOK ==
    /\ status \in [Jobs -> {"CREATED", "ACCEPTED", "CANCELLED"}]
    /\ window \in [Jobs -> Windows \cup {NoWindow}]
    /\ eventId \in [Jobs -> EventIds \cup {0}]
    /\ calendar \in [EventIds -> Windows \cup {NoWindow}]
    /\ inserted \in 0..MaxEvents
    /\ serves \in [Calls -> Jobs]
    /\ pc \in [Calls -> CallPc]
    /\ slot \in [Calls -> Windows \cup {NoWindow}]
    /\ original \in [Calls -> Windows \cup {NoWindow}]
    /\ event \in [Calls -> EventIds \cup {0}]
    /\ beaten \in SUBSET Jobs
    /\ faults \in 0..MaxFaults

Init ==
    /\ status = [j \in Jobs |-> "CREATED"]
    /\ window = [j \in Jobs |-> NoWindow]
    /\ eventId = [j \in Jobs |-> 0]
    /\ calendar = [n \in EventIds |-> NoWindow]
    /\ inserted = 0
    /\ serves \in [Calls -> Jobs]
    /\ pc = [c \in Calls |-> "idle"]
    /\ slot = [c \in Calls |-> NoWindow]
    /\ original = [c \in Calls |-> NoWindow]
    /\ event = [c \in Calls |-> 0]
    /\ beaten = {}
    /\ faults = 0

-----------------------------------------------------------------------------
(* What the unique index refuses; nulls never collide. *)
Taken(j, w) == w # NoWindow /\ \E i \in Jobs \ {j} : window[i] = w
Active(j) == status[j] = "ACCEPTED" /\ eventId[j] # 0 /\ window[j] # NoWindow

SetRow(j, s, w, n) ==
    /\ status' = [status EXCEPT ![j] = s]
    /\ window' = [window EXCEPT ![j] = w]
    /\ eventId' = [eventId EXCEPT ![j] = n]

Goto(c, step) ==
    /\ pc' = [pc EXCEPT ![c] = step]
    /\ UNCHANGED <<serves, slot, original, event>>

Return(c) ==
    /\ pc' = [pc EXCEPT ![c] = "idle"]
    /\ slot' = [slot EXCEPT ![c] = NoWindow]
    /\ original' = [original EXCEPT ![c] = NoWindow]
    /\ event' = [event EXCEPT ![c] = 0]
    /\ UNCHANGED serves

Read(c, step, w) ==
    /\ pc[c] = "idle"
    /\ pc' = [pc EXCEPT ![c] = step]
    /\ slot' = [slot EXCEPT ![c] = w]
    /\ original' = [original EXCEPT ![c] = window[serves[c]]]
    /\ event' = [event EXCEPT ![c] = eventId[serves[c]]]
    /\ UNCHANGED <<rowVars, calendarVars, serves, beaten, faults>>

(* fetchBusy asks the calendar; what it says may be stale when it is used, *)
(* and the call ends when the calendar does not answer.                    *)
Busy(w) == \E n \in EventIds : calendar[n] = w

CheckBusy(c, from, to) ==
    /\ pc[c] = from
    /\ \/ ~Busy(slot[c]) /\ Goto(c, to)
       \/ Return(c)
    /\ UNCHANGED <<rowVars, calendarVars, beaten, faults>>

(* A request to the calendar takes effect and is answered, or is refused,  *)
(* or (a fault) takes effect after the 8 s timeout has given it up.        *)
Fault == faults < MaxFaults /\ faults' = faults + 1

Request(c, from, ok, failed, effect) ==
    /\ pc[c] = from
    /\ \/ effect /\ pc' = [pc EXCEPT ![c] = ok] /\ UNCHANGED faults
       \/ UNCHANGED <<calendarVars, event>> /\ pc' = [pc EXCEPT ![c] = failed] /\ UNCHANGED faults
       \/ effect /\ pc' = [pc EXCEPT ![c] = failed] /\ Fault
    /\ UNCHANGED <<rowVars, serves, slot, original, beaten>>

(* The undo of a write: it finds the row as the call left it, or nothing   *)
(* to undo, or the unique index refuses it and the exception ends the call.*)
Undo(c, found, s, w, n) ==
    LET j == serves[c]
    IN  /\ IF found /\ ~Taken(j, w) THEN SetRow(j, s, w, n) ELSE UNCHANGED rowVars
        /\ beaten' = IF found /\ Taken(j, w) THEN beaten \cup {j} ELSE beaten
        /\ Return(c)
        /\ UNCHANGED <<calendarVars, faults>>

-----------------------------------------------------------------------------
(* confirmAppointment; a slot token stays valid for 30 minutes, whatever   *)
(* becomes of the job. Confirming the window the job holds changes nothing.*)

ConfirmRead(c, w) ==
    /\ ~(status[serves[c]] = "ACCEPTED" /\ window[serves[c]] = w)
    /\ Read(c, "confirmRead", w)

ConfirmCheck(c) == CheckBusy(c, "confirmRead", "reserving")

Reserve(c) ==
    LET j == serves[c]
    IN  /\ pc[c] = "reserving"
        /\ IF window[j] = NoWindow /\ ~Taken(j, slot[c])
           THEN /\ SetRow(j, "ACCEPTED", slot[c], eventId[j])
                /\ Goto(c, "inserting")
           ELSE Return(c) /\ UNCHANGED rowVars
        /\ UNCHANGED <<calendarVars, beaten, faults>>

Insert(c) ==
    /\ inserted < MaxEvents
    /\ inserted' = inserted + 1
    /\ calendar' = [calendar EXCEPT ![inserted + 1] = slot[c]]
    /\ event' = [event EXCEPT ![c] = inserted + 1]

InsertEvent(c) == Request(c, "inserting", "inserted", "insertFailed", Insert(c))

(* The event's id is stored whatever the row has become. *)
Book(c) ==
    /\ pc[c] = "inserted"
    /\ eventId' = [eventId EXCEPT ![serves[c]] = event[c]]
    /\ Return(c)
    /\ UNCHANGED <<status, window, calendarVars, beaten, faults>>

BookFails(c) ==
    /\ pc[c] = "inserted"
    /\ Fault
    /\ Goto(c, "insertFailed")
    /\ UNCHANGED <<rowVars, calendarVars, beaten>>

(* Mutant: the reservation is not taken back. *)
KeepReservation(c) ==
    /\ pc[c] = "insertFailed"
    /\ Return(c)
    /\ UNCHANGED <<rowVars, calendarVars, beaten, faults>>

Unreserve(c) ==
    /\ pc[c] = "insertFailed"
    /\ Undo(c, eventId[serves[c]] = 0, "CREATED", NoWindow, 0)

-----------------------------------------------------------------------------
(* rescheduleAppointment: the row is moved WHERE it still is as it was     *)
(* read, and the calendar's event is patched after it.                     *)

(* Mutant: the row is written by its id alone. *)
AnyRow(c) == TRUE

RowIsAsRead(c) ==
    LET j == serves[c]
    IN  status[j] = "ACCEPTED" /\ eventId[j] = event[c] /\ window[j] = original[c]

MoveRead(c, w) ==
    /\ Active(serves[c])
    /\ window[serves[c]] # w
    /\ Read(c, "moveRead", w)

MoveCheck(c) == CheckBusy(c, "moveRead", "moving")

MoveRow(c) ==
    LET j == serves[c]
    IN  /\ pc[c] = "moving"
        /\ IF RowIsAsRead(c) /\ ~Taken(j, slot[c])
           THEN SetRow(j, "ACCEPTED", slot[c], event[c]) /\ Goto(c, "patching")
           ELSE Return(c) /\ UNCHANGED rowVars
        /\ UNCHANGED <<calendarVars, beaten, faults>>

(* An event that was deleted cannot be patched. *)
Patch(c, w) ==
    /\ calendar[event[c]] # NoWindow
    /\ calendar' = [calendar EXCEPT ![event[c]] = w]
    /\ UNCHANGED <<inserted, event>>

PatchEvent(c) == Request(c, "patching", "patched", "patchFailed", Patch(c, slot[c]))

(* The audit record is written; when that fails the event is moved back,   *)
(* and the row stays moved if the event could not be.                      *)
MoveDone(c) ==
    /\ pc[c] \in {"patched", "unpatchFailed"}
    /\ Return(c)
    /\ UNCHANGED <<rowVars, calendarVars, beaten, faults>>

MoveAuditFails(c) ==
    /\ pc[c] = "patched"
    /\ Fault
    /\ Goto(c, "unpatching")
    /\ UNCHANGED <<rowVars, calendarVars, beaten>>

UnpatchEvent(c) == Request(c, "unpatching", "patchFailed", "unpatchFailed", Patch(c, original[c]))

MovedByCall(c) ==
    LET j == serves[c]
    IN  eventId[j] = event[c] /\ window[j] = slot[c]

UndoMove(c) ==
    /\ pc[c] = "patchFailed"
    /\ Undo(c, MovedByCall(c), status[serves[c]], original[c], event[c])

-----------------------------------------------------------------------------
(* cancelAppointment; an appointment already cancelled is confirmed as     *)
(* cancelled at once, which changes nothing.                               *)

CancelRead(c) ==
    /\ Active(serves[c])
    /\ Read(c, "cancelling", NoWindow)

(* Mutant: the cancelled row keeps its calendar event. *)
CancelKeepingEvent(c) ==
    /\ pc[c] = "cancelling"
    /\ IF RowIsAsRead(c)
       THEN SetRow(serves[c], "CANCELLED", NoWindow, event[c]) /\ Goto(c, "deleting")
       ELSE Return(c) /\ UNCHANGED rowVars
    /\ UNCHANGED <<calendarVars, beaten, faults>>

CancelRow(c) ==
    /\ pc[c] = "cancelling"
    /\ IF RowIsAsRead(c)
       THEN SetRow(serves[c], "CANCELLED", NoWindow, 0) /\ Goto(c, "deleting")
       ELSE Return(c) /\ UNCHANGED rowVars
    /\ UNCHANGED <<calendarVars, beaten, faults>>

Delete(c) ==
    /\ calendar' = [calendar EXCEPT ![event[c]] = NoWindow]
    /\ UNCHANGED <<inserted, event>>

DeleteEvent(c) == Request(c, "deleting", "deleted", "deleteFailed", Delete(c))

CancelDone(c) ==
    /\ pc[c] = "deleted"
    /\ Return(c)
    /\ UNCHANGED <<rowVars, calendarVars, beaten, faults>>

(* Mutant: the restored row forgets its calendar event. *)
UndoCancelWithoutEvent(c) ==
    /\ pc[c] = "deleteFailed"
    /\ Undo(c, status[serves[c]] = "CANCELLED" /\ eventId[serves[c]] = 0, "ACCEPTED", original[c], 0)

UndoCancel(c) ==
    /\ pc[c] = "deleteFailed"
    /\ Undo(c, status[serves[c]] = "CANCELLED" /\ eventId[serves[c]] = 0,
            "ACCEPTED", original[c], event[c])

Crash(c) ==
    /\ pc[c] # "idle"
    /\ Fault
    /\ Return(c)
    /\ UNCHANGED <<rowVars, calendarVars, beaten>>

Next ==
    \E c \in Calls :
        \/ \E w \in Windows : ConfirmRead(c, w) \/ MoveRead(c, w)
        \/ ConfirmCheck(c) \/ Reserve(c) \/ InsertEvent(c)
        \/ Book(c) \/ BookFails(c) \/ Unreserve(c)
        \/ MoveCheck(c) \/ MoveRow(c) \/ PatchEvent(c)
        \/ MoveDone(c) \/ MoveAuditFails(c) \/ UnpatchEvent(c) \/ UndoMove(c)
        \/ CancelRead(c) \/ CancelRow(c)
        \/ DeleteEvent(c) \/ CancelDone(c) \/ UndoCancel(c)
        \/ Crash(c)

Spec == Init /\ [][Next]_vars

-----------------------------------------------------------------------------
Resting(j) == \A c \in Calls : serves[c] = j => pc[c] = "idle"

(* No two calls are on one job, and no answer or statement was lost.       *)
OrderlyCalls == faults = 0 /\ \A c, d \in Calls : serves[c] = serves[d] => c = d

(* Customers of different jobs race for the same windows, and calendar     *)
(* requests are refused at any point: when a job's calls have ended, its   *)
(* row and its calendar event agree, unless its undo found its window      *)
(* taken by another job (the catch blocks of the three operations).        *)
CalendarMatchesRow ==
    OrderlyCalls => \A j \in Jobs : Resting(j) /\ j \notin beaten =>
        /\ eventId[j] # 0 => calendar[eventId[j]] = window[j]
        /\ window[j] # NoWindow => eventId[j] # 0

(* No calendar event is left behind: at rest, each belongs to some job.    *)
NoStrayEvents ==
    OrderlyCalls /\ (\A j \in Jobs : Resting(j)) /\ beaten = {} =>
        \A n \in EventIds : calendar[n] # NoWindow => \E j \in Jobs : eventId[j] = n

(* Even when calls on one job overlap, as long as no answer was lost, a    *)
(* row never names an event that the calendar no longer has (the WHERE     *)
(* clauses of lines 689-697 and 806-814).                                  *)
BookedEventExists ==
    faults = 0 => \A j \in Jobs : eventId[j] # 0 => calendar[eventId[j]] # NoWindow

(* Whatever overlaps, fails, times out or crashes, a row that names a      *)
(* calendar event is an accepted appointment with a window, so that its    *)
(* customer can still manage it (requireActiveAppointment, 462-473), and   *)
(* the event is no other job's.                                            *)
BookedRowsAreWhole ==
    \A j \in Jobs : eventId[j] # 0 =>
        /\ status[j] = "ACCEPTED" /\ window[j] # NoWindow
        /\ \A i \in Jobs \ {j} : eventId[i] # eventId[j]

(* The inductive invariant behind it: a call on its way to a booking still *)
(* has the reservation it made, and no two jobs' calls hold one event.     *)
Booking(c) == pc[c] \in {"inserting", "inserted", "insertFailed"}

BookingHoldsReservation ==
    /\ \A c \in Calls : Booking(c) =>
          /\ status[serves[c]] = "ACCEPTED"
          /\ window[serves[c]] # NoWindow
          /\ eventId[serves[c]] = 0
    /\ \A c, d \in Calls : Booking(c) /\ Booking(d) /\ serves[c] = serves[d] => c = d

EventsHaveOneJob ==
    /\ \A j \in Jobs : eventId[j] <= inserted
    /\ \A c \in Calls :
          /\ event[c] <= inserted
          /\ \A j \in Jobs \ {serves[c]} : event[c] # 0 => eventId[j] # event[c]
          /\ \A d \in Calls : event[c] # 0 /\ event[c] = event[d] => serves[c] = serves[d]

MovesKeepWindows ==
    \A c \in Calls :
        /\ pc[c] \in {"confirmRead", "reserving", "moveRead", "moving"} => slot[c] # NoWindow
        /\ pc[c] \in {"moveRead", "moving", "patching", "patched", "unpatching", "patchFailed",
                      "cancelling", "deleting", "deleteFailed"}
              => original[c] # NoWindow /\ event[c] # 0

IInv ==
    /\ TypeOK
    /\ BookedRowsAreWhole
    /\ BookingHoldsReservation
    /\ EventsHaveOneJob
    /\ MovesKeepWindows
=============================================================================
