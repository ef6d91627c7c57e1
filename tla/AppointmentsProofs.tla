------------------------- MODULE AppointmentsProofs -------------------------
(* Proofs about Appointments for any number of jobs, windows, overlapping    *)
(* calls and faults: a row that names a calendar event is a whole            *)
(* appointment of one job.                                                   *)
EXTENDS Appointments, TLAPS

USE AppointmentAssumption

(* The initial state satisfies the inductive invariant. *)
LEMMA IInvInit == Init => IInv
  <1> SUFFICES ASSUME Init
               PROVE  IInv
    OBVIOUS
  <1>1. TypeOK
    BY DEF Init, TypeOK, CallPc, EventIds
  <1>2. BookedRowsAreWhole /\ BookingHoldsReservation /\ EventsHaveOneJob /\ MovesKeepWindows
    BY DEF Init, BookedRowsAreWhole, BookingHoldsReservation, Booking, EventsHaveOneJob,
           MovesKeepWindows
  <1> QED
    BY <1>1, <1>2 DEF IInv

(* Inserting an event keeps the types, and the new event is numbered next. *)
LEMMA InsertTypes ==
  ASSUME TypeOK, NEW c \in Calls, Insert(c)
  PROVE  /\ inserted' \in 0..MaxEvents
         /\ calendar' \in [EventIds -> Windows \cup {NoWindow}]
         /\ event' \in [Calls -> EventIds \cup {0}]
  <1>1. /\ inserted' \in 0..MaxEvents
        /\ inserted + 1 \in EventIds
    BY DEF TypeOK, Insert, EventIds
  <1>2. calendar' \in [EventIds -> Windows \cup {NoWindow}]
    BY DEF TypeOK, Insert
  <1>3. event' \in [Calls -> EventIds \cup {0}]
    BY <1>1 DEF TypeOK, Insert
  <1> QED
    BY <1>1, <1>2, <1>3

(* Moving an event in the calendar keeps the types. *)
LEMMA PatchTypes ==
  ASSUME TypeOK, NEW c \in Calls, NEW w \in Windows \cup {NoWindow}, Patch(c, w)
  PROVE  calendar' \in [EventIds -> Windows \cup {NoWindow}]
  BY DEF TypeOK, Patch

(* Every step keeps the types. *)
LEMMA TypeStep ==
  TypeOK /\ MovesKeepWindows /\ [Next]_vars => TypeOK'
  <1> SUFFICES ASSUME TypeOK, MovesKeepWindows, [Next]_vars
               PROVE  TypeOK'
    OBVIOUS
  <1> USE DEF TypeOK, CallPc, EventIds, rowVars, calendarVars, callVars
  <1>1. ASSUME NEW c \in Calls, NEW w \in Windows, ConfirmRead(c, w)
        PROVE  TypeOK'
    BY <1>1 DEF ConfirmRead, Read
  <1>2. ASSUME NEW c \in Calls, NEW w \in Windows, MoveRead(c, w)
        PROVE  TypeOK'
    BY <1>2 DEF MoveRead, Read, Active
  <1>3. ASSUME NEW c \in Calls, ConfirmCheck(c)
        PROVE  TypeOK'
    BY <1>3 DEF ConfirmCheck, CheckBusy, Goto, Return
  <1>4. ASSUME NEW c \in Calls, Reserve(c)
        PROVE  TypeOK'
    <2>1. /\ status' \in [Jobs -> {"CREATED", "ACCEPTED", "CANCELLED"}]
          /\ window' \in [Jobs -> Windows \cup {NoWindow}]
          /\ eventId' \in [Jobs -> EventIds \cup {0}]
      BY <1>4 DEF Reserve, SetRow
    <2>2. /\ pc' \in [Calls -> CallPc]
          /\ slot' \in [Calls -> Windows \cup {NoWindow}]
          /\ original' \in [Calls -> Windows \cup {NoWindow}]
          /\ event' \in [Calls -> EventIds \cup {0}]
          /\ serves' = serves
      <3>1. Goto(c, "inserting") \/ Return(c)
        BY <1>4 DEF Reserve
      <3>2. CASE Goto(c, "inserting")
        BY <3>2 DEF Goto
      <3>3. CASE Return(c)
        BY <3>3 DEF Return
      <3> QED
        BY <3>1, <3>2, <3>3
    <2>3. UNCHANGED <<calendar, inserted, beaten, faults>>
      BY <1>4 DEF Reserve
    <2> QED
      BY <2>1, <2>2, <2>3
  <1>5. ASSUME NEW c \in Calls, InsertEvent(c)
        PROVE  TypeOK'
    <2>1. inserted' \in 0..MaxEvents
      BY <1>5, InsertTypes DEF InsertEvent, Request
    <2>2. calendar' \in [EventIds -> Windows \cup {NoWindow}]
      BY <1>5, InsertTypes DEF InsertEvent, Request
    <2>3. event' \in [Calls -> EventIds \cup {0}]
      BY <1>5, InsertTypes DEF InsertEvent, Request
    <2>4. pc' \in [Calls -> CallPc]
      <3>1. PICK step \in CallPc : pc' = [pc EXCEPT ![c] = step]
        BY <1>5 DEF InsertEvent, Request
      <3> QED
        BY <3>1
    <2>5. faults' \in 0..MaxFaults
      BY <1>5 DEF InsertEvent, Request, Fault
    <2> QED
      BY <1>5, <2>1, <2>2, <2>3, <2>4, <2>5 DEF InsertEvent, Request
  <1>6. ASSUME NEW c \in Calls, Book(c)
        PROVE  TypeOK'
    BY <1>6 DEF Book, Return
  <1>7. ASSUME NEW c \in Calls, BookFails(c)
        PROVE  TypeOK'
    BY <1>7 DEF BookFails, Goto, Fault
  <1>8. ASSUME NEW c \in Calls, Unreserve(c)
        PROVE  TypeOK'
    BY <1>8 DEF Unreserve, Undo, SetRow, Return
  <1>9. ASSUME NEW c \in Calls, MoveCheck(c)
        PROVE  TypeOK'
    BY <1>9 DEF MoveCheck, CheckBusy, Goto, Return
  <1>10. ASSUME NEW c \in Calls, MoveRow(c)
        PROVE  TypeOK'
    BY <1>10 DEF MoveRow, RowIsAsRead, SetRow, Goto, Return
  <1>11. ASSUME NEW c \in Calls, PatchEvent(c)
        PROVE  TypeOK'
    <2>1. inserted' \in 0..MaxEvents
      BY <1>11, PatchTypes DEF PatchEvent, Request, Patch
    <2>2. calendar' \in [EventIds -> Windows \cup {NoWindow}]
      BY <1>11, PatchTypes DEF PatchEvent, Request, Patch
    <2>3. event' \in [Calls -> EventIds \cup {0}]
      BY <1>11, PatchTypes DEF PatchEvent, Request, Patch
    <2>4. pc' \in [Calls -> CallPc]
      <3>1. PICK step \in CallPc : pc' = [pc EXCEPT ![c] = step]
        BY <1>11 DEF PatchEvent, Request
      <3> QED
        BY <3>1
    <2>5. faults' \in 0..MaxFaults
      BY <1>11 DEF PatchEvent, Request, Fault
    <2> QED
      BY <1>11, <2>1, <2>2, <2>3, <2>4, <2>5 DEF PatchEvent, Request
  <1>12. ASSUME NEW c \in Calls, MoveDone(c)
        PROVE  TypeOK'
    BY <1>12 DEF MoveDone, Return
  <1>13. ASSUME NEW c \in Calls, MoveAuditFails(c)
        PROVE  TypeOK'
    BY <1>13 DEF MoveAuditFails, Goto, Fault
  <1>14. ASSUME NEW c \in Calls, UnpatchEvent(c)
        PROVE  TypeOK'
    <2>1. inserted' \in 0..MaxEvents
      BY <1>14, PatchTypes DEF UnpatchEvent, Request, Patch
    <2>2. calendar' \in [EventIds -> Windows \cup {NoWindow}]
      BY <1>14, PatchTypes DEF UnpatchEvent, Request, Patch
    <2>3. event' \in [Calls -> EventIds \cup {0}]
      BY <1>14, PatchTypes DEF UnpatchEvent, Request, Patch
    <2>4. pc' \in [Calls -> CallPc]
      BY <1>14 DEF UnpatchEvent, Request
    <2>5. faults' \in 0..MaxFaults
      BY <1>14 DEF UnpatchEvent, Request, Fault
    <2> QED
      BY <1>14, <2>1, <2>2, <2>3, <2>4, <2>5 DEF UnpatchEvent, Request
  <1>15. ASSUME NEW c \in Calls, UndoMove(c)
        PROVE  TypeOK'
    <2>1. /\ status' \in [Jobs -> {"CREATED", "ACCEPTED", "CANCELLED"}]
          /\ window' \in [Jobs -> Windows \cup {NoWindow}]
          /\ eventId' \in [Jobs -> EventIds \cup {0}]
      BY <1>15 DEF UndoMove, MovedByCall, Undo, SetRow
    <2>2. /\ pc' \in [Calls -> CallPc]
          /\ slot' \in [Calls -> Windows \cup {NoWindow}]
          /\ original' \in [Calls -> Windows \cup {NoWindow}]
          /\ event' \in [Calls -> EventIds \cup {0}]
          /\ serves' = serves
      BY <1>15 DEF UndoMove, Undo, Return
    <2>3. UNCHANGED <<calendar, inserted, faults>> /\ beaten' \in SUBSET Jobs
      BY <1>15 DEF UndoMove, Undo
    <2> QED
      BY <2>1, <2>2, <2>3
  <1>16. ASSUME NEW c \in Calls, CancelRead(c)
        PROVE  TypeOK'
    BY <1>16 DEF CancelRead, Read, Active
  <1>17. ASSUME NEW c \in Calls, CancelRow(c)
        PROVE  TypeOK'
    <2>1. /\ status' \in [Jobs -> {"CREATED", "ACCEPTED", "CANCELLED"}]
          /\ window' \in [Jobs -> Windows \cup {NoWindow}]
          /\ eventId' \in [Jobs -> EventIds \cup {0}]
      BY <1>17 DEF CancelRow, SetRow
    <2>2. /\ pc' \in [Calls -> CallPc]
          /\ slot' \in [Calls -> Windows \cup {NoWindow}]
          /\ original' \in [Calls -> Windows \cup {NoWindow}]
          /\ event' \in [Calls -> EventIds \cup {0}]
          /\ serves' = serves
      <3>1. Goto(c, "deleting") \/ Return(c)
        BY <1>17 DEF CancelRow
      <3>2. CASE Goto(c, "deleting")
        BY <3>2 DEF Goto
      <3>3. CASE Return(c)
        BY <3>3 DEF Return
      <3> QED
        BY <3>1, <3>2, <3>3
    <2>3. UNCHANGED <<calendar, inserted, beaten, faults>>
      BY <1>17 DEF CancelRow
    <2> QED
      BY <2>1, <2>2, <2>3
  <1>18. ASSUME NEW c \in Calls, DeleteEvent(c)
        PROVE  TypeOK'
    <2>1. calendar' \in [EventIds -> Windows \cup {NoWindow}] /\ UNCHANGED <<inserted, event>>
      BY <1>18 DEF DeleteEvent, Delete, Request
    <2>2. pc' \in [Calls -> CallPc]
      <3>1. PICK step \in CallPc : pc' = [pc EXCEPT ![c] = step]
        BY <1>18 DEF DeleteEvent, Request
      <3> QED
        BY <3>1
    <2>3. faults' \in 0..MaxFaults
      BY <1>18 DEF DeleteEvent, Request, Fault
    <2>4. UNCHANGED <<rowVars, serves, slot, original, beaten>>
      BY <1>18 DEF DeleteEvent, Request
    <2> QED
      BY <2>1, <2>2, <2>3, <2>4
  <1>19. ASSUME NEW c \in Calls, CancelDone(c)
        PROVE  TypeOK'
    BY <1>19 DEF CancelDone, Return
  <1>20. ASSUME NEW c \in Calls, UndoCancel(c)
        PROVE  TypeOK'
    <2>1. /\ status' \in [Jobs -> {"CREATED", "ACCEPTED", "CANCELLED"}]
          /\ window' \in [Jobs -> Windows \cup {NoWindow}]
          /\ eventId' \in [Jobs -> EventIds \cup {0}]
      BY <1>20 DEF UndoCancel, Undo, SetRow
    <2>2. /\ pc' \in [Calls -> CallPc]
          /\ slot' \in [Calls -> Windows \cup {NoWindow}]
          /\ original' \in [Calls -> Windows \cup {NoWindow}]
          /\ event' \in [Calls -> EventIds \cup {0}]
          /\ serves' = serves
      BY <1>20 DEF UndoCancel, Undo, Return
    <2>3. UNCHANGED <<calendar, inserted, faults>> /\ beaten' \in SUBSET Jobs
      BY <1>20 DEF UndoCancel, Undo
    <2> QED
      BY <2>1, <2>2, <2>3
  <1>21. ASSUME NEW c \in Calls, Crash(c)
        PROVE  TypeOK'
    BY <1>21 DEF Crash, Return, Fault
  <1>22. CASE UNCHANGED vars
    BY <1>22 DEF vars
  <1> HIDE DEF TypeOK, CallPc, EventIds, rowVars, calendarVars, callVars
  <1> QED
    BY <1>1, <1>2, <1>3, <1>4, <1>5, <1>6, <1>7, <1>8, <1>9, <1>10, <1>11,
       <1>12, <1>13, <1>14, <1>15, <1>16, <1>17, <1>18, <1>19, <1>20, <1>21, <1>22 DEF Next

(* A call that moves or cancels an appointment has read its window and event. *)
LEMMA WindowsStep ==
  TypeOK /\ BookedRowsAreWhole /\ MovesKeepWindows /\ [Next]_vars => MovesKeepWindows'
  <1> SUFFICES ASSUME TypeOK, BookedRowsAreWhole, MovesKeepWindows, [Next]_vars
               PROVE  MovesKeepWindows'
    OBVIOUS
  <1> USE DEF TypeOK, BookedRowsAreWhole, MovesKeepWindows, rowVars, calendarVars, callVars
  <1>1. ASSUME NEW c \in Calls, NEW w \in Windows, ConfirmRead(c, w)
        PROVE  MovesKeepWindows'
    BY <1>1 DEF ConfirmRead, Read
  <1>2. ASSUME NEW c \in Calls, NEW w \in Windows, MoveRead(c, w)
        PROVE  MovesKeepWindows'
    BY <1>2 DEF MoveRead, Read, Active
  <1>3. ASSUME NEW c \in Calls, ConfirmCheck(c)
        PROVE  MovesKeepWindows'
    BY <1>3 DEF ConfirmCheck, CheckBusy, Goto, Return
  <1>4. ASSUME NEW c \in Calls, Reserve(c)
        PROVE  MovesKeepWindows'
    BY <1>4 DEF Reserve, SetRow, Goto, Return
  <1>5. ASSUME NEW c \in Calls, InsertEvent(c)
        PROVE  MovesKeepWindows'
    BY <1>5 DEF InsertEvent, Insert, Request, Fault
  <1>6. ASSUME NEW c \in Calls, Book(c)
        PROVE  MovesKeepWindows'
    BY <1>6 DEF Book, Return
  <1>7. ASSUME NEW c \in Calls, BookFails(c)
        PROVE  MovesKeepWindows'
    BY <1>7 DEF BookFails, Goto, Fault
  <1>8. ASSUME NEW c \in Calls, Unreserve(c)
        PROVE  MovesKeepWindows'
    BY <1>8 DEF Unreserve, Undo, SetRow, Return
  <1>9. ASSUME NEW c \in Calls, MoveCheck(c)
        PROVE  MovesKeepWindows'
    BY <1>9 DEF MoveCheck, CheckBusy, Goto, Return
  <1>10. ASSUME NEW c \in Calls, MoveRow(c)
        PROVE  MovesKeepWindows'
    BY <1>10 DEF MoveRow, RowIsAsRead, SetRow, Goto, Return
  <1>11. ASSUME NEW c \in Calls, PatchEvent(c)
        PROVE  MovesKeepWindows'
    BY <1>11 DEF PatchEvent, Patch, Request, Fault
  <1>12. ASSUME NEW c \in Calls, MoveDone(c)
        PROVE  MovesKeepWindows'
    BY <1>12 DEF MoveDone, Return
  <1>13. ASSUME NEW c \in Calls, MoveAuditFails(c)
        PROVE  MovesKeepWindows'
    BY <1>13 DEF MoveAuditFails, Goto, Fault
  <1>14. ASSUME NEW c \in Calls, UnpatchEvent(c)
        PROVE  MovesKeepWindows'
    BY <1>14 DEF UnpatchEvent, Patch, Request, Fault
  <1>15. ASSUME NEW c \in Calls, UndoMove(c)
        PROVE  MovesKeepWindows'
    BY <1>15 DEF UndoMove, MovedByCall, Undo, SetRow, Return
  <1>16. ASSUME NEW c \in Calls, CancelRead(c)
        PROVE  MovesKeepWindows'
    BY <1>16 DEF CancelRead, Read, Active
  <1>17. ASSUME NEW c \in Calls, CancelRow(c)
        PROVE  MovesKeepWindows'
    BY <1>17 DEF CancelRow, RowIsAsRead, SetRow, Goto, Return
  <1>18. ASSUME NEW c \in Calls, DeleteEvent(c)
        PROVE  MovesKeepWindows'
    BY <1>18 DEF DeleteEvent, Delete, Request, Fault
  <1>19. ASSUME NEW c \in Calls, CancelDone(c)
        PROVE  MovesKeepWindows'
    BY <1>19 DEF CancelDone, Return
  <1>20. ASSUME NEW c \in Calls, UndoCancel(c)
        PROVE  MovesKeepWindows'
    BY <1>20 DEF UndoCancel, Undo, SetRow, Return
  <1>21. ASSUME NEW c \in Calls, Crash(c)
        PROVE  MovesKeepWindows'
    BY <1>21 DEF Crash, Return, Fault
  <1>22. CASE UNCHANGED vars
    BY <1>22 DEF vars
  <1> HIDE DEF TypeOK, BookedRowsAreWhole, MovesKeepWindows, rowVars, calendarVars, callVars
  <1> QED
    BY <1>1, <1>2, <1>3, <1>4, <1>5, <1>6, <1>7, <1>8, <1>9, <1>10, <1>11,
       <1>12, <1>13, <1>14, <1>15, <1>16, <1>17, <1>18, <1>19, <1>20, <1>21, <1>22 DEF Next

(* A call on its way to a booking keeps the reservation it made. *)
LEMMA ReservationStep ==
  TypeOK /\ BookedRowsAreWhole /\ BookingHoldsReservation /\ MovesKeepWindows /\ [Next]_vars => BookingHoldsReservation'
  <1> SUFFICES ASSUME TypeOK, BookedRowsAreWhole, BookingHoldsReservation, MovesKeepWindows, [Next]_vars
               PROVE  BookingHoldsReservation'
    OBVIOUS
  <1> USE DEF TypeOK, BookedRowsAreWhole, BookingHoldsReservation, Booking, MovesKeepWindows, rowVars, calendarVars, callVars
  <1>1. ASSUME NEW c \in Calls, NEW w \in Windows, ConfirmRead(c, w)
        PROVE  BookingHoldsReservation'
    BY <1>1 DEF ConfirmRead, Read
  <1>2. ASSUME NEW c \in Calls, NEW w \in Windows, MoveRead(c, w)
        PROVE  BookingHoldsReservation'
    BY <1>2 DEF MoveRead, Read, Active
  <1>3. ASSUME NEW c \in Calls, ConfirmCheck(c)
        PROVE  BookingHoldsReservation'
    BY <1>3 DEF ConfirmCheck, CheckBusy, Goto, Return
  <1>4. ASSUME NEW c \in Calls, Reserve(c)
        PROVE  BookingHoldsReservation'
    BY <1>4 DEF Reserve, SetRow, Goto, Return
  <1>5. ASSUME NEW c \in Calls, InsertEvent(c)
        PROVE  BookingHoldsReservation'
    BY <1>5 DEF InsertEvent, Insert, Request, Fault
  <1>6. ASSUME NEW c \in Calls, Book(c)
        PROVE  BookingHoldsReservation'
    BY <1>6 DEF Book, Return
  <1>7. ASSUME NEW c \in Calls, BookFails(c)
        PROVE  BookingHoldsReservation'
    BY <1>7 DEF BookFails, Goto, Fault
  <1>8. ASSUME NEW c \in Calls, Unreserve(c)
        PROVE  BookingHoldsReservation'
    BY <1>8 DEF Unreserve, Undo, SetRow, Return
  <1>9. ASSUME NEW c \in Calls, MoveCheck(c)
        PROVE  BookingHoldsReservation'
    BY <1>9 DEF MoveCheck, CheckBusy, Goto, Return
  <1>10. ASSUME NEW c \in Calls, MoveRow(c)
        PROVE  BookingHoldsReservation'
    BY <1>10 DEF MoveRow, RowIsAsRead, SetRow, Goto, Return
  <1>11. ASSUME NEW c \in Calls, PatchEvent(c)
        PROVE  BookingHoldsReservation'
    BY <1>11 DEF PatchEvent, Patch, Request, Fault
  <1>12. ASSUME NEW c \in Calls, MoveDone(c)
        PROVE  BookingHoldsReservation'
    BY <1>12 DEF MoveDone, Return
  <1>13. ASSUME NEW c \in Calls, MoveAuditFails(c)
        PROVE  BookingHoldsReservation'
    BY <1>13 DEF MoveAuditFails, Goto, Fault
  <1>14. ASSUME NEW c \in Calls, UnpatchEvent(c)
        PROVE  BookingHoldsReservation'
    BY <1>14 DEF UnpatchEvent, Patch, Request, Fault
  <1>15. ASSUME NEW c \in Calls, UndoMove(c)
        PROVE  BookingHoldsReservation'
    BY <1>15 DEF UndoMove, MovedByCall, Undo, SetRow, Return
  <1>16. ASSUME NEW c \in Calls, CancelRead(c)
        PROVE  BookingHoldsReservation'
    BY <1>16 DEF CancelRead, Read, Active
  <1>17. ASSUME NEW c \in Calls, CancelRow(c)
        PROVE  BookingHoldsReservation'
    BY <1>17 DEF CancelRow, RowIsAsRead, SetRow, Goto, Return
  <1>18. ASSUME NEW c \in Calls, DeleteEvent(c)
        PROVE  BookingHoldsReservation'
    BY <1>18 DEF DeleteEvent, Delete, Request, Fault
  <1>19. ASSUME NEW c \in Calls, CancelDone(c)
        PROVE  BookingHoldsReservation'
    BY <1>19 DEF CancelDone, Return
  <1>20. ASSUME NEW c \in Calls, UndoCancel(c)
        PROVE  BookingHoldsReservation'
    BY <1>20 DEF UndoCancel, Undo, SetRow, Return
  <1>21. ASSUME NEW c \in Calls, Crash(c)
        PROVE  BookingHoldsReservation'
    BY <1>21 DEF Crash, Return, Fault
  <1>22. CASE UNCHANGED vars
    BY <1>22 DEF vars
  <1> HIDE DEF TypeOK, BookedRowsAreWhole, BookingHoldsReservation, Booking, MovesKeepWindows, rowVars, calendarVars, callVars
  <1> QED
    BY <1>1, <1>2, <1>3, <1>4, <1>5, <1>6, <1>7, <1>8, <1>9, <1>10, <1>11,
       <1>12, <1>13, <1>14, <1>15, <1>16, <1>17, <1>18, <1>19, <1>20, <1>21, <1>22 DEF Next

(* No two jobs' rows and calls come to hold one event. *)
LEMMA EventsStep ==
  TypeOK /\ BookedRowsAreWhole /\ EventsHaveOneJob /\ [Next]_vars => EventsHaveOneJob'
  <1> SUFFICES ASSUME TypeOK, BookedRowsAreWhole, EventsHaveOneJob, [Next]_vars
               PROVE  EventsHaveOneJob'
    OBVIOUS
  <1> USE DEF TypeOK, BookedRowsAreWhole, EventsHaveOneJob, rowVars, calendarVars, callVars
  <1>1. ASSUME NEW c \in Calls, NEW w \in Windows, ConfirmRead(c, w)
        PROVE  EventsHaveOneJob'
    BY <1>1 DEF ConfirmRead, Read
  <1>2. ASSUME NEW c \in Calls, NEW w \in Windows, MoveRead(c, w)
        PROVE  EventsHaveOneJob'
    BY <1>2 DEF MoveRead, Read, Active
  <1>3. ASSUME NEW c \in Calls, ConfirmCheck(c)
        PROVE  EventsHaveOneJob'
    BY <1>3 DEF ConfirmCheck, CheckBusy, Goto, Return
  <1>4. ASSUME NEW c \in Calls, Reserve(c)
        PROVE  EventsHaveOneJob'
    BY <1>4 DEF Reserve, SetRow, Goto, Return
  <1>5. ASSUME NEW c \in Calls, InsertEvent(c)
        PROVE  EventsHaveOneJob'
    <2>0. eventId' = eventId /\ serves' = serves
      BY <1>5 DEF InsertEvent, Request
    <2>1. CASE Insert(c)
      <3>0. /\ inserted \in Nat
            /\ \A j \in Jobs : eventId[j] \in Nat
            /\ \A d \in Calls : event[d] \in Nat
        BY DEF EventIds
      <3>1. /\ inserted' = inserted + 1
            /\ event' = [event EXCEPT ![c] = inserted + 1]
        BY <2>1 DEF Insert
      <3>2. \A j \in Jobs : eventId[j] < inserted + 1
        BY <3>0, <3>1
      <3>3. \A d \in Calls : event[d] < inserted + 1
        BY <3>0, <3>1
      <3>4. event'[c] = inserted + 1 /\ \A d \in Calls \ {c} : event'[d] = event[d]
        BY <3>1
      <3>5. /\ \A j \in Jobs : eventId'[j] <= inserted'
            /\ \A d \in Calls : event'[d] <= inserted'
        BY <2>0, <3>0, <3>1, <3>2, <3>3, <3>4
      <3>6. ASSUME NEW d \in Calls, NEW j \in Jobs \ {serves'[d]}, event'[d] # 0
            PROVE  eventId'[j] # event'[d]
        BY <2>0, <3>0, <3>1, <3>2, <3>4, <3>6
      <3>7. ASSUME NEW d \in Calls, NEW e \in Calls, event'[d] # 0, event'[d] = event'[e]
            PROVE  serves'[d] = serves'[e]
        BY <2>0, <3>0, <3>1, <3>3, <3>4, <3>7
      <3> QED
        BY <3>5, <3>6, <3>7
    <2>2. CASE UNCHANGED calendarVars /\ event' = event
      BY <2>0, <2>2
    <2> QED
      BY <1>5, <2>1, <2>2 DEF InsertEvent, Request
  <1>6. ASSUME NEW c \in Calls, Book(c)
        PROVE  EventsHaveOneJob'
    BY <1>6 DEF Book, Return
  <1>7. ASSUME NEW c \in Calls, BookFails(c)
        PROVE  EventsHaveOneJob'
    BY <1>7 DEF BookFails, Goto, Fault
  <1>8. ASSUME NEW c \in Calls, Unreserve(c)
        PROVE  EventsHaveOneJob'
    BY <1>8 DEF Unreserve, Undo, SetRow, Return
  <1>9. ASSUME NEW c \in Calls, MoveCheck(c)
        PROVE  EventsHaveOneJob'
    BY <1>9 DEF MoveCheck, CheckBusy, Goto, Return
  <1>10. ASSUME NEW c \in Calls, MoveRow(c)
        PROVE  EventsHaveOneJob'
    BY <1>10 DEF MoveRow, RowIsAsRead, SetRow, Goto, Return
  <1>11. ASSUME NEW c \in Calls, PatchEvent(c)
        PROVE  EventsHaveOneJob'
    BY <1>11 DEF PatchEvent, Patch, Request, Fault
  <1>12. ASSUME NEW c \in Calls, MoveDone(c)
        PROVE  EventsHaveOneJob'
    BY <1>12 DEF MoveDone, Return
  <1>13. ASSUME NEW c \in Calls, MoveAuditFails(c)
        PROVE  EventsHaveOneJob'
    BY <1>13 DEF MoveAuditFails, Goto, Fault
  <1>14. ASSUME NEW c \in Calls, UnpatchEvent(c)
        PROVE  EventsHaveOneJob'
    BY <1>14 DEF UnpatchEvent, Patch, Request, Fault
  <1>15. ASSUME NEW c \in Calls, UndoMove(c)
        PROVE  EventsHaveOneJob'
    BY <1>15 DEF UndoMove, MovedByCall, Undo, SetRow, Return
  <1>16. ASSUME NEW c \in Calls, CancelRead(c)
        PROVE  EventsHaveOneJob'
    BY <1>16 DEF CancelRead, Read, Active
  <1>17. ASSUME NEW c \in Calls, CancelRow(c)
        PROVE  EventsHaveOneJob'
    BY <1>17 DEF CancelRow, RowIsAsRead, SetRow, Goto, Return
  <1>18. ASSUME NEW c \in Calls, DeleteEvent(c)
        PROVE  EventsHaveOneJob'
    BY <1>18 DEF DeleteEvent, Delete, Request, Fault
  <1>19. ASSUME NEW c \in Calls, CancelDone(c)
        PROVE  EventsHaveOneJob'
    BY <1>19 DEF CancelDone, Return
  <1>20. ASSUME NEW c \in Calls, UndoCancel(c)
        PROVE  EventsHaveOneJob'
    BY <1>20 DEF UndoCancel, Undo, SetRow, Return
  <1>21. ASSUME NEW c \in Calls, Crash(c)
        PROVE  EventsHaveOneJob'
    BY <1>21 DEF Crash, Return, Fault
  <1>22. CASE UNCHANGED vars
    BY <1>22 DEF vars
  <1> HIDE DEF TypeOK, BookedRowsAreWhole, EventsHaveOneJob, rowVars, calendarVars, callVars
  <1> QED
    BY <1>1, <1>2, <1>3, <1>4, <1>5, <1>6, <1>7, <1>8, <1>9, <1>10, <1>11,
       <1>12, <1>13, <1>14, <1>15, <1>16, <1>17, <1>18, <1>19, <1>20, <1>21, <1>22 DEF Next

(* A row that names an event stays a whole appointment. *)
LEMMA RowsStep ==
  IInv /\ [Next]_vars => BookedRowsAreWhole'
  <1> SUFFICES ASSUME IInv, [Next]_vars
               PROVE  BookedRowsAreWhole'
    OBVIOUS
  <1> USE DEF IInv, TypeOK, BookedRowsAreWhole, BookingHoldsReservation, Booking, EventsHaveOneJob, MovesKeepWindows, rowVars, calendarVars, callVars
  <1>1. ASSUME NEW c \in Calls, NEW w \in Windows, ConfirmRead(c, w)
        PROVE  BookedRowsAreWhole'
    BY <1>1 DEF ConfirmRead, Read
  <1>2. ASSUME NEW c \in Calls, NEW w \in Windows, MoveRead(c, w)
        PROVE  BookedRowsAreWhole'
    BY <1>2 DEF MoveRead, Read, Active
  <1>3. ASSUME NEW c \in Calls, ConfirmCheck(c)
        PROVE  BookedRowsAreWhole'
    BY <1>3 DEF ConfirmCheck, CheckBusy, Goto, Return
  <1>4. ASSUME NEW c \in Calls, Reserve(c)
        PROVE  BookedRowsAreWhole'
    BY <1>4 DEF Reserve, SetRow, Goto, Return
  <1>5. ASSUME NEW c \in Calls, InsertEvent(c)
        PROVE  BookedRowsAreWhole'
    BY <1>5 DEF InsertEvent, Insert, Request, Fault
  <1>6. ASSUME NEW c \in Calls, Book(c)
        PROVE  BookedRowsAreWhole'
    BY <1>6 DEF Book, Return
  <1>7. ASSUME NEW c \in Calls, BookFails(c)
        PROVE  BookedRowsAreWhole'
    BY <1>7 DEF BookFails, Goto, Fault
  <1>8. ASSUME NEW c \in Calls, Unreserve(c)
        PROVE  BookedRowsAreWhole'
    BY <1>8 DEF Unreserve, Undo, SetRow, Return
  <1>9. ASSUME NEW c \in Calls, MoveCheck(c)
        PROVE  BookedRowsAreWhole'
    BY <1>9 DEF MoveCheck, CheckBusy, Goto, Return
  <1>10. ASSUME NEW c \in Calls, MoveRow(c)
        PROVE  BookedRowsAreWhole'
    BY <1>10 DEF MoveRow, RowIsAsRead, SetRow, Goto, Return
  <1>11. ASSUME NEW c \in Calls, PatchEvent(c)
        PROVE  BookedRowsAreWhole'
    BY <1>11 DEF PatchEvent, Patch, Request, Fault
  <1>12. ASSUME NEW c \in Calls, MoveDone(c)
        PROVE  BookedRowsAreWhole'
    BY <1>12 DEF MoveDone, Return
  <1>13. ASSUME NEW c \in Calls, MoveAuditFails(c)
        PROVE  BookedRowsAreWhole'
    BY <1>13 DEF MoveAuditFails, Goto, Fault
  <1>14. ASSUME NEW c \in Calls, UnpatchEvent(c)
        PROVE  BookedRowsAreWhole'
    BY <1>14 DEF UnpatchEvent, Patch, Request, Fault
  <1>15. ASSUME NEW c \in Calls, UndoMove(c)
        PROVE  BookedRowsAreWhole'
    BY <1>15 DEF UndoMove, MovedByCall, Undo, SetRow, Return
  <1>16. ASSUME NEW c \in Calls, CancelRead(c)
        PROVE  BookedRowsAreWhole'
    BY <1>16 DEF CancelRead, Read, Active
  <1>17. ASSUME NEW c \in Calls, CancelRow(c)
        PROVE  BookedRowsAreWhole'
    BY <1>17 DEF CancelRow, RowIsAsRead, SetRow, Goto, Return
  <1>18. ASSUME NEW c \in Calls, DeleteEvent(c)
        PROVE  BookedRowsAreWhole'
    BY <1>18 DEF DeleteEvent, Delete, Request, Fault
  <1>19. ASSUME NEW c \in Calls, CancelDone(c)
        PROVE  BookedRowsAreWhole'
    BY <1>19 DEF CancelDone, Return
  <1>20. ASSUME NEW c \in Calls, UndoCancel(c)
        PROVE  BookedRowsAreWhole'
    BY <1>20 DEF UndoCancel, Undo, SetRow, Return
  <1>21. ASSUME NEW c \in Calls, Crash(c)
        PROVE  BookedRowsAreWhole'
    BY <1>21 DEF Crash, Return, Fault
  <1>22. CASE UNCHANGED vars
    BY <1>22 DEF vars
  <1> HIDE DEF IInv, TypeOK, BookedRowsAreWhole, BookingHoldsReservation, Booking, EventsHaveOneJob, MovesKeepWindows, rowVars, calendarVars, callVars
  <1> QED
    BY <1>1, <1>2, <1>3, <1>4, <1>5, <1>6, <1>7, <1>8, <1>9, <1>10, <1>11,
       <1>12, <1>13, <1>14, <1>15, <1>16, <1>17, <1>18, <1>19, <1>20, <1>21, <1>22 DEF Next

(* The inductive invariant holds in every reachable state. *)
THEOREM AppointmentInvariant == Spec => []IInv
  <1>1. IInv /\ [Next]_vars => IInv'
    BY TypeStep, WindowsStep, ReservationStep, EventsStep, RowsStep DEF IInv
  <1> QED
    BY IInvInit, <1>1, PTL DEF Spec

(* Whatever overlaps, fails, times out or crashes, a row that names a        *)
(* calendar event is an accepted appointment with a window, and the event    *)
(* is no other job's.                                                        *)
THEOREM AppointmentsAreWhole == Spec => []BookedRowsAreWhole
  <1>1. IInv => BookedRowsAreWhole
    BY DEF IInv
  <1> QED
    BY AppointmentInvariant, <1>1, PTL

-----------------------------------------------------------------------------
(* While no answer was lost, booked events exist. *)

(* A call with a loose event holds one that no row names: it has inserted  *)
(* it and not stored it yet, or is cancelling it.                          *)
Loose(c) == pc[c] \in {"inserted", "deleting", "deleteFailed"}

(* No two calls hold one loose event, so that none is deleted twice or     *)
(* brought back after its deletion.                                        *)
LooseEventsHaveOneHolder ==
    \A c \in Calls : Loose(c) =>
        /\ event[c] # 0
        /\ \A j \in Jobs : eventId[j] # event[c]
        /\ \A d \in Calls \ {c} : Loose(d) => event[d] # event[c]

LooseEventsExist ==
    faults = 0 => \A c \in Calls : Loose(c) => calendar[event[c]] # NoWindow

SlotsAreWindows == \A c \in Calls : pc[c] \in {"inserting", "patching"} => slot[c] # NoWindow

EventsSurvive ==
    /\ BookedEventExists
    /\ LooseEventsHaveOneHolder
    /\ LooseEventsExist
    /\ SlotsAreWindows

(* No step deletes or forgets an event that a row still names. *)
LEMMA SurvivalStep ==
  IInv /\ EventsSurvive /\ [Next]_vars => EventsSurvive'
  <1> SUFFICES ASSUME IInv, EventsSurvive, [Next]_vars
               PROVE  EventsSurvive'
    OBVIOUS
  <1> USE DEF IInv, TypeOK, BookedRowsAreWhole, BookingHoldsReservation, Booking, EventsHaveOneJob,
             MovesKeepWindows, EventsSurvive, BookedEventExists, LooseEventsHaveOneHolder, LooseEventsExist,
             SlotsAreWindows, Loose, rowVars, calendarVars, callVars
  <1>1. ASSUME NEW c \in Calls, NEW w \in Windows, ConfirmRead(c, w)
        PROVE  EventsSurvive'
    BY <1>1 DEF ConfirmRead, Read
  <1>2. ASSUME NEW c \in Calls, NEW w \in Windows, MoveRead(c, w)
        PROVE  EventsSurvive'
    BY <1>2 DEF MoveRead, Read, Active
  <1>3. ASSUME NEW c \in Calls, ConfirmCheck(c)
        PROVE  EventsSurvive'
    BY <1>3 DEF ConfirmCheck, CheckBusy, Goto, Return
  <1>4. ASSUME NEW c \in Calls, Reserve(c)
        PROVE  EventsSurvive'
    <2>1. CASE Goto(c, "inserting")
      BY <1>4, <2>1 DEF Reserve, SetRow, Goto, Return
    <2>2. CASE Return(c) /\ UNCHANGED rowVars
      BY <1>4, <2>2 DEF Reserve, Return
    <2> QED
      BY <1>4, <2>1, <2>2 DEF Reserve
  <1>5. ASSUME NEW c \in Calls, InsertEvent(c)
        PROVE  EventsSurvive'
    <2>1. \A j \in Jobs : eventId[j] \in Nat /\ eventId[j] <= inserted
      BY DEF EventIds
    <2>2. \A d \in Calls : event[d] \in Nat /\ event[d] <= inserted
      BY DEF EventIds
    <2>3. /\ pc[c] = "inserting" /\ UNCHANGED <<rowVars, slot, original>>
      BY <1>5 DEF InsertEvent, Request
    <2>4. CASE Insert(c) /\ pc' = [pc EXCEPT ![c] = "inserted"] /\ UNCHANGED faults
      BY <2>1, <2>2, <2>3, <2>4 DEF Insert, EventIds
    <2>5. CASE Insert(c) /\ pc' = [pc EXCEPT ![c] = "insertFailed"] /\ Fault
      BY <2>1, <2>2, <2>3, <2>5 DEF Insert, EventIds, Fault
    <2>6. CASE UNCHANGED <<calendarVars, event>> /\ pc' = [pc EXCEPT ![c] = "insertFailed"] /\ UNCHANGED faults
      BY <2>3, <2>6
    <2> QED
      BY <1>5, <2>4, <2>5, <2>6 DEF InsertEvent, Request
  <1>6. ASSUME NEW c \in Calls, Book(c)
        PROVE  EventsSurvive'
    BY <1>6 DEF Book, Return
  <1>7. ASSUME NEW c \in Calls, BookFails(c)
        PROVE  EventsSurvive'
    BY <1>7 DEF BookFails, Goto, Fault
  <1>8. ASSUME NEW c \in Calls, Unreserve(c)
        PROVE  EventsSurvive'
    BY <1>8 DEF Unreserve, Undo, SetRow, Return
  <1>9. ASSUME NEW c \in Calls, MoveCheck(c)
        PROVE  EventsSurvive'
    BY <1>9 DEF MoveCheck, CheckBusy, Goto, Return
  <1>10. ASSUME NEW c \in Calls, MoveRow(c)
        PROVE  EventsSurvive'
    BY <1>10 DEF MoveRow, RowIsAsRead, SetRow, Goto, Return
  <1>11. ASSUME NEW c \in Calls, PatchEvent(c)
        PROVE  EventsSurvive'
    BY <1>11 DEF PatchEvent, Patch, Request, Fault
  <1>12. ASSUME NEW c \in Calls, MoveDone(c)
        PROVE  EventsSurvive'
    BY <1>12 DEF MoveDone, Return
  <1>13. ASSUME NEW c \in Calls, MoveAuditFails(c)
        PROVE  EventsSurvive'
    BY <1>13 DEF MoveAuditFails, Goto, Fault
  <1>14. ASSUME NEW c \in Calls, UnpatchEvent(c)
        PROVE  EventsSurvive'
    BY <1>14 DEF UnpatchEvent, Patch, Request, Fault
  <1>15. ASSUME NEW c \in Calls, UndoMove(c)
        PROVE  EventsSurvive'
    BY <1>15 DEF UndoMove, MovedByCall, Undo, SetRow, Return
  <1>16. ASSUME NEW c \in Calls, CancelRead(c)
        PROVE  EventsSurvive'
    BY <1>16 DEF CancelRead, Read, Active
  <1>17. ASSUME NEW c \in Calls, CancelRow(c)
        PROVE  EventsSurvive'
    <2>1. CASE RowIsAsRead(c)
      <3>1. /\ eventId[serves[c]] = event[c] /\ event[c] # 0
            /\ eventId' = [eventId EXCEPT ![serves[c]] = 0]
            /\ pc' = [pc EXCEPT ![c] = "deleting"]
            /\ UNCHANGED <<calendar, serves, slot, event, faults>>
        BY <1>17, <2>1 DEF CancelRow, RowIsAsRead, SetRow, Goto
      <3> QED
        BY <3>1
    <2>2. CASE ~RowIsAsRead(c)
      BY <1>17, <2>2 DEF CancelRow, Return
    <2> QED
      BY <2>1, <2>2
  <1>18. ASSUME NEW c \in Calls, DeleteEvent(c)
        PROVE  EventsSurvive'
    BY <1>18 DEF DeleteEvent, Delete, Request, Fault
  <1>19. ASSUME NEW c \in Calls, CancelDone(c)
        PROVE  EventsSurvive'
    BY <1>19 DEF CancelDone, Return
  <1>20. ASSUME NEW c \in Calls, UndoCancel(c)
        PROVE  EventsSurvive'
    BY <1>20 DEF UndoCancel, Undo, SetRow, Return
  <1>21. ASSUME NEW c \in Calls, Crash(c)
        PROVE  EventsSurvive'
    BY <1>21 DEF Crash, Return, Fault
  <1>22. CASE UNCHANGED vars
    BY <1>22 DEF vars
  <1> HIDE DEF IInv, TypeOK, BookedRowsAreWhole, BookingHoldsReservation, Booking, EventsHaveOneJob,
             MovesKeepWindows, EventsSurvive, BookedEventExists, LooseEventsHaveOneHolder, LooseEventsExist,
             SlotsAreWindows, Loose, rowVars, calendarVars, callVars
  <1> QED
    BY <1>1, <1>2, <1>3, <1>4, <1>5, <1>6, <1>7, <1>8, <1>9, <1>10, <1>11,
       <1>12, <1>13, <1>14, <1>15, <1>16, <1>17, <1>18, <1>19, <1>20, <1>21, <1>22 DEF Next

(* However calls on one job overlap, as long as no answer was lost and no    *)
(* call crashed, every event that a row names is in the calendar.            *)
THEOREM BookedEventsExist == Spec => []BookedEventExists
  <1>1. Init => EventsSurvive
    BY DEF Init, EventsSurvive, BookedEventExists, LooseEventsHaveOneHolder, LooseEventsExist,
           SlotsAreWindows, Loose
  <1>2. EventsSurvive => BookedEventExists
    BY DEF EventsSurvive
  <1> QED
    BY AppointmentInvariant, SurvivalStep, <1>1, <1>2, PTL DEF Spec

-----------------------------------------------------------------------------
(* While calls are orderly, a job's row and its calendar event agree.        *)

RowAgrees(j) ==
    /\ eventId[j] # 0 => calendar[eventId[j]] = window[j]
    /\ window[j] # NoWindow => eventId[j] # 0

(* How far the row and the calendar are apart at each step of a call.      *)
CallAgrees(c) ==
    LET j == serves[c]
    IN  /\ pc[c] \in {"idle", "confirmRead", "reserving", "moveRead", "moving", "patched", "cancelling"}
              => RowAgrees(j)
        /\ pc[c] = "inserting" => window[j] = slot[c]
        /\ pc[c] = "inserted" => window[j] = slot[c] /\ calendar[event[c]] = slot[c]
        /\ pc[c] \in {"patching", "patchFailed"} =>
              /\ eventId[j] = event[c] /\ window[j] = slot[c]
              /\ calendar[event[c]] = original[c]
        /\ pc[c] \in {"deleting", "deleteFailed"} =>
              /\ status[j] = "CANCELLED" /\ eventId[j] = 0 /\ window[j] = NoWindow
              /\ calendar[event[c]] = original[c]
        /\ pc[c] = "deleted" => eventId[j] = 0 /\ window[j] = NoWindow
        /\ pc[c] \notin {"unpatching", "unpatchFailed"}

Unserved(j) == \A c \in Calls : serves[c] # j

CallsAndRowsAgree ==
    /\ \A c \in Calls : serves[c] \notin beaten => CallAgrees(c)
    /\ \A j \in Jobs \ beaten : Unserved(j) => RowAgrees(j)

(* Each event of the calendar is named by a row or held by a call.         *)
EventsAreHeld ==
    beaten = {} =>
        \A n \in EventIds : calendar[n] # NoWindow =>
            \/ \E j \in Jobs : eventId[j] = n
            \/ \E c \in Calls : Loose(c) /\ event[c] = n

Agreement == OrderlyCalls => CallsAndRowsAgree /\ EventsAreHeld

-----------------------------------------------------------------------------
(* A step of one call: the disjuncts of Next. *)
CallStep(c) ==
    \/ \E w \in Windows : ConfirmRead(c, w) \/ MoveRead(c, w)
    \/ ConfirmCheck(c) \/ Reserve(c) \/ InsertEvent(c)
    \/ Book(c) \/ BookFails(c) \/ Unreserve(c)
    \/ MoveCheck(c) \/ MoveRow(c) \/ PatchEvent(c)
    \/ MoveDone(c) \/ MoveAuditFails(c) \/ UnpatchEvent(c) \/ UndoMove(c)
    \/ CancelRead(c) \/ CancelRow(c)
    \/ DeleteEvent(c) \/ CancelDone(c) \/ UndoCancel(c)
    \/ Crash(c)

(* What it leaves alone: the other jobs' rows, the other calls, and every  *)
(* event of the calendar but the one it holds afterwards.                  *)
OnlyItsOwn(c) ==
    /\ \A j \in Jobs \ {serves[c]} :
          status'[j] = status[j] /\ window'[j] = window[j] /\ eventId'[j] = eventId[j]
    /\ \A d \in Calls \ {c} :
          pc'[d] = pc[d] /\ slot'[d] = slot[d] /\ original'[d] = original[d] /\ event'[d] = event[d]
    /\ \/ calendar' = calendar
       \/ /\ event'[c] # 0
          /\ \A n \in EventIds : n # event'[c] => calendar'[n] = calendar[n]
    /\ serves' = serves
    /\ beaten \subseteq beaten'
    /\ faults \in Nat /\ faults' \in Nat /\ faults <= faults'

(* No step of a call reaches another job's row, call or event. *)
LEMMA StepsAreApart ==
  ASSUME IInv, NEW c \in Calls, CallStep(c)
  PROVE  OnlyItsOwn(c)
  <1> USE DEF IInv, TypeOK, MovesKeepWindows, OnlyItsOwn, EventIds, rowVars, calendarVars, callVars
  <1>1. ASSUME NEW w \in Windows, ConfirmRead(c, w)
        PROVE  OnlyItsOwn(c)
    BY <1>1 DEF ConfirmRead, Read
  <1>2. ASSUME NEW w \in Windows, MoveRead(c, w)
        PROVE  OnlyItsOwn(c)
    BY <1>2 DEF MoveRead, Read, Active
  <1>3. ASSUME ConfirmCheck(c)
        PROVE  OnlyItsOwn(c)
    BY <1>3 DEF ConfirmCheck, CheckBusy, Goto, Return
  <1>4. ASSUME Reserve(c)
        PROVE  OnlyItsOwn(c)
    BY <1>4 DEF Reserve, SetRow, Goto, Return
  <1>5. ASSUME InsertEvent(c)
        PROVE  OnlyItsOwn(c)
    BY <1>5 DEF InsertEvent, Insert, Request, Fault
  <1>6. ASSUME Book(c)
        PROVE  OnlyItsOwn(c)
    BY <1>6 DEF Book, Return
  <1>7. ASSUME BookFails(c)
        PROVE  OnlyItsOwn(c)
    BY <1>7 DEF BookFails, Goto, Fault
  <1>8. ASSUME Unreserve(c)
        PROVE  OnlyItsOwn(c)
    BY <1>8 DEF Unreserve, Undo, SetRow, Return
  <1>9. ASSUME MoveCheck(c)
        PROVE  OnlyItsOwn(c)
    BY <1>9 DEF MoveCheck, CheckBusy, Goto, Return
  <1>10. ASSUME MoveRow(c)
        PROVE  OnlyItsOwn(c)
    BY <1>10 DEF MoveRow, RowIsAsRead, SetRow, Goto, Return
  <1>11. ASSUME PatchEvent(c)
        PROVE  OnlyItsOwn(c)
    BY <1>11 DEF PatchEvent, Patch, Request, Fault
  <1>12. ASSUME MoveDone(c)
        PROVE  OnlyItsOwn(c)
    BY <1>12 DEF MoveDone, Return
  <1>13. ASSUME MoveAuditFails(c)
        PROVE  OnlyItsOwn(c)
    BY <1>13 DEF MoveAuditFails, Goto, Fault
  <1>14. ASSUME UnpatchEvent(c)
        PROVE  OnlyItsOwn(c)
    BY <1>14 DEF UnpatchEvent, Patch, Request, Fault
  <1>15. ASSUME UndoMove(c)
        PROVE  OnlyItsOwn(c)
    BY <1>15 DEF UndoMove, MovedByCall, Undo, SetRow, Return
  <1>16. ASSUME CancelRead(c)
        PROVE  OnlyItsOwn(c)
    BY <1>16 DEF CancelRead, Read, Active
  <1>17. ASSUME CancelRow(c)
        PROVE  OnlyItsOwn(c)
    BY <1>17 DEF CancelRow, RowIsAsRead, SetRow, Goto, Return
  <1>18. ASSUME DeleteEvent(c)
        PROVE  OnlyItsOwn(c)
    BY <1>18 DEF DeleteEvent, Delete, Request, Fault
  <1>19. ASSUME CancelDone(c)
        PROVE  OnlyItsOwn(c)
    BY <1>19 DEF CancelDone, Return
  <1>20. ASSUME UndoCancel(c)
        PROVE  OnlyItsOwn(c)
    BY <1>20 DEF UndoCancel, Undo, SetRow, Return
  <1>21. ASSUME Crash(c)
        PROVE  OnlyItsOwn(c)
    BY <1>21 DEF Crash, Return, Fault
  <1> HIDE DEF IInv, TypeOK, MovesKeepWindows, OnlyItsOwn, EventIds, rowVars, calendarVars, callVars
  <1> QED
    BY <1>1, <1>2, <1>3, <1>4, <1>5, <1>6, <1>7, <1>8, <1>9, <1>10, <1>11, <1>12, <1>13, <1>14, <1>15, <1>16, <1>17, <1>18, <1>19, <1>20, <1>21 DEF CallStep

(* While no answer is lost, a call's own row and event stay as far apart   *)
(* as its step says.                                                       *)
LEMMA OwnCallAgrees ==
  ASSUME IInv, EventsSurvive, faults' = 0, CallsAndRowsAgree, NEW c \in Calls, CallStep(c)
  PROVE  serves'[c] \notin beaten' => CallAgrees(c)'
  <1> USE DEF IInv, TypeOK, BookedRowsAreWhole, BookingHoldsReservation, Booking, MovesKeepWindows,
             EventsSurvive, LooseEventsHaveOneHolder, Loose, CallsAndRowsAgree, CallAgrees, RowAgrees, EventIds,
             rowVars, calendarVars, callVars
  <1>1. ASSUME NEW w \in Windows, ConfirmRead(c, w)
        PROVE  serves'[c] \notin beaten' => CallAgrees(c)'
    BY <1>1 DEF ConfirmRead, Read
  <1>2. ASSUME NEW w \in Windows, MoveRead(c, w)
        PROVE  serves'[c] \notin beaten' => CallAgrees(c)'
    BY <1>2 DEF MoveRead, Read, Active
  <1>3. ASSUME ConfirmCheck(c)
        PROVE  serves'[c] \notin beaten' => CallAgrees(c)'
    BY <1>3 DEF ConfirmCheck, CheckBusy, Goto, Return
  <1>4. ASSUME Reserve(c)
        PROVE  serves'[c] \notin beaten' => CallAgrees(c)'
    BY <1>4 DEF Reserve, SetRow, Goto, Return
  <1>5. ASSUME InsertEvent(c)
        PROVE  serves'[c] \notin beaten' => CallAgrees(c)'
    BY <1>5 DEF InsertEvent, Insert, Request, Fault
  <1>6. ASSUME Book(c)
        PROVE  serves'[c] \notin beaten' => CallAgrees(c)'
    BY <1>6 DEF Book, Return
  <1>7. ASSUME BookFails(c)
        PROVE  serves'[c] \notin beaten' => CallAgrees(c)'
    BY <1>7 DEF BookFails, Goto, Fault
  <1>8. ASSUME Unreserve(c)
        PROVE  serves'[c] \notin beaten' => CallAgrees(c)'
    BY <1>8 DEF Unreserve, Undo, SetRow, Return
  <1>9. ASSUME MoveCheck(c)
        PROVE  serves'[c] \notin beaten' => CallAgrees(c)'
    BY <1>9 DEF MoveCheck, CheckBusy, Goto, Return
  <1>10. ASSUME MoveRow(c)
        PROVE  serves'[c] \notin beaten' => CallAgrees(c)'
    BY <1>10 DEF MoveRow, RowIsAsRead, SetRow, Goto, Return
  <1>11. ASSUME PatchEvent(c)
        PROVE  serves'[c] \notin beaten' => CallAgrees(c)'
    BY <1>11 DEF PatchEvent, Patch, Request, Fault
  <1>12. ASSUME MoveDone(c)
        PROVE  serves'[c] \notin beaten' => CallAgrees(c)'
    BY <1>12 DEF MoveDone, Return
  <1>13. ASSUME MoveAuditFails(c)
        PROVE  serves'[c] \notin beaten' => CallAgrees(c)'
    BY <1>13 DEF MoveAuditFails, Goto, Fault
  <1>14. ASSUME UnpatchEvent(c)
        PROVE  serves'[c] \notin beaten' => CallAgrees(c)'
    BY <1>14 DEF UnpatchEvent, Patch, Request, Fault
  <1>15. ASSUME UndoMove(c)
        PROVE  serves'[c] \notin beaten' => CallAgrees(c)'
    BY <1>15 DEF UndoMove, MovedByCall, Undo, SetRow, Return
  <1>16. ASSUME CancelRead(c)
        PROVE  serves'[c] \notin beaten' => CallAgrees(c)'
    BY <1>16 DEF CancelRead, Read, Active
  <1>17. ASSUME CancelRow(c)
        PROVE  serves'[c] \notin beaten' => CallAgrees(c)'
    BY <1>17 DEF CancelRow, RowIsAsRead, SetRow, Goto, Return
  <1>18. ASSUME DeleteEvent(c)
        PROVE  serves'[c] \notin beaten' => CallAgrees(c)'
    BY <1>18 DEF DeleteEvent, Delete, Request, Fault
  <1>19. ASSUME CancelDone(c)
        PROVE  serves'[c] \notin beaten' => CallAgrees(c)'
    BY <1>19 DEF CancelDone, Return
  <1>20. ASSUME UndoCancel(c)
        PROVE  serves'[c] \notin beaten' => CallAgrees(c)'
    BY <1>20 DEF UndoCancel, Undo, SetRow, Return
  <1>21. ASSUME Crash(c)
        PROVE  serves'[c] \notin beaten' => CallAgrees(c)'
    BY <1>21 DEF Crash, Return, Fault
  <1> HIDE DEF IInv, TypeOK, BookedRowsAreWhole, BookingHoldsReservation, Booking, MovesKeepWindows,
             EventsSurvive, LooseEventsHaveOneHolder, Loose, CallsAndRowsAgree, CallAgrees, RowAgrees, EventIds,
             rowVars, calendarVars, callVars
  <1> QED
    BY <1>1, <1>2, <1>3, <1>4, <1>5, <1>6, <1>7, <1>8, <1>9, <1>10, <1>11, <1>12, <1>13, <1>14, <1>15, <1>16, <1>17, <1>18, <1>19, <1>20, <1>21 DEF CallStep

(* While no answer is lost, no event is left without a row or a call. *)
LEMMA EventsStayHeld ==
  ASSUME IInv, EventsSurvive, faults' = 0, CallsAndRowsAgree, EventsAreHeld, NEW c \in Calls, CallStep(c)
  PROVE  EventsAreHeld'
  <1>same. ASSUME calendar' = calendar, eventId' = eventId, beaten' = beaten, ~Loose(c),
                  \A d \in Calls \ {c} : pc'[d] = pc[d] /\ event'[d] = event[d]
           PROVE  EventsAreHeld'
    BY <1>same DEF EventsAreHeld, Loose
  <1> USE DEF IInv, TypeOK, BookedRowsAreWhole, BookingHoldsReservation, Booking, MovesKeepWindows,
             EventsSurvive, LooseEventsHaveOneHolder, Loose, CallsAndRowsAgree, CallAgrees, EventsAreHeld, EventIds,
             rowVars, calendarVars, callVars
  <1>1. ASSUME NEW w \in Windows, ConfirmRead(c, w)
        PROVE  EventsAreHeld'
    <2>1. /\ calendar' = calendar /\ eventId' = eventId /\ beaten' = beaten /\ ~Loose(c)
          /\ \A d \in Calls \ {c} : pc'[d] = pc[d] /\ event'[d] = event[d]
      BY <1>1 DEF ConfirmRead, Read
    <2> QED
      BY <2>1, <1>same
  <1>2. ASSUME NEW w \in Windows, MoveRead(c, w)
        PROVE  EventsAreHeld'
    <2>1. /\ calendar' = calendar /\ eventId' = eventId /\ beaten' = beaten /\ ~Loose(c)
          /\ \A d \in Calls \ {c} : pc'[d] = pc[d] /\ event'[d] = event[d]
      BY <1>2 DEF MoveRead, Read
    <2> QED
      BY <2>1, <1>same
  <1>3. ASSUME ConfirmCheck(c)
        PROVE  EventsAreHeld'
    BY <1>3 DEF ConfirmCheck, CheckBusy, Goto, Return
  <1>4. ASSUME Reserve(c)
        PROVE  EventsAreHeld'
    BY <1>4 DEF Reserve, SetRow, Goto, Return
  <1>5. ASSUME InsertEvent(c)
        PROVE  EventsAreHeld'
    <2>1. /\ eventId' = eventId /\ beaten' = beaten /\ ~Loose(c)
          /\ \A d \in Calls \ {c} : pc'[d] = pc[d] /\ event'[d] = event[d]
      BY <1>5 DEF InsertEvent, Insert, Request
    <2>2. CASE UNCHANGED calendar
      BY <2>1, <2>2, <1>same
    <2>3. CASE ~(UNCHANGED calendar)
      <3>1. Insert(c) /\ pc' = [pc EXCEPT ![c] = "inserted"]
        BY <1>5, <2>3 DEF InsertEvent, Request, Fault
      <3>2. Loose(c)' /\ event'[c] = inserted + 1
        BY <3>1 DEF Insert
      <3>3. \A n \in EventIds : n # inserted + 1 => calendar'[n] = calendar[n]
        BY <3>1 DEF Insert
      <3>4. ASSUME NEW n \in EventIds, n # inserted + 1, calendar'[n] # NoWindow, beaten' = {}
            PROVE  \/ \E j \in Jobs : eventId'[j] = n
                   \/ \E d \in Calls : Loose(d)' /\ event'[d] = n
        <4>1. \/ \E j \in Jobs : eventId[j] = n
              \/ \E d \in Calls \ {c} : Loose(d) /\ event[d] = n
          BY <2>1, <3>3, <3>4
        <4> QED
          BY <2>1, <4>1
      <3> QED
        BY <3>2, <3>4
    <2> QED
      BY <2>2, <2>3
  <1>6. ASSUME Book(c)
        PROVE  EventsAreHeld'
    BY <1>6 DEF Book, Return
  <1>7. ASSUME BookFails(c)
        PROVE  EventsAreHeld'
    BY <1>7 DEF BookFails, Goto, Fault
  <1>8. ASSUME Unreserve(c)
        PROVE  EventsAreHeld'
    <2>1. /\ calendar' = calendar /\ beaten \subseteq beaten' /\ ~Loose(c)
          /\ \A d \in Calls \ {c} : pc'[d] = pc[d] /\ event'[d] = event[d]
      BY <1>8 DEF Unreserve, Undo, Return
    <2>2. eventId' = eventId
      BY <1>8 DEF Unreserve, Undo, SetRow
    <2>3. CASE beaten' = {}
      <3>1. beaten' = beaten
        BY <2>1, <2>3
      <3> QED
        BY <2>1, <2>2, <3>1, <1>same
    <2> QED
      BY <2>3
  <1>9. ASSUME MoveCheck(c)
        PROVE  EventsAreHeld'
    BY <1>9 DEF MoveCheck, CheckBusy, Goto, Return
  <1>10. ASSUME MoveRow(c)
        PROVE  EventsAreHeld'
    <2>1. calendar' = calendar /\ beaten' = beaten /\ ~Loose(c)
      BY <1>10 DEF MoveRow
    <2>2. eventId' = eventId
      BY <1>10 DEF MoveRow, RowIsAsRead, SetRow
    <2>3. \A d \in Calls \ {c} : pc'[d] = pc[d] /\ event'[d] = event[d]
      BY <1>10 DEF MoveRow, Goto, Return
    <2> QED
      BY <2>1, <2>2, <2>3, <1>same
  <1>11. ASSUME PatchEvent(c)
        PROVE  EventsAreHeld'
    <2>1. /\ eventId' = eventId /\ beaten' = beaten /\ event' = event
          /\ \A d \in Calls \ {c} : pc'[d] = pc[d]
          /\ ~Loose(c) /\ ~Loose(c)'
      BY <1>11 DEF PatchEvent, Patch, Request
    <2>2. \A n \in EventIds : n # event[c] => calendar'[n] = calendar[n]
      BY <1>11 DEF PatchEvent, Patch, Request
    <2>3. pc[c] = "patching" /\ serves[c] \in Jobs
      BY <1>11 DEF PatchEvent, Request
    <2>4. beaten = {} => eventId[serves[c]] = event[c]
      BY <2>3
    <2>5. ASSUME beaten' = {}, NEW n \in EventIds, calendar'[n] # NoWindow
          PROVE  \/ \E j \in Jobs : eventId'[j] = n
                 \/ \E d \in Calls : Loose(d)' /\ event'[d] = n
      <3>1. CASE n = event[c]
        BY <2>1, <2>3, <2>4, <2>5, <3>1
      <3>2. CASE n # event[c]
        <4>1. \/ \E j \in Jobs : eventId[j] = n
              \/ \E d \in Calls \ {c} : Loose(d) /\ event[d] = n
          BY <2>1, <2>2, <2>5, <3>2
        <4>2. CASE \E j \in Jobs : eventId[j] = n
          BY <2>1, <4>2
        <4>3. CASE \E d \in Calls \ {c} : Loose(d) /\ event[d] = n
          BY <2>1, <4>3
        <4> QED
          BY <4>1, <4>2, <4>3
      <3> QED
        BY <3>1, <3>2
    <2> QED
      BY <2>5
  <1>12. ASSUME MoveDone(c)
        PROVE  EventsAreHeld'
    BY <1>12 DEF MoveDone, Return
  <1>13. ASSUME MoveAuditFails(c)
        PROVE  EventsAreHeld'
    BY <1>13 DEF MoveAuditFails, Goto, Fault
  <1>14. ASSUME UnpatchEvent(c)
        PROVE  EventsAreHeld'
    BY <1>14 DEF UnpatchEvent, Patch, Request, Fault
  <1>15. ASSUME UndoMove(c)
        PROVE  EventsAreHeld'
    BY <1>15 DEF UndoMove, MovedByCall, Undo, SetRow, Return
  <1>16. ASSUME CancelRead(c)
        PROVE  EventsAreHeld'
    BY <1>16 DEF CancelRead, Read, Active
  <1>17. ASSUME CancelRow(c)
        PROVE  EventsAreHeld'
    <2>1. calendar' = calendar /\ beaten' = beaten /\ ~Loose(c)
      BY <1>17 DEF CancelRow
    <2>2. \A d \in Calls \ {c} : pc'[d] = pc[d] /\ event'[d] = event[d]
      BY <1>17 DEF CancelRow, Goto, Return
    <2>3. CASE RowIsAsRead(c)
      <3>1. eventId[serves[c]] = event[c] /\ Loose(c)' /\ event'[c] = event[c]
        BY <1>17, <2>3 DEF CancelRow, RowIsAsRead, Goto
      <3>2. \A j \in Jobs \ {serves[c]} : eventId'[j] = eventId[j]
        BY <1>17, <2>3 DEF CancelRow, SetRow
      <3>3. ASSUME beaten' = {}, NEW n \in EventIds, calendar'[n] # NoWindow
            PROVE  \/ \E j \in Jobs : eventId'[j] = n
                   \/ \E d \in Calls : Loose(d)' /\ event'[d] = n
        <4>1. \/ \E j \in Jobs : eventId[j] = n
              \/ \E d \in Calls \ {c} : Loose(d) /\ event[d] = n
          BY <2>1, <3>3
        <4>2. CASE eventId[serves[c]] = n
          BY <3>1, <4>2
        <4>3. CASE \E j \in Jobs \ {serves[c]} : eventId[j] = n
          <5>1. PICK j \in Jobs \ {serves[c]} : eventId[j] = n
            BY <4>3
          <5> QED
            BY <3>2, <5>1
        <4>4. CASE \E d \in Calls \ {c} : Loose(d) /\ event[d] = n
          BY <2>2, <4>4
        <4> QED
          BY <4>1, <4>2, <4>3, <4>4
      <3> QED
        BY <3>3
    <2>4. CASE ~RowIsAsRead(c)
      <3>1. eventId' = eventId
        BY <1>17, <2>4 DEF CancelRow
      <3> QED
        BY <2>1, <2>2, <3>1, <1>same
    <2> QED
      BY <2>3, <2>4
  <1>18. ASSUME DeleteEvent(c)
        PROVE  EventsAreHeld'
    BY <1>18 DEF DeleteEvent, Delete, Request, Fault
  <1>19. ASSUME CancelDone(c)
        PROVE  EventsAreHeld'
    BY <1>19 DEF CancelDone, Return
  <1>20. ASSUME UndoCancel(c)
        PROVE  EventsAreHeld'
    <2>1. calendar' = calendar /\ beaten \subseteq beaten' /\ pc[c] = "deleteFailed"
      BY <1>20 DEF UndoCancel, Undo
    <2>2. \A d \in Calls \ {c} : pc'[d] = pc[d] /\ event'[d] = event[d]
      BY <1>20 DEF UndoCancel, Undo, Return
    <2>3. ASSUME beaten' = {}
          PROVE  eventId' = [eventId EXCEPT ![serves[c]] = event[c]]
      <3>1. beaten = {}
        BY <2>1, <2>3
      <3>2. status[serves[c]] = "CANCELLED" /\ eventId[serves[c]] = 0
        BY <2>1, <3>1
      <3> QED
        BY <1>20, <2>3, <3>2 DEF UndoCancel, Undo, SetRow
    <2>4. ASSUME beaten' = {}
          PROVE  eventId[serves[c]] = 0
      BY <2>1, <2>4
    <2>5. ASSUME beaten' = {}, NEW n \in EventIds, calendar'[n] # NoWindow
          PROVE  \/ \E j \in Jobs : eventId'[j] = n
                 \/ \E d \in Calls : Loose(d)' /\ event'[d] = n
      <3>1. \/ \E j \in Jobs : eventId[j] = n
            \/ \E d \in Calls : Loose(d) /\ event[d] = n
        BY <2>1, <2>5
      <3>2. CASE \E j \in Jobs : eventId[j] = n
        BY <2>3, <2>4, <2>5, <3>2
      <3>3. CASE \E d \in Calls \ {c} : Loose(d) /\ event[d] = n
        BY <2>2, <3>3
      <3>4. CASE event[c] = n
        BY <2>3, <2>5, <3>4
      <3> QED
        BY <3>1, <3>2, <3>3, <3>4
    <2> QED
      BY <2>5
  <1>21. ASSUME Crash(c)
        PROVE  EventsAreHeld'
    BY <1>21 DEF Crash, Return, Fault
  <1> HIDE DEF IInv, TypeOK, BookedRowsAreWhole, BookingHoldsReservation, Booking, MovesKeepWindows,
             EventsSurvive, LooseEventsHaveOneHolder, Loose, CallsAndRowsAgree, CallAgrees, EventsAreHeld, EventIds,
             rowVars, calendarVars, callVars
  <1> QED
    BY <1>1, <1>2, <1>3, <1>4, <1>5, <1>6, <1>7, <1>8, <1>9, <1>10, <1>11, <1>12, <1>13, <1>14, <1>15, <1>16, <1>17, <1>18, <1>19, <1>20, <1>21 DEF CallStep

(* The others' rows, calls and events agree as they did. *)
LEMMA OthersStillAgree ==
  ASSUME IInv, IInv', EventsSurvive, CallsAndRowsAgree, NEW c \in Calls, OnlyItsOwn(c),
         \A d, e \in Calls : serves[d] = serves[e] => d = e
  PROVE  /\ \A d \in Calls \ {c} : serves'[d] \notin beaten' => CallAgrees(d)'
         /\ \A j \in Jobs \ beaten' : Unserved(j)' => RowAgrees(j)'
  <1>1. ASSUME NEW j \in Jobs \ {serves[c]}, RowAgrees(j)
        PROVE  RowAgrees(j)'
    <2>1. /\ eventId[j] \in EventIds \cup {0}
          /\ eventId'[j] = eventId[j] /\ window'[j] = window[j]
          /\ serves' = serves
      BY DEF IInv, TypeOK, OnlyItsOwn
    <2>2. event'[c] # 0 => eventId'[j] # event'[c]
      BY <2>1 DEF IInv, EventsHaveOneJob
    <2>3. eventId[j] # 0 => calendar'[eventId[j]] = calendar[eventId[j]]
      BY <2>1, <2>2 DEF OnlyItsOwn
    <2> QED
      BY <1>1, <2>1, <2>3 DEF RowAgrees
  <1>2. ASSUME NEW d \in Calls \ {c}, serves'[d] \notin beaten'
        PROVE  CallAgrees(d)'
    <2>1. /\ serves' = serves
          /\ serves[d] \in Jobs \ {serves[c]}
          /\ CallAgrees(d)
      BY <1>2 DEF IInv, TypeOK, OnlyItsOwn, CallsAndRowsAgree
    <2>2. /\ pc'[d] = pc[d] /\ slot'[d] = slot[d] /\ original'[d] = original[d] /\ event'[d] = event[d]
          /\ eventId'[serves[d]] = eventId[serves[d]]
          /\ status'[serves[d]] = status[serves[d]] /\ window'[serves[d]] = window[serves[d]]
      BY <2>1 DEF OnlyItsOwn
    <2>3. event'[c] # 0 => event'[d] # event'[c]
      BY <2>1 DEF IInv, EventsHaveOneJob
    <2>4. event[d] \in EventIds \cup {0}
      BY DEF IInv, TypeOK
    <2>5. event[d] # 0 => calendar'[event[d]] = calendar[event[d]]
      BY <2>2, <2>3, <2>4 DEF OnlyItsOwn
    <2>6. pc[d] \in {"inserted", "patching", "patchFailed", "deleting", "deleteFailed"} => event[d] # 0
      BY DEF IInv, MovesKeepWindows, EventsSurvive, LooseEventsHaveOneHolder, Loose
    <2>7. RowAgrees(serves[d]) => RowAgrees(serves[d])'
      BY <1>1, <2>1
    <2> QED
      BY <2>1, <2>2, <2>5, <2>6, <2>7 DEF CallAgrees
  <1>3. ASSUME NEW j \in Jobs \ beaten', Unserved(j)'
        PROVE  RowAgrees(j)'
    <2>1. j # serves[c] /\ j \notin beaten /\ Unserved(j)
      BY <1>3 DEF Unserved, OnlyItsOwn
    <2> QED
      BY <1>1, <2>1 DEF CallsAndRowsAgree
  <1> QED
    BY <1>2, <1>3

(* The agreement is inductive. *)
LEMMA AgreementStep ==
  IInv /\ IInv' /\ EventsSurvive /\ Agreement /\ [Next]_vars => Agreement'
  <1> SUFFICES ASSUME IInv, IInv', EventsSurvive, Agreement, [Next]_vars, OrderlyCalls'
               PROVE  CallsAndRowsAgree' /\ EventsAreHeld'
    BY DEF Agreement
  <1>1. ASSUME NEW c \in Calls, CallStep(c)
        PROVE  CallsAndRowsAgree' /\ EventsAreHeld'
    <2>1. OnlyItsOwn(c)
      BY <1>1, StepsAreApart
    <2>2. OrderlyCalls /\ faults' = 0
      BY <2>1 DEF OnlyItsOwn, OrderlyCalls
    <2>3. CallsAndRowsAgree /\ EventsAreHeld
      BY <2>2 DEF Agreement
    <2>4. serves'[c] \notin beaten' => CallAgrees(c)'
      BY <1>1, <2>2, <2>3, OwnCallAgrees
    <2>5. EventsAreHeld'
      BY <1>1, <2>2, <2>3, EventsStayHeld
    <2>6. /\ \A d \in Calls \ {c} : serves'[d] \notin beaten' => CallAgrees(d)'
          /\ \A j \in Jobs \ beaten' : Unserved(j)' => RowAgrees(j)'
      BY <2>1, <2>2, <2>3, OthersStillAgree DEF OrderlyCalls
    <2>7. \A d \in Calls : serves'[d] \notin beaten' => CallAgrees(d)'
      BY <2>4, <2>6
    <2>8. CallsAndRowsAgree'
      BY <2>6, <2>7 DEF CallsAndRowsAgree
    <2> QED
      BY <2>5, <2>8
  <1>2. CASE UNCHANGED vars
    BY <1>2 DEF Agreement, OrderlyCalls, CallsAndRowsAgree, CallAgrees, RowAgrees, Unserved, EventsAreHeld,
                Loose, vars, rowVars, calendarVars, callVars
  <1> QED
    BY <1>1, <1>2 DEF Next, CallStep

LEMMA AgreementHolds == Spec => []Agreement
  <1>1. Init => Agreement
    BY DEF Init, Agreement, CallsAndRowsAgree, CallAgrees, RowAgrees, EventsAreHeld, EventIds
  <1>2. Init => EventsSurvive
    BY DEF Init, EventsSurvive, BookedEventExists, LooseEventsHaveOneHolder, LooseEventsExist,
           SlotsAreWindows, Loose
  <1> QED
    BY AppointmentInvariant, SurvivalStep, AgreementStep, <1>1, <1>2, PTL DEF Spec

(* Customers of different jobs race for the same windows, and calendar       *)
(* requests are refused at any point: as long as no answer was lost and no   *)
(* two calls are on one job, a job whose calls have ended has a row that     *)
(* agrees with its calendar event, unless its undo found its window taken.   *)
THEOREM RowsMatchTheCalendar == Spec => []CalendarMatchesRow
  <1>1. ASSUME Agreement, OrderlyCalls, NEW j \in Jobs, Resting(j), j \notin beaten
        PROVE  RowAgrees(j)
    <2>1. CallsAndRowsAgree
      BY <1>1 DEF Agreement
    <2>2. CASE Unserved(j)
      BY <1>1, <2>1, <2>2 DEF CallsAndRowsAgree
    <2>3. ASSUME NEW c \in Calls, serves[c] = j
          PROVE  RowAgrees(j)
      BY <1>1, <2>1, <2>3 DEF CallsAndRowsAgree, CallAgrees, Resting
    <2> QED
      BY <2>2, <2>3 DEF Unserved
  <1>2. Agreement => CalendarMatchesRow
    BY <1>1 DEF CalendarMatchesRow, RowAgrees
  <1> QED
    BY AgreementHolds, <1>2, PTL

(* Under the same conditions no calendar event is left behind: when all the  *)
(* calls have ended, each event of the calendar belongs to some job.         *)
THEOREM NoEventIsLeftBehind == Spec => []NoStrayEvents
  <1>1. IInv /\ Agreement => NoStrayEvents
    <2> SUFFICES ASSUME IInv, Agreement, OrderlyCalls, \A j \in Jobs : Resting(j), beaten = {},
                        NEW n \in EventIds, calendar[n] # NoWindow
                 PROVE  \E j \in Jobs : eventId[j] = n
      BY DEF NoStrayEvents
    <2>1. \A c \in Calls : ~Loose(c)
      BY DEF IInv, TypeOK, Resting, Loose
    <2>2. EventsAreHeld
      BY DEF Agreement
    <2> QED
      BY <2>1, <2>2 DEF EventsAreHeld
  <1> QED
    BY AppointmentInvariant, AgreementHolds, <1>1, PTL
=============================================================================
