------------------------------- MODULE Booking -------------------------------
(***************************************************************************)
(* One customer's appointment: the slots the web chat offers, the booking, *)
(* its reschedule and cancellation in the chat, and the customer's answers *)
(* on the booking page (ui/src/app/appointment/manage/page.tsx), which     *)
(* dispatch reads (src/src/scheduling/scheduling.service.ts). An answer is *)
(* an audit record; the state shown to customer and to dispatch is that of *)
(* the latest. The calendar's failures are those of Appointments, taken    *)
(* here in one step with what follows them. The management token, valid for*)
(* 90 days, does not expire here.                                          *)
(***************************************************************************)
EXTENDS Slots

CONSTANTS
    None,
    Pages, Chats,   \* the customer's open booking pages and chats
    Notes,          \* what a reschedule request may say
    TokenLife,      \* a slot token's 30 minutes
    Start, MaxNow,  \* bound on time
    Tick,           \* how far time goes at once
    MaxBooked,      \* bound on calendar events
    MaxOthers       \* bound on what others do

(* The weekdays, and the windows on them, that can be offered meanwhile.   *)
ServiceDates ==
    {date \in {DateOf(t) + ahead : t \in Start..MaxNow, ahead \in 0..(Lookahead - 1)} :
       ~Weekend(date)}
Windows == {WindowOn(date, hours) : date \in ServiceDates, hours \in ServiceWindows}

Audits == [action : {"confirmed", "reschedule_requested", "rescheduled"}, note : Notes \cup {None}]

Rows ==
    [status : {"CREATED", "ACCEPTED", "CANCELLED", "COMPLETED"}, window : Windows \cup {None},
     event : 0..MaxBooked, urgency : {"STANDARD", "EMERGENCY"}]
Calls ==
    [pc : {"checking", "reserving", "inserting", "moving", "patching", "cancelling", "deleting",
           "deciding", "recording", "responding"},
     kind : {"book", "move", "cancel", "view", "confirm", "request_reschedule"},
     slot : Windows \cup {None}, note : Notes \cup {None}, read : Rows \cup {None}]
Bookings ==
    [state : {"REQUEST_RECEIVED", "PENDING_CUSTOMER_CONFIRMATION", "CONFIRMED",
              "RESCHEDULE_REQUESTED", "CANCELLED", "COMPLETED"},
     actions : SUBSET {"confirm", "request_reschedule"}]

ASSUME BookingAssumption ==
    /\ Pages \cap Chats = {}
    /\ Start \in Int /\ MaxNow \in Int /\ Start <= MaxNow
    /\ {Tick, TokenLife, Lookahead, MaxBooked, MaxOthers} \subseteq Nat
    /\ None \notin Windows \cup Audits \cup Calls
    /\ \A t \in Start..MaxNow : Offset(t) \in Int
    /\ \A date \in ServiceDates : ClockIsSound(date)

VARIABLES
    now,
    row,            \* status, window, event (calendarEventId, 0 is null), urgency
    others,         \* windows of other jobs
    booked,         \* external: calendar events ever inserted for this job
    latest,         \* the customer's latest audit record
    answered,       \* history: windows the customer confirmed or chose instead
    slots,          \* the slot tokens the chat shows, those it was last given
    call,           \* the request of each page or chat
    shown,          \* what each page shows
    silent,         \* history: the window became another's than the customer answered for
    edits

Callers == Pages \cup Chats
answers == <<latest, answered>>
vars == <<now, row, others, booked, answers, slots, call, shown, silent, edits>>

-----------------------------------------------------------------------------
(* What the server computes. *)

Active(r) == r.status = "ACCEPTED" /\ r.event # 0 /\ r.window # None
Eligible(r) == r.urgency = "STANDARD"

(* customerResponseState, and the board's own customerBookingActivity.     *)
ResponseState(audit) ==
    IF audit = None THEN "AWAITING_RESPONSE"
    ELSE CASE audit.action = "reschedule_requested" -> "RESCHEDULE_REQUESTED"
           [] audit.action \in {"confirmed", "rescheduled"} -> "CONFIRMED"

BoardState(audit) ==
    IF audit # None /\ audit.action = "reschedule_requested" THEN "RESCHEDULE_REQUESTED"
    ELSE IF audit # None /\ audit.action \in {"confirmed", "rescheduled"} THEN "CONFIRMED"
    ELSE "AWAITING_RESPONSE"

BookingState(r, response) ==
    CASE r.status \in {"CANCELLED", "COMPLETED"} -> r.status
      [] r.status \notin {"CANCELLED", "COMPLETED"} /\ response # "AWAITING_RESPONSE" -> response
      [] OTHER -> IF r.window # None THEN "PENDING_CUSTOMER_CONFIRMATION" ELSE "REQUEST_RECEIVED"

Actions(r, response) ==
    IF ~Active(r) THEN {}
    ELSE {"confirm", "request_reschedule"} \ (IF response = "CONFIRMED" THEN {"confirm"} ELSE {})

(* The calendar shows the events, the database what is ACCEPTED.           *)
CalendarBusy == others \cup (IF row.event # 0 THEN {row.window} ELSE {})
Reserved == others \cup (IF row.status = "ACCEPTED" /\ row.window # None THEN {row.window} ELSE {})

(* Mutant: the database does not keep the windows of jobs apart. *)
TakenByNobody(w) == FALSE

(* The unique index of the job's window. *)
Taken(w) == w \in others

Signed(windows) == {[window |-> w, expires |-> now + TokenLife] : w \in windows}

-----------------------------------------------------------------------------
TypeOK ==
    /\ now \in Start..MaxNow
    /\ row \in Rows /\ booked \in 0..MaxBooked
    /\ row.event <= booked
    /\ row.event # 0 => row.window # None
    /\ others \in SUBSET Windows
    /\ latest \in Audits \cup {None} /\ answered \in SUBSET Windows
    /\ latest = None => answered = {}
    /\ slots \in SUBSET [window : Windows, expires : Start..(MaxNow + TokenLife)]
    /\ call \in [Callers -> Calls \cup {None}]
    /\ shown \in [Pages -> Bookings \cup {None}]
    /\ silent \in BOOLEAN
    /\ edits \in 0..MaxOthers

Init ==
    /\ now = Start
    /\ row = [status |-> "CREATED", window |-> None, event |-> 0, urgency |-> "STANDARD"]
    /\ others = {}
    /\ booked = 0
    /\ latest = None
    /\ answered = {}
    /\ slots = {[window |-> w, expires |-> Start + TokenLife] : w \in Offers(Start, {})}
    /\ call = [c \in Callers |-> None]
    /\ shown = [p \in Pages |-> None]
    /\ silent = FALSE
    /\ edits = 0

-----------------------------------------------------------------------------
At(c, pc) == call[c] # None /\ call[c].pc = pc
Goto(c, pc) == call' = [call EXCEPT ![c].pc = pc]
Return(c) == call' = [call EXCEPT ![c] = None]
OnlyCalls == UNCHANGED <<now, row, others, booked, answers, slots, shown, silent, edits>>
RowAndCalls == UNCHANGED <<now, others, booked, answers, slots, shown, silent, edits>>

Begin(c, pc, kind, slot, note) ==
    /\ call[c] = None
    /\ call' = [call EXCEPT ![c] = [pc |-> pc, kind |-> kind, slot |-> slot, note |-> note,
                                    read |-> IF kind = "book" THEN None ELSE row]]
    /\ OnlyCalls

-----------------------------------------------------------------------------
(* The chat books: confirmAppointment. *)

Valid(slot) == slot.expires >= now

Choose(c, slot) ==
    /\ slot \in slots /\ Valid(slot) /\ Eligible(row)
    /\ ~(row.status = "ACCEPTED" /\ row.window = slot.window)
    /\ Begin(c, "checking", "book", slot.window, None)

(* fetchBusy, for a booking or a move. *)
Check(c) ==
    /\ At(c, "checking")
    /\ IF OverlapsBusy(call[c].slot, CalendarBusy) THEN Return(c)
       ELSE Goto(c, IF call[c].kind = "book" THEN "reserving" ELSE "moving")
    /\ OnlyCalls

Reserve(c) ==
    /\ At(c, "reserving")
    /\ IF row.window = None /\ ~Taken(call[c].slot)
       THEN /\ row' = [row EXCEPT !.status = "ACCEPTED", !.window = call[c].slot]
            /\ Goto(c, "inserting")
            /\ silent' = (silent \/ latest # None)
       ELSE Return(c) /\ UNCHANGED <<row, silent>>
    /\ UNCHANGED <<now, others, booked, answers, slots, shown, edits>>

Insert(c) ==
    /\ At(c, "inserting") /\ booked < MaxBooked
    /\ booked' = booked + 1
    /\ row' = [row EXCEPT !.event = booked + 1]
    /\ Return(c)
    /\ UNCHANGED <<now, others, answers, slots, shown, silent, edits>>

InsertFails(c) ==
    /\ At(c, "inserting")
    /\ row' = IF row.event = 0 THEN [row EXCEPT !.status = "CREATED", !.window = None] ELSE row
    /\ Return(c)
    /\ UNCHANGED <<now, others, booked, answers, slots, shown, silent, edits>>

-----------------------------------------------------------------------------
(* The chat manages: availability, reschedule, cancel. *)

Availability(c) ==
    /\ call[c] = None
    /\ Active(row) /\ Eligible(row)
    /\ slots' = Signed(Offers(now, CalendarBusy \cup Reserved))
    /\ UNCHANGED <<now, row, others, booked, answers, call, shown, silent, edits>>

Move(c, slot) ==
    /\ Active(row) /\ slot \in slots /\ Valid(slot) /\ slot.window # row.window
    /\ Begin(c, "checking", "move", slot.window, None)

RowIsAsRead(c) ==
    /\ row.status = "ACCEPTED"
    /\ row.event = call[c].read.event /\ row.window = call[c].read.window

MoveRow(c) ==
    /\ At(c, "moving")
    /\ IF RowIsAsRead(c) /\ ~Taken(call[c].slot)
       THEN row' = [row EXCEPT !.window = call[c].slot] /\ Goto(c, "patching")
       ELSE Return(c) /\ UNCHANGED row
    /\ RowAndCalls

Record(action, note, window) ==
    /\ latest' = [action |-> action, note |-> note]
    /\ answered' = answered \cup (IF action = "reschedule_requested" THEN {} ELSE {window})

(* Mutant: a move is not recorded as the customer's answer. *)
MoveUnrecorded(c) ==
    /\ At(c, "patching")
    /\ Return(c)
    /\ OnlyCalls

MoveRecorded(c) ==
    /\ At(c, "patching")
    /\ Record("rescheduled", None, call[c].slot)
    /\ Return(c)
    /\ UNCHANGED <<now, row, others, booked, slots, shown, silent, edits>>

(* The calendar refuses. `silent' if an answer to the new window was given *)
(* or is on its way, or if the old one is gone.                            *)
UndoMove(c) ==
    LET before == call[c].read
        undone == row.event = before.event /\ row.window = call[c].slot /\ ~Taken(before.window)
    IN  /\ At(c, "patching")
        /\ row' = IF undone THEN [row EXCEPT !.window = before.window] ELSE row
        /\ silent' = \/ silent \/ ~undone
                     \/ call[c].slot \in answered
                     \/ \E p \in Pages : call[p] # None /\ call[p].read.window = call[c].slot
        /\ Return(c)
        /\ UNCHANGED <<now, others, booked, answers, slots, shown, edits>>

Cancel(c) ==
    /\ call[c] = None /\ Active(row)
    /\ Begin(c, "cancelling", "cancel", None, None)

CancelRow(c) ==
    /\ At(c, "cancelling")
    /\ IF RowIsAsRead(c)
       THEN row' = [row EXCEPT !.status = "CANCELLED", !.event = 0, !.window = None]
                /\ Goto(c, "deleting")
       ELSE Return(c) /\ UNCHANGED row
    /\ RowAndCalls

Cancelled(c) ==
    /\ At(c, "deleting")
    /\ Return(c)
    /\ OnlyCalls

UndoCancel(c) ==
    LET before == call[c].read
    IN  /\ At(c, "deleting")
        /\ row' = IF row.status = "CANCELLED" /\ row.event = 0 /\ ~Taken(before.window)
                  THEN [row EXCEPT !.status = "ACCEPTED", !.event = before.event,
                                   !.window = before.window]
                  ELSE row
        /\ Return(c)
        /\ UNCHANGED <<now, others, booked, answers, slots, shown, silent, edits>>

-----------------------------------------------------------------------------
(* The booking page: view, confirm and request_reschedule. The buttons are *)
(* those of the booking it shows. The row is read first and the activity   *)
(* when the answer is due; the response reads the activity again.          *)

View(p) == booked > 0 /\ Begin(p, "responding", "view", None, None)

Answer(p, kind, note) ==
    /\ shown[p] # None /\ kind \in shown[p].actions
    /\ Active(row)
    /\ Begin(p, "deciding", kind, None, note)

Decide(p) ==
    /\ At(p, "deciding")
    /\ LET state == ResponseState(latest)
           again == IF call[p].kind = "confirm" THEN state = "CONFIRMED"
                    ELSE state = "RESCHEDULE_REQUESTED" /\ latest.note = call[p].note
       IN  Goto(p, IF again THEN "responding" ELSE "recording")
    /\ OnlyCalls

RecordAnswer(p) ==
    /\ At(p, "recording")
    /\ Record(IF call[p].kind = "confirm" THEN "confirmed" ELSE "reschedule_requested",
              call[p].note, call[p].read.window)
    /\ silent' = (silent \/ row.event # call[p].read.event)
    /\ Goto(p, "responding")
    /\ UNCHANGED <<now, row, others, booked, slots, shown, edits>>

(* Mutant: the response repeats the state of what the page had shown. *)
RespondAsShown(p) ==
    /\ At(p, "responding")
    /\ shown' = [shown EXCEPT ![p] =
          [state |-> IF @ # None THEN @.state
                     ELSE BookingState(call[p].read, ResponseState(latest)),
           actions |-> Actions(call[p].read, ResponseState(latest))]]
    /\ Return(p)
    /\ UNCHANGED <<now, row, others, booked, answers, slots, silent, edits>>

(* managementResponse: the row as it was read, the activity as it is.      *)
Respond(p) ==
    /\ At(p, "responding")
    /\ LET response == ResponseState(latest)
       IN  shown' = [shown EXCEPT ![p] =
             [state |-> BookingState(call[p].read, response),
              actions |-> Actions(call[p].read, response)]]
    /\ Return(p)
    /\ UNCHANGED <<now, row, others, booked, answers, slots, silent, edits>>

-----------------------------------------------------------------------------
(* Others book (what was busy when they looked may have changed, the index *)
(* has not), the technician completes, an operator overrides.              *)

Edit == edits < MaxOthers /\ edits' = edits + 1

OthersBook(w) ==
    /\ Edit
    /\ w \in Candidates(now) /\ w \notin others \cup {row.window}
    /\ others' = others \cup {w}
    /\ UNCHANGED <<now, row, booked, answers, slots, call, shown, silent>>

Complete ==
    /\ Edit
    /\ row.status = "ACCEPTED"
    /\ row' = [row EXCEPT !.status = "COMPLETED"]
    /\ UNCHANGED <<now, others, booked, answers, slots, call, shown, silent>>

Override ==
    /\ Edit
    /\ row.urgency = "STANDARD"
    /\ row' = [row EXCEPT !.urgency = "EMERGENCY"]
    /\ UNCHANGED <<now, others, booked, answers, slots, call, shown, silent>>

(* A request takes seconds, a tick some half hours. *)
TimePasses ==
    /\ now + Tick <= MaxNow /\ \A c \in Callers : call[c] = None
    /\ now' = now + Tick
    /\ UNCHANGED <<row, others, booked, answers, slots, call, shown, silent, edits>>

Chat(c) ==
    \/ \E s \in slots : Choose(c, s) \/ Move(c, s)
    \/ Check(c) \/ Reserve(c) \/ Insert(c) \/ InsertFails(c)
    \/ Availability(c) \/ MoveRow(c) \/ MoveRecorded(c) \/ UndoMove(c)
    \/ Cancel(c) \/ CancelRow(c) \/ Cancelled(c) \/ UndoCancel(c)

Page(p) ==
    \/ View(p) \/ Answer(p, "confirm", None)
    \/ \E note \in Notes : Answer(p, "request_reschedule", note)
    \/ Decide(p) \/ RecordAnswer(p) \/ Respond(p)

Next ==
    \/ \E c \in Chats : Chat(c)
    \/ \E p \in Pages : Page(p)
    \/ \E w \in Candidates(now) : OthersBook(w)
    \/ Complete \/ Override \/ TimePasses

Spec == Init /\ [][Next]_vars

-----------------------------------------------------------------------------
(* dispatch-board.service.ts customerBookingActivity: dispatch reads       *)
(* "Customer confirmed the appointment window". It is a window that the    *)
(* customer answered for: however page and chat overlap, an appointment    *)
(* called confirmed has an answer that names its window, unless it was     *)
(* booked anew after an answer or its move was undone.                     *)
Moving == \E c \in Chats : At(c, "patching")

ConfirmedWindowWasChosen ==
    Active(row) /\ BookingState(row, ResponseState(latest)) = "CONFIRMED" /\ ~Moving /\ ~silent =>
        row.window \in answered

(* What a page is told of the customer's answer is what dispatch reads.    *)
DispatchSeesTheAnswer ==
    [][\A p \in Pages :
         At(p, "responding") /\ call'[p] = None /\ shown'[p].state \notin {"CANCELLED", "COMPLETED"}
         => BoardState(latest) = IF shown'[p].state \in {"CONFIRMED", "RESCHEDULE_REQUESTED"}
                                THEN shown'[p].state ELSE "AWAITING_RESPONSE"]_vars

(* SERVICE_WINDOWS: every slot offered is one of the three arrival windows *)
(* by the clocks of the tenant's zone on that day, on both sides of the    *)
(* change to summer time, and on a weekday.                                *)
OffersAreServiceWindows == \A s \in slots : IsServiceWindow(s.window)

(* Two customers are never promised overlapping times, though the index    *)
(* refuses equal windows only and the busy check may be stale.             *)
AppointmentsDoNotOverlap == row.window # None => ~OverlapsBusy(row.window, others)
=============================================================================
