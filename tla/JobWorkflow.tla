---------------------------- MODULE JobWorkflow ----------------------------
(***************************************************************************)
(* One job while dispatchers, technicians, the owner, the customer and the *)
(* payment webhook act on it at once. JobRow says what an operation does to*)
(* the row; here the calls that use what they read after an await take a   *)
(* step for the read and a step for the write.                             *)
(* An update WHERE updatedAt is the version the user loaded, succeeds only *)
(* if nothing wrote the row since: its read and write of the row act as    *)
(* one, and stay one step when nothing else was read (cancelAssignment, the*)
(* technician's update; completeJob compares the status it uses).          *)
(* The job's policy requires payment and allows a manual exception.        *)
(***************************************************************************)
EXTENDS JobRow

CONSTANTS
    Users,      \* concurrent calls of dispatchers, owners and reviewers
    Customers   \* concurrent booking and cancellation calls

VARIABLES
    exception,      \* policySnapshot.paymentGateException
    paid,           \* the payment row reads SUCCEEDED (Payments)
    fresh,          \* users about to write whose version is the row's updatedAt
    call,           \* what each user's call is about to write
    target,         \* assign: the technician chosen
    seenAssignee, seenPaid, seenException,  \* what the call read
    customer,       \* the calendar request each customer's call waits for
    worker          \* history: who made the last accept, on_my_way, in_progress, complete

callVars == <<call, target, seenAssignee, seenPaid, seenException>>
vars == <<rowVars, exception, paid, fresh, callVars, customer, worker>>

TypeOK ==
    /\ RowTypeOK
    /\ exception \in {"none", "active", "revoked"}
    /\ paid \in BOOLEAN
    /\ fresh \in SUBSET Users
    /\ call \in [Users -> {"none", "assign", "override", "approve", "revoke"}]
    /\ target \in [Users -> Technicians \cup {NoTechnician}]
    /\ \A u \in Users : call[u] = "assign" => target[u] \in Technicians
    /\ seenAssignee \in [Users -> Technicians \cup {NoTechnician}]
    /\ seenPaid \in [Users -> BOOLEAN]
    /\ seenException \in [Users -> {"none", "active", "revoked"}]
    /\ customer \in [Customers -> {"idle", "inserting", "deleting"}]
    /\ worker \in Technicians \cup {NoTechnician}

Init ==
    /\ RowInit
    /\ exception = "none"
    /\ paid = FALSE
    /\ fresh = {}
    /\ call = [u \in Users |-> "none"]
    /\ target = [u \in Users |-> NoTechnician]
    /\ seenAssignee = [u \in Users |-> NoTechnician]
    /\ seenPaid = [u \in Users |-> FALSE]
    /\ seenException = [u \in Users |-> "none"]
    /\ customer = [c \in Customers |-> "idle"]
    /\ worker = NoTechnician

(* evaluatePaymentGate, for a job whose policy requires payment. *)
Unlocked == paid \/ exception = "active"

-----------------------------------------------------------------------------
Begin(u, op) ==
    /\ call[u] = "none"
    /\ call' = [call EXCEPT ![u] = op]
    /\ UNCHANGED <<rowVars, exception, paid, customer, worker>>

End(u) ==
    /\ call' = [call EXCEPT ![u] = "none"]
    /\ target' = [target EXCEPT ![u] = NoTechnician]
    /\ seenAssignee' = [seenAssignee EXCEPT ![u] = NoTechnician]
    /\ seenPaid' = [seenPaid EXCEPT ![u] = FALSE]
    /\ seenException' = [seenException EXCEPT ![u] = "none"]

(* Mutant: the write is by job id alone. *)
CanAlwaysWrite(u) == TRUE

(* updateMany WHERE updatedAt = expected. *)
CanWrite(u) == u \in fresh

AssignRead(u, t) ==
    /\ status \notin Closed
    /\ assignee # t
    /\ Unlocked
    /\ Begin(u, "assign")
    /\ target' = [target EXCEPT ![u] = t]
    /\ seenAssignee' = [seenAssignee EXCEPT ![u] = assignee]
    /\ seenPaid' = [seenPaid EXCEPT ![u] = paid]
    /\ fresh' = fresh \cup {u}
    /\ UNCHANGED seenException

AssignWrite(u) ==
    /\ call[u] = "assign"
    /\ CanWrite(u)
    /\ AssignTo(target[u])
    /\ End(u)
    /\ fresh' = {}
    /\ UNCHANGED <<exception, paid, customer, worker>>

(* governException: APPROVE also asks for the plan's entitlement, which is *)
(* not modelled. `existing?.active === active' does not stop a REVOKE when *)
(* there is no exception.                                                  *)
GovernRead(u, op) ==
    /\ status \notin Closed
    /\ ~paid
    /\ exception # (IF op = "approve" THEN "active" ELSE "revoked")
    /\ Begin(u, op)
    /\ fresh' = fresh \cup {u}
    /\ UNCHANGED <<target, seenAssignee, seenPaid, seenException>>

GovernWrite(u) ==
    /\ call[u] \in {"approve", "revoke"}
    /\ CanWrite(u)
    /\ exception' = IF call[u] = "approve" THEN "active" ELSE "revoked"
    /\ End(u)
    /\ fresh' = {}
    /\ UNCHANGED <<rowVars, paid, customer, worker>>

(* Urgency override: the whole policySnapshot is written back, by job id.  *)
(* It asks for another urgency than the job has, which is not modelled.    *)
OverrideRead(u) ==
    /\ Begin(u, "override")
    /\ seenException' = [seenException EXCEPT ![u] = exception]
    /\ UNCHANGED <<fresh, target, seenAssignee, seenPaid>>

OverrideWrite(u) ==
    /\ call[u] = "override"
    /\ exception' = seenException[u]
    /\ End(u)
    /\ fresh' = {}
    /\ UNCHANGED <<rowVars, paid, customer, worker>>

(* A conflict, a failure or a crash before the write. *)
CallLost(u) ==
    /\ call[u] # "none"
    /\ End(u)
    /\ fresh' = fresh \ {u}
    /\ UNCHANGED <<rowVars, exception, paid, customer, worker>>

UnassignStep ==
    /\ CancelAssignment
    /\ fresh' = {}
    /\ UNCHANGED <<exception, paid, callVars, customer, worker>>

UpdateStep(t, action) ==
    /\ Update(t, action)
    /\ worker' = IF action \in {"decline", "cannot_take"} THEN worker ELSE t
    /\ fresh' = {}
    /\ UNCHANGED <<exception, paid, callVars, customer>>

CompleteStep ==
    /\ CompleteJob
    /\ fresh' = {}
    /\ UNCHANGED <<exception, paid, callVars, customer, worker>>

-----------------------------------------------------------------------------
(* confirmAppointment and cancelAppointment. The call that inserted the    *)
(* event stores its id whatever the row has become, and both calls undo    *)
(* their reservation or cancellation WHERE calendarEventId is null.        *)
CustomerStep(c, from, to, row) ==
    /\ customer[c] = from
    /\ row
    /\ customer' = [customer EXCEPT ![c] = to]
    /\ fresh' = {}
    /\ UNCHANGED <<exception, paid, callVars, worker>>

ReserveStep(c) == CustomerStep(c, "idle", "inserting", Reserve)
BookStep(c) == CustomerStep(c, "inserting", "idle", SetBooking(status, "booked"))
UnreserveStep(c) ==
    CustomerStep(c, "inserting", "idle", booking # "booked" /\ SetBooking("CREATED", "none"))
CancelStep(c) == CustomerStep(c, "idle", "deleting", Cancel)
RestoreStep(c) ==
    CustomerStep(c, "deleting", "idle",
                 status = "CANCELLED" /\ booking # "booked" /\ SetBooking("ACCEPTED", "booked"))

(* The event is deleted, an undo matches no row, or the call dies before   *)
(* the calendar answers.                                                   *)
CustomerEnds(c) ==
    /\ customer[c] # "idle"
    /\ customer' = [customer EXCEPT ![c] = "idle"]
    /\ UNCHANGED <<rowVars, exception, paid, fresh, callVars, worker>>

(* The payment row is another row: its writes leave the job's version. *)
PaymentChanges ==
    /\ paid' = ~paid
    /\ UNCHANGED <<rowVars, exception, fresh, callVars, customer, worker>>

UserNext(u) ==
    \/ \E t \in Technicians : AssignRead(u, t)
    \/ AssignWrite(u)
    \/ GovernRead(u, "approve") \/ GovernRead(u, "revoke")
    \/ GovernWrite(u)
    \/ OverrideRead(u) \/ OverrideWrite(u)
    \/ CallLost(u)

CustomerNext(c) ==
    \/ ReserveStep(c) \/ BookStep(c) \/ UnreserveStep(c)
    \/ CancelStep(c) \/ RestoreStep(c)
    \/ CustomerEnds(c)

Next ==
    \/ \E u \in Users : UserNext(u)
    \/ UnassignStep
    \/ \E t \in Technicians, action \in Actions : UpdateStep(t, action)
    \/ CompleteStep
    \/ \E c \in Customers : CustomerNext(c)
    \/ PaymentChanges

Spec == Init /\ [][Next]_vars

-----------------------------------------------------------------------------
(* The code's interleaved calls change the row only as JobRow says one     *)
(* call at a time may: no assignment to a closed job, no status change     *)
(* that an operation running alone would refuse.                           *)
ImplementsRow == RowSpec

(* A technician's progress belongs to the technician who is assigned: a    *)
(* reassignment, a release and a racing update from the previous           *)
(* technician's link never mix (assign, lines 282-293; update, 191-201).   *)
ProgressBelongsToAssignee ==
    /\ assignee = NoTechnician <=> technicianStatus = "NONE"
    /\ technicianStatus \notin {"NONE", "ASSIGNED"} => worker = assignee

(* APP-008 report: "A stale expectedUpdatedAt value returns a conflict": a *)
(* dispatcher replaces only the technician shown when they decided, and    *)
(* never a lock they could not see; only the payment row can have changed. *)
Assigns(u) == call[u] = "assign" /\ assignee' = target[u] /\ assignee' # assignee

AssignmentIsInformed ==
    [][\A u \in Users : Assigns(u) /\ call'[u] = "none" =>
          /\ assignee = seenAssignee[u]
          /\ Unlocked \/ seenPaid[u] # paid
      ]_vars

(* The inductive invariant behind them: a call that may still write has    *)
(* seen the row as it is, and the one call that inserts an event holds the *)
(* reservation it made.                                                    *)
FreshCallsSeeTheRow ==
    \A u \in fresh : call[u] = "assign" =>
        /\ status \notin Closed
        /\ assignee = seenAssignee[u]
        /\ assignee # target[u]
        /\ exception = "active" \/ seenPaid[u]

InsertingHoldsReservation ==
    /\ \A c \in Customers : customer[c] = "inserting" => booking = "reserved"
    /\ \A c, d \in Customers : customer[c] = "inserting" /\ customer[d] = "inserting" => c = d
    /\ status = "CANCELLED" => booking = "none"

IInv ==
    /\ TypeOK
    /\ FreshCallsSeeTheRow
    /\ InsertingHoldsReservation
    /\ ProgressBelongsToAssignee
=============================================================================
