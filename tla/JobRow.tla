------------------------------- MODULE JobRow -------------------------------
(***************************************************************************)
(* What each operation promises to do to one job's row, as if it ran alone:*)
(* dispatch (src/src/jobs/dispatch-board.service.ts), the technician's link*)
(* (technician-workflow.service.ts), completion (job-lifecycle.service.ts) *)
(* and online booking (src/src/scheduling/scheduling.service.ts).          *)
(* JobWorkflow is the code, where calls interleave. OFFERED, DECLINED and  *)
(* EXPIRED are job statuses that no code writes.                           *)
(***************************************************************************)
CONSTANTS Technicians, NoTechnician

ASSUME RowAssumption == NoTechnician \notin Technicians

VARIABLES
    status,             \* JobStatus
    assignee,           \* assignedUserId
    technicianStatus,   \* "NONE" is null
    booking             \* "reserved": window set, calendarEventId null; "booked": both set

rowVars == <<status, assignee, technicianStatus, booking>>

JobStatus == {"CREATED", "ACCEPTED", "IN_PROGRESS", "COMPLETED", "CANCELLED"}
Closed == {"COMPLETED", "CANCELLED"}
TechnicianJobStatus == {"ASSIGNED", "ACCEPTED", "EN_ROUTE", "IN_PROGRESS", "COMPLETED"}
Actions == {"accept", "decline", "cannot_take", "on_my_way", "in_progress", "complete"}

RowTypeOK ==
    /\ status \in JobStatus
    /\ assignee \in Technicians \cup {NoTechnician}
    /\ technicianStatus \in TechnicianJobStatus \cup {"NONE"}
    /\ booking \in {"none", "reserved", "booked"}

RowInit ==
    /\ status = "CREATED"
    /\ assignee = NoTechnician
    /\ technicianStatus = "NONE"
    /\ booking = "none"

-----------------------------------------------------------------------------
(* Dispatch. *)

(* Mutant: a reassigned job keeps the previous technician's progress. *)
AssignKeepingProgress(t) ==
    /\ assignee' = t
    /\ technicianStatus' = IF technicianStatus = "NONE" THEN "ASSIGNED" ELSE technicianStatus
    /\ UNCHANGED <<status, booking>>

AssignTo(t) ==
    /\ assignee' = t
    /\ technicianStatus' = "ASSIGNED"
    /\ UNCHANGED <<status, booking>>

Assign(t) ==
    /\ status \notin Closed
    /\ assignee # t
    /\ AssignTo(t)

Release ==
    /\ assignee' = NoTechnician
    /\ technicianStatus' = "NONE"
    /\ UNCHANGED <<status, booking>>

CancelAssignment == assignee # NoTechnician /\ Release

(* The technician's actions, each available from some of their statuses. *)

TRANSITIONS(current) ==
    CASE current = "ASSIGNED"    -> {"accept", "decline", "cannot_take"}
      [] current = "ACCEPTED"    -> {"on_my_way", "in_progress", "decline", "cannot_take"}
      [] current = "EN_ROUTE"    -> {"in_progress", "cannot_take"}
      [] current = "IN_PROGRESS" -> {"complete"}
      [] OTHER                   -> {}

TargetStatus(action) ==
    CASE action = "accept"      -> "ACCEPTED"
      [] action = "on_my_way"   -> "EN_ROUTE"
      [] action = "in_progress" -> "IN_PROGRESS"
      [] action = "complete"    -> "COMPLETED"

(* The job's own status follows; only in_progress and complete set it      *)
(* whatever it was.                                                        *)
FollowedBy(action) ==
    CASE action \in {"accept", "on_my_way"} -> IF status = "CREATED" THEN "ACCEPTED" ELSE status
      [] action = "in_progress"             -> "IN_PROGRESS"
      [] action = "complete"                -> "COMPLETED"

Update(t, action) ==
    /\ assignee = t
    /\ status # "CANCELLED"
    /\ action \in TRANSITIONS(technicianStatus)
    /\ IF action \in {"decline", "cannot_take"}
       THEN Release
       ELSE /\ technicianStatus' = TargetStatus(action)
            /\ status' = FollowedBy(action)
            /\ UNCHANGED <<assignee, booking>>

CompleteJob ==
    /\ status \in {"ACCEPTED", "IN_PROGRESS"}
    /\ status' = "COMPLETED"
    /\ UNCHANGED <<assignee, technicianStatus, booking>>

-----------------------------------------------------------------------------
(* Online booking and cancellation write first and call the calendar after;*)
(* a calendar failure takes the write back.                                *)

SetBooking(s, b) ==
    /\ status' = s
    /\ booking' = b
    /\ UNCHANGED <<assignee, technicianStatus>>

(* A slot token stays valid for 30 minutes, whatever becomes of the job.   *)
Reserve == booking = "none" /\ SetBooking("ACCEPTED", "reserved")
Book == booking = "reserved" /\ SetBooking(status, "booked")
Unreserve == booking = "reserved" /\ SetBooking("CREATED", "none")
Cancel == status = "ACCEPTED" /\ booking = "booked" /\ SetBooking("CANCELLED", "none")
Restore == status = "CANCELLED" /\ booking = "none" /\ SetBooking("ACCEPTED", "booked")

RowNext ==
    \/ \E t \in Technicians : Assign(t)
    \/ CancelAssignment
    \/ \E t \in Technicians, action \in Actions : Update(t, action)
    \/ CompleteJob
    \/ Reserve \/ Book \/ Unreserve \/ Cancel \/ Restore

RowSpec == RowInit /\ [][RowNext]_rowVars
=============================================================================
