-------------------------- MODULE JobWorkflowProofs --------------------------
(* Proofs about JobWorkflow for any number of technicians, concurrent users *)
(* and concurrent customer calls: its invariant, and that the interleaved   *)
(* code implements JobRow.                                                  *)
EXTENDS JobWorkflow, TLAPS

USE RowAssumption

(* The initial state satisfies the inductive invariant. *)
LEMMA IInvInit == Init => IInv
  <1> SUFFICES ASSUME Init
               PROVE  IInv
    OBVIOUS
  <1>1. TypeOK
    BY DEF Init, RowInit, TypeOK, RowTypeOK, JobStatus, TechnicianJobStatus
  <1>2. FreshCallsSeeTheRow /\ InsertingHoldsReservation /\ ProgressBelongsToAssignee
    BY DEF Init, RowInit, FreshCallsSeeTheRow, InsertingHoldsReservation,
           ProgressBelongsToAssignee
  <1> QED
    BY <1>1, <1>2 DEF IInv

(* Every step keeps the types. *)
LEMMA TypeStep ==
  TypeOK /\ [Next]_vars => TypeOK'
  <1> SUFFICES ASSUME TypeOK, [Next]_vars
               PROVE  TypeOK'
    OBVIOUS
  <1> USE DEF TypeOK, RowTypeOK, JobStatus, TechnicianJobStatus, rowVars, callVars
  <1>1. ASSUME NEW u \in Users, NEW t \in Technicians, AssignRead(u, t)
        PROVE  TypeOK'
    BY <1>1 DEF AssignRead, Begin
  <1>2. ASSUME NEW u \in Users, AssignWrite(u)
        PROVE  TypeOK'
    BY <1>2 DEF AssignWrite, CanWrite, AssignTo, End
  <1>3. ASSUME NEW u \in Users, NEW op \in {"approve", "revoke"}, GovernRead(u, op)
        PROVE  TypeOK'
    BY <1>3 DEF GovernRead, Begin
  <1>4. ASSUME NEW u \in Users, GovernWrite(u)
        PROVE  TypeOK'
    BY <1>4 DEF GovernWrite, CanWrite, End
  <1>5. ASSUME NEW u \in Users, OverrideRead(u)
        PROVE  TypeOK'
    BY <1>5 DEF OverrideRead, Begin
  <1>6. ASSUME NEW u \in Users, OverrideWrite(u)
        PROVE  TypeOK'
    BY <1>6 DEF OverrideWrite, End
  <1>7. ASSUME NEW u \in Users, CallLost(u)
        PROVE  TypeOK'
    BY <1>7 DEF CallLost, End
  <1>8. CASE UnassignStep
    BY <1>8 DEF UnassignStep, CancelAssignment, Release
  <1>9. ASSUME NEW t \in Technicians, NEW action \in Actions, UpdateStep(t, action)
        PROVE  TypeOK'
    BY <1>9 DEF UpdateStep, Update, Release, FollowedBy, TargetStatus, TRANSITIONS, Actions
  <1>10. CASE CompleteStep
    BY <1>10 DEF CompleteStep, CompleteJob
  <1>11. ASSUME NEW c \in Customers, ReserveStep(c)
        PROVE  TypeOK'
    BY <1>11 DEF ReserveStep, CustomerStep, Reserve, SetBooking
  <1>12. ASSUME NEW c \in Customers, BookStep(c)
        PROVE  TypeOK'
    BY <1>12 DEF BookStep, CustomerStep, SetBooking
  <1>13. ASSUME NEW c \in Customers, UnreserveStep(c)
        PROVE  TypeOK'
    BY <1>13 DEF UnreserveStep, CustomerStep, SetBooking
  <1>14. ASSUME NEW c \in Customers, CancelStep(c)
        PROVE  TypeOK'
    BY <1>14 DEF CancelStep, CustomerStep, Cancel, SetBooking
  <1>15. ASSUME NEW c \in Customers, RestoreStep(c)
        PROVE  TypeOK'
    BY <1>15 DEF RestoreStep, CustomerStep, SetBooking
  <1>16. ASSUME NEW c \in Customers, CustomerEnds(c)
        PROVE  TypeOK'
    BY <1>16 DEF CustomerEnds
  <1>17. CASE PaymentChanges
    BY <1>17 DEF PaymentChanges
  <1>18. CASE UNCHANGED vars
    BY <1>18 DEF vars
  <1> HIDE DEF TypeOK, RowTypeOK, JobStatus, TechnicianJobStatus, rowVars, callVars
  <1> QED
    BY <1>1, <1>2, <1>3, <1>4, <1>5, <1>6, <1>7, <1>8, <1>9, <1>10, 
       <1>11, <1>12, <1>13, <1>14, <1>15, <1>16, <1>17, <1>18 DEF Next, UserNext, CustomerNext

(* A write of the row leaves no fresh version behind it, so a call that is still fresh has seen the row. *)
LEMMA FreshStep ==
  TypeOK /\ FreshCallsSeeTheRow /\ [Next]_vars => FreshCallsSeeTheRow'
  <1> SUFFICES ASSUME TypeOK, FreshCallsSeeTheRow, [Next]_vars
               PROVE  FreshCallsSeeTheRow'
    OBVIOUS
  <1> USE DEF FreshCallsSeeTheRow, Unlocked, TypeOK, RowTypeOK, rowVars, callVars
  <1>1. ASSUME NEW u \in Users, NEW t \in Technicians, AssignRead(u, t)
        PROVE  FreshCallsSeeTheRow'
    BY <1>1 DEF AssignRead, Begin
  <1>2. ASSUME NEW u \in Users, AssignWrite(u)
        PROVE  FreshCallsSeeTheRow'
    BY <1>2 DEF AssignWrite, CanWrite, AssignTo, End
  <1>3. ASSUME NEW u \in Users, NEW op \in {"approve", "revoke"}, GovernRead(u, op)
        PROVE  FreshCallsSeeTheRow'
    BY <1>3 DEF GovernRead, Begin
  <1>4. ASSUME NEW u \in Users, GovernWrite(u)
        PROVE  FreshCallsSeeTheRow'
    BY <1>4 DEF GovernWrite, CanWrite, End
  <1>5. ASSUME NEW u \in Users, OverrideRead(u)
        PROVE  FreshCallsSeeTheRow'
    BY <1>5 DEF OverrideRead, Begin
  <1>6. ASSUME NEW u \in Users, OverrideWrite(u)
        PROVE  FreshCallsSeeTheRow'
    BY <1>6 DEF OverrideWrite, End
  <1>7. ASSUME NEW u \in Users, CallLost(u)
        PROVE  FreshCallsSeeTheRow'
    BY <1>7 DEF CallLost, End
  <1>8. CASE UnassignStep
    BY <1>8 DEF UnassignStep, CancelAssignment, Release
  <1>9. ASSUME NEW t \in Technicians, NEW action \in Actions, UpdateStep(t, action)
        PROVE  FreshCallsSeeTheRow'
    BY <1>9 DEF UpdateStep, Update, Release, FollowedBy, TargetStatus, TRANSITIONS, Actions
  <1>10. CASE CompleteStep
    BY <1>10 DEF CompleteStep, CompleteJob
  <1>11. ASSUME NEW c \in Customers, ReserveStep(c)
        PROVE  FreshCallsSeeTheRow'
    BY <1>11 DEF ReserveStep, CustomerStep, Reserve, SetBooking
  <1>12. ASSUME NEW c \in Customers, BookStep(c)
        PROVE  FreshCallsSeeTheRow'
    BY <1>12 DEF BookStep, CustomerStep, SetBooking
  <1>13. ASSUME NEW c \in Customers, UnreserveStep(c)
        PROVE  FreshCallsSeeTheRow'
    BY <1>13 DEF UnreserveStep, CustomerStep, SetBooking
  <1>14. ASSUME NEW c \in Customers, CancelStep(c)
        PROVE  FreshCallsSeeTheRow'
    BY <1>14 DEF CancelStep, CustomerStep, Cancel, SetBooking
  <1>15. ASSUME NEW c \in Customers, RestoreStep(c)
        PROVE  FreshCallsSeeTheRow'
    BY <1>15 DEF RestoreStep, CustomerStep, SetBooking
  <1>16. ASSUME NEW c \in Customers, CustomerEnds(c)
        PROVE  FreshCallsSeeTheRow'
    BY <1>16 DEF CustomerEnds
  <1>17. CASE PaymentChanges
    BY <1>17 DEF PaymentChanges
  <1>18. CASE UNCHANGED vars
    BY <1>18 DEF vars
  <1> HIDE DEF FreshCallsSeeTheRow, Unlocked, TypeOK, RowTypeOK, rowVars, callVars
  <1> QED
    BY <1>1, <1>2, <1>3, <1>4, <1>5, <1>6, <1>7, <1>8, <1>9, <1>10, 
       <1>11, <1>12, <1>13, <1>14, <1>15, <1>16, <1>17, <1>18 DEF Next, UserNext, CustomerNext

(* Only the call that made the reservation is inserting, and only it can take the reservation back. *)
LEMMA InsertingStep ==
  TypeOK /\ InsertingHoldsReservation /\ [Next]_vars => InsertingHoldsReservation'
  <1> SUFFICES ASSUME TypeOK, InsertingHoldsReservation, [Next]_vars
               PROVE  InsertingHoldsReservation'
    OBVIOUS
  <1> USE DEF InsertingHoldsReservation, TypeOK, RowTypeOK, Closed, rowVars, callVars
  <1>1. ASSUME NEW u \in Users, NEW t \in Technicians, AssignRead(u, t)
        PROVE  InsertingHoldsReservation'
    BY <1>1 DEF AssignRead, Begin
  <1>2. ASSUME NEW u \in Users, AssignWrite(u)
        PROVE  InsertingHoldsReservation'
    BY <1>2 DEF AssignWrite, CanWrite, AssignTo, End
  <1>3. ASSUME NEW u \in Users, NEW op \in {"approve", "revoke"}, GovernRead(u, op)
        PROVE  InsertingHoldsReservation'
    BY <1>3 DEF GovernRead, Begin
  <1>4. ASSUME NEW u \in Users, GovernWrite(u)
        PROVE  InsertingHoldsReservation'
    BY <1>4 DEF GovernWrite, CanWrite, End
  <1>5. ASSUME NEW u \in Users, OverrideRead(u)
        PROVE  InsertingHoldsReservation'
    BY <1>5 DEF OverrideRead, Begin
  <1>6. ASSUME NEW u \in Users, OverrideWrite(u)
        PROVE  InsertingHoldsReservation'
    BY <1>6 DEF OverrideWrite, End
  <1>7. ASSUME NEW u \in Users, CallLost(u)
        PROVE  InsertingHoldsReservation'
    BY <1>7 DEF CallLost, End
  <1>8. CASE UnassignStep
    BY <1>8 DEF UnassignStep, CancelAssignment, Release
  <1>9. ASSUME NEW t \in Technicians, NEW action \in Actions, UpdateStep(t, action)
        PROVE  InsertingHoldsReservation'
    BY <1>9 DEF UpdateStep, Update, Release, FollowedBy, TargetStatus, TRANSITIONS, Actions
  <1>10. CASE CompleteStep
    BY <1>10 DEF CompleteStep, CompleteJob
  <1>11. ASSUME NEW c \in Customers, ReserveStep(c)
        PROVE  InsertingHoldsReservation'
    BY <1>11 DEF ReserveStep, CustomerStep, Reserve, SetBooking
  <1>12. ASSUME NEW c \in Customers, BookStep(c)
        PROVE  InsertingHoldsReservation'
    BY <1>12 DEF BookStep, CustomerStep, SetBooking
  <1>13. ASSUME NEW c \in Customers, UnreserveStep(c)
        PROVE  InsertingHoldsReservation'
    BY <1>13 DEF UnreserveStep, CustomerStep, SetBooking
  <1>14. ASSUME NEW c \in Customers, CancelStep(c)
        PROVE  InsertingHoldsReservation'
    BY <1>14 DEF CancelStep, CustomerStep, Cancel, SetBooking
  <1>15. ASSUME NEW c \in Customers, RestoreStep(c)
        PROVE  InsertingHoldsReservation'
    BY <1>15 DEF RestoreStep, CustomerStep, SetBooking
  <1>16. ASSUME NEW c \in Customers, CustomerEnds(c)
        PROVE  InsertingHoldsReservation'
    BY <1>16 DEF CustomerEnds
  <1>17. CASE PaymentChanges
    BY <1>17 DEF PaymentChanges
  <1>18. CASE UNCHANGED vars
    BY <1>18 DEF vars
  <1> HIDE DEF InsertingHoldsReservation, TypeOK, RowTypeOK, Closed, rowVars, callVars
  <1> QED
    BY <1>1, <1>2, <1>3, <1>4, <1>5, <1>6, <1>7, <1>8, <1>9, <1>10, 
       <1>11, <1>12, <1>13, <1>14, <1>15, <1>16, <1>17, <1>18 DEF Next, UserNext, CustomerNext

(* An assignment and a release reset the progress; an update needs to be the assignee's. *)
LEMMA ProgressStep ==
  TypeOK /\ ProgressBelongsToAssignee /\ [Next]_vars => ProgressBelongsToAssignee'
  <1> SUFFICES ASSUME TypeOK, ProgressBelongsToAssignee, [Next]_vars
               PROVE  ProgressBelongsToAssignee'
    OBVIOUS
  <1> USE DEF ProgressBelongsToAssignee, TypeOK, RowTypeOK, rowVars, callVars
  <1>1. ASSUME NEW u \in Users, NEW t \in Technicians, AssignRead(u, t)
        PROVE  ProgressBelongsToAssignee'
    BY <1>1 DEF AssignRead, Begin
  <1>2. ASSUME NEW u \in Users, AssignWrite(u)
        PROVE  ProgressBelongsToAssignee'
    BY <1>2 DEF AssignWrite, CanWrite, AssignTo, End
  <1>3. ASSUME NEW u \in Users, NEW op \in {"approve", "revoke"}, GovernRead(u, op)
        PROVE  ProgressBelongsToAssignee'
    BY <1>3 DEF GovernRead, Begin
  <1>4. ASSUME NEW u \in Users, GovernWrite(u)
        PROVE  ProgressBelongsToAssignee'
    BY <1>4 DEF GovernWrite, CanWrite, End
  <1>5. ASSUME NEW u \in Users, OverrideRead(u)
        PROVE  ProgressBelongsToAssignee'
    BY <1>5 DEF OverrideRead, Begin
  <1>6. ASSUME NEW u \in Users, OverrideWrite(u)
        PROVE  ProgressBelongsToAssignee'
    BY <1>6 DEF OverrideWrite, End
  <1>7. ASSUME NEW u \in Users, CallLost(u)
        PROVE  ProgressBelongsToAssignee'
    BY <1>7 DEF CallLost, End
  <1>8. CASE UnassignStep
    BY <1>8 DEF UnassignStep, CancelAssignment, Release
  <1>9. ASSUME NEW t \in Technicians, NEW action \in Actions, UpdateStep(t, action)
        PROVE  ProgressBelongsToAssignee'
    BY <1>9 DEF UpdateStep, Update, Release, FollowedBy, TargetStatus, TRANSITIONS, Actions
  <1>10. CASE CompleteStep
    BY <1>10 DEF CompleteStep, CompleteJob
  <1>11. ASSUME NEW c \in Customers, ReserveStep(c)
        PROVE  ProgressBelongsToAssignee'
    BY <1>11 DEF ReserveStep, CustomerStep, Reserve, SetBooking
  <1>12. ASSUME NEW c \in Customers, BookStep(c)
        PROVE  ProgressBelongsToAssignee'
    BY <1>12 DEF BookStep, CustomerStep, SetBooking
  <1>13. ASSUME NEW c \in Customers, UnreserveStep(c)
        PROVE  ProgressBelongsToAssignee'
    BY <1>13 DEF UnreserveStep, CustomerStep, SetBooking
  <1>14. ASSUME NEW c \in Customers, CancelStep(c)
        PROVE  ProgressBelongsToAssignee'
    BY <1>14 DEF CancelStep, CustomerStep, Cancel, SetBooking
  <1>15. ASSUME NEW c \in Customers, RestoreStep(c)
        PROVE  ProgressBelongsToAssignee'
    BY <1>15 DEF RestoreStep, CustomerStep, SetBooking
  <1>16. ASSUME NEW c \in Customers, CustomerEnds(c)
        PROVE  ProgressBelongsToAssignee'
    BY <1>16 DEF CustomerEnds
  <1>17. CASE PaymentChanges
    BY <1>17 DEF PaymentChanges
  <1>18. CASE UNCHANGED vars
    BY <1>18 DEF vars
  <1> HIDE DEF ProgressBelongsToAssignee, TypeOK, RowTypeOK, rowVars, callVars
  <1> QED
    BY <1>1, <1>2, <1>3, <1>4, <1>5, <1>6, <1>7, <1>8, <1>9, <1>10, 
       <1>11, <1>12, <1>13, <1>14, <1>15, <1>16, <1>17, <1>18 DEF Next, UserNext, CustomerNext

(* The inductive invariant holds in every reachable state. *)
THEOREM WorkflowInvariant == Spec => []IInv
  <1>1. IInv /\ [Next]_vars => IInv'
    BY TypeStep, FreshStep, InsertingStep, ProgressStep DEF IInv
  <1> QED
    BY IInvInit, <1>1, PTL DEF Spec

(* A technician's progress always belongs to the technician assigned, with *)
(* any number of dispatchers, technicians and customers racing.            *)
THEOREM ProgressIsTheAssignees == Spec => []ProgressBelongsToAssignee
  <1>1. IInv => ProgressBelongsToAssignee
    BY DEF IInv
  <1> QED
    BY WorkflowInvariant, <1>1, PTL

-----------------------------------------------------------------------------
(* The initial row is the abstract one's, and every step of the code is a  *)
(* step of RowNext or leaves the row alone: a fresh call still satisfies   *)
(* the guard it read, and the inserting call still holds its reservation.  *)
LEMMA RowStep ==
  IInv /\ [Next]_vars => [RowNext]_rowVars
  <1> SUFFICES ASSUME IInv, [Next]_vars
               PROVE  [RowNext]_rowVars
    OBVIOUS
  <1>a. TypeOK /\ FreshCallsSeeTheRow /\ InsertingHoldsReservation
    BY DEF IInv
  <1>1. ASSUME NEW u \in Users, AssignWrite(u)
        PROVE  RowNext
    <2>1. target[u] \in Technicians
      BY <1>1, <1>a DEF AssignWrite, TypeOK
    <2>2. Assign(target[u])
      BY <1>1, <1>a DEF AssignWrite, CanWrite, FreshCallsSeeTheRow, Assign
    <2> QED
      BY <2>1, <2>2 DEF RowNext
  <1>2. CASE UnassignStep
    BY <1>2 DEF UnassignStep, RowNext
  <1>3. ASSUME NEW t \in Technicians, NEW action \in Actions, UpdateStep(t, action)
        PROVE  RowNext
    BY <1>3 DEF UpdateStep, RowNext
  <1>4. CASE CompleteStep
    BY <1>4 DEF CompleteStep, RowNext
  <1>5. ASSUME NEW c \in Customers, ReserveStep(c)
        PROVE  RowNext
    BY <1>5 DEF ReserveStep, CustomerStep, RowNext
  <1>6. ASSUME NEW c \in Customers, BookStep(c)
        PROVE  RowNext
    <2>1. booking = "reserved"
      BY <1>6, <1>a DEF BookStep, CustomerStep, InsertingHoldsReservation
    <2> QED
      BY <1>6, <2>1 DEF BookStep, CustomerStep, Book, RowNext
  <1>7. ASSUME NEW c \in Customers, UnreserveStep(c)
        PROVE  RowNext
    <2>1. booking = "reserved"
      BY <1>7, <1>a DEF UnreserveStep, CustomerStep, InsertingHoldsReservation
    <2> QED
      BY <1>7, <2>1 DEF UnreserveStep, CustomerStep, Unreserve, RowNext
  <1>8. ASSUME NEW c \in Customers, CancelStep(c)
        PROVE  RowNext
    BY <1>8 DEF CancelStep, CustomerStep, RowNext
  <1>9. ASSUME NEW c \in Customers, RestoreStep(c)
        PROVE  RowNext
    <2>1. booking = "none"
      BY <1>9, <1>a DEF RestoreStep, CustomerStep, InsertingHoldsReservation
    <2> QED
      BY <1>9, <2>1 DEF RestoreStep, CustomerStep, Restore, RowNext
  <1>10. ASSUME NEW u \in Users,
                \/ \E t \in Technicians : AssignRead(u, t)
                \/ GovernRead(u, "approve") \/ GovernRead(u, "revoke")
                \/ GovernWrite(u)
                \/ OverrideRead(u) \/ OverrideWrite(u)
                \/ CallLost(u)
         PROVE  UNCHANGED rowVars
    BY <1>10 DEF AssignRead, GovernRead, Begin, GovernWrite, OverrideRead,
                 OverrideWrite, CallLost, rowVars
  <1>11. ASSUME NEW c \in Customers, CustomerEnds(c)
         PROVE  UNCHANGED rowVars
    BY <1>11 DEF CustomerEnds, rowVars
  <1>12. CASE PaymentChanges
    BY <1>12 DEF PaymentChanges, rowVars
  <1>13. CASE UNCHANGED vars
    BY <1>13 DEF vars, rowVars
  <1> QED
    BY <1>1, <1>2, <1>3, <1>4, <1>5, <1>6, <1>7, <1>8, <1>9, <1>10, <1>11, <1>12,
       <1>13 DEF Next, UserNext, CustomerNext

(* The interleaved code implements the row's one-at-a-time specification.  *)
THEOREM CodeImplementsRow == Spec => ImplementsRow
  <1>1. Init => RowInit
    BY DEF Init
  <1> QED
    BY <1>1, WorkflowInvariant, RowStep, PTL DEF Spec, ImplementsRow, RowSpec

-----------------------------------------------------------------------------
(* Only the user's own write ends an assignment with a new assignee, and   *)
(* the row it writes is the row it read.                                   *)
LEMMA InformedStep ==
  ASSUME IInv, [Next]_vars,
         NEW u \in Users, Assigns(u), call'[u] = "none"
  PROVE  assignee = seenAssignee[u] /\ (Unlocked \/ seenPaid[u] # paid)
  <1>a. TypeOK /\ FreshCallsSeeTheRow
    BY DEF IInv
  <1>1. call[u] = "assign" /\ assignee' # assignee
    BY DEF Assigns
  <1>2. \A v \in Users : AssignWrite(v) => v = u
    BY <1>1, <1>a DEF AssignWrite, End, TypeOK
  <1>3. \A v \in Users : UserNext(v) => AssignWrite(v)
    BY <1>1 DEF UserNext, AssignRead, GovernRead, Begin, GovernWrite, OverrideRead,
                OverrideWrite, CallLost, rowVars
  <1>4. ~ UnassignStep /\ ~ CompleteStep /\ ~ PaymentChanges
    BY <1>1 DEF UnassignStep, CompleteStep, PaymentChanges, rowVars, callVars
  <1>5. \A t \in Technicians, action \in Actions : ~ UpdateStep(t, action)
    BY <1>1 DEF UpdateStep, callVars
  <1>6. \A c \in Customers : ~ CustomerNext(c)
    BY <1>1 DEF CustomerNext, ReserveStep, BookStep, UnreserveStep, CancelStep,
                RestoreStep, CustomerStep, CustomerEnds, callVars
  <1>7. ~ UNCHANGED vars
    BY <1>1 DEF vars, rowVars
  <1>8. AssignWrite(u)
    BY <1>2, <1>3, <1>4, <1>5, <1>6, <1>7 DEF Next
  <1> QED
    BY <1>8, <1>a, <1>1 DEF AssignWrite, CanWrite, FreshCallsSeeTheRow, Unlocked, TypeOK

(* No dispatcher ever replaces a technician they had not been shown, and   *)
(* only the payment row can have relocked the job since they looked.       *)
THEOREM AssignmentsAreInformed == Spec => AssignmentIsInformed
  <1>1. IInv /\ [Next]_vars =>
          [\A u \in Users : Assigns(u) /\ call'[u] = "none" =>
              /\ assignee = seenAssignee[u]
              /\ Unlocked \/ seenPaid[u] # paid]_vars
    BY InformedStep
  <1> QED
    BY <1>1, WorkflowInvariant, PTL DEF Spec, AssignmentIsInformed
=============================================================================
