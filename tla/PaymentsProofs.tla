--------------------------- MODULE PaymentsProofs ---------------------------
(* Proofs about Payments for any number of idempotency keys, concurrent    *)
(* requests, webhook deliveries and Stripe events.                         *)
EXTENDS Payments, TLAPS

USE PaymentAssumption

(* The initial state satisfies the inductive invariant. *)
LEMMA IInvInit == Init => IInv
  <1> SUFFICES ASSUME Init
               PROVE  IInv
    OBVIOUS
  <1>1. TypeOK
    BY DEF Init, TypeOK, PaymentStatus, CallerPc, NoDelivery
  <1>2. EventsHaveCauses /\ StatusesHaveCauses
    BY DEF Init, EventsHaveCauses, StatusesHaveCauses, MayBeWritten
  <1>3. CallsHaveSessions /\ LinkBelongsToRequest
    BY DEF Init, CallsHaveSessions, LinkBelongsToRequest
  <1>4. AppliedIsProcessed
    BY DEF Init, AppliedIsProcessed
  <1> QED
    BY <1>1, <1>2, <1>3, <1>4 DEF IInv

(* Every step keeps the types. *)
LEMMA TypeStep ==
  TypeOK /\ [Next]_vars => TypeOK'
  <1> SUFFICES ASSUME TypeOK, [Next]_vars
               PROVE  TypeOK'
    OBVIOUS
  <1> USE DEF TypeOK, PaymentStatus, CallerPc, Event, Kinds, NoDelivery, rowVars,
       callVars, webhookVars, stripeVars
  <1>1. ASSUME NEW c \in Callers, NEW k \in Keys, CreateReplay(c, k)
        PROVE  TypeOK'
    BY <1>1 DEF CreateReplay, Begin
  <1>2. ASSUME NEW c \in Callers, NEW k \in Keys, CreateRead(c, k)
        PROVE  TypeOK'
    BY <1>2 DEF CreateRead, Begin
  <1>3. ASSUME NEW c \in Callers, Reserve(c)
        PROVE  TypeOK'
    BY <1>3 DEF Reserve, Goto
  <1>4. ASSUME NEW c \in Callers, ReserveLost(c)
        PROVE  TypeOK'
    BY <1>4 DEF ReserveLost, Return
  <1>5. ASSUME NEW c \in Callers, CheckoutCreated(c)
        PROVE  TypeOK'
    BY <1>5 DEF CheckoutCreated, Asking, OpenSession, Goto
  <1>6. ASSUME NEW c \in Callers, CheckoutFails(c)
        PROVE  TypeOK'
    <2>1. callerPc' \in [Callers -> CallerPc] /\ callerKey' \in [Callers -> Keys \cup {NoKey}]
      BY <1>6 DEF CheckoutFails, Asking, Goto, Return
    <2>2. stripe' \in [Keys -> {"none", "open", "paid", "processing", "failed", "expired"}]
      BY <1>6 DEF CheckoutFails, Asking, OpenSession
    <2>3. \A d \in Callers : callerPc'[d] # "idle" => callerKey'[d] \in Keys
      BY <1>6 DEF CheckoutFails, Asking, Goto, Return
    <2>4. UNCHANGED <<rowVars, fresh, webhookVars, known, past, emitted>>
      BY <1>6 DEF CheckoutFails, OpenSession
    <2> QED
      BY <2>1, <2>2, <2>3, <2>4
  <1>7. ASSUME NEW c \in Callers, RecordCreated(c)
        PROVE  TypeOK'
    BY <1>7 DEF RecordCreated, OwnsRow, Return
  <1>8. ASSUME NEW c \in Callers, RecordFailure(c)
        PROVE  TypeOK'
    BY <1>8 DEF RecordFailure, OwnsRow, Return
  <1>9. ASSUME NEW c \in Callers, CallLost(c)
        PROVE  TypeOK'
    BY <1>9 DEF CallLost, Return
  <1>10. CASE ReservationAges
    BY <1>10 DEF ReservationAges
  <1>11. ASSUME NEW h \in Handlers, NEW ev \in Event, ReadEvent(h, ev)
        PROVE  TypeOK'
    BY <1>11 DEF ReadEvent
  <1>12. ASSUME NEW h \in Handlers, ApplyEvent(h)
        PROVE  TypeOK'
    BY <1>12 DEF ApplyEvent, Acknowledge, Inserted, Transition, SaysPaid,
                 MaySucceed, MayFail, AfterPartialRefund, RefundOf
  <1>13. ASSUME NEW h \in Handlers, DeliveryLost(h)
        PROVE  TypeOK'
    BY <1>13 DEF DeliveryLost, Acknowledge
  <1>14. ASSUME NEW k \in Keys, CustomerPays(k)
        PROVE  TypeOK'
    BY <1>14 DEF CustomerPays, Becomes, Emit
  <1>15. ASSUME NEW k \in Keys, CustomerDebits(k)
        PROVE  TypeOK'
    BY <1>15 DEF CustomerDebits, Becomes, Emit
  <1>16. ASSUME NEW k \in Keys, CardDeclined(k)
        PROVE  TypeOK'
    BY <1>16 DEF CardDeclined, Becomes, Emit
  <1>17. ASSUME NEW k \in Keys, DebitSucceeds(k)
        PROVE  TypeOK'
    BY <1>17 DEF DebitSucceeds, Becomes, Emit
  <1>18. ASSUME NEW k \in Keys, DebitFails(k)
        PROVE  TypeOK'
    BY <1>18 DEF DebitFails, Becomes, Emit
  <1>19. ASSUME NEW k \in Keys, NEW kind \in {"refund_partial", "refund_full"}, Refund(k, kind)
        PROVE  TypeOK'
    BY <1>19 DEF Refund, Becomes, Emit
  <1>20. ASSUME NEW k \in Keys, SessionExpires(k)
        PROVE  TypeOK'
    BY <1>20 DEF SessionExpires, Emit
  <1>21. CASE UNCHANGED vars
    BY <1>21 DEF vars
  <1>22. ASSUME NEW k \in Keys, Recover(k)
        PROVE  TypeOK'
    BY <1>22 DEF Recover
  <1> HIDE DEF TypeOK, PaymentStatus, CallerPc, Event, Kinds, NoDelivery, rowVars,
       callVars, webhookVars, stripeVars
  <1> QED
    BY <1>1, <1>2, <1>3, <1>4, <1>5, <1>6, <1>7, <1>8, <1>9, <1>10, <1>11, <1>12,
         <1>13, <1>14, <1>15, <1>16, <1>17, <1>18, <1>19, <1>20, <1>21, <1>22 DEF Next,
         CallerNext, StripeNext

(* What a delivery carries stays emitted, and a completed session stays paid. *)
LEMMA EventsStep ==
  TypeOK /\ EventsHaveCauses /\ [Next]_vars => EventsHaveCauses'
  <1> SUFFICES ASSUME TypeOK, EventsHaveCauses, [Next]_vars
               PROVE  EventsHaveCauses'
    OBVIOUS
  <1> USE DEF TypeOK, EventsHaveCauses, Event, Kinds, NoDelivery, rowVars, callVars,
       webhookVars, stripeVars
  <1>1. ASSUME NEW c \in Callers, NEW k \in Keys, CreateReplay(c, k)
        PROVE  EventsHaveCauses'
    BY <1>1 DEF CreateReplay, Begin
  <1>2. ASSUME NEW c \in Callers, NEW k \in Keys, CreateRead(c, k)
        PROVE  EventsHaveCauses'
    BY <1>2 DEF CreateRead, Begin
  <1>3. ASSUME NEW c \in Callers, Reserve(c)
        PROVE  EventsHaveCauses'
    BY <1>3 DEF Reserve, Goto
  <1>4. ASSUME NEW c \in Callers, ReserveLost(c)
        PROVE  EventsHaveCauses'
    BY <1>4 DEF ReserveLost, Return
  <1>5. ASSUME NEW c \in Callers, CheckoutCreated(c)
        PROVE  EventsHaveCauses'
    BY <1>5 DEF CheckoutCreated, Asking, OpenSession, Goto
  <1>6. ASSUME NEW c \in Callers, CheckoutFails(c)
        PROVE  EventsHaveCauses'
    BY <1>6 DEF CheckoutFails, Asking, OpenSession, Goto, Return
  <1>7. ASSUME NEW c \in Callers, RecordCreated(c)
        PROVE  EventsHaveCauses'
    BY <1>7 DEF RecordCreated, OwnsRow, Return
  <1>8. ASSUME NEW c \in Callers, RecordFailure(c)
        PROVE  EventsHaveCauses'
    BY <1>8 DEF RecordFailure, OwnsRow, Return
  <1>9. ASSUME NEW c \in Callers, CallLost(c)
        PROVE  EventsHaveCauses'
    BY <1>9 DEF CallLost, Return
  <1>10. CASE ReservationAges
    BY <1>10 DEF ReservationAges
  <1>11. ASSUME NEW h \in Handlers, NEW ev \in Event, ReadEvent(h, ev)
        PROVE  EventsHaveCauses'
    BY <1>11 DEF ReadEvent
  <1>12. ASSUME NEW h \in Handlers, ApplyEvent(h)
        PROVE  EventsHaveCauses'
    BY <1>12 DEF ApplyEvent, Acknowledge, Inserted
  <1>13. ASSUME NEW h \in Handlers, DeliveryLost(h)
        PROVE  EventsHaveCauses'
    BY <1>13 DEF DeliveryLost, Acknowledge
  <1>14. ASSUME NEW k \in Keys, CustomerPays(k)
        PROVE  EventsHaveCauses'
    BY <1>14 DEF CustomerPays, Becomes, Emit
  <1>15. ASSUME NEW k \in Keys, CustomerDebits(k)
        PROVE  EventsHaveCauses'
    BY <1>15 DEF CustomerDebits, Becomes, Emit
  <1>16. ASSUME NEW k \in Keys, CardDeclined(k)
        PROVE  EventsHaveCauses'
    BY <1>16 DEF CardDeclined, Becomes, Emit
  <1>17. ASSUME NEW k \in Keys, DebitSucceeds(k)
        PROVE  EventsHaveCauses'
    BY <1>17 DEF DebitSucceeds, Becomes, Emit
  <1>18. ASSUME NEW k \in Keys, DebitFails(k)
        PROVE  EventsHaveCauses'
    BY <1>18 DEF DebitFails, Becomes, Emit
  <1>19. ASSUME NEW k \in Keys, NEW kind \in {"refund_partial", "refund_full"}, Refund(k, kind)
        PROVE  EventsHaveCauses'
    BY <1>19 DEF Refund, Becomes, Emit
  <1>20. ASSUME NEW k \in Keys, SessionExpires(k)
        PROVE  EventsHaveCauses'
    BY <1>20 DEF SessionExpires, Emit
  <1>21. CASE UNCHANGED vars
    BY <1>21 DEF vars
  <1>22. ASSUME NEW k \in Keys, Recover(k)
        PROVE  EventsHaveCauses'
    BY <1>22 DEF Recover
  <1> HIDE DEF TypeOK, EventsHaveCauses, Event, Kinds, NoDelivery, rowVars, callVars,
       webhookVars, stripeVars
  <1> QED
    BY <1>1, <1>2, <1>3, <1>4, <1>5, <1>6, <1>7, <1>8, <1>9, <1>10, <1>11, <1>12,
         <1>13, <1>14, <1>15, <1>16, <1>17, <1>18, <1>19, <1>20, <1>21, <1>22 DEF Next,
         CallerNext, StripeNext

(* Neither a write-back nor a new event leaves a status without its cause. *)
LEMMA StatusesStep ==
  TypeOK /\ EventsHaveCauses /\ StatusesHaveCauses /\ [Next]_vars => StatusesHaveCauses'
  <1> SUFFICES ASSUME TypeOK, EventsHaveCauses, StatusesHaveCauses, [Next]_vars
               PROVE  StatusesHaveCauses'
    OBVIOUS
  <1> USE DEF TypeOK, EventsHaveCauses, StatusesHaveCauses, MayBeWritten,
       PaymentStatus, Event, Kinds, NoDelivery, rowVars, callVars, webhookVars, stripeVars
  <1>1. ASSUME NEW c \in Callers, NEW k \in Keys, CreateReplay(c, k)
        PROVE  StatusesHaveCauses'
    BY <1>1 DEF CreateReplay, Begin
  <1>2. ASSUME NEW c \in Callers, NEW k \in Keys, CreateRead(c, k)
        PROVE  StatusesHaveCauses'
    BY <1>2 DEF CreateRead, Begin
  <1>3. ASSUME NEW c \in Callers, Reserve(c)
        PROVE  StatusesHaveCauses'
    BY <1>3 DEF Reserve, Goto
  <1>4. ASSUME NEW c \in Callers, ReserveLost(c)
        PROVE  StatusesHaveCauses'
    BY <1>4 DEF ReserveLost, Return
  <1>5. ASSUME NEW c \in Callers, CheckoutCreated(c)
        PROVE  StatusesHaveCauses'
    BY <1>5 DEF CheckoutCreated, Asking, OpenSession, Goto
  <1>6. ASSUME NEW c \in Callers, CheckoutFails(c)
        PROVE  StatusesHaveCauses'
    BY <1>6 DEF CheckoutFails, Asking, OpenSession, Goto, Return
  <1>7. ASSUME NEW c \in Callers, RecordCreated(c)
        PROVE  StatusesHaveCauses'
    BY <1>7 DEF RecordCreated, OwnsRow, Return
  <1>8. ASSUME NEW c \in Callers, RecordFailure(c)
        PROVE  StatusesHaveCauses'
    BY <1>8 DEF RecordFailure, OwnsRow, Return
  <1>9. ASSUME NEW c \in Callers, CallLost(c)
        PROVE  StatusesHaveCauses'
    BY <1>9 DEF CallLost, Return
  <1>10. CASE ReservationAges
    BY <1>10 DEF ReservationAges
  <1>11. ASSUME NEW h \in Handlers, NEW ev \in Event, ReadEvent(h, ev)
        PROVE  StatusesHaveCauses'
    <2>1. UNCHANGED <<status, stripe, emitted>> /\ snapshot' = [snapshot EXCEPT ![h] = status]
      BY <1>11 DEF ReadEvent
    <2>2. \A s : MayBeWritten(s)' => MayBeWritten(s)
      BY <2>1 DEF MayBeWritten
    <2> QED
      BY <2>1, <2>2 DEF StatusesHaveCauses
  <1>12. ASSUME NEW h \in Handlers, ApplyEvent(h)
        PROVE  StatusesHaveCauses'
    <2> DEFINE to == Transition(delivery[h][2], snapshot[h])
    <2>1. delivery[h] \in Event /\ delivery[h] \in emitted
      BY <1>12 DEF ApplyEvent
    <2>2. PICK k \in Keys, kind \in Kinds : delivery[h] = <<k, kind>>
      BY <2>1
    <2>3. delivery[h][2] = kind
      BY <2>2
    <2>4. to = "SUCCEEDED" => \E j \in Keys : stripe[j] = "paid"
      <3>1. CASE kind = "completed"
        BY <2>1, <2>2, <3>1
      <3>2. CASE kind # "completed"
        BY <2>3, <3>2 DEF Transition, SaysPaid, MaySucceed, MayFail, AfterPartialRefund
      <3> QED
        BY <3>1, <3>2
    <2>5. to = "REFUNDED" => \E j \in Keys : <<j, "refund_full">> \in emitted
      <3>1. CASE kind = "refund_full"
        BY <2>1, <2>2, <3>1
      <3>2. CASE kind # "refund_full"
        BY <2>3, <3>2 DEF Transition, SaysPaid, MaySucceed, MayFail, AfterPartialRefund
      <3> QED
        BY <3>1, <3>2
    <2>6. status' \in {status, to}
      BY <1>12 DEF ApplyEvent
    <2>7. \A g \in Handlers : snapshot'[g] \in {snapshot[g], "NONE"}
      BY <1>12 DEF ApplyEvent, Acknowledge
    <2>8. stripe' = stripe /\ emitted' = emitted
      BY <1>12 DEF ApplyEvent
    <2> HIDE DEF to
    <2> QED
      BY <2>4, <2>5, <2>6, <2>7, <2>8
  <1>13. ASSUME NEW h \in Handlers, DeliveryLost(h)
        PROVE  StatusesHaveCauses'
    BY <1>13 DEF DeliveryLost, Acknowledge
  <1>14. ASSUME NEW k \in Keys, CustomerPays(k)
        PROVE  StatusesHaveCauses'
    BY <1>14 DEF CustomerPays, Becomes, Emit
  <1>15. ASSUME NEW k \in Keys, CustomerDebits(k)
        PROVE  StatusesHaveCauses'
    BY <1>15 DEF CustomerDebits, Becomes, Emit
  <1>16. ASSUME NEW k \in Keys, CardDeclined(k)
        PROVE  StatusesHaveCauses'
    BY <1>16 DEF CardDeclined, Becomes, Emit
  <1>17. ASSUME NEW k \in Keys, DebitSucceeds(k)
        PROVE  StatusesHaveCauses'
    BY <1>17 DEF DebitSucceeds, Becomes, Emit
  <1>18. ASSUME NEW k \in Keys, DebitFails(k)
        PROVE  StatusesHaveCauses'
    BY <1>18 DEF DebitFails, Becomes, Emit
  <1>19. ASSUME NEW k \in Keys, NEW kind \in {"refund_partial", "refund_full"}, Refund(k, kind)
        PROVE  StatusesHaveCauses'
    BY <1>19 DEF Refund, Becomes, Emit
  <1>20. ASSUME NEW k \in Keys, SessionExpires(k)
        PROVE  StatusesHaveCauses'
    BY <1>20 DEF SessionExpires, Emit
  <1>21. CASE UNCHANGED vars
    BY <1>21 DEF vars
  <1>22. ASSUME NEW k \in Keys, Recover(k)
        PROVE  StatusesHaveCauses'
    BY <1>22 DEF Recover
  <1> HIDE DEF TypeOK, EventsHaveCauses, StatusesHaveCauses, MayBeWritten,
       PaymentStatus, Event, Kinds, NoDelivery, rowVars, callVars, webhookVars, stripeVars
  <1> QED
    BY <1>1, <1>2, <1>3, <1>4, <1>5, <1>6, <1>7, <1>8, <1>9, <1>10, <1>11, <1>12,
         <1>13, <1>14, <1>15, <1>16, <1>17, <1>18, <1>19, <1>20, <1>21, <1>22 DEF Next,
         CallerNext, StripeNext

(* Links and calls in progress keep pointing at sessions Stripe created. *)
LEMMA LinksStep ==
  TypeOK /\ CallsHaveSessions /\ LinkBelongsToRequest /\ [Next]_vars => (CallsHaveSessions /\ LinkBelongsToRequest)'
  <1> SUFFICES ASSUME TypeOK, CallsHaveSessions, LinkBelongsToRequest, [Next]_vars
               PROVE  (CallsHaveSessions /\ LinkBelongsToRequest)'
    OBVIOUS
  <1> USE DEF TypeOK, CallsHaveSessions, LinkBelongsToRequest, CallerPc, rowVars,
       callVars, webhookVars, stripeVars
  <1>1. ASSUME NEW c \in Callers, NEW k \in Keys, CreateReplay(c, k)
        PROVE  (CallsHaveSessions /\ LinkBelongsToRequest)'
    BY <1>1 DEF CreateReplay, Begin
  <1>2. ASSUME NEW c \in Callers, NEW k \in Keys, CreateRead(c, k)
        PROVE  (CallsHaveSessions /\ LinkBelongsToRequest)'
    BY <1>2 DEF CreateRead, Begin
  <1>3. ASSUME NEW c \in Callers, Reserve(c)
        PROVE  (CallsHaveSessions /\ LinkBelongsToRequest)'
    BY <1>3 DEF Reserve, Goto
  <1>4. ASSUME NEW c \in Callers, ReserveLost(c)
        PROVE  (CallsHaveSessions /\ LinkBelongsToRequest)'
    BY <1>4 DEF ReserveLost, Return
  <1>5. ASSUME NEW c \in Callers, CheckoutCreated(c)
        PROVE  (CallsHaveSessions /\ LinkBelongsToRequest)'
    BY <1>5 DEF CheckoutCreated, Asking, OpenSession, Goto
  <1>6. ASSUME NEW c \in Callers, CheckoutFails(c)
        PROVE  (CallsHaveSessions /\ LinkBelongsToRequest)'
    BY <1>6 DEF CheckoutFails, Asking, OpenSession, Goto, Return
  <1>7. ASSUME NEW c \in Callers, RecordCreated(c)
        PROVE  (CallsHaveSessions /\ LinkBelongsToRequest)'
    BY <1>7 DEF RecordCreated, OwnsRow, Return
  <1>8. ASSUME NEW c \in Callers, RecordFailure(c)
        PROVE  (CallsHaveSessions /\ LinkBelongsToRequest)'
    BY <1>8 DEF RecordFailure, OwnsRow, Return
  <1>9. ASSUME NEW c \in Callers, CallLost(c)
        PROVE  (CallsHaveSessions /\ LinkBelongsToRequest)'
    BY <1>9 DEF CallLost, Return
  <1>10. CASE ReservationAges
    BY <1>10 DEF ReservationAges
  <1>11. ASSUME NEW h \in Handlers, NEW ev \in Event, ReadEvent(h, ev)
        PROVE  (CallsHaveSessions /\ LinkBelongsToRequest)'
    BY <1>11 DEF ReadEvent
  <1>12. ASSUME NEW h \in Handlers, ApplyEvent(h)
        PROVE  (CallsHaveSessions /\ LinkBelongsToRequest)'
    BY <1>12 DEF ApplyEvent, Acknowledge, Inserted
  <1>13. ASSUME NEW h \in Handlers, DeliveryLost(h)
        PROVE  (CallsHaveSessions /\ LinkBelongsToRequest)'
    BY <1>13 DEF DeliveryLost, Acknowledge
  <1>14. ASSUME NEW k \in Keys, CustomerPays(k)
        PROVE  (CallsHaveSessions /\ LinkBelongsToRequest)'
    BY <1>14 DEF CustomerPays, Becomes, Emit
  <1>15. ASSUME NEW k \in Keys, CustomerDebits(k)
        PROVE  (CallsHaveSessions /\ LinkBelongsToRequest)'
    BY <1>15 DEF CustomerDebits, Becomes, Emit
  <1>16. ASSUME NEW k \in Keys, CardDeclined(k)
        PROVE  (CallsHaveSessions /\ LinkBelongsToRequest)'
    BY <1>16 DEF CardDeclined, Becomes, Emit
  <1>17. ASSUME NEW k \in Keys, DebitSucceeds(k)
        PROVE  (CallsHaveSessions /\ LinkBelongsToRequest)'
    BY <1>17 DEF DebitSucceeds, Becomes, Emit
  <1>18. ASSUME NEW k \in Keys, DebitFails(k)
        PROVE  (CallsHaveSessions /\ LinkBelongsToRequest)'
    BY <1>18 DEF DebitFails, Becomes, Emit
  <1>19. ASSUME NEW k \in Keys, NEW kind \in {"refund_partial", "refund_full"}, Refund(k, kind)
        PROVE  (CallsHaveSessions /\ LinkBelongsToRequest)'
    BY <1>19 DEF Refund, Becomes, Emit
  <1>20. ASSUME NEW k \in Keys, SessionExpires(k)
        PROVE  (CallsHaveSessions /\ LinkBelongsToRequest)'
    BY <1>20 DEF SessionExpires, Emit
  <1>21. CASE UNCHANGED vars
    BY <1>21 DEF vars
  <1>22. ASSUME NEW k \in Keys, Recover(k)
        PROVE  (CallsHaveSessions /\ LinkBelongsToRequest)'
    BY <1>22 DEF Recover
  <1> HIDE DEF TypeOK, CallsHaveSessions, LinkBelongsToRequest, CallerPc, rowVars,
       callVars, webhookVars, stripeVars
  <1> QED
    BY <1>1, <1>2, <1>3, <1>4, <1>5, <1>6, <1>7, <1>8, <1>9, <1>10, <1>11, <1>12,
         <1>13, <1>14, <1>15, <1>16, <1>17, <1>18, <1>19, <1>20, <1>21, <1>22 DEF Next,
         CallerNext, StripeNext

(* An event changes the row only when it is stored for the first time. *)
LEMMA AppliedStep ==
  TypeOK /\ AppliedIsProcessed /\ [Next]_vars => AppliedIsProcessed'
  <1> SUFFICES ASSUME TypeOK, AppliedIsProcessed, [Next]_vars
               PROVE  AppliedIsProcessed'
    OBVIOUS
  <1> USE DEF TypeOK, AppliedIsProcessed, Event, Kinds, NoDelivery, rowVars, callVars,
       webhookVars, stripeVars
  <1>1. ASSUME NEW c \in Callers, NEW k \in Keys, CreateReplay(c, k)
        PROVE  AppliedIsProcessed'
    BY <1>1 DEF CreateReplay, Begin
  <1>2. ASSUME NEW c \in Callers, NEW k \in Keys, CreateRead(c, k)
        PROVE  AppliedIsProcessed'
    BY <1>2 DEF CreateRead, Begin
  <1>3. ASSUME NEW c \in Callers, Reserve(c)
        PROVE  AppliedIsProcessed'
    BY <1>3 DEF Reserve, Goto
  <1>4. ASSUME NEW c \in Callers, ReserveLost(c)
        PROVE  AppliedIsProcessed'
    BY <1>4 DEF ReserveLost, Return
  <1>5. ASSUME NEW c \in Callers, CheckoutCreated(c)
        PROVE  AppliedIsProcessed'
    BY <1>5 DEF CheckoutCreated, Asking, OpenSession, Goto
  <1>6. ASSUME NEW c \in Callers, CheckoutFails(c)
        PROVE  AppliedIsProcessed'
    BY <1>6 DEF CheckoutFails, Asking, OpenSession, Goto, Return
  <1>7. ASSUME NEW c \in Callers, RecordCreated(c)
        PROVE  AppliedIsProcessed'
    BY <1>7 DEF RecordCreated, OwnsRow, Return
  <1>8. ASSUME NEW c \in Callers, RecordFailure(c)
        PROVE  AppliedIsProcessed'
    BY <1>8 DEF RecordFailure, OwnsRow, Return
  <1>9. ASSUME NEW c \in Callers, CallLost(c)
        PROVE  AppliedIsProcessed'
    BY <1>9 DEF CallLost, Return
  <1>10. CASE ReservationAges
    BY <1>10 DEF ReservationAges
  <1>11. ASSUME NEW h \in Handlers, NEW ev \in Event, ReadEvent(h, ev)
        PROVE  AppliedIsProcessed'
    BY <1>11 DEF ReadEvent
  <1>12. ASSUME NEW h \in Handlers, ApplyEvent(h)
        PROVE  AppliedIsProcessed'
    BY <1>12 DEF ApplyEvent, Acknowledge, Inserted
  <1>13. ASSUME NEW h \in Handlers, DeliveryLost(h)
        PROVE  AppliedIsProcessed'
    BY <1>13 DEF DeliveryLost, Acknowledge
  <1>14. ASSUME NEW k \in Keys, CustomerPays(k)
        PROVE  AppliedIsProcessed'
    BY <1>14 DEF CustomerPays, Becomes, Emit
  <1>15. ASSUME NEW k \in Keys, CustomerDebits(k)
        PROVE  AppliedIsProcessed'
    BY <1>15 DEF CustomerDebits, Becomes, Emit
  <1>16. ASSUME NEW k \in Keys, CardDeclined(k)
        PROVE  AppliedIsProcessed'
    BY <1>16 DEF CardDeclined, Becomes, Emit
  <1>17. ASSUME NEW k \in Keys, DebitSucceeds(k)
        PROVE  AppliedIsProcessed'
    BY <1>17 DEF DebitSucceeds, Becomes, Emit
  <1>18. ASSUME NEW k \in Keys, DebitFails(k)
        PROVE  AppliedIsProcessed'
    BY <1>18 DEF DebitFails, Becomes, Emit
  <1>19. ASSUME NEW k \in Keys, NEW kind \in {"refund_partial", "refund_full"}, Refund(k, kind)
        PROVE  AppliedIsProcessed'
    BY <1>19 DEF Refund, Becomes, Emit
  <1>20. ASSUME NEW k \in Keys, SessionExpires(k)
        PROVE  AppliedIsProcessed'
    BY <1>20 DEF SessionExpires, Emit
  <1>21. CASE UNCHANGED vars
    BY <1>21 DEF vars
  <1>22. ASSUME NEW k \in Keys, Recover(k)
        PROVE  AppliedIsProcessed'
    BY <1>22 DEF Recover
  <1> HIDE DEF TypeOK, AppliedIsProcessed, Event, Kinds, NoDelivery, rowVars,
       callVars, webhookVars, stripeVars
  <1> QED
    BY <1>1, <1>2, <1>3, <1>4, <1>5, <1>6, <1>7, <1>8, <1>9, <1>10, <1>11, <1>12,
         <1>13, <1>14, <1>15, <1>16, <1>17, <1>18, <1>19, <1>20, <1>21, <1>22 DEF Next,
         CallerNext, StripeNext

(* IInv is inductive. *)
LEMMA IInvStep ==
  IInv /\ [Next]_vars => IInv'
  BY TypeStep, EventsStep, StatusesStep, LinksStep, AppliedStep DEF IInv

(* The inductive invariant holds along every behaviour, TypeOK with it. *)
THEOREM PaymentInvariant == Spec => []IInv
  <1> QED
    BY IInvInit, IInvStep, PTL DEF Spec

(* Dispatch is never unlocked by a payment Stripe did not collect, for any *)
(* number of requests, deliveries and events.                              *)
THEOREM UnlockedMeansPaid == Spec => []SucceededMeansPaid
  <1>1. IInv => SucceededMeansPaid
    BY DEF IInv, StatusesHaveCauses, MayBeWritten, SucceededMeansPaid
  <1> QED
    BY <1>1, PaymentInvariant, PTL

(* A payment reads REFUNDED only if Stripe refunded one in full. *)
THEOREM RefundedMeansRefunded == Spec => []RefundsAreGenuine
  <1>1. IInv => RefundsAreGenuine
    BY DEF IInv, StatusesHaveCauses, MayBeWritten, RefundsAreGenuine
  <1> QED
    BY <1>1, PaymentInvariant, PTL

(* However often and however concurrently an event is delivered, it changes *)
(* the payment at most once.                                                *)
THEOREM DeliveriesAreIdempotent == Spec => []EventsApplyOnce
  <1>1. IInv => EventsApplyOnce
    BY DEF IInv, AppliedIsProcessed, EventsApplyOnce
  <1> QED
    BY <1>1, PaymentInvariant, PTL

(* The recorded link belongs to the request the row is reserved for. *)
THEOREM LinksAreOwned == Spec => []LinkBelongsToRequest
  <1>1. IInv => LinkBelongsToRequest
    BY DEF IInv
  <1> QED
    BY <1>1, PaymentInvariant, PTL
(* With one delivery at a time, a snapshot taken of a settled payment is   *)
(* still right when it is used: no other writer settles the row.           *)
SnapshotsAreCurrent ==
    \A h \in Handlers :
        delivery[h] # NoDelivery /\ status \in {"SUCCEEDED", "REFUNDED"} => snapshot[h] = status

(* One delivery at a time keeps SnapshotsAreCurrent. *)
LEMMA SerialStep ==
  TypeOK /\ (\A g, h \in Handlers : g = h) /\ SnapshotsAreCurrent /\ [Next]_vars => SnapshotsAreCurrent'
  <1> SUFFICES ASSUME TypeOK, (\A g, h \in Handlers : g = h), SnapshotsAreCurrent, [Next]_vars
               PROVE  SnapshotsAreCurrent'
    OBVIOUS
  <1> USE DEF TypeOK, SnapshotsAreCurrent, PaymentStatus, Event, Kinds, NoDelivery,
       rowVars, callVars, webhookVars, stripeVars
  <1>1. ASSUME NEW c \in Callers, NEW k \in Keys, CreateReplay(c, k)
        PROVE  SnapshotsAreCurrent'
    BY <1>1 DEF CreateReplay, Begin
  <1>2. ASSUME NEW c \in Callers, NEW k \in Keys, CreateRead(c, k)
        PROVE  SnapshotsAreCurrent'
    BY <1>2 DEF CreateRead, Begin
  <1>3. ASSUME NEW c \in Callers, Reserve(c)
        PROVE  SnapshotsAreCurrent'
    BY <1>3 DEF Reserve, Goto
  <1>4. ASSUME NEW c \in Callers, ReserveLost(c)
        PROVE  SnapshotsAreCurrent'
    BY <1>4 DEF ReserveLost, Return
  <1>5. ASSUME NEW c \in Callers, CheckoutCreated(c)
        PROVE  SnapshotsAreCurrent'
    BY <1>5 DEF CheckoutCreated, Asking, OpenSession, Goto
  <1>6. ASSUME NEW c \in Callers, CheckoutFails(c)
        PROVE  SnapshotsAreCurrent'
    BY <1>6 DEF CheckoutFails, Asking, OpenSession, Goto, Return
  <1>7. ASSUME NEW c \in Callers, RecordCreated(c)
        PROVE  SnapshotsAreCurrent'
    BY <1>7 DEF RecordCreated, OwnsRow, Return
  <1>8. ASSUME NEW c \in Callers, RecordFailure(c)
        PROVE  SnapshotsAreCurrent'
    BY <1>8 DEF RecordFailure, OwnsRow, Return
  <1>9. ASSUME NEW c \in Callers, CallLost(c)
        PROVE  SnapshotsAreCurrent'
    BY <1>9 DEF CallLost, Return
  <1>10. CASE ReservationAges
    BY <1>10 DEF ReservationAges
  <1>11. ASSUME NEW h \in Handlers, NEW ev \in Event, ReadEvent(h, ev)
        PROVE  SnapshotsAreCurrent'
    BY <1>11 DEF ReadEvent
  <1>12. ASSUME NEW h \in Handlers, ApplyEvent(h)
        PROVE  SnapshotsAreCurrent'
    BY <1>12 DEF ApplyEvent, Acknowledge, Inserted
  <1>13. ASSUME NEW h \in Handlers, DeliveryLost(h)
        PROVE  SnapshotsAreCurrent'
    BY <1>13 DEF DeliveryLost, Acknowledge
  <1>14. ASSUME NEW k \in Keys, CustomerPays(k)
        PROVE  SnapshotsAreCurrent'
    BY <1>14 DEF CustomerPays, Becomes, Emit
  <1>15. ASSUME NEW k \in Keys, CustomerDebits(k)
        PROVE  SnapshotsAreCurrent'
    BY <1>15 DEF CustomerDebits, Becomes, Emit
  <1>16. ASSUME NEW k \in Keys, CardDeclined(k)
        PROVE  SnapshotsAreCurrent'
    BY <1>16 DEF CardDeclined, Becomes, Emit
  <1>17. ASSUME NEW k \in Keys, DebitSucceeds(k)
        PROVE  SnapshotsAreCurrent'
    BY <1>17 DEF DebitSucceeds, Becomes, Emit
  <1>18. ASSUME NEW k \in Keys, DebitFails(k)
        PROVE  SnapshotsAreCurrent'
    BY <1>18 DEF DebitFails, Becomes, Emit
  <1>19. ASSUME NEW k \in Keys, NEW kind \in {"refund_partial", "refund_full"}, Refund(k, kind)
        PROVE  SnapshotsAreCurrent'
    BY <1>19 DEF Refund, Becomes, Emit
  <1>20. ASSUME NEW k \in Keys, SessionExpires(k)
        PROVE  SnapshotsAreCurrent'
    BY <1>20 DEF SessionExpires, Emit
  <1>21. CASE UNCHANGED vars
    BY <1>21 DEF vars
  <1>22. ASSUME NEW k \in Keys, Recover(k)
        PROVE  SnapshotsAreCurrent'
    BY <1>22 DEF Recover
  <1> HIDE DEF TypeOK, SnapshotsAreCurrent, PaymentStatus, Event, Kinds, NoDelivery,
       rowVars, callVars, webhookVars, stripeVars
  <1> QED
    BY <1>1, <1>2, <1>3, <1>4, <1>5, <1>6, <1>7, <1>8, <1>9, <1>10, <1>11, <1>12,
         <1>13, <1>14, <1>15, <1>16, <1>17, <1>18, <1>19, <1>20, <1>21, <1>22 DEF Next,
         CallerNext, StripeNext

(* If Stripe's deliveries never overlap, a failure cannot take a success   *)
(* away and a late success cannot undo a refund: the two races that TLC    *)
(* finds need two deliveries in progress.                                  *)
THEOREM SerialDeliveriesAreSafe ==
  ASSUME \A g, h \in Handlers : g = h
  PROVE  Spec => FailuresKeepSettled /\ RefundIsNotUndone
  <1>1. Init => SnapshotsAreCurrent
    BY DEF Init, SnapshotsAreCurrent
  <1>2. IInv /\ SnapshotsAreCurrent /\ [Next]_vars => SnapshotsAreCurrent'
    BY SerialStep DEF IInv
  <1>3. ASSUME IInv, SnapshotsAreCurrent, [Next]_vars, processed' # processed
        PROVE  /\ status \in {"SUCCEEDED", "REFUNDED"} => status' \notin {"FAILED", "CANCELED"}
               /\ status = "REFUNDED" => status' # "SUCCEEDED"
    <2>1. PICK h \in Handlers : ApplyEvent(h)
      BY <1>3 DEF Next, vars, rowVars, callVars, webhookVars, stripeVars, CallerNext,
           StripeNext,
                 CreateReplay, CreateRead, Begin, Reserve, ReserveLost, CheckoutCreated, CheckoutFails,
                 RecordCreated, RecordFailure, CallLost, ReservationAges, Recover, ReadEvent, DeliveryLost,
                 CustomerPays, CustomerDebits, CardDeclined, DebitSucceeds, DebitFails, Refund, Becomes,
                 SessionExpires
    <2>2. status \in {"SUCCEEDED", "REFUNDED"} => snapshot[h] = status
      BY <1>3, <2>1 DEF SnapshotsAreCurrent, ApplyEvent
    <2>3. status' \in {status, Transition(delivery[h][2], snapshot[h])}
      BY <2>1 DEF ApplyEvent
    <2>4. /\ status = "SUCCEEDED"
               => Transition(delivery[h][2], status) \in {"SUCCEEDED", "REFUNDED", "NONE"}
          /\ status = "REFUNDED" => Transition(delivery[h][2], status) \in {"REFUNDED", "NONE"}
      BY DEF Transition, SaysPaid, MaySucceed, MayFail, AfterPartialRefund
    <2> QED
      BY <2>2, <2>3, <2>4
  <1> QED
    BY <1>1, <1>2, <1>3, PaymentInvariant, PTL DEF Spec, FailuresKeepSettled,
         RefundIsNotUndone
=============================================================================
