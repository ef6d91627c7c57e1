------------------------------ MODULE Payments ------------------------------
(***************************************************************************)
(* The payment of one job: the operator's requests for a Stripe Checkout   *)
(* link (src/src/payments/payment-requests.service.ts), the signed webhook *)
(* deliveries that settle it (stripe-webhooks.service.ts), and Stripe with *)
(* the customer who holds a link (external).                               *)
(* A request is named by its idempotency key, and so is its session: while *)
(* Stripe remembers a key it answers every repetition of the request with  *)
(* the same session. Calls to the database, to Stripe and from Stripe      *)
(* interleave; only one statement, or one transaction, is atomic.          *)
(* The job is open, its pricing is valid and the connected account is      *)
(* ready: those checks of create() only refuse, and are left out.          *)
(***************************************************************************)
EXTENDS Naturals, FiniteSets

CONSTANTS
    Keys,       \* idempotency keys, chosen by the operators' browsers
    Callers,    \* create() calls that can be in progress at once
    Handlers,   \* webhook deliveries that can be in progress at once
    NoKey,      \* null: requestKeyHash, stripeCheckoutSessionId
    MaxEvents   \* bound: Stripe emits no other event than an expiry after so many

ASSUME PaymentAssumption == NoKey \notin Keys /\ MaxEvents \in Nat

VARIABLES
    status, refundStatus,   \* columns of the payment row; status NONE: no row
    key,            \* requestKeyHash
    session,        \* stripeCheckoutSessionId
    stale,          \* no session yet, REQUEST_RESERVATION_TIMEOUT_MS after requestedAt
    callerPc, callerKey,    \* create() calls: where each stands, its key
    fresh,          \* calls about to reserve whose snapshot has the row's updatedAt
    delivery,       \* the event each webhook delivery in progress carries
    snapshot,       \* the status it read before its transaction
    stripe,         \* external: where each session stands
    past,           \* external: the sessions whose expires_at has passed
    known,          \* links that left the backend, so that a customer may pay
    emitted,        \* external: events Stripe delivers, again and again
    processed,      \* StripeEvent rows
    transitions     \* history: how many times each event changed the row

rowVars == <<status, refundStatus, key, session, stale>>
callVars == <<callerPc, callerKey>>
webhookVars == <<delivery, snapshot, processed, transitions>>
stripeVars == <<stripe, past, emitted>>
vars == <<rowVars, callVars, fresh, webhookVars, stripeVars, known>>

PaymentStatus == {"PENDING", "SUCCEEDED", "FAILED", "CANCELED", "REFUNDED"}
RETRYABLE_PAYMENT_STATUSES == {"FAILED", "CANCELED", "REFUNDED"}
(* "unpaid" is checkout.session.completed before a bank debit has cleared;  *)
(* "completed" also stands for async_payment_succeeded.                    *)
Kinds == {"unpaid", "completed", "failed", "expired", "refund_partial", "refund_full"}
Event == Keys \X Kinds
NoDelivery == <<NoKey, "expired">>

(* A call read the payment and will reserve it, or found its own link      *)
(* active and replays it; then it holds a reservation, a session, or a     *)
(* provider failure it has yet to record.                                  *)
CallerPc == {"idle", "reserving", "replaying", "reserved", "created", "refused"}

TypeOK ==
    /\ status \in PaymentStatus \cup {"NONE"}
    /\ refundStatus \in {"NONE", "PARTIAL", "FULL"}
    /\ key \in Keys \cup {NoKey}
    /\ session \in Keys \cup {NoKey}
    /\ stale \in BOOLEAN
    /\ callerPc \in [Callers -> CallerPc]
    /\ callerKey \in [Callers -> Keys \cup {NoKey}]
    /\ \A c \in Callers : callerPc[c] # "idle" => callerKey[c] \in Keys
    /\ fresh \in SUBSET Callers
    /\ delivery \in [Handlers -> Event \cup {NoDelivery}]
    /\ snapshot \in [Handlers -> PaymentStatus \cup {"NONE"}]
    /\ stripe \in [Keys -> {"none", "open", "processing", "paid", "failed", "expired"}]
    /\ past \in SUBSET Keys
    /\ known \in SUBSET Keys
    /\ emitted \in SUBSET Event
    /\ processed \in SUBSET Event
    /\ transitions \in [Event -> Nat]

Init ==
    /\ status = "NONE"
    /\ refundStatus = "NONE"
    /\ key = NoKey
    /\ session = NoKey
    /\ stale = FALSE
    /\ callerPc = [c \in Callers |-> "idle"]
    /\ callerKey = [c \in Callers |-> NoKey]
    /\ fresh = {}
    /\ delivery = [h \in Handlers |-> NoDelivery]
    /\ snapshot = [h \in Handlers |-> "NONE"]
    /\ stripe = [k \in Keys |-> "none"]
    /\ past = {}
    /\ known = {}
    /\ emitted = {}
    /\ processed = {}
    /\ transitions = [ev \in Event |-> 0]

-----------------------------------------------------------------------------
(* create(), one step per await. *)

(* Mutant: a reservation without a session is never abandoned. *)
expiredOnly == status = "PENDING" /\ session # NoKey /\ session \in past

expiredOrAbandoned ==
    status = "PENDING" /\ (IF session # NoKey THEN session \in past ELSE stale)

Reusable == status \in RETRYABLE_PAYMENT_STATUSES \/ expiredOrAbandoned

Goto(c, step) == callerPc' = [callerPc EXCEPT ![c] = step] /\ UNCHANGED callerKey
Return(c) ==
    /\ callerPc' = [callerPc EXCEPT ![c] = "idle"]
    /\ callerKey' = [callerKey EXCEPT ![c] = NoKey]

Begin(c, k, step) ==
    /\ callerPc[c] = "idle"
    /\ callerPc' = [callerPc EXCEPT ![c] = step]
    /\ callerKey' = [callerKey EXCEPT ![c] = k]
    /\ UNCHANGED <<rowVars, webhookVars, stripeVars, known>>

(* The same key again while its link is active: the link is only repeated. *)
CreateReplay(c, k) ==
    /\ key = k /\ status = "PENDING" /\ session # NoKey /\ session \notin past
    /\ Begin(c, k, "replaying")
    /\ UNCHANGED fresh

(* A key whose link is recorded but inactive is refused, and so is any key *)
(* while another request is active or succeeded.                           *)
CreateRead(c, k) ==
    /\ status = "NONE" \/ Reusable
    /\ key = k => session = NoKey
    /\ Begin(c, k, "reserving")
    /\ fresh' = fresh \cup {c}

(* reserveRequest inserts the row, or updates it WHERE updatedAt is the    *)
(* snapshot's; a concurrent insert or write makes it lose.                 *)
CanReserve(c) == c \in fresh

Reserve(c) ==
    /\ callerPc[c] = "reserving"
    /\ CanReserve(c)
    /\ status' = "PENDING"
    /\ refundStatus' = "NONE"
    /\ key' = callerKey[c]
    /\ session' = NoKey
    /\ stale' = FALSE
    /\ fresh' = {}
    /\ Goto(c, "reserved")
    /\ UNCHANGED <<webhookVars, stripeVars, known>>

ReserveLost(c) ==
    /\ callerPc[c] = "reserving"
    /\ ~CanReserve(c)
    /\ Return(c)
    /\ UNCHANGED <<rowVars, fresh, webhookVars, stripeVars, known>>

(* Stripe creates the session of a key once, and repeats it afterwards. *)
OpenSession(k) ==
    /\ stripe' = [stripe EXCEPT ![k] = IF @ = "none" THEN "open" ELSE @]
    /\ UNCHANGED <<past, emitted>>

Asking(c) == callerPc[c] \in {"reserved", "replaying"}

CheckoutCreated(c) ==
    /\ Asking(c)
    /\ OpenSession(callerKey[c])
    /\ Goto(c, "created")
    /\ UNCHANGED <<rowVars, fresh, webhookVars, known>>

(* Stripe refuses, or the 15 s timeout ends a call that Stripe did serve:  *)
(* the catch block does not tell them apart.                               *)
CheckoutFails(c) ==
    /\ Asking(c)
    /\ OpenSession(callerKey[c]) \/ UNCHANGED stripeVars
    /\ IF callerPc[c] = "replaying" THEN Return(c) ELSE Goto(c, "refused")
    /\ UNCHANGED <<rowVars, fresh, webhookVars, known>>

(* recordCreated and recordFailure write WHERE the key is still theirs and *)
(* no session is recorded.                                                 *)
OwnsRow(c) == key = callerKey[c] /\ session = NoKey

(* The caller gets its link whether or not the row took it, unless the     *)
(* answer to the operator is lost.                                         *)
RecordCreated(c) ==
    /\ callerPc[c] = "created"
    /\ session' = IF OwnsRow(c) THEN callerKey[c] ELSE session
    /\ stale' = (stale /\ ~OwnsRow(c))
    /\ fresh' = IF OwnsRow(c) THEN {} ELSE fresh
    /\ known' \in {known, known \cup {callerKey[c]}}
    /\ Return(c)
    /\ UNCHANGED <<status, refundStatus, key, webhookVars, stripeVars>>

RecordFailure(c) ==
    /\ callerPc[c] = "refused"
    /\ status' = IF OwnsRow(c) THEN "FAILED" ELSE status
    /\ fresh' = IF OwnsRow(c) THEN {} ELSE fresh
    /\ Return(c)
    /\ UNCHANGED <<refundStatus, key, session, stale, webhookVars, stripeVars, known>>

(* A crash or a failed statement ends a call anywhere. *)
CallLost(c) ==
    /\ callerPc[c] # "idle"
    /\ Return(c)
    /\ fresh' = fresh \ {c}
    /\ UNCHANGED <<rowVars, webhookVars, stripeVars, known>>

ReservationAges ==
    /\ status = "PENDING" /\ session = NoKey /\ ~stale
    /\ stale' = TRUE
    /\ UNCHANGED <<status, refundStatus, key, session, callVars, fresh, webhookVars, stripeVars, known>>

(* recover(): the booking page asks for the link of the recorded session,  *)
(* if it is the pending payment's and Stripe calls it open.                *)
CheckoutIsOpen(k) == stripe[k] = "open" /\ k \notin past

Recover(k) ==
    /\ status = "PENDING" /\ session = k
    /\ CheckoutIsOpen(k)
    /\ known' = known \cup {k}
    /\ UNCHANGED <<rowVars, callVars, fresh, webhookVars, stripeVars>>

-----------------------------------------------------------------------------
(* receive(): findPayment reads the row, the transition is computed from   *)
(* that snapshot, and a transaction stores the event and applies it.       *)

(* Mutants: payment_status is not looked at; a success after FAILED or     *)
(* after REFUNDED, a failure after SUCCEEDED, and a partial refund, are    *)
(* treated alike.                                                          *)
SaysCompleted(kind) == kind \in {"unpaid", "completed"}
MaySucceedWhilePending(read) == read = "PENDING"
MaySucceedAlways(read) == TRUE
PartialIsFull(read) == "REFUNDED"

SaysPaid(kind) == kind = "completed"
MaySucceed(read) == read # "REFUNDED"
MayFail(read) == read = "PENDING"
AfterPartialRefund(read) == read

Transition(kind, read) ==
    CASE SaysPaid(kind) /\ MaySucceed(read)    -> "SUCCEEDED"
      [] kind = "failed" /\ MayFail(read)      -> "FAILED"
      [] kind = "expired" /\ MayFail(read)     -> "CANCELED"
      [] kind = "refund_partial"               -> AfterPartialRefund(read)
      [] kind = "refund_full"                  -> "REFUNDED"
      [] OTHER                                 -> "NONE"

RefundOf(kind) ==
    CASE kind = "refund_partial" -> "PARTIAL"
      [] kind = "refund_full"    -> "FULL"
      [] OTHER                   -> refundStatus

ReadEvent(h, ev) ==
    /\ delivery[h] = NoDelivery
    /\ ev \in emitted
    /\ delivery' = [delivery EXCEPT ![h] = ev]
    /\ snapshot' = [snapshot EXCEPT ![h] = status]
    /\ UNCHANGED <<rowVars, callVars, fresh, processed, transitions, stripeVars, known>>

Acknowledge(h) ==
    /\ delivery' = [delivery EXCEPT ![h] = NoDelivery]
    /\ snapshot' = [snapshot EXCEPT ![h] = "NONE"]

(* Mutant: a stored event is applied again. *)
AlwaysInserted(ev) == TRUE

(* createMany with skipDuplicates inserts nothing for a stored event. *)
Inserted(ev) == ev \notin processed

ApplyEvent(h) ==
    /\ delivery[h] # NoDelivery
    /\ LET ev == delivery[h]
           to == Transition(ev[2], snapshot[h])
           writes == Inserted(ev) /\ to # "NONE"
       IN  /\ processed' = processed \cup {ev}
           /\ status' = IF writes THEN to ELSE status
           /\ refundStatus' = IF writes THEN RefundOf(ev[2]) ELSE refundStatus
           /\ fresh' = IF writes THEN {} ELSE fresh
           /\ transitions' = [transitions EXCEPT ![ev] = IF writes THEN @ + 1 ELSE @]
    /\ Acknowledge(h)
    /\ UNCHANGED <<key, session, stale, callVars, stripeVars, known>>

(* A delivery that ends in an error or a crash; Stripe will repeat it. *)
DeliveryLost(h) ==
    /\ delivery[h] # NoDelivery
    /\ Acknowledge(h)
    /\ UNCHANGED <<rowVars, callVars, fresh, processed, transitions, stripeVars, known>>

-----------------------------------------------------------------------------
(* External: the customer and Stripe. *)

Emit(events) ==
    /\ Cardinality(emitted \cup events) <= MaxEvents
    /\ emitted' = emitted \cup events

Becomes(k, from, to, events) ==
    /\ stripe[k] = from
    /\ stripe' = [stripe EXCEPT ![k] = to]
    /\ Emit(events)
    /\ UNCHANGED <<rowVars, callVars, fresh, webhookVars, past, known>>

(* A card is charged at once, a bank debit days later; a declined card     *)
(* leaves the session open for another attempt.                            *)
CustomerPays(k) == k \in known /\ Becomes(k, "open", "paid", {<<k, "completed">>})
CustomerDebits(k) == k \in known /\ Becomes(k, "open", "processing", {<<k, "unpaid">>})
CardDeclined(k) == k \in known /\ <<k, "failed">> \notin emitted
                      /\ Becomes(k, "open", "open", {<<k, "failed">>})
DebitSucceeds(k) == Becomes(k, "processing", "paid", {<<k, "completed">>})
DebitFails(k) == Becomes(k, "processing", "failed", {<<k, "failed">>})
Refund(k, kind) == <<k, kind>> \notin emitted /\ Becomes(k, "paid", "paid", {<<k, kind>>})

SessionExpires(k) ==
    /\ stripe[k] # "none" /\ k \notin past
    /\ past' = past \cup {k}
    /\ stripe' = [stripe EXCEPT ![k] = IF @ = "open" THEN "expired" ELSE @]
    /\ emitted' = emitted \cup (IF stripe[k] = "open" THEN {<<k, "expired">>} ELSE {})
    /\ UNCHANGED <<rowVars, callVars, fresh, webhookVars, known>>

CallerNext(c) ==
    \/ \E k \in Keys : CreateReplay(c, k) \/ CreateRead(c, k)
    \/ Reserve(c) \/ ReserveLost(c)
    \/ CheckoutCreated(c) \/ CheckoutFails(c)
    \/ RecordCreated(c) \/ RecordFailure(c)
    \/ CallLost(c)

StripeNext(k) ==
    \/ CustomerPays(k) \/ CustomerDebits(k) \/ CardDeclined(k)
    \/ DebitSucceeds(k) \/ DebitFails(k)
    \/ Refund(k, "refund_partial") \/ Refund(k, "refund_full")
    \/ SessionExpires(k)

Next ==
    \/ \E c \in Callers : CallerNext(c)
    \/ ReservationAges
    \/ \E h \in Handlers : (\E ev \in Event : ReadEvent(h, ev)) \/ ApplyEvent(h) \/ DeliveryLost(h)
    \/ \E k \in Keys : Recover(k) \/ StripeNext(k)

Spec == Init /\ [][Next]_vars

(* Time passes, a delivery ends, and Stripe repeats it until one copy is   *)
(* acknowledged.                                                           *)
FairSpec ==
    /\ Spec
    /\ WF_vars(ReservationAges)
    /\ \A h \in Handlers : WF_vars(ApplyEvent(h) \/ DeliveryLost(h))
    /\ \A k \in Keys :
          /\ WF_vars(SessionExpires(k))
          /\ SF_vars(\E h \in Handlers : ReadEvent(h, <<k, "completed">>))
          /\ SF_vars(\E h \in Handlers : delivery[h] = <<k, "completed">> /\ ApplyEvent(h))

-----------------------------------------------------------------------------
(* Dispatch is unlocked by SUCCEEDED only if Stripe collected the money of *)
(* one of the job's sessions, though a partial refund writes back a status *)
(* read earlier and a retry reuses the row (transition, lines 230-293).    *)
SucceededMeansPaid == status = "SUCCEEDED" => \E k \in Keys : stripe[k] = "paid"

(* The recorded link is the one made for the current request, even when    *)
(* the answer to an abandoned request arrives after it was replaced        *)
(* (recordCreated, lines 569-580); and no customer holds a link to a       *)
(* session that Stripe did not create.                                     *)
LinkBelongsToRequest ==
    /\ session \in {key, NoKey}
    /\ \A k \in known \cup {session} : k # NoKey => stripe[k] # "none"

(* APP-012 report: "duplicate deliveries acknowledge without repeating     *)
(* payment or audit mutations", also when two copies are in progress.      *)
EventsApplyOnce == \A ev \in Event : transitions[ev] <= 1

(* A full refund is only ever recorded for money that was collected and    *)
(* refunded, and is erased only by a new request.                          *)
RefundsAreGenuine ==
    status = "REFUNDED" => \E k \in Keys : <<k, "refund_full">> \in emitted

(* The inductive invariant behind the properties above: what a delivery    *)
(* carries was emitted, and both the row and every snapshot that may be    *)
(* written back to it rest on the events that justify them.                *)
MayBeWritten(s) == status = s \/ \E h \in Handlers : snapshot[h] = s

EventsHaveCauses ==
    /\ \A h \in Handlers : delivery[h] # NoDelivery => delivery[h] \in emitted
    /\ \A k \in Keys : <<k, "completed">> \in emitted => stripe[k] = "paid"

StatusesHaveCauses ==
    /\ MayBeWritten("SUCCEEDED") => \E k \in Keys : stripe[k] = "paid"
    /\ MayBeWritten("REFUNDED") => \E k \in Keys : <<k, "refund_full">> \in emitted

CallsHaveSessions ==
    \A c \in Callers : callerPc[c] = "created" => stripe[callerKey[c]] # "none"

AppliedIsProcessed ==
    \A ev \in Event : transitions[ev] = 0 \/ (transitions[ev] = 1 /\ ev \in processed)

IInv ==
    /\ TypeOK
    /\ EventsHaveCauses
    /\ StatusesHaveCauses
    /\ CallsHaveSessions
    /\ AppliedIsProcessed
    /\ LinkBelongsToRequest

(* APP-012 report: "asynchronous failures, PaymentIntent failures and      *)
(* expired sessions transition only pending payments". It holds as long as *)
(* deliveries do not overlap; of two that do, the one whose failure found  *)
(* the payment PENDING writes over the other's success.                    *)
FailuresKeepSettled ==
    [][processed' # processed /\ status \in {"SUCCEEDED", "REFUNDED"}
          => status' \notin {"FAILED", "CANCELED"}]_vars

(* SESSION_HANDOFF: "Late success cannot overwrite a refunded state". *)
RefundIsNotUndone ==
    [][processed' # processed /\ status = "REFUNDED" => status' # "SUCCEEDED"]_vars

(* A request that gets no answer, or a link nobody pays, does not block    *)
(* the job: it succeeds, or a new request becomes possible.                *)
RequestsNeverBlock == status = "PENDING" ~> status = "SUCCEEDED" \/ Reusable

(* Money collected is recorded, and stays recorded: from every moment at   *)
(* which a session is paid, the payment is later SUCCEEDED or REFUNDED. It *)
(* holds for one request: the provider error of a second one is written    *)
(* over the success of the first (recordFailure, lines 614-656).           *)
PaidIsEventuallyRecorded ==
    \A k \in Keys : stripe[k] = "paid" ~> status \in {"SUCCEEDED", "REFUNDED"}
=============================================================================
