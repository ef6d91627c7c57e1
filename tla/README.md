# A TLA+ model of the Signmons CallDesk backend

This directory holds a formal model of the backend under `src/`: TLA+ modules
that follow the services' code, TLC configurations that model-check them on
small instances, and theorems that TLAPS proves for every size of instance.
Paths below are relative to `src/`, so `src/communications/...` is
`src/src/communications/...` in the whole tree.

## The system

CallDesk takes service requests for home-service contractors (a web chat with an
AI assistant), turns them into jobs, lets customers book and change
appointments, lets dispatchers assign technicians, collects deposits through
Stripe and texts customers through Twilio. It is a NestJS program; several
instances may run against one PostgreSQL database through Prisma. Node runs one
callback at a time, so an operation interleaves with others at every `await`,
and between instances at every statement. There are no explicit locks: safety
rests on conditional updates (`updateMany` with a `WHERE`, the count tested), on
unique indexes and on short transactions (READ COMMITTED). Where a value is read
in one statement and written in another, anything may happen in between; this is
what the models are about.

### Components

| Component | Sources | State | Operations | Hard behaviours | What makes it correct |
|---|---|---|---|---|---|
| SMS consent | `communications/sms-consent.service.ts` | one `SmsConsentRecord` per phone | verbal decision, STOP, START, HELP | START reads, then writes | a keyword never creates consent |
| SMS delivery | `communications/sms-delivery.service.ts`, `.worker.ts`, `twilio-sms.provider.ts` | `CommunicationEvent` rows: status, attempts, external id | create, processDue, deliver, replay, status callback | several workers, ambiguous timeouts, crashes, replays, callbacks in any order | at most one text per authorisation; bounded attempts; consent checked for every delivery |
| Payment requests | `payments/payment-requests.service.ts`, `stripe-checkout.provider.ts` | one `Payment` row per job | create, recover, governed exception | concurrent requests, provider timeouts, lost answers, crash between reservation and link | the link in the row is the owner's; no request blocks for ever |
| Stripe webhooks | `payments/stripe-webhooks.service.ts` | `Payment`, `StripeEvent` | receive | duplicated, late and concurrent events; bank debits that clear later | an event is applied once; paid means paid; refunds are final |
| Payment gate | `payments/payment-gate.policy.ts` | none (reads job and payment) | evaluatePaymentGate | reads a row the assignment does not lock | closed unless paid or excepted |
| Dispatch board | `jobs/dispatch-board.service.ts` | `Job`: assignee | list, get, assign, cancelAssignment, candidates, recommend | racing dispatchers and technicians; several reads in one READ COMMITTED transaction | an assignment replaces what its dispatcher saw; its technician is qualified and covered |
| Dispatch page | `ui/src/app/app/dispatch/page.tsx` | selected job, detail, links, the action in progress | load, assign, cancel, escalate, links, payment request | answers that arrive for a job no longer shown; stale details | what it lets be sent is accepted; what it assigns silently is what it shows |
| Technician workflow | `jobs/technician-workflow.service.ts` | `Job`: technicianStatus, status | update | stale links, reassignment | progress belongs to the assignee |
| Job lifecycle | `jobs/job-lifecycle.service.ts` | `Job`: status | completeJob | completed while a technician works | conditional on the version seen |
| Urgency review | `jobs/urgency-review.service.ts` | `Job.policySnapshot`, audit log | override, escalate | read-modify-write of a JSON column; check, notify, then record | within five minutes each page notifies once |
| Scheduling | `scheduling/scheduling.service.ts` | `Job`: window, event id; Google Calendar; audit log | offers, confirm, reschedule, cancel, the customer's answers | two stores, undo steps, timeouts, crashes; clock changes; answers read from the latest audit row | row and calendar agree; windows are service windows and never overlap; a confirmed window was chosen |
| Booking page | `ui/src/app/appointment/manage/page.tsx` | the booking it was last sent | view, confirm, request a reschedule, continue payment | acts on an old view while the chat moves the appointment | it shows what dispatch reads |
| Job intake | `jobs/jobs.service.ts`, `jobs/tools/` | `Job`, `Customer`, address | createJobFromToolCall | overlapping turns of one session, faults half-way | one job per session; confirmed means stored |
| Conversations, call log | `conversations/`, `logging/call-log*.ts` | `Conversation`, placeholder customers, encrypted log rows | ensure, link, append, close, clean up | clean-up races a new turn; two inserts without a transaction | sessions stay usable; idle ones are closed |
| AI triage | `ai/` | none of its own | triage, forced finalisation, tool calls | a model that repeats itself, claims what it did not do, or fails | nothing is asked twice; a cooperating customer gets the request saved |
| Routing, readiness | `jobs/routing.service.ts`, `jobs/intake-readiness.service.ts` | rules, areas, technicians' settings | save, configure, evaluate, summarise | two definitions of "ready"; fails open without rules | ready means unlocked; closing an area narrows |
| Job notifications | `jobs/job-notification.service.ts` | memory only | enqueue, deliver | background, no second attempt | every saved request reaches somebody |
| Technician links, auth, tenants, guards, reporting, controllers, config, other pages | the rest of `src/` and `ui/` | none or static | | | stateless checks and reads |

How they interact: payment requests and webhooks share the `Payment` row; the
dispatch board reads it through the gate; dispatch, technicians, lifecycle,
urgency review, payment exceptions and scheduling all write the `Job` row;
delivery reads the consent record. Technicians and customers act through signed
links, Stripe and Twilio through signed webhooks. A chat turn ensures its
conversation, reads the call log, asks the model, may save a job, link and log
it, and offers slots or notifies operations; scheduling appends the customer's
answers to the audit log, where the dispatch board reads them; the booking page
asks payment requests for the link it continues with.

## The modules

| Module | Models | Role |
|---|---|---|
| `SmsConsent` | the consent record and its three writers | specification |
| `SmsDelivery` | the delivery queue; EXTENDS `SmsConsent`, whose steps are steps of this one | composition |
| `SmsDeliveryProofs` | theorems | |
| `Payments` | payment requests, webhooks and Stripe's side of them | specification |
| `PaymentsProofs` | theorems | |
| `JobRow` | what one job row may do when every operation runs alone | abstract specification |
| `JobWorkflow` | the services' interleaved reads and conditional writes on that row, the payment gate and exceptions; implements `JobRow` | detailed specification |
| `JobWorkflowProofs` | theorems, the refinement among them | |
| `Appointments` | online booking against the Google calendar, for several jobs | specification |
| `AppointmentsProofs` | theorems | |
| `Slots` | arrival windows and the zone's clock, as operators | definitions |
| `Booking` | one appointment between chat, booking page and dispatch; EXTENDS `Slots` | composition |
| `BookingProofs` | theorems | |
| `CallLog` | log rows, the memory of a session, the idle clean-up | specification |
| `IntakeMemory` | what is concluded from the messages, and the guard on questions, as operators | definitions |
| `Dialogue` | turns of customers who wait for replies; EXTENDS `CallLog` and `IntakeMemory` | composition |
| `DialogueProofs` | theorems | |
| `IntakePromise` | what intake promises, in four atomic steps | abstract specification |
| `Intake` | overlapping turns, statement by statement; implements `IntakePromise` | detailed specification |
| `IntakeProofs` | theorems, the refinement among them | |
| `Routing` | payment gate, routing, candidates, queues and readiness, as operators | definitions |
| `Dispatch` | the dispatch page, the board's transactions and escalations beside changing rows and settings; EXTENDS `Routing` | composition |
| `DispatchProofs` | theorems | |
| `MC*` | constants and symmetry sets for TLC | instances |

An operator marked `(* Mutant: ... *)` is a deliberately wrong variant of the
definition that follows it. No specification uses one; putting it in the place
of the right definition makes the property named in `PROJECT.json` fail, which
shows that the property depends on that piece of code.

### SMS: `SmsConsent`, `SmsDelivery`

One row per idempotency key (`Events`): `status`, `attemptCount`, `externalId`,
`requestHash` are its columns and `waiting` says that `nextAttemptAt` lies in
the future. A worker (`pc`, `event`, `claim`, `attempts`) is one `deliver()`
call; each step ends at an `await`: found by `processDue`, claimed (one
conditional UPDATE), loaded, consent checked, posted, answered, recorded. The
`claim` number stands for the row's n-th claim and names the request that it
posts. External: `wire` holds requests Twilio has received and neither
accepted nor refused, `accepted` the texts the customer gets; Twilio may accept a request whose
caller has given up (`ResponseAmbiguous` leaves it on the wire). `released`
collects the claims that were given back for a retry. Operators replay in two
steps, as the code reads the status and then writes without testing it;
callbacks likewise.

Abstracted: message texts are the values of `Hashes`; quiet hours are a refusal
possible at any time; unreadable content is dead-lettered like a suppressed
recipient; `Abandon` is a crash or an exception outside the `try` block.

### Payments: `Payments`

One job and its `Payment` row (`status`, `refundStatus`, `key`, `session`,
`stale` for a reservation older than five minutes). A session is named by the
idempotency key that created it, because Stripe creates one per key.
`fresh` is the set of callers whose snapshot's `updatedAt` is still the row's:
every write of the row empties it, and `reserveRequest`'s conditional update
needs membership. `callerPc` is a `create()` call, `delivery`/`snapshot` a
`receive()` call between its read and its transaction. Stripe (external) keeps each session's
state, expiry (`past`) and the events it `emitted`; any emitted event may be
delivered again at any time, by any handler, in any order. `known` is the set
of links that left the backend, so that only those can be paid: the answer to
the operator may be lost, and the booking page can ask for the link again
(`Recover`).

Abstracted: amounts and currencies (so the 422 of `assertExpectedMoney` is not
modelled), the job's policy (a payment is required), the connected account.

### Jobs: `JobRow`, `JobWorkflow`

`JobRow` states each operation as one atomic step of the row. `JobWorkflow`
splits those that read in one statement and write in another: `assign`,
`governException` and `override` have a read and a write step. `updatedAt` is modelled by
`fresh`, the calls whose version is still the row's; `CanWrite` is the
`WHERE updatedAt = expected`. This assumes that two writes of one row never get
the same millisecond timestamp. Single-statement operations
(`UpdateStep`, `CompleteStep`, `UnassignStep`) are one step: their guard on the version and
their read lie in one transaction with a conditional write, so that a stale
call changes nothing. Booking and cancelling are seen from the row only: `Appointments`
has the details. The gate is `Unlocked`; `PaymentChanges` lets the payment row
change at any time.

### Appointments: `Appointments`

Each job has `status`, `window` and `eventId`, each call the job it `serves`; the calendar (external) maps event ids to
windows. A call walks through its operation one `await` at a time: busy check,
conditional row write, calendar request, completion or undo. `Request` is any
calendar request: it takes effect and is answered, is refused, or (a *fault*)
takes effect after the 8 s timeout has given it up. `Taken` is the unique index
on (tenant, window start, window end). `Crash` ends a call anywhere. The customer's
*confirm* and *request reschedule* write audit rows only and are in `Booking`; a
window is one of the fixed `SERVICE_WINDOWS`, so two windows are equal or
disjoint (which `Booking` checks).

### Booking: `Slots`, `Booking`

`Slots` translates the arithmetic: times are half hours, `Offset` is the zone's
offset at a UTC time, `ZonedTime` corrects its guess three times as `zonedTime`
does, `Candidates` and `Offers` are `buildCandidates` and `getAvailableSlots`.
`Booking` is one customer's job: the chat holds slot tokens (`slots`, with their
expiry) and books, moves and cancels one `await` at a time, while the booking
page views, confirms and asks for another time. An answer is an audit record;
`latest` is the one the code finds (`orderBy createdAt desc`), `answered` the
windows the customer has ever answered for (history). `call[c].read` is the row
as the call read it: `managementResponse` combines it with the activity as it is
by then, which is why the page's state is computed from two moments. `silent`
(history) marks the three cases in which a window becomes the customer's without
an answer to it: a new booking after an answer, an undone move, a late answer to
an appointment that was replaced. The calendar's failures are `Appointments`';
here a request and what follows it are one step.

### Intake: `IntakePromise`, `Intake`

A turn (`pc`, `session`) is a `triage()` call. `ensureConversation` finds the
conversation, or inserts a placeholder customer (unique phone `unknown-<session>`)
and then the conversation; `createJobFromToolCall` looks for the session's job,
inserts one and, on a violation of the unique `intakeSessionId`, reads the other
turn's; then the conversation is linked, the job logged, the session closed, and
slots are offered or operations notified. What the model says is a choice: an
answer, a tool call, or a claim of a submission that it did not make, which
leads to `forceJobFinalization` or to `handleOrphanedIntake`. `StatementFails` is
any failing statement, with the two places that catch it; `TurnLost` an instance
that stops. `told` is what each session was told, `sending` the notifications in
memory. The refinement: `saved` is `jobs`, `filed` the sessions both linked and
logged, `confirmed` those told of availability or a reference.

### Dialogue: `CallLog`, `IntakeMemory`, `Dialogue`

`CallLog` has the rows of each session as a sequence (messages and
`session_closed` markers). `RecentMessages` is what a turn is given: the rows
after the last marker, at most 40. The clean-up reads the stale messages of all
sessions in one query (`SweepReads`) and closes each later (`SweepCloses`);
`old` says how many rows lie before its cutoff, and a session is `Idle` when its latest
message does and follows the last marker; once the customer has left all rows may age. `IntakeMemory` translates the
patterns of `buildIntakeSnapshot`: a customer's message is the set of facts that
the patterns would find, an assistant's the set of fields it asks for;
`MustNotAsk` is `guardAgainstRepeatedQuestion`, `NextMissingQuestion` the
question that replaces a forbidden one. In `Dialogue` the model may ask for any
of `Questions` at every turn; only a forced tool choice binds it.

### Dispatch: `Routing`, `Dispatch`

`Routing` has the pure decisions: `Gate`, `RoutingOf` (`evaluateJob`), `Eligible`,
`Score` and `Recommend` (`candidates`, `recommend`), `Queue`, `MissingFields`. A
radius area is a set of ZIP codes. `Dispatch` puts a page in front of them:
`selected`, `shown`, `loading`, `links` and one `request` are React state
(`acting` lets one action run at a time, while details may still be loading).
`assign`'s transaction is three steps (`AssignRoutes`, `AssignRanks`,
`AssignWrites`), because READ COMMITTED shows each statement the rows of its own
moment; `fresh` is the comparison of `updatedAt`. `escalate` looks for a recent
audit, notifies and records in three steps; the audit may fail. Settings, rows
and payments change in between (`Others`). `calm` (history) says that nothing at
all changed since the detail was read.

## The runs

| Run | Checks | Instance | States |
|---|---|---|---|
| `sms_delivery` | `AtMostOneTextPerAuthorisation`, `AttemptsAreBounded`, `RetriedOnlyAfterRejection`, `SentMeansAccepted`, `SendingImpliesConsent`, `OneTextPerKey`, `FirstConsentIsVerbal`, `QueuedEventuallySettles` | 2 workers, 2 creators with different texts for one key, 1 operator, 1 callback handler, 1 START, 2 attempts, 1 replay, 1 crash, 2 consent changes | 534 k |
| `payments` | `SucceededMeansPaid`, `EventsApplyOnce`, `RefundsAreGenuine`, `RefundIsNotUndone`, `RequestsNeverBlock`, `PaidIsEventuallyRecorded` | 1 key, 2 callers, 1 handler, the 5 events one session can emit | 77 k |
| `payments_refund_undone` | `RefundIsNotUndone` (violated) | 2 handlers | |
| `payments_success_failed` | `FailuresKeepSettled` (violated) | 2 handlers | |
| `job_workflow` | `ProgressBelongsToAssignee`, `AssignmentIsInformed`, `ImplementsRow` | 2 technicians, 2 users, 2 customers | 113 k |
| `appointments` | `CalendarMatchesRow`, `NoStrayEvents`, `BookedRowsAreWhole`, `BookedEventExists` | 2 jobs, 2 calls at once on one of them or on both, 2 windows, 4 events, 2 faults | 427 k |
| `booking` | `ConfirmedWindowWasChosen`, `OffersAreServiceWindows`, `AppointmentsDoNotOverlap`, `DispatchSeesTheAnswer` | 1 chat, 1 page, 1 other change, 2 calendar events; Los Angeles, from a Friday over the change to summer time | 809 k |
| `intake` | `OnePerSession`, `SessionsStayUsable`, `ImplementsPromise`, `SavedRequestsAreAnnounced` | 1 session, 2 turns at once, 2 faults | 366 k |
| `intake_not_sent` | `NotSentIsTrue` (violated) | 1 session, 1 turn at a time, no faults | |
| `intake_dialogue` | `NeverAsksAgain`, `CooperationEndsInJob`, `IdleSessionsAreClosed` | 1 customer with up to 10 messages, 2 openings, 3 questions of the model, 1 mishap | 153 k |
| `intake_preparing` | `PreparingIsTrue` (violated) | 1 customer whose property is "a home", no mishap | |
| `dispatch` | `ReadyMeansUnlocked`, `SilentAssignmentsAreSound`, `BoardKeepsItsWord`, `ReadyWorkIsAssigned` | 1 page, 2 jobs (one booked), 2 technicians, 1 area, 2 rules, 1 change by others | 77 k |

What the properties say, and of which lines, stands in the comment above each in
its module.

The inductive invariants (`IInv` and those named below, each with its module's
`TypeOK`) are proved, and so are `SavedIsSaved` and `FollowUpIsAnnounced`, which
follow from `Intake`'s; no run repeats them.

### Bounds

* SMS: `MaxReplays`, `MaxCrashes`, `MaxConsentChanges`. One event is enough: rows
  share nothing but the recipient's consent, and deliveries in one batch are
  independent calls. Two workers make every pair of steps on one row meet;
  two consent changes are the opt-in and a STOP, or a STOP and a START. The code's
  three attempts are two here: one that may be repeated and the last. The theorems
  need none of these bounds to be small.
* Payments: `MaxEvents` bounds how many different events Stripe emits: five of
  six kinds for one session (no session emits all six). One key is one request
  that is repeated and retried; what two keys add for safety is proved, and what
  they add for liveness is the overwrite described under *disagree*. The run
  has one handler because `RefundIsNotUndone` needs it; the invariants are
  proved for any number.
* Jobs: none; the state space is finite.
* Appointments: `MaxEvents` calendar events ever inserted, `MaxFaults` faults. `serves`
  gives the calls their jobs: both the same one, or one each. `CalendarMatchesRow`
  and `NoStrayEvents` speak of the behaviours without faults in which no two calls
  serve one job (`OrderlyCalls`), `BookedEventExists` of those without faults;
  `BookedRowsAreWhole` of all. Refusals are not faults.
* Booking: `MaxNow` lets an hour pass, twice a slot token's life, so that tokens
  expire; the look-ahead of four days from Friday holds the weekend of the clock
  change and the Monday and the notice of three days lies within it; two calendar events are a booking and the next one
  after a cancellation; `MaxOthers` is one booking, completion or override
  by others; the windows they book are any that can be offered then. A single chat
  and a single page make every pair of an answer and a change of the appointment meet;
  two calls on one row are `Appointments`' subject.
* Intake: `MaxFaults` failing statements or cut-off turns. Sessions share
  nothing; two turns make every pair of steps meet; the theorems hold for any
  number.
* Dialogue: `Patience` is more than the six fields, the closing and the refused
  or failed turns need; `MaxMishaps` counts idle pauses of a customer who is still there, chatter, provider failures and refused
  arguments, which the liveness property cannot survive without a bound.
* Dispatch: `MaxEdits` is one change by others, failed request or lost audit between any two
  steps of the page. One page makes a dispatcher race those changes; two
  dispatchers on one row are `JobWorkflow`'s subject. `RuleForms` and
  `TechForms` hold one representative of every outcome the page distinguishes.

`CHECK_DEADLOCK FALSE` everywhere: a run stops when its bounded counters are
used up, and the system itself may rest with nothing to do.

### Fairness

* `sms_delivery` gives each worker weak fairness of its steps (the
  worker is started by a 60 s interval and an HTTP call to Twilio ends within
  8 s) and of the back-off's end (time passes). `QueuedEventuallySettles` speaks of behaviours
  without a crash: one after the claim leaves a row SENDING for good, as nothing in
  the code looks for such rows.
* `payments`: reservations age and sessions expire (time), a
  transaction begun ends. The *completed* event of a paid session has strong
  fairness for being read and for being applied, because Stripe repeats a delivery until it is
  acknowledged, for days. No other call is fair: a caller may crash anywhere.
* `intake`: every step of a turn in progress is weakly fair: each `await` is a
  database statement or a request with a timeout (`AI_TIMEOUT_MS`, 8 s for the
  calendar). New turns and faults are not fair.
* `intake_dialogue`: the customer goes on writing (or leaves, which ends the
  obligation), the model answers with a question or the tool call, and the
  clean-up is scheduled again and again (every 30 minutes) and finishes its
  sweep.
* `dispatch`: the server answers (timeouts again, weak fairness); a dispatcher
  who means to assign a job selects it and clicks the recommendation infinitely
  often while that is infinitely often possible (strong fairness). It is the
  user's perseverance, not the program's; without it nothing is ever assigned.
  `Patient` restricts the page to a dispatcher who waits for each answer before
  the next click; `SilentAssignmentsAreSound` depends on it, because
  a detail that arrives late replaces the one an assignment was clicked on.

### Refinement

* `JobWorkflow` implements `JobRow` (`ImplementsRow`): the interleaved services
  do to the row what its operations do one at a time.
* `Intake` implements `IntakePromise` (`Promise == INSTANCE IntakePromise WITH
  ...`): turns that overlap, fail or are cut off save, file and confirm in that order.

Both are checked by TLC and proved.

## What is proved

All proofs are checked by TLAPS, for any (finite or infinite where the
definitions allow it) sets of events, workers, keys, jobs and so on, and any value of
the numeric bounds. They rest on the named `ASSUME`s of the modules: null values are not members
of the sets they extend, bounds are naturals, `MAX_ATTEMPTS` is positive,
finiteness where a cardinality is taken, and in `Booking` what a time zone's clock
does (`ClockIsSound`: around a date that can be offered it changes at most once, by
two hours at most, and skips no hour that bounds a service window).

Some theorems hold under a hypothesis of their own, which TLC's runs satisfy too:

| Hypothesis | Theorems | Why it is there |
|---|---|---|
| one webhook handler | `SerialDeliveriesAreSafe` | `payments_refund_undone` and `payments_success_failed` show the losses with two |
| `Patient` | `SilentAssignments` | the page starts one action at a time, but a dispatcher may select another job before it ends |
| one chat | `ConfirmedMeansChosen` | with two, one may cancel and book anew between the other's move and its audit record, which then confirms a window nobody answered for (TLC finds it with `Chats = {c1, c2}`) |

* `SmsDeliveryProofs`: `TypeCorrect`; `Accounting` (`[]IInv`); and from it
  `AtMostOnce`, `BoundedAttempts`, `RetrySafety`. `AtMostOneTextPerAuthorisation` is not inductive: a
  replay may requeue a row while a delivery of it is in progress. `IInv` counts
  claims instead. `ClaimsAreAuthorised`: claims made, plus one if the row may be
  claimed again, are at most the authorisations plus the claims given back.
  `RequestsComeFromClaims` and `ClaimsHaveOneHolder`: every request has its own claim number, a
  claim given back has no request, so accepted texts are at most claims minus
  releases. `RowsComeFirst` says that nothing refers to a row before it exists.
  `SentTextsWereAccepted`, `DeliveriesHaveConsent` and `KeysNameOneText` each have an
  invariant of their own on top of `IInv`: what a worker or callback is about to
  write, what a worker that passed the check found, and which text each creator
  was told of. `ConsentIsVerbalFirst`: a START that is about to write has seen a record,
  and records are never deleted.
* `PaymentsProofs`: `PaymentInvariant` (`[]IInv`), `UnlockedMeansPaid`,
  `RefundedMeansRefunded`, `DeliveriesAreIdempotent`, `LinksAreOwned`. The invariant relates three
  places: events have causes at Stripe (`EventsHaveCauses`), and every status in
  the row *and in a handler's snapshot* has one (`StatusesHaveCauses`), since a partial
  refund writes the snapshot back. `SerialDeliveriesAreSafe`: with at most one
  handler, failures keep settled payments and a refund is not undone. Together
  with the violation runs this shows that concurrent deliveries are the only way to lose them.
* `JobWorkflowProofs`: `WorkflowInvariant` (`[]IInv`),
  `ProgressIsTheAssignees`, `AssignmentsAreInformed`, and `CodeImplementsRow`: every
  step of `JobWorkflow` is a step of `JobRow` or leaves the row alone. The
  invariant needs `FreshCallsSeeTheRow` (a call that may still write saw the row as it is)
  for the assignment, and `InsertingHoldsReservation` for the booking steps that write
  without a condition.
* `AppointmentsProofs`: `AppointmentInvariant` (`[]IInv`) and
  `AppointmentsAreWhole`, for any number of jobs, overlapping calls, faults and crashes.
  The event's id is stored without looking at the row (`Book`), so the proof needs
  that nothing can take the reservation away meanwhile (`BookingHoldsReservation`:
  moves and cancellations need an event id), that an event is known to the calls and
  the row of one job only (`EventsHaveOneJob`), and that every undo writes back a
  window and an event it has read (`MovesKeepWindows`). `BookedEventsExist`: as long as
  no fault happens, the event of a booked row is in the calendar; its invariant says which
  calls may still delete an event, and that no row names such an event.
  `RowsMatchTheCalendar` and `NoEventIsLeftBehind` speak of `OrderlyCalls` (no faults,
  one call to a job). They need `Agreement`, which says for each
  program counter of a call how far its row and its event have come apart
  (`CallsAndRowsAgree`), and that an event no row names is held by a call that will
  delete it (`EventsAreHeld`). Each step changes one job only (`OnlyItsOwn`), so that
  the proof looks at one call at a time.
* `IntakeProofs`: `OneRequestPerSession`, `ConfirmedRequestsAreOnFile`,
  `ReferencesAreAnnounced`, `SessionsAreNotStranded`, and `IntakeKeepsItsPromise`: every
  step of `Intake` is a step of `IntakePromise` or leaves it alone, for any number
  of sessions, turns and faults. The invariant says what is stored wherever a
  turn stands (`JobsInv`: past the insert the job exists, past the link it is linked, past
  the log it is logged) and that a turn between the two inserts is alone with
  its placeholder (`ConversationsInv`).
* `DispatchProofs`: `TypeCorrect`. `ReadyWorkIsUnlocked`: the board and the intake
  review define readiness each in its own way, and both imply the gate's.
  `SilentAssignments` by `PanelIsSelected` (what is shown, loading or requested is the
  selected job's) and by `AssignmentsAreAsFound`, which carries what
  each of `assign`'s reads found to the write, although READ COMMITTED lets every read
  see a later moment: the conditional write is what makes them one.
  `TheBoardKeepsItsWord` by `CalmIsCurrent`: while nothing changed since the detail
  was read, what the page shows is what `assign` reads (page and server compute
  the gate, the route and the ranking alike). `NoRepeatedEscalations` by
  `NoticesAreAudited`: an alert beyond the recorded ones is being audited by some page
  or has lost its audit, which is counted over the set of pages. It bounds what
  several pages do at once; no run has several.
* `BookingProofs`: `TypeCorrect`. The arithmetic comes first: that three corrections of
  the guess reach the wanted local time under `ClockIsSound`, that a window on a date is a service window,
  and that two service windows are equal or disjoint. With them `OffersAreKept` and
  `NoOverlap` are invariants of the row alone: the unique index refuses only equal windows, and
  that is enough. `DispatchSees`: the page computes its state from the row it read and
  the activity of a later moment, and tells the answer dispatch has then.
  `ConfirmedMeansChosen` by `ChosenInv`, which says of every call in progress what its
  answer will confirm, and when `silent` has been set.
* `DialogueProofs`: `TypeCorrect`. `NothingIsAskedTwice` by `AwareInv`: a turn in progress
  knows everything said since the last closing marker, or the session has been closed
  under it, in which case what it answers is judged by an empty memory. It holds
  whatever the model asks and whatever the patterns recognise.

### Only model-checked

Liveness, which is beyond the prover: `QueuedEventuallySettles`,
`RequestsNeverBlock`, `PaidIsEventuallyRecorded`, `SavedRequestsAreAnnounced`,
`CooperationEndsInJob`, `IdleSessionsAreClosed`, `ReadyWorkIsAssigned`. Every safety property of
the passing runs is the subject of a theorem, some under the hypotheses above.

## Where the code and its documents disagree

Each is a violation run; TLC prints the shortest behaviour.

* `payments_refund_undone`: "Late success cannot overwrite a refunded state" holds
  for one handler at a time; `receive` computes the new status from a row read
  before its transaction (`stripe-webhooks.service.ts:79`, `:106`).
* `payments_success_failed`: "asynchronous failures, PaymentIntent failures and expired
  sessions transition only pending payments" (`evidence/APP-012/readiness-report.md:78`)
  holds for one handler at a time too. A card is declined and the customer pays with
  another; the failure's delivery has read PENDING, the success is recorded, and the
  failure is written over it: the gate of a customer who has paid stays locked.
* `intake_preparing`: "I have the required details. I'm preparing the available
  appointment times now." (`ai.service.ts:547`) is said of a booking that is not ready.
  The question before it offers "a home" (`:545`); any answer to it counts as given
  (`Answered`), but only *residential*, *my home*, *house* and *homeowner* make the booking a
  residential one (`:408`), which is what forces the tool. If the model then asks again,
  the guard finds nothing missing and says the sentence.
* `intake_not_sent`: "I couldn't save this request, so it has not been sent" is
  also said, and operations alerted, when the session's request was saved by an earlier turn:
  `handleOrphanedIntake` does not look (`ai.service.ts:676`).

Further races that the models reach, without a run of their own, are listed
with their line under `hazards` in `PROJECT.json`: a second replay of a dead letter that requeues a
text already sent again under a new authorisation
(`sms-delivery.service.ts:222`); an urgency override that writes a revoked
payment exception back (`urgency-review.service.ts:91`); a PATCH that times out and is taken
not to have happened, so that "Your original time is still reserved" is false
(`scheduling.service.ts:730`); a START that undoes a later STOP; a text posted
after a STOP; a status callback that turns DELIVERED back; a claim that skips
the back-off; a provider error of a second payment request written over the
success of the first (`payment-requests.service.ts:614`); a technician's link that
reopens a job its operator completed; a cancellation confirmed while the first
one is rolled back; a checkout link shown beside another job when a dispatcher
does not wait (`page.tsx:172`); and a session whose customer is still writing that the clean-up closes,
because one of its messages is old (`call-log.cleanup.ts:76`). Two pages
that escalate at the same moment both notify operations (`urgency-review.service.ts:148`), although
`evidence/APP-007/readiness-report.md:18` has the clicks of five minutes share one result.

## What is not modelled, and why

* Prompts, model output and the wording of messages: the model is external and may say anything.
  What the patterns of `buildIntakeSnapshot` accept of a real sentence is taken as
  given: a message is the set of facts they find in it.
* Tokens and HMACs, HTTP and DTO validation, authentication, tenants and
  throttling: stateless checks before the modelled operations.
* Amounts and currencies of payments (`assertExpectedMoney`).
* Two tenants that share the Google calendar.
* Reporting, and the lists and transcripts that only read.
* The other pages of the web client: each shows one answer or posts one form.
* Configuration, migrations and scripts.

What could follow: an abstract text queue and an abstract payment ledger for
`SmsDelivery` and `Payments` to implement; the atomic operations of `Booking`'s row shown
to be those of `JobRow`.

## Running

    tlc -workers 2 -config sms_delivery.cfg MCSmsDelivery
    tlapm SmsDeliveryProofs.tla
