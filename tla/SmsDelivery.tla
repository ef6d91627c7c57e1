----------------------------- MODULE SmsDelivery -----------------------------
(***************************************************************************)
(* The outbound SMS outbox, src/src/communications/sms-delivery.service.ts,*)
(* with the consent records it consults, the operator's replay, the Twilio *)
(* status callback, and Twilio itself (external).                          *)
(* A CommunicationEvent row is one record of variables indexed by event.   *)
(* Every call in progress (a caller of create, a deliver() of some worker  *)
(* process, an operator's replay, a callback request) takes one step per   *)
(* database or network await; only statements inside one UPDATE are atomic.*)
(* A claim of an event is numbered, and the number stands for the request  *)
(* that the claim sends to Twilio and for the message id Twilio returns.   *)
(***************************************************************************)
EXTENDS SmsConsent, FiniteSets

CONSTANTS
    Events,         \* rows, one per (tenant, idempotency key)
    Hashes,         \* request hashes: what a caller asked to send
    Callers,        \* concurrent create() calls
    Workers,        \* concurrent deliver() calls, of one or more processes
    Operators,      \* concurrent replayDeadLetter() calls
    Handlers,       \* concurrent applyStatus() calls
    Recipient,      \* the phone each event is addressed to
    NoEvent, NoHash,
    MAX_ATTEMPTS,   \* the code's constant, 3
    MaxReplays,     \* bound: replays of one event
    MaxCrashes      \* bound: deliver() calls lost to a crash or an exception

ASSUME DeliveryAssumption ==
    /\ Recipient \in [Events -> Phones]
    /\ NoEvent \notin Events
    /\ NoHash \notin Hashes
    /\ MAX_ATTEMPTS \in Nat \ {0}
    /\ MaxReplays \in Nat
    /\ MaxCrashes \in Nat

VARIABLES
    status, attemptCount, externalId,   \* columns of the row; externalId 0 is null
    waiting,        \* nextAttemptAt is in the future
    requestHash,    \* content.payload.requestHash
    caller,         \* create() calls past their consent check
    answered,       \* requests that create() answered with the row's id
    pc, event, claim,   \* deliver() calls: where each stands, its row, its claim number
    attempts,           \* the attemptCount it read back
    moved,              \* history: consent has changed since it started
    operator,       \* replays that read DEAD_LETTER and have not written yet
    handler,        \* callbacks that read the row and have not written yet
    wire,           \* requests on their way to Twilio
    accepted,       \* requests Twilio accepted: texts sent
    claims,         \* history: how many times the event was claimed
    released,       \* history: claims given back as FAILED
    replays,        \* history: how many replays were written
    crashes

rowVars == <<status, attemptCount, externalId, waiting, requestHash>>
historyVars == <<claims, released, replays>>
workerVars == <<pc, event, claim, attempts, moved>>
deliveryVars == <<rowVars, caller, answered, workerVars, operator, handler,
                  wire, accepted, historyVars, crashes>>
vars == <<consentVars, deliveryVars>>

Status == {"ABSENT", "QUEUED", "SENDING", "SENT", "DELIVERED", "FAILED", "DEAD_LETTER"}
Claimable == {"QUEUED", "FAILED"}
Reported == {"SENT", "DELIVERED", "DEAD_LETTER"}    \* what mapStatus makes of a callback

(* Where a deliver() call stands: it found the event due, claimed it, read *)
(* the row back, passed the consent check, posted to Twilio, and then has  *)
(* a message id, a retry-safe rejection, or an outcome to dead-letter.     *)
WorkerPc == {"idle", "found", "claimed", "loaded", "cleared", "sending", "sent", "retry", "dead"}
NoCallback == [ev |-> NoEvent, to |-> "SENT"]
NoRequest == [ev |-> NoEvent, hash |-> NoHash]

TypeOK ==
    /\ ConsentTypeOK
    /\ status \in [Events -> Status]
    /\ attemptCount \in [Events -> 0..MAX_ATTEMPTS]
    /\ externalId \in [Events -> Nat]
    /\ waiting \in [Events -> BOOLEAN]
    /\ requestHash \in [Events -> Hashes \cup {NoHash}]
    /\ caller \in [Callers -> [ev : Events, hash : Hashes] \cup {NoRequest}]
    /\ answered \in SUBSET (Events \X Hashes)
    /\ pc \in [Workers -> WorkerPc]
    /\ event \in [Workers -> Events \cup {NoEvent}]
    /\ \A w \in Workers : pc[w] # "idle" => event[w] \in Events
    /\ claim \in [Workers -> Nat]
    /\ attempts \in [Workers -> 0..MAX_ATTEMPTS]
    /\ moved \in [Workers -> BOOLEAN]
    /\ operator \in [Operators -> Events \cup {NoEvent}]
    /\ handler \in [Handlers -> [ev : Events, to : Reported] \cup {NoCallback}]
    /\ wire \in [Events -> SUBSET Nat]
    /\ accepted \in [Events -> SUBSET Nat]
    /\ claims \in [Events -> Nat]
    /\ released \in [Events -> SUBSET Nat]
    /\ replays \in [Events -> 0..MaxReplays]
    /\ crashes \in 0..MaxCrashes

Init ==
    /\ ConsentInit
    /\ status = [e \in Events |-> "ABSENT"]
    /\ attemptCount = [e \in Events |-> 0]
    /\ externalId = [e \in Events |-> 0]
    /\ waiting = [e \in Events |-> FALSE]
    /\ requestHash = [e \in Events |-> NoHash]
    /\ caller = [c \in Callers |-> NoRequest]
    /\ answered = {}
    /\ pc = [w \in Workers |-> "idle"]
    /\ event = [w \in Workers |-> NoEvent]
    /\ claim = [w \in Workers |-> 0]
    /\ attempts = [w \in Workers |-> 0]
    /\ moved = [w \in Workers |-> FALSE]
    /\ operator = [o \in Operators |-> NoEvent]
    /\ handler = [h \in Handlers |-> NoCallback]
    /\ wire = [e \in Events |-> {}]
    /\ accepted = [e \in Events |-> {}]
    /\ claims = [e \in Events |-> 0]
    /\ released = [e \in Events |-> {}]
    /\ replays = [e \in Events |-> 0]
    /\ crashes = 0

-----------------------------------------------------------------------------
(* evaluateOutbound: the record must say OPTED_IN and the recipient's      *)
(* local hour must lie outside the quiet hours; the hour is not modelled,  *)
(* so a refusal is possible at any time.                                   *)
MayText(e) == consent[Recipient[e]] = "OPTED_IN"

CreateEvaluated(c, e, h) ==
    /\ caller[c] = NoRequest
    /\ MayText(e)
    /\ caller' = [caller EXCEPT ![c] = [ev |-> e, hash |-> h]]
    /\ UNCHANGED <<consentVars, rowVars, answered, workerVars, operator, handler,
                   wire, accepted, historyVars, crashes>>

(* Mutant: a row found under the key answers any request. *)
AnyText(c, row) == TRUE

(* The upsert never updates an existing row; a row another request created *)
(* under the same key answers only a caller that asks for the same text,   *)
(* any other gets a ConflictException.                                     *)
SameText(c, row) == row = caller[c].hash

CreateUpsert(c) ==
    /\ caller[c] # NoRequest
    /\ LET e == caller[c].ev
           row == IF status[e] = "ABSENT" THEN caller[c].hash ELSE requestHash[e]
       IN  /\ status' = [status EXCEPT ![e] = IF @ = "ABSENT" THEN "QUEUED" ELSE @]
           /\ requestHash' = [requestHash EXCEPT ![e] = row]
           /\ answered' = IF SameText(c, row) THEN answered \cup {<<e, caller[c].hash>>} ELSE answered
    /\ caller' = [caller EXCEPT ![c] = NoRequest]
    /\ UNCHANGED <<consentVars, attemptCount, externalId, waiting, workerVars, operator, handler,
                   wire, accepted, historyVars, crashes>>

-----------------------------------------------------------------------------
(* deliver(), one worker step per await. *)

At(w, step) == pc[w] = step
Goto(w, step) ==
    /\ pc' = [pc EXCEPT ![w] = step]
    /\ UNCHANGED <<event, claim, attempts, moved>>
Finish(w) ==
    /\ pc' = [pc EXCEPT ![w] = "idle"]
    /\ event' = [event EXCEPT ![w] = NoEvent]
    /\ claim' = [claim EXCEPT ![w] = 0]
    /\ attempts' = [attempts EXCEPT ![w] = 0]
    /\ moved' = [moved EXCEPT ![w] = FALSE]

UnchangedElsewhere == UNCHANGED <<consentVars, requestHash, caller, answered, operator, handler, crashes>>

(* processDue reads the due rows of its batch; time passes before each is claimed. *)
FindDue(w, e) ==
    /\ At(w, "idle")
    /\ status[e] \in Claimable
    /\ ~waiting[e]
    /\ attemptCount[e] < MAX_ATTEMPTS
    /\ pc' = [pc EXCEPT ![w] = "found"]
    /\ event' = [event EXCEPT ![w] = e]
    /\ UNCHANGED <<claim, attempts, moved>>
    /\ UNCHANGED <<rowVars, wire, accepted, historyVars>>
    /\ UnchangedElsewhere

(* Mutant: the claim does not test the status. *)
CanClaimAnyStatus(e) == attemptCount[e] < MAX_ATTEMPTS

(* The claim is one conditional UPDATE. It does not test nextAttemptAt again. *)
CanClaim(e) == status[e] \in Claimable /\ attemptCount[e] < MAX_ATTEMPTS
(* Mutant: the claim does not count the attempt. *)
UncountedAttempt(e) == attemptCount[e]

NextAttempt(e) == attemptCount[e] + 1

Claim(w) ==
    /\ At(w, "found")
    /\ LET e == event[w]
       IN  /\ CanClaim(e)
           /\ status' = [status EXCEPT ![e] = "SENDING"]
           /\ attemptCount' = [attemptCount EXCEPT ![e] = NextAttempt(e)]
           /\ waiting' = [waiting EXCEPT ![e] = FALSE]
           /\ claims' = [claims EXCEPT ![e] = @ + 1]
           /\ claim' = [claim EXCEPT ![w] = claims[e] + 1]
    /\ pc' = [pc EXCEPT ![w] = "claimed"]
    /\ moved' = [moved EXCEPT ![w] = FALSE]
    /\ UNCHANGED <<event, attempts, externalId, wire, accepted, released, replays>>
    /\ UnchangedElsewhere

(* count # 1: the ConflictException is swallowed by Promise.allSettled. *)
ClaimLost(w) ==
    /\ At(w, "found")
    /\ ~CanClaim(event[w])
    /\ Finish(w)
    /\ UNCHANGED <<rowVars, wire, accepted, historyVars>>
    /\ UnchangedElsewhere

Load(w) ==
    /\ At(w, "claimed")
    /\ pc' = [pc EXCEPT ![w] = "loaded"]
    /\ attempts' = [attempts EXCEPT ![w] = attemptCount[event[w]]]
    /\ UNCHANGED <<event, claim, moved>>
    /\ UNCHANGED <<rowVars, wire, accepted, historyVars>>
    /\ UnchangedElsewhere

(* Mutant: the check made when the text was created is relied on. *)
SkipConsent(w) ==
    /\ At(w, "loaded")
    /\ Goto(w, "cleared")
    /\ UNCHANGED <<rowVars, wire, accepted, historyVars>>
    /\ UnchangedElsewhere

(* The check made for this delivery; unreadable content is refused like a  *)
(* suppressed recipient.                                                   *)
CheckConsent(w) ==
    /\ At(w, "loaded")
    /\ \E step \in {"cleared", "dead"} :
          /\ step = "cleared" => MayText(event[w])
          /\ Goto(w, step)
    /\ UNCHANGED <<rowVars, wire, accepted, historyVars>>
    /\ UnchangedElsewhere

PostToProvider(w) ==
    /\ At(w, "cleared")
    /\ wire' = [wire EXCEPT ![event[w]] = @ \cup {claim[w]}]
    /\ Goto(w, "sending")
    /\ UNCHANGED <<rowVars, accepted, historyVars>>
    /\ UnchangedElsewhere

(* What TwilioSmsProvider.send makes of the outcome. A timeout or an       *)
(* unusable body of a 2xx answer leaves the request wherever it is.        *)
ResponseAccepted(w) ==
    /\ At(w, "sending")
    /\ claim[w] \in accepted[event[w]]
    /\ Goto(w, "sent")
    /\ UNCHANGED <<rowVars, wire, accepted, historyVars>>
    /\ UnchangedElsewhere

ResponseRejected(w) ==
    /\ At(w, "sending")
    /\ claim[w] \in wire[event[w]]
    /\ wire' = [wire EXCEPT ![event[w]] = @ \ {claim[w]}]
    /\ \E step \in {"retry", "dead"} : Goto(w, step)   \* 429 and 5xx, or any other status
    /\ UNCHANGED <<rowVars, accepted, historyVars>>
    /\ UnchangedElsewhere

(* Mutants: a timeout counts as a rejection, or as a success. *)
AmbiguousIsRejected == "retry"
AmbiguousIsAccepted == "sent"

AfterAmbiguous == "dead"

ResponseAmbiguous(w) ==
    /\ At(w, "sending")
    /\ Goto(w, AfterAmbiguous)
    /\ UNCHANGED <<rowVars, wire, accepted, historyVars>>
    /\ UnchangedElsewhere

(* The unconditional UPDATE to SENT; when it fails, the catch block takes  *)
(* the error for an unknown provider outcome.                              *)
RecordSent(w) ==
    /\ At(w, "sent")
    /\ status' = [status EXCEPT ![event[w]] = "SENT"]
    /\ externalId' = [externalId EXCEPT ![event[w]] = claim[w]]
    /\ Finish(w)
    /\ UNCHANGED <<attemptCount, waiting, wire, accepted, historyVars>>
    /\ UnchangedElsewhere

RecordSentFails(w) ==
    /\ At(w, "sent")
    /\ Goto(w, "dead")
    /\ UNCHANGED <<rowVars, wire, accepted, historyVars>>
    /\ UnchangedElsewhere

(* Mutant: one retry too many is scheduled. *)
MayRetryOnceMore(w) == attempts[w] <= MAX_ATTEMPTS

MayRetry(w) == attempts[w] < MAX_ATTEMPTS

RecordRetry(w) ==
    /\ At(w, "retry")
    /\ MayRetry(w)
    /\ LET e == event[w]
       IN  /\ status' = [status EXCEPT ![e] = "FAILED"]
           /\ waiting' = [waiting EXCEPT ![e] = TRUE]
           /\ released' = [released EXCEPT ![e] = @ \cup {claim[w]}]
    /\ Finish(w)
    /\ UNCHANGED <<attemptCount, externalId, wire, accepted, claims, replays>>
    /\ UnchangedElsewhere

DeadLetter(w) ==
    /\ \/ At(w, "dead")
       \/ At(w, "retry") /\ ~MayRetry(w)
    /\ status' = [status EXCEPT ![event[w]] = "DEAD_LETTER"]
    /\ waiting' = [waiting EXCEPT ![event[w]] = FALSE]
    /\ Finish(w)
    /\ UNCHANGED <<attemptCount, externalId, wire, accepted, historyVars>>
    /\ UnchangedElsewhere

(* A crash, or an exception outside the try block (identity, decryption,   *)
(* a failed write): the row stays as it is.                                *)
Abandon(w) ==
    /\ ~At(w, "idle")
    /\ crashes < MaxCrashes
    /\ crashes' = crashes + 1
    /\ Finish(w)
    /\ UNCHANGED <<consentVars, rowVars, caller, answered, operator, handler,
                   wire, accepted, historyVars>>

BackoffElapses(e) ==
    /\ waiting[e]
    /\ waiting' = [waiting EXCEPT ![e] = FALSE]
    /\ UNCHANGED <<status, attemptCount, externalId, workerVars, wire, accepted, historyVars>>
    /\ UnchangedElsewhere

-----------------------------------------------------------------------------
(* External: Twilio accepts a request it has received, even one whose      *)
(* caller has stopped waiting.                                             *)
ProviderAccepts(e, n) ==
    /\ n \in wire[e]
    /\ wire' = [wire EXCEPT ![e] = @ \ {n}]
    /\ accepted' = [accepted EXCEPT ![e] = @ \cup {n}]
    /\ UNCHANGED <<rowVars, workerVars, historyVars>>
    /\ UnchangedElsewhere

(* replayDeadLetter: the status is read, then written unconditionally. *)
ReplayRead(o, e) ==
    /\ operator[o] = NoEvent
    /\ status[e] = "DEAD_LETTER"
    /\ replays[e] < MaxReplays
    /\ operator' = [operator EXCEPT ![o] = e]
    /\ UNCHANGED <<consentVars, rowVars, caller, answered, workerVars, handler,
                   wire, accepted, historyVars, crashes>>

ReplayWrite(o) ==
    /\ operator[o] # NoEvent
    /\ LET e == operator[o]
       IN  /\ replays[e] < MaxReplays
           /\ status' = [status EXCEPT ![e] = "QUEUED"]
           /\ attemptCount' = [attemptCount EXCEPT ![e] = 0]
           /\ externalId' = [externalId EXCEPT ![e] = 0]
           /\ waiting' = [waiting EXCEPT ![e] = FALSE]
           /\ replays' = [replays EXCEPT ![e] = @ + 1]
    /\ operator' = [operator EXCEPT ![o] = NoEvent]
    /\ UNCHANGED <<consentVars, requestHash, caller, answered, workerVars, handler,
                   wire, accepted, claims, released, crashes>>

(* applyStatus: Twilio may report any status of a message it accepted, any *)
(* number of times and in any order. The row is found by its message id,   *)
(* ranked against the report, and updated by its own id a moment later.    *)
StatusRank(s) ==
    CASE s = "DELIVERED"   -> 4
      [] s = "DEAD_LETTER" -> 3
      [] s = "SENT"        -> 2
      [] OTHER             -> 1

CallbackRead(h, e, n, s) ==
    /\ handler[h] = NoCallback
    /\ n \in accepted[e]
    /\ externalId[e] = n
    /\ StatusRank(s) > StatusRank(status[e])
    /\ handler' = [handler EXCEPT ![h] = [ev |-> e, to |-> s]]
    /\ UNCHANGED <<consentVars, rowVars, caller, answered, workerVars, operator,
                   wire, accepted, historyVars, crashes>>

CallbackWrite(h) ==
    /\ handler[h] # NoCallback
    /\ status' = [status EXCEPT ![handler[h].ev] = handler[h].to]
    /\ handler' = [handler EXCEPT ![h] = NoCallback]
    /\ UNCHANGED <<consentVars, attemptCount, externalId, waiting, requestHash, caller, answered,
                   workerVars, operator, wire, accepted, historyVars, crashes>>

-----------------------------------------------------------------------------
(* A consent write is noted by the deliveries in progress for that phone. *)
ConsentChange ==
    /\ ConsentNext
    /\ moved' = [w \in Workers |-> ~At(w, "idle") /\ (moved[w] \/ consent' # consent)]
    /\ UNCHANGED <<pc, event, claim, attempts, rowVars, caller, answered, operator, handler,
                   wire, accepted, historyVars, crashes>>

WorkerStep(w) ==
    \/ \E e \in Events : FindDue(w, e)
    \/ Claim(w)
    \/ ClaimLost(w)
    \/ Load(w)
    \/ CheckConsent(w)
    \/ PostToProvider(w)
    \/ ResponseAccepted(w)
    \/ ResponseRejected(w)
    \/ ResponseAmbiguous(w)
    \/ RecordSent(w)
    \/ RecordSentFails(w)
    \/ RecordRetry(w)
    \/ DeadLetter(w)

Next ==
    \/ \E c \in Callers, e \in Events, h \in Hashes : CreateEvaluated(c, e, h)
    \/ \E c \in Callers : CreateUpsert(c)
    \/ \E w \in Workers : WorkerStep(w) \/ Abandon(w)
    \/ \E e \in Events : BackoffElapses(e)
    \/ \E e \in Events : \E n \in wire[e] : ProviderAccepts(e, n)
    \/ \E o \in Operators, e \in Events : ReplayRead(o, e)
    \/ \E o \in Operators : ReplayWrite(o)
    \/ \E h \in Handlers, e \in Events, s \in Reported :
          \E n \in accepted[e] : CallbackRead(h, e, n, s)
    \/ \E h \in Handlers : CallbackWrite(h)
    \/ ConsentChange

Spec == Init /\ [][Next]_vars

(* The interval timer calls processDue once a minute, a started call runs  *)
(* to its end (8 s transport timeout), and time passes.                    *)
FairSpec ==
    /\ Spec
    /\ \A w \in Workers : WF_vars(WorkerStep(w))
    /\ \A e \in Events : WF_vars(BackoffElapses(e))

-----------------------------------------------------------------------------
(* The customer gets at most one text per authorisation: the request       *)
(* itself, and each replay for which an operator acknowledged the risk of  *)
(* a duplicate. Neither concurrent workers, retries, timeouts the provider *)
(* accepted after all, nor crashes add one (deliver, lines 252-333).       *)
AtMostOneTextPerAuthorisation ==
    \A e \in Events : Cardinality(accepted[e]) <= 1 + replays[e]

(* At most MAX_ATTEMPTS deliveries are attempted per authorisation, though *)
(* a replay may reset attemptCount under a delivery in progress.           *)
AttemptsAreBounded ==
    \A e \in Events : claims[e] <= MAX_ATTEMPTS * (1 + replays[e])

(* A claim is given back for a retry only when Twilio certainly did not    *)
(* and will not accept its request: ambiguous outcomes are never retried.  *)
RetriedOnlyAfterRejection ==
    \A e \in Events : released[e] \cap (accepted[e] \cup wire[e]) = {}

(* A delivery past its consent check has the customer's consent now,       *)
(* unless consent changed while that delivery was in progress: the check   *)
(* made when the text was created is never enough (deliver, lines 286-296).*)
SendingImpliesConsent ==
    \A w \in Workers :
        pc[w] \in {"cleared", "sending"} /\ ~moved[w] => MayText(event[w])

(* Two requests that reuse one idempotency key for different texts are     *)
(* never both told that their text is queued (create, lines 104-114).       *)
OneTextPerKey ==
    \A a, b \in answered : a[1] = b[1] => a[2] = b[2]

(* The inductive invariant behind the three properties above: claim       *)
(* numbers are handed out once, and a claim ends up with a text, given     *)
(* back after a certain rejection, or spent.                               *)
Holds(w) == pc[w] \in WorkerPc \ {"idle", "found"}

RowsComeFirst ==
    \A e \in Events : status[e] = "ABSENT" =>
        /\ claims[e] = 0
        /\ \A w \in Workers : event[w] # e
        /\ \A o \in Operators : operator[o] # e
        /\ \A h \in Handlers : handler[h].ev # e

ClaimsHaveOneHolder ==
    /\ \A w \in Workers : Holds(w) =>
          claim[w] \in 1..claims[event[w]] /\ claim[w] \notin released[event[w]]
    /\ \A v, w \in Workers :
          v # w /\ Holds(v) /\ Holds(w) /\ event[v] = event[w] => claim[v] # claim[w]

RequestsComeFromClaims ==
    /\ \A e \in Events :
          /\ wire[e] \cup accepted[e] \cup released[e] \subseteq 1..claims[e]
          /\ wire[e] \cap accepted[e] = {}
          /\ released[e] \cap (accepted[e] \cup wire[e]) = {}
    /\ \A w \in Workers : pc[w] \in {"claimed", "loaded", "cleared", "retry"} =>
          claim[w] \notin wire[event[w]] \cup accepted[event[w]]

ClaimsAreAuthorised ==
    \A e \in Events :
        claims[e] + (IF status[e] \in Claimable THEN 1 ELSE 0)
           <= 1 + replays[e] + Cardinality(released[e])

AttemptsAreCounted ==
    \A e \in Events : claims[e] <= MAX_ATTEMPTS * replays[e] + attemptCount[e]

IInv ==
    /\ TypeOK
    /\ RowsComeFirst
    /\ ClaimsHaveOneHolder
    /\ RequestsComeFromClaims
    /\ ClaimsAreAuthorised
    /\ AttemptsAreCounted

(* A row reads SENT or DELIVERED only if Twilio accepted a text for it:    *)
(* neither an unknown outcome nor a callback that arrives after a replay   *)
(* claims success for a text never sent (deliver, 299-332; applyStatus).   *)
SentMeansAccepted ==
    \A e \in Events : status[e] \in {"SENT", "DELIVERED"} => accepted[e] # {}

(* With no delivery lost to a crash, every queued or retried event gets to *)
(* the provider or to the dead-letter list an operator sees.               *)
QueuedEventuallySettles ==
    \A e \in Events :
        status[e] \in {"QUEUED", "SENDING", "FAILED"}
           ~> status[e] \in {"SENT", "DELIVERED", "DEAD_LETTER"} \/ crashes > 0
=============================================================================
