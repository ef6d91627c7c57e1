------------------------------- MODULE Intake -------------------------------
(***************************************************************************)
(* Turns of web chat sessions that overlap (a second tab, an impatient     *)
(* retry), step by step between awaits: the conversation is found or       *)
(* created (src/src/conversations/conversations.service.ts), the model     *)
(* answers or calls create_job (ai/ai.service.ts), the request is saved    *)
(* once per session (jobs/jobs.service.ts), and operations are notified    *)
(* in the background (jobs/job-notification.service.ts). What the messages *)
(* say is the subject of module Dialogue; here the model's outcome, the    *)
(* validity of the tool's arguments and the availability of slots are      *)
(* choices.                                                                *)
(***************************************************************************)
EXTENDS Naturals

CONSTANTS
    Sessions,   \* session ids
    Turns,      \* triage() calls that can be in progress at once
    NoSession,  \* null
    MaxFaults   \* bound: how many statements fail and calls are cut off

ASSUME IntakeAssumption == NoSession \notin Sessions /\ MaxFaults \in Nat

VARIABLES
    placeholders,   \* Customer rows unknown-<session>: unique per tenant and phone
    conversations,  \* how many Conversation rows each session has
    jobs,           \* how many Job rows it has: intakeSessionId is unique
    linked,         \* sessions whose conversation is linked to their job
    jobLogged,      \* sessions with a log row that names their job
    pc, session,    \* triage() calls: where each stands, its session
    forced,         \* those whose tool call was forced by forceJobFinalization
    told,           \* history: the replies each session was given
    sending,        \* notifications in flight, held in memory only
    announced,      \* history: notifications that were ever enqueued
    faults

dbVars == <<placeholders, conversations, jobs, linked, jobLogged>>
callVars == <<pc, session, forced>>
noteVars == <<sending, announced>>
vars == <<dbVars, callVars, told, noteVars, faults>>

Pc == {"idle", "placing", "opening", "thinking", "forcing", "finding", "creating",
       "linking", "logging", "clearing", "offering", "orphaned"}

Replies == {"safety_escalation", "reply", "needs_correction", "orphaned", "error",
            "availability", "job_created"}

Notices == Sessions \X {"request_created", "orphaned_intake"}

TypeOK ==
    /\ placeholders \in SUBSET Sessions
    /\ conversations \in [Sessions -> Nat]
    /\ jobs \in [Sessions -> Nat]
    /\ linked \in SUBSET Sessions
    /\ jobLogged \in SUBSET Sessions
    /\ pc \in [Turns -> Pc]
    /\ session \in [Turns -> Sessions \cup {NoSession}]
    /\ \A t \in Turns : pc[t] # "idle" => session[t] \in Sessions
    /\ forced \in SUBSET Turns
    /\ told \in SUBSET (Sessions \X Replies)
    /\ sending \in SUBSET Notices
    /\ announced \in SUBSET Notices
    /\ faults \in 0..MaxFaults

Init ==
    /\ placeholders = {} /\ linked = {} /\ jobLogged = {}
    /\ conversations = [s \in Sessions |-> 0]
    /\ jobs = [s \in Sessions |-> 0]
    /\ pc = [t \in Turns |-> "idle"]
    /\ session = [t \in Turns |-> NoSession]
    /\ forced = {}
    /\ told = {} /\ sending = {} /\ announced = {}
    /\ faults = 0

Goto(t, step) == pc' = [pc EXCEPT ![t] = step] /\ UNCHANGED <<session, forced>>

Ends(t) ==
    /\ pc' = [pc EXCEPT ![t] = "idle"]
    /\ session' = [session EXCEPT ![t] = NoSession]
    /\ forced' = forced \ {t}

Tells(t, status) ==
    /\ Ends(t)
    /\ told' = told \cup {<<session[t], status>>}

Enqueue(s, kind) ==
    /\ sending' = sending \cup {<<s, kind>>}
    /\ announced' = announced \cup {<<s, kind>>}

-----------------------------------------------------------------------------
(* triage(): ensureConversation, then the life-safety rules and the model. *)

TurnBegins(t, s) ==
    /\ pc[t] = "idle"
    /\ session' = [session EXCEPT ![t] = s]
    /\ pc' = [pc EXCEPT ![t] = IF conversations[s] > 0 THEN "thinking" ELSE "placing"]
    /\ UNCHANGED <<dbVars, forced, told, noteVars, faults>>

(* Mutant: the phone of a placeholder is not unique. *)
AnyPhone(s) == TRUE

PhoneIsFree(s) == s \notin placeholders

(* Mutant: the turn goes on with the placeholder alone. *)
ThinksAtOnce(t) == Goto(t, "thinking")

OpensConversation(t) == Goto(t, "opening")

CreatePlaceholder(t) ==
    /\ pc[t] = "placing"
    /\ PhoneIsFree(session[t])
    /\ placeholders' = placeholders \cup {session[t]}
    /\ OpensConversation(t)
    /\ UNCHANGED <<conversations, jobs, linked, jobLogged, told, noteVars, faults>>

(* Another turn of the session was first: the insert fails, and the turn.  *)
PlaceholderTaken(t) ==
    /\ pc[t] = "placing"
    /\ ~PhoneIsFree(session[t])
    /\ Tells(t, "error")
    /\ UNCHANGED <<dbVars, noteVars, faults>>

CreateConversation(t) ==
    /\ pc[t] = "opening"
    /\ conversations' = [conversations EXCEPT ![session[t]] = @ + 1]
    /\ Goto(t, "thinking")
    /\ UNCHANGED <<placeholders, jobs, linked, jobLogged, told, noteVars, faults>>

(* A safety reply, a guarded answer, a refusal or the provider's failure   *)
(* after all retries: the turn ends and no job is touched.                 *)
TurnAnswers(t) ==
    /\ pc[t] = "thinking"
    /\ \E status \in {"safety_escalation", "reply", "error"} : Tells(t, status)
    /\ UNCHANGED <<dbVars, noteVars, faults>>

ToolCalled(t) ==
    /\ pc[t] = "thinking"
    /\ Goto(t, "finding")
    /\ UNCHANGED <<dbVars, told, noteVars, faults>>

(* The answer claims that the request was received. With a summary the     *)
(* model is asked again; without one the intake is reported as orphaned.   *)
ClaimsSubmission(t) ==
    /\ pc[t] = "thinking"
    /\ Goto(t, "forcing") \/ Goto(t, "orphaned")
    /\ UNCHANGED <<dbVars, told, noteVars, faults>>

ForcedToolCalled(t) ==
    /\ pc[t] = "forcing"
    /\ pc' = [pc EXCEPT ![t] = "finding"]
    /\ forced' = forced \cup {t}
    /\ UNCHANGED <<dbVars, session, told, noteVars, faults>>

ForcedCallFails(t) ==
    /\ pc[t] = "forcing"
    /\ Goto(t, "orphaned")
    /\ UNCHANGED <<dbVars, told, noteVars, faults>>

-----------------------------------------------------------------------------
(* handleToolCall() and createJobFromToolCall().                           *)

FindsJob(t) ==
    /\ pc[t] = "finding"
    /\ jobs[session[t]] > 0
    /\ Goto(t, "linking")
    /\ UNCHANGED <<dbVars, told, noteVars, faults>>

(* The arguments are valid: the customer is upserted by phone, the service *)
(* category found or created, and an address inserted.                     *)
FindsNone(t) ==
    /\ pc[t] = "finding"
    /\ jobs[session[t]] = 0
    /\ Goto(t, "creating")
    /\ UNCHANGED <<dbVars, told, noteVars, faults>>

ArgumentsRefused(t) ==
    /\ pc[t] = "finding"
    /\ jobs[session[t]] = 0
    /\ Tells(t, "needs_correction")
    /\ UNCHANGED <<dbVars, noteVars, faults>>

SessionIsFree(s) == jobs[s] = 0

(* On P2002 the job of the other turn is read and used instead. *)
CreateJob(t) ==
    /\ pc[t] = "creating"
    /\ jobs' = IF SessionIsFree(session[t]) THEN [jobs EXCEPT ![session[t]] = @ + 1] ELSE jobs
    /\ Goto(t, "linking")
    /\ UNCHANGED <<placeholders, conversations, linked, jobLogged, told, noteVars, faults>>

(* Mutant: the job is not logged. *)
LinkAndSkipLog(t) == linked' = linked \cup {session[t]} /\ Goto(t, "clearing")

LinkRow(t) == linked' = linked \cup {session[t]} /\ Goto(t, "logging")

LinkJobToConversation(t) ==
    /\ pc[t] = "linking"
    /\ LinkRow(t)
    /\ UNCHANGED <<placeholders, conversations, jobs, jobLogged, told, noteVars, faults>>

LogJob(t) ==
    /\ pc[t] = "logging"
    /\ jobLogged' = jobLogged \cup {session[t]}
    /\ Goto(t, "clearing")
    /\ UNCHANGED <<placeholders, conversations, jobs, linked, told, noteVars, faults>>

ClearSession(t) ==
    /\ pc[t] = "clearing"
    /\ Goto(t, "offering")
    /\ UNCHANGED <<dbVars, told, noteVars, faults>>

OffersSlots(t) ==
    /\ pc[t] = "offering"
    /\ Tells(t, "availability")
    /\ UNCHANGED <<dbVars, noteVars, faults>>

(* Mutant: nobody is told of a job that has no slots to offer. *)
TellsNobody(t) == UNCHANGED noteVars

AnnouncesJob(t) == Enqueue(session[t], "request_created")

(* Not eligible, no slot free, or the calendar unavailable. *)
NoSlots(t) ==
    /\ pc[t] = "offering"
    /\ AnnouncesJob(t)
    /\ Tells(t, "job_created")
    /\ UNCHANGED <<dbVars, faults>>

OrphanedIntake(t) ==
    /\ pc[t] = "orphaned"
    /\ Enqueue(session[t], "orphaned_intake")
    /\ Tells(t, "orphaned")
    /\ UNCHANGED <<dbVars, faults>>

(* The alert is on its way, but the reply cannot be logged. *)
OrphanUnlogged(t) ==
    /\ pc[t] = "orphaned"
    /\ faults < MaxFaults /\ faults' = faults + 1
    /\ Enqueue(session[t], "orphaned_intake")
    /\ Tells(t, "error")
    /\ UNCHANGED dbVars

-----------------------------------------------------------------------------
(* A statement fails: AiErrorHandler answers with an error, except that    *)
(* forceJobFinalization takes every failure for an orphaned intake.        *)
StatementFails(t) ==
    /\ pc[t] \notin {"idle", "orphaned", "offering"}
    /\ faults < MaxFaults /\ faults' = faults + 1
    /\ IF t \in forced THEN Goto(t, "orphaned") /\ UNCHANGED told ELSE Tells(t, "error")
    /\ UNCHANGED <<dbVars, noteVars>>

(* The instance stops: the turn is cut off. *)
TurnLost(t) ==
    /\ pc[t] # "idle"
    /\ faults < MaxFaults /\ faults' = faults + 1
    /\ Ends(t)
    /\ UNCHANGED <<dbVars, told, noteVars>>

(* Delivered, failed and logged, or lost with the instance: there is no    *)
(* second attempt.                                                         *)
NotificationEnds ==
    /\ \E note \in sending : sending' = sending \ {note}
    /\ UNCHANGED <<dbVars, callVars, told, announced, faults>>

TurnSteps(t) ==
    \/ CreatePlaceholder(t) \/ PlaceholderTaken(t) \/ CreateConversation(t)
    \/ TurnAnswers(t) \/ ToolCalled(t) \/ ClaimsSubmission(t)
    \/ ForcedToolCalled(t) \/ ForcedCallFails(t)
    \/ FindsJob(t) \/ FindsNone(t) \/ ArgumentsRefused(t) \/ CreateJob(t)
    \/ LinkJobToConversation(t) \/ LogJob(t) \/ ClearSession(t)
    \/ OffersSlots(t) \/ NoSlots(t) \/ OrphanedIntake(t)

Next ==
    \/ \E t \in Turns : (\E s \in Sessions : TurnBegins(t, s)) \/ TurnSteps(t)
                           \/ OrphanUnlogged(t) \/ StatementFails(t) \/ TurnLost(t)
    \/ NotificationEnds

Spec == Init /\ [][Next]_vars

(* Every await of a turn in progress ends. *)
FairSpec == Spec /\ \A t \in Turns : WF_vars(TurnSteps(t))

-----------------------------------------------------------------------------
(* Overlapping turns create one conversation and one job per session:      *)
(* "returns existing job when a session already created one" (a test of    *)
(* jobs.service), also when both turns looked before either inserted.      *)
OnePerSession == \A s \in Sessions : conversations[s] <= 1 /\ jobs[s] <= 1

(* A customer who is given a reference or a choice of windows has a job    *)
(* which the conversation is linked to and the log names, also if another  *)
(* turn created it and was cut off half-way.                               *)
SavedIsSaved ==
    \A s \in Sessions : {<<s, "availability">>, <<s, "job_created">>} \cap told # {}
                           => jobs[s] = 1 /\ s \in linked /\ s \in jobLogged

(* "Eternity will follow up": operations were sent a notice of the job.    *)
FollowUpIsAnnounced ==
    \A s \in Sessions : <<s, "job_created">> \in told => <<s, "request_created">> \in announced

(* A placeholder without its conversation makes every later turn of the    *)
(* session fail. Only a fault between the two inserts leaves one.          *)
SessionsStayUsable ==
    \A s \in placeholders :
        conversations[s] > 0 \/ faults > 0
           \/ \E t \in Turns : pc[t] = "opening" /\ session[t] = s

(* "I couldn't save this request, so it has not been sent" is said only of *)
(* a session that has no job (handleOrphanedIntake).                       *)
NotSentIsTrue ==
    [][\A s \in Sessions :
          <<s, "orphaned">> \in told' /\ <<s, "orphaned">> \notin told => jobs[s] = 0]_vars

(* However turns overlap, fail or are cut off, intake keeps its promise    *)
(* (module IntakePromise).                                                 *)
Promise == INSTANCE IntakePromise WITH
    saved <- jobs,
    filed <- linked \cap jobLogged,
    confirmed <- {s \in Sessions : {<<s, "availability">>, <<s, "job_created">>} \cap told # {}},
    notified <- {s \in Sessions : <<s, "request_created">> \in announced}

ImplementsPromise == Promise!Spec

(* Without faults a saved request is brought to somebody's attention:      *)
(* windows are offered to the customer, or operations are notified.        *)
SavedRequestsAreAnnounced ==
    \A s \in Sessions :
        jobs[s] > 0 ~> \/ <<s, "availability">> \in told
                       \/ <<s, "request_created">> \in announced
                       \/ faults > 0

(* The inductive invariant: where each turn stands tells what is stored.   *)
At(t, steps, s) == pc[t] \in steps /\ session[t] = s

ConversationsInv ==
    /\ \A s \in Sessions : s \notin placeholders => conversations[s] = 0
    /\ \A t \in Turns : pc[t] = "opening" =>
          /\ session[t] \in placeholders
          /\ conversations[session[t]] = 0
          /\ \A u \in Turns \ {t} : ~At(u, {"opening"}, session[t])

JobsInv ==
    \A t \in Turns :
        /\ pc[t] \in {"linking", "logging", "clearing", "offering"} => jobs[session[t]] = 1
        /\ pc[t] \in {"logging", "clearing", "offering"} => session[t] \in linked
        /\ pc[t] \in {"clearing", "offering"} => session[t] \in jobLogged

IInv ==
    /\ TypeOK
    /\ ConversationsInv
    /\ JobsInv
    /\ OnePerSession
    /\ SavedIsSaved
    /\ FollowUpIsAnnounced
    /\ SessionsStayUsable
=============================================================================
