------------------------------ MODULE Dialogue ------------------------------
(***************************************************************************)
(* AiService.triage (src/src/ai/ai.service.ts) as a dialogue: each         *)
(* customer waits for the reply before the next message, while the         *)
(* clean-up of the call log runs beside them. The model behind the         *)
(* completion is external: it may ask anything, and calls create_job       *)
(* whenever that is forced. Turns of one session that overlap are the      *)
(* subject of module Intake.                                               *)
(***************************************************************************)
EXTENDS CallLog, IntakeMemory

CONSTANTS
    Openers,    \* what a customer's first message may say
    Answer,     \* what the customers say when asked for a field
    Questions,  \* the fields the model may ask for
    Patience,   \* bound: how many messages a customer sends
    MaxMishaps  \* bound: idle pauses, chatter, provider failures, refused arguments

ASSUME DialogueAssumption ==
    /\ Openers \subseteq SUBSET Facts
    /\ Answer \in [Fields -> SUBSET Facts]
    /\ Questions \subseteq Fields
    /\ Patience \in Nat /\ MaxMishaps \in Nat

VARIABLES
    draft,      \* what the customer will say next; {} once the customer has left
    remembered, \* a turn in progress: the memory and the message it works on
    reply,      \* the last reply: its status, and the fields it asks for
    jobs,       \* the sessions whose request is saved
    sent,       \* how many messages each customer has sent
    mishaps

talkVars == <<draft, remembered, reply, jobs, sent, mishaps>>
vars == <<logVars, talkVars>>

Status == {"none", "reply", "preparing", "safety_escalation", "needs_correction",
           "orphaned", "error", "job_created"}

Rows == [role : {"user", "assistant", "closed"}, content : SUBSET (Facts \cup Fields)]

TypeOK ==
    /\ log \in [Sessions -> Seq(Rows)]
    /\ old \in [Sessions -> Nat] /\ \A s \in Sessions : old[s] <= Len(log[s])
    /\ sweep \in [Sessions -> Nat] /\ \A s \in Sessions : sweep[s] <= old[s]
    /\ draft \in [Sessions -> SUBSET Facts]
    /\ remembered \in [Sessions -> Seq(Rows)]
    /\ \A s \in Sessions : Len(remembered[s]) <= Memory + 1
    /\ reply \in [Sessions -> [status : Status, asks : SUBSET Fields]]
    /\ jobs \in SUBSET Sessions
    /\ sent \in [Sessions -> 0..Patience]
    /\ mishaps \in 0..MaxMishaps

Init ==
    /\ LogInit
    /\ draft \in [Sessions -> Openers]
    /\ remembered = [s \in Sessions |-> <<>>]
    /\ reply = [s \in Sessions |-> [status |-> "none", asks |-> {}]]
    /\ jobs = {}
    /\ sent = [s \in Sessions |-> 0]
    /\ mishaps = 0

Thinking(s) == remembered[s] # <<>>

Mishap == mishaps < MaxMishaps /\ mishaps' = mishaps + 1

(* The customer answers what is asked, and has nothing to add otherwise.   *)
CustomerReads(s, asks) ==
    draft' = [draft EXCEPT ![s] =
                 IF asks = {} THEN {"evasion"} ELSE UNION {Answer[field] : field \in asks}]

Replies(s, status, asks) ==
    /\ reply' = [reply EXCEPT ![s] = [status |-> status, asks |-> asks]]
    /\ remembered' = [remembered EXCEPT ![s] = <<>>]

Sends(s) ==
    /\ ~Thinking(s) /\ s \notin jobs /\ draft[s] # {} /\ sent[s] < Patience
    /\ sent' = [sent EXCEPT ![s] = @ + 1]

(* LifeSafetyService.assess comes before the memory and the model.         *)
SafetyEscalation(s) ==
    /\ Sends(s)
    /\ Dangerous(draft[s])
    /\ CreateLog(s, draft[s], {})
    /\ Replies(s, "safety_escalation", {})
    /\ CustomerReads(s, {})
    /\ UNCHANGED <<old, sweep, jobs, mishaps>>

TurnReads(s) ==
    /\ Sends(s)
    /\ ~Dangerous(draft[s])
    /\ remembered' = [remembered EXCEPT ![s] =
                         Append(RecentMessages(s), Message("user", draft[s]))]
    /\ UNCHANGED <<logVars, draft, reply, jobs, mishaps>>

(* Mutant: the model is free to answer. *)
NeverForced(s) == FALSE

(* With a booking ready the completion has toolChoice create_job.          *)
ToolChoiceForced(s) == IsResidentialBookingReady(remembered[s])

JobCreated(s) ==
    /\ LogJobAndClear(s)
    /\ jobs' = jobs \cup {s}
    /\ Replies(s, "job_created", {})
    /\ UNCHANGED <<old, sweep, draft, sent, mishaps>>

ToolCalled(s) == Thinking(s) /\ JobCreated(s)

(* buildCorrectionReply names one field, whatever was supplied.            *)
ArgumentsRefused(s) ==
    /\ Thinking(s) /\ Mishap
    /\ \E field \in {"name", "phone", "category", "urgency", "description"} :
          /\ CreateLog(s, draft[s], {field})
          /\ Replies(s, "needs_correction", {field})
          /\ CustomerReads(s, {field})
    /\ UNCHANGED <<old, sweep, jobs, sent>>

Answers(s, asks) ==
    LET rows == remembered[s]
        guarded == GuardedQuestion(rows, asks)
    IN  /\ Thinking(s) /\ ~ToolChoiceForced(s)
        /\ CreateLog(s, draft[s], guarded)
        /\ Replies(s, IF SaysPreparing(rows, asks) THEN "preparing" ELSE "reply", guarded)
        /\ CustomerReads(s, guarded)
        /\ UNCHANGED <<old, sweep, jobs, sent>>

Asks(s) == (\E field \in Questions : Answers(s, {field})) /\ UNCHANGED mishaps
Chats(s) == Answers(s, {}) /\ Mishap

(* The model claims that the request was received: forceJobFinalization    *)
(* asks it again with create_job as the only choice, provided that the     *)
(* claim has a summary, and otherwise reports an orphaned intake.          *)
ClaimFinalized(s) == Thinking(s) /\ ~ToolChoiceForced(s) /\ JobCreated(s)

OrphanedIntake(s) ==
    /\ Thinking(s) /\ ~ToolChoiceForced(s) /\ Mishap
    /\ CreateLog(s, draft[s], {})
    /\ Replies(s, "orphaned", {})
    /\ UNCHANGED <<old, sweep, draft, jobs, sent>>

(* Nothing is logged; the customer sends the message again. *)
ProviderFails(s) ==
    /\ Thinking(s) /\ Mishap
    /\ Replies(s, "error", {})
    /\ UNCHANGED <<logVars, draft, jobs, sent>>

CustomerLeaves(s) ==
    /\ ~Thinking(s) /\ draft[s] # {}
    /\ draft' = [draft EXCEPT ![s] = {}]
    /\ UNCHANGED <<logVars, remembered, reply, jobs, sent, mishaps>>

(* A customer who has left may be away for any time.                       *)
CleanUp ==
    /\ \/ SweepReads /\ UNCHANGED mishaps
       \/ (\E s \in Sessions : SweepCloses(s)) /\ UNCHANGED mishaps
       \/ \E s \in Sessions : RowsAge(s) /\ IF draft[s] = {} THEN UNCHANGED mishaps ELSE Mishap
    /\ UNCHANGED <<draft, remembered, reply, jobs, sent>>

Completes(s) == ToolCalled(s) \/ Asks(s)

Next ==
    \/ \E s \in Sessions :
          \/ SafetyEscalation(s) \/ TurnReads(s)
          \/ Completes(s)
          \/ ArgumentsRefused(s) \/ Chats(s)
          \/ CustomerLeaves(s)
          \/ ClaimFinalized(s) \/ OrphanedIntake(s) \/ ProviderFails(s)
    \/ CleanUp

Spec == Init /\ [][Next]_vars

(* The customers go on writing, the model answers with a question or a     *)
(* tool call, and the clean-up is scheduled again and again.               *)
FairSpec ==
    /\ Spec
    /\ WF_vars(SweepReads /\ UNCHANGED talkVars)
    /\ \A s \in Sessions :
          /\ WF_vars(TurnReads(s) \/ SafetyEscalation(s))
          /\ WF_vars(Completes(s))
          /\ WF_vars(SweepCloses(s) /\ UNCHANGED talkVars)

-----------------------------------------------------------------------------
(* System prompt, rule 11: "Never ask again for a name, phone number,      *)
(* address, equipment category, symptom, property type, urgency, or        *)
(* service intent that the customer already supplied": a question that is  *)
(* not a correction asks for nothing that the open part of the log or the  *)
(* message it answers supplies, whatever the model wanted to ask.          *)
NeverAsksAgain ==
    [][\A s \in Sessions :
          Thinking(s) /\ remembered'[s] = <<>> /\ reply'[s].status = "reply" =>
             reply'[s].asks \cap Collected(Append(RecentMessages(s), Message("user", draft[s]))) = {}]_vars

(* "I have the required details. I'm preparing the available appointment   *)
(* times now." (nextMissingQuestion) is said only of a booking that is     *)
(* ready, which makes the next turn create it. To a customer who answers   *)
(* the question for the property with its own words, "a home", it is said  *)
(* of one that is not.                                                     *)
PreparingIsTrue ==
    \A s \in Sessions :
        reply[s].status = "preparing" /\ ~Thinking(s) => IsResidentialBookingReady(RecentMessages(s))

(* A customer who stays and answers every question gets the request saved, *)
(* although the model may ask the same question for ever and the session   *)
(* may be closed for idleness in between: each question the guard lets     *)
(* through makes progress, and a complete booking forces the tool.         *)
CooperationEndsInJob == \A s \in Sessions : <>(s \in jobs \/ draft[s] = {})

(* "Closed N idle sessions after M minutes of inactivity": a session whose *)
(* customer has written nothing since the cutoff is closed, unless another *)
(* message comes first, though the clean-up works from an older read and   *)
(* takes a later marker for its own (cleanupIdleSessions, lines 39-107).   *)
Idle(s) ==
    LET last == Latest(Positions(s, {"user", "assistant"}))
    IN  LastSessionClosedAt(s) < last /\ last <= old[s]

IdleSessionsAreClosed == \A s \in Sessions : Idle(s) ~> ~Idle(s)
=============================================================================
