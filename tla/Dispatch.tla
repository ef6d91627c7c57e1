------------------------------ MODULE Dispatch ------------------------------
(***************************************************************************)
(* The dispatch page (ui/src/app/app/dispatch/page.tsx) with the server's  *)
(* dispatch board, routing settings and escalations behind it, while       *)
(* administrators, customers and payments change the rows.                 *)
(* A page keeps the job it selected, the detail it was last sent, and at   *)
(* most one action in progress (acting). An assignment's transaction takes *)
(* a step for each of its reads; it commits only if the job's updatedAt is *)
(* that of the detail: `fresh' says that nothing wrote the row since.      *)
(***************************************************************************)
EXTENDS Routing

CONSTANTS
    Pages,          \* dispatchers' browser pages
    Jobs, JobFacts, \* jobs; what never changes of each: category, zip, policy, given
    BookedBefore,   \* jobs whose customers booked online already
    Window, Now,    \* the window a customer books; the time of day
    Areas,          \* service areas
    RuleForms,      \* bound: the bodies that saveRule is given
    TechForms,      \* bound: the settings that configureTechnician is given
    InitialRules, InitialTechs, InitialArea,
    Patient,        \* the dispatcher waits for a request before the next click
    MaxEdits        \* bound on what others change

VARIABLES
    rules, areas, techs,    \* routing settings, rules by priority
    row,                    \* the Job and Payment rows
    escalated,              \* jobs with a job.urgency_escalated audit
    recent,                 \* those whose last one is under five minutes old
    notices, lost,          \* history, of these five minutes: escalations sent to
                            \* operations, and those whose audit was not written
    selected, shown,        \* page: selectedId and detail
    loading,                \* page: details on their way
    links,                  \* page: technicianLink and paymentCheckoutUrl, by their jobs
    request,                \* page: the action in progress
    edits

settings == <<rules, areas, techs>>
page == <<selected, shown, loading, links>>
audits == <<escalated, recent, notices, lost>>
vars == <<settings, row, audits, page, request, edits>>

-----------------------------------------------------------------------------
(* What the server computes. *)

Job(j) ==
    [urgency |-> row[j].urgency, window |-> row[j].window, status |-> row[j].status,
     payment |-> row[j].payment, exception |-> row[j].exception, assignee |-> row[j].assignee,
     category |-> JobFacts[j].category, zip |-> JobFacts[j].zip,
     policy |-> JobFacts[j].policy, given |-> JobFacts[j].given]
Rout(j) == RoutingOf(rules, areas, Job(j), Now)
Loads == [t \in Technicians |->
            Cardinality({j \in Jobs : row[j].assignee = t /\ row[j].status \in ActiveStatuses})]
OnBoard == {j \in Jobs : row[j].status \in ActiveStatuses}
QueueOf(j) == Queue(Job(j), j \in escalated)
Best(j, routing, gate) == Recommend(techs, Loads, Job(j), routing, gate, Now)

(* get: the detail. `fresh' and `calm' are history. *)
Detail(j) ==
    [job |-> j, assignee |-> row[j].assignee, gate |-> Gate(Job(j)),
     recommended |-> Best(j, Rout(j), Gate(Job(j))),
     eligible |-> {t \in Technicians :
                     Eligible(techs[t], Job(j), Rout(j), Gate(Job(j)), Now)},
     fresh |-> TRUE, calm |-> TRUE]

(* Rows of J are written: no detail or request that read them is fresh,    *)
(* and none that read anything is calm.                                    *)
Aged(x, J) ==
    IF x = None THEN None
    ELSE [x EXCEPT !.fresh = @ /\ x.job \notin J, !.calm = FALSE]

AgeDetails(J) ==
    /\ shown' = [p \in Pages |-> Aged(shown[p], J)]
    /\ loading' = [p \in Pages |-> {Aged(d, J) : d \in loading[p]}]
AgedRequests(J) == [p \in Pages |-> Aged(request[p], J)]

-----------------------------------------------------------------------------
Gates == {"NOT_REQUIRED", "UNLOCKED", "LOCKED"}
Nobody == Technicians \cup {None}

Rows ==
    [urgency : {"STANDARD", "EMERGENCY"}, window : {None, Window},
     status : {"CREATED", "ACCEPTED", "COMPLETED"},
     payment : {"NOT_REQUESTED", "SUCCEEDED", "REFUNDED"},
     exception : {"none", "active", "revoked"}, assignee : Nobody]
Details ==
    [job : Jobs, assignee : Nobody, gate : Gates, recommended : Nobody,
     eligible : SUBSET Technicians, fresh : BOOLEAN, calm : BOOLEAN]
Routings ==
    [to : [covered : BOOLEAN, requireAvailable : BOOLEAN, requireOnCall : BOOLEAN,
           escalates : SUBSET {"OWNER", "ON_CALL"}],
     gate : Gates, from : Nobody]
Requests ==
    [kind : {"assign", "cancel", "link", "payment", "escalate", "evaluate"},
     pc : {"sent", "routed", "ranked", "notifying", "auditing", "refreshing"},
     job : Jobs, technician : Nobody, reason : BOOLEAN, routing : Routings \cup {None},
     selected : Jobs, fresh : BOOLEAN, calm : BOOLEAN]

ASSUME DispatchAssumption ==
    /\ IsFiniteSet(Pages)
    /\ MaxEdits \in Nat
    /\ None \notin Details /\ None \notin Requests

TypeOK ==
    /\ row \in [Jobs -> Rows]
    /\ escalated \in SUBSET Jobs
    /\ recent \in SUBSET escalated
    /\ notices \in [Jobs -> Nat] /\ lost \in [Jobs -> Nat]
    /\ selected \in [Pages -> Jobs \cup {None}]
    /\ shown \in [Pages -> Details \cup {None}]
    /\ loading \in [Pages -> SUBSET Details]
    /\ \A p \in Pages : shown[p] # None \/ loading[p] # {} \/ request[p] # None =>
                         selected[p] \in Jobs
    /\ links \in [Pages -> SUBSET Jobs]
    /\ request \in [Pages -> Requests \cup {None}]
    /\ edits \in 0..MaxEdits

Init ==
    /\ rules = InitialRules
    /\ areas = [a \in Areas |-> InitialArea]
    /\ techs = InitialTechs
    /\ row = [j \in Jobs |-> [urgency |-> "STANDARD",
                              window |-> IF j \in BookedBefore THEN Window ELSE None,
                              status |-> IF j \in BookedBefore THEN "ACCEPTED" ELSE "CREATED",
                              payment |-> "NOT_REQUESTED", exception |-> "none",
                              assignee |-> None]]
    /\ escalated = {}
    /\ recent = {}
    /\ notices = [j \in Jobs |-> 0] /\ lost = [j \in Jobs |-> 0]
    /\ selected = [p \in Pages |-> None]
    /\ shown = [p \in Pages |-> None]
    /\ loading = [p \in Pages |-> {}]
    /\ links = [p \in Pages |-> {}]
    /\ request = [p \in Pages |-> None]
    /\ edits = 0

-----------------------------------------------------------------------------
(* What others change. *)

Edit == edits < MaxEdits /\ edits' = edits + 1
Disturb(J) == AgeDetails(J) /\ request' = AgedRequests(J)
SettingsOnly == Disturb({}) /\ UNCHANGED <<row, audits, selected, links>>

SaveRule(form) ==
    /\ Edit
    /\ \/ rules' = Append(rules, form)
       \/ \E i \in DOMAIN rules : rules' = [rules EXCEPT ![i] = form]
    /\ SettingsOnly /\ UNCHANGED <<areas, techs>>

SaveServiceArea(a) ==
    /\ Edit
    /\ areas' = [areas EXCEPT ![a].active = ~@]
    /\ SettingsOnly /\ UNCHANGED <<rules, techs>>

(* A block is added to the others, capabilities are upserted: one that is  *)
(* disabled is None.                                                       *)
ConfigureTechnician(t, form) ==
    /\ Edit
    /\ techs' = [techs EXCEPT ![t] =
                   [available |-> form.available, onCall |-> form.onCall,
                    skill |-> form.skill @@ @.skill,
                    blocks |-> @.blocks \cup form.blocks]]
    /\ SettingsOnly /\ UNCHANGED <<rules, areas>>

RowChanges(j, new, J) ==
    /\ Edit
    /\ row' = [row EXCEPT ![j] = new]
    /\ Disturb(J)
    /\ UNCHANGED <<settings, audits, selected, links>>

(* Booking, an urgency override, completion and a payment exception write  *)
(* the job; a payment or refund writes the payment's row alone.            *)
OthersWrite(j) ==
    \/ row[j].window = None /\
       RowChanges(j, [row[j] EXCEPT !.window = Window, !.status = "ACCEPTED"], {j})
    \/ \E u \in {"STANDARD", "EMERGENCY"} \ {row[j].urgency} :
          RowChanges(j, [row[j] EXCEPT !.urgency = u], {j})
    \/ row[j].status = "ACCEPTED" /\ RowChanges(j, [row[j] EXCEPT !.status = "COMPLETED"], {j})
    \/ \E s \in {"SUCCEEDED", "REFUNDED"} \ {row[j].payment} :
          RowChanges(j, [row[j] EXCEPT !.payment = s], {})
    \/ \E e \in {"active", "revoked"} \ {row[j].exception} :
          /\ Required(JobFacts[j].policy) /\ row[j].payment # "SUCCEEDED"
          /\ e = "active" => "manual_override" \in JobFacts[j].policy
          /\ RowChanges(j, [row[j] EXCEPT !.exception = e], {j})

FiveMinutesPass(j) ==
    /\ j \in recent
    /\ \A p \in Pages : request[p] # None => request[p].kind # "escalate"
    /\ recent' = recent \ {j}
    /\ notices' = [notices EXCEPT ![j] = 0] /\ lost' = [lost EXCEPT ![j] = 0]
    /\ UNCHANGED <<settings, row, escalated, page, request, edits>>

-----------------------------------------------------------------------------
(* The page reads. *)

Waits(p) == Patient => request[p] = None /\ loading[p] = {}

(* loadDetail. The server's answer is read here; answers arrive in any     *)
(* order and are not matched with selectedId.                              *)
Select(p, j) ==
    /\ Waits(p) /\ Cardinality(loading[p]) < 2
    /\ selected' = [selected EXCEPT ![p] = j]
    /\ loading' = [loading EXCEPT ![p] = @ \cup {Detail(j)}]
    /\ links' = [links EXCEPT ![p] = {}]
    /\ UNCHANGED <<settings, row, audits, shown, request, edits>>

Loaded(p, d) ==
    /\ loading' = [loading EXCEPT ![p] = @ \ {d}]
    /\ shown' = [shown EXCEPT ![p] = d]
    /\ UNCHANGED <<settings, row, audits, selected, links, request, edits>>

LoadFails(p, d) ==
    /\ Edit
    /\ loading' = [loading EXCEPT ![p] = @ \ {d}]
    /\ shown' = [shown EXCEPT ![p] = None]
    /\ UNCHANGED <<settings, row, audits, selected, links, request>>

-----------------------------------------------------------------------------
(* The page acts. *)

Begin(p, kind, technician, reason) ==
    /\ request[p] = None /\ shown[p] # None
    /\ Patient => loading[p] = {}
    /\ request' = [request EXCEPT ![p] =
          [kind |-> kind, pc |-> "sent", job |-> shown[p].job,
           technician |-> technician, reason |-> reason, routing |-> None,
           selected |-> selected[p],
           fresh |-> shown[p].fresh, calm |-> shown[p].calm]]
    /\ UNCHANGED <<settings, row, audits, page, edits>>

(* Mutant: the page asks for a reason only against the recommendation. *)
OnlyOverrides(d, t) == t \notin d.eligible \/ t # d.recommended

(* The page asks for the reason that the server would ask for. *)
NeedsReason(d, t) == \/ d.assignee \notin {None, t}
                     \/ t \notin d.eligible \/ t # d.recommended

ClickAssign(p, t, reason) ==
    /\ shown[p] # None /\ shown[p].gate # "LOCKED"
    /\ NeedsReason(shown[p], t) => reason
    /\ Begin(p, "assign", t, reason)

Click(p, kind) ==
    /\ shown[p] # None
    /\ kind \in {"cancel", "link"} => shown[p].assignee # None
    /\ kind = "payment" => row[shown[p].job].payment # "SUCCEEDED"
    /\ Begin(p, kind, None, FALSE)

At(p, kind, pc) == request[p] # None /\ request[p].kind = kind /\ request[p].pc = pc

Step(p, r) ==
    /\ request' = [request EXCEPT ![p] = r]
    /\ UNCHANGED <<settings, row, audits, page, edits>>

(* Mutant: acting is reset after a success only. *)
StaysActing(p) == Step(p, [request[p] EXCEPT !.pc = "failed"])

(* An error is shown; the detail stays as it is. *)
Refused(p) == Step(p, None)

(* The action succeeded: refreshSelected, for the job that was selected    *)
(* when the button was clicked.                                            *)
Succeeds(p) == Step(p, [request[p] EXCEPT !.pc = "refreshing"])

Refreshed(p) ==
    /\ request[p] # None /\ request[p].pc = "refreshing"
    /\ request' = [request EXCEPT ![p] = None]
    /\ \/ shown' = [shown EXCEPT ![p] = Detail(request[p].selected)] /\ UNCHANGED edits
       \/ Edit /\ UNCHANGED shown
    /\ UNCHANGED <<settings, row, audits, selected, loading, links>>

(* assign: the job and its gate, with the rules that route it ... *)
AssignRoutes(p) ==
    /\ At(p, "assign", "sent")
    /\ LET j == request[p].job
       IN  IF row[j].status \in {"COMPLETED", "CANCELLED"} THEN Refused(p)
           ELSE IF row[j].assignee = request[p].technician THEN Succeeds(p)
           ELSE IF Gate(Job(j)) = "LOCKED" THEN Refused(p)
           ELSE Step(p, [request[p] EXCEPT
                    !.pc = "routed",
                    !.routing = [to |-> Rout(j), gate |-> Gate(Job(j)),
                                 from |-> row[j].assignee]])

(* ... the candidates, and whether the choice needs a reason (of a job that*)
(* was written meanwhile the outcome is a refusal in any case) ...         *)
AssignRanks(p) ==
    /\ At(p, "assign", "routed")
    /\ LET r == request[p]
           override == \/ ~Eligible(techs[r.technician], Job(r.job), r.routing.to,
                                   r.routing.gate, Now)
                       \/ Best(r.job, r.routing.to, r.routing.gate) # r.technician
       IN  IF (r.routing.from # None \/ override) /\ ~r.reason
           THEN Refused(p) ELSE Step(p, [r EXCEPT !.pc = "ranked"])

RowIsWritten(p, j, new) ==
    /\ row' = [row EXCEPT ![j] = new]
    /\ AgeDetails({j})
    /\ request' = [AgedRequests({j}) EXCEPT ![p] = [request[p] EXCEPT !.pc = "refreshing"]]
    /\ UNCHANGED <<settings, audits, selected, links, edits>>

(* ... and the update WHERE updatedAt is the detail's. *)
AssignWrites(p) ==
    /\ At(p, "assign", "ranked")
    /\ LET r == request[p]
       IN  IF r.fresh
           THEN RowIsWritten(p, r.job, [row[r.job] EXCEPT !.assignee = r.technician])
           ELSE Refused(p)

CancelWrites(p) ==
    /\ At(p, "cancel", "sent")
    /\ LET r == request[p]
       IN  IF row[r.job].assignee = None THEN Succeeds(p)
           ELSE IF r.fresh
           THEN RowIsWritten(p, r.job, [row[r.job] EXCEPT !.assignee = None])
           ELSE Refused(p)

(* createTechnicianLink and createPaymentRequest: the answer is put on the *)
(* panel, whatever it shows by then.                                       *)
LinkIssued(p) ==
    /\ At(p, "link", "sent") \/ At(p, "payment", "sent")
    /\ links' = [links EXCEPT ![p] = @ \cup {request[p].job}]
    /\ request' = [request EXCEPT ![p] = None]
    /\ UNCHANGED <<settings, row, audits, selected, shown, loading, edits>>

(* evaluateAndAudit writes an audit row only. *)
Evaluated(p) == At(p, "evaluate", "sent") /\ Succeeds(p)

(* escalate: look for a recent audit, notify operations, write the audit.  *)
EscalateReads(p) ==
    /\ At(p, "escalate", "sent")
    /\ IF request[p].job \in recent THEN Succeeds(p)
       ELSE Step(p, [request[p] EXCEPT !.pc = "notifying"])

Notifies(p) ==
    /\ At(p, "escalate", "notifying")
    /\ notices' = [notices EXCEPT ![request[p].job] = @ + 1]
    /\ request' = [request EXCEPT ![p].pc = "auditing"]
    /\ UNCHANGED <<settings, row, escalated, recent, lost, page, edits>>

EscalateRecords(p) ==
    /\ At(p, "escalate", "auditing")
    /\ LET j == request[p].job
       IN  \/ /\ escalated' = escalated \cup {j}
              /\ recent' = recent \cup {j}
              /\ request' = [request EXCEPT ![p].pc = "refreshing"]
              /\ UNCHANGED <<lost, edits>>
           \/ /\ Edit
              /\ lost' = [lost EXCEPT ![j] = @ + 1]
              /\ request' = [request EXCEPT ![p] = None]
              /\ UNCHANGED <<escalated, recent>>
    /\ UNCHANGED <<settings, row, notices, page>>

-----------------------------------------------------------------------------
Server(p) ==
    \/ \E d \in loading[p] : Loaded(p, d)
    \/ AssignRoutes(p) \/ AssignRanks(p) \/ AssignWrites(p) \/ CancelWrites(p)
    \/ LinkIssued(p) \/ Evaluated(p)
    \/ EscalateReads(p) \/ Notifies(p) \/ EscalateRecords(p)
    \/ Refreshed(p)

Dispatcher(p) ==
    \/ \E j \in Jobs : Select(p, j)
    \/ \E t \in Technicians, reason \in BOOLEAN : ClickAssign(p, t, reason)
    \/ \E kind \in {"cancel", "link", "payment", "escalate", "evaluate"} : Click(p, kind)

Others ==
    \/ \E form \in RuleForms : SaveRule(form)
    \/ \E a \in Areas : SaveServiceArea(a)
    \/ \E t \in Technicians, form \in TechForms : ConfigureTechnician(t, form)
    \/ \E j \in Jobs : OthersWrite(j) \/ FiveMinutesPass(j)
    \/ \E p \in Pages : \E d \in loading[p] : LoadFails(p, d)

Next == Others \/ \E p \in Pages : Server(p) \/ Dispatcher(p)

Spec == Init /\ [][Next]_vars

(* Requests are answered within their timeouts. A dispatcher who means to  *)
(* assign a job opens it and confirms the recommendation again and again.  *)
Perseveres(p, j) ==
    /\ SF_vars(Select(p, j))
    /\ SF_vars(/\ shown[p] # None /\ shown[p].job = j /\ shown[p].assignee = None
               /\ shown[p].recommended # None
               /\ ClickAssign(p, shown[p].recommended, FALSE))

FairSpec ==
    /\ Spec
    /\ \A p \in Pages : WF_vars(Server(p)) /\ \A j \in Jobs : Perseveres(p, j)

-----------------------------------------------------------------------------
(* dispatch-board.service.spec.ts:110 and intake-readiness.service.spec.ts *)
(* :156: work that requires payment is called ready on neither screen      *)
(* until it is paid or excepted, whichever fee the policy asks for.        *)
ReadyMeansUnlocked ==
    \A j \in Jobs :
        \/ j \in OnBoard /\ QueueOf(j) = "READY_TO_ASSIGN"
        \/ ReadyForReview(Job(j))
        => Gate(Job(j)) # "LOCKED"

(* Operations hear of a job at most once in five minutes from each page    *)
(* that escalates it, and once more for each audit that could not be       *)
(* written. The APP-007 report (evidence/APP-007/readiness-report.md:18)   *)
(* says that the clicks of these minutes reuse the latest recorded result; *)
(* it overlooks the pages that read before the first audit is written.     *)
EscalationsAreNotRepeated ==
    \A j \in Jobs : notices[j] <= Cardinality(Pages) + lost[j]

(* An assignment without a reason gives the job shown, as it was shown, to *)
(* the technician shown as recommended, when nobody had it; and the server *)
(* itself found the address covered and the gate open.                     *)
SilentAssignmentsAreSound ==
    [][\A p \in Pages :
         /\ At(p, "assign", "ranked") /\ ~request[p].reason
         /\ request'[p] # None /\ request'[p].pc = "refreshing"
         => /\ shown[p].job = request[p].job
            /\ shown[p].recommended = request[p].technician
            /\ row[request[p].job].assignee = None
            /\ row'[request[p].job].assignee = request[p].technician
            /\ request[p].routing.to.covered /\ request[p].routing.gate # "LOCKED"
      ]_vars

(* What the page lets a dispatcher send about an open job, the server does *)
(* not refuse unless something changed after the detail was read.          *)
BoardKeepsItsWord ==
    [][\A p \in Pages :
         /\ request[p] # None /\ request[p].kind = "assign" /\ request[p].pc # "refreshing"
         /\ request'[p] = None
         => ~request[p].calm \/ row[request[p].job].status = "COMPLETED"
      ]_vars

(* Refusals and stale details do not keep a dispatcher from assigning a    *)
(* job for which the server goes on recommending somebody.                 *)
Assignable(j) == row[j].status \in ActiveStatuses /\ Detail(j).recommended # None

ReadyWorkIsAssigned ==
    \A j \in Jobs : <>[]Assignable(j) => <>(row[j].assignee # None)

-----------------------------------------------------------------------------
(* The inductive invariants.                                               *)
(* Of a dispatcher who waits: what is loading, shown, linked and requested *)
(* is the selected job's; nothing is linked or requested while it loads.   *)
PanelIsSelected ==
    \A p \in Pages :
        /\ \A d \in loading[p] : d.job = selected[p]
        /\ loading[p] # {} => request[p] = None /\ links[p] = {}
        /\ shown[p] # None /\ loading[p] = {} => shown[p].job = selected[p]
        /\ request[p] # None =>
             /\ shown[p] # None
             /\ request[p].job = selected[p] /\ request[p].selected = selected[p]
        /\ links[p] \subseteq {selected[p]}

(* An assignment in progress for which nobody wrote the job since its      *)
(* detail was read still replaces whom it found; without a reason it is    *)
(* the recommended one, and once ranked it found nobody.                   *)
AssignmentsAreAsFound ==
    \A p \in Pages : request[p] # None /\ request[p].kind = "assign" =>
        /\ ~request[p].reason => shown[p].recommended = request[p].technician
        /\ request[p].pc \in {"routed", "ranked"} =>
             /\ request[p].routing.gate # "LOCKED"
             /\ request[p].fresh => request[p].routing.from = row[request[p].job].assignee
        /\ request[p].pc = "ranked" /\ ~request[p].reason =>
             request[p].routing.from = None /\ request[p].routing.to.covered

(* As long as nothing was changed, a detail is what the server would answer*)
(* now, and an assignment is judged by what the page judged it by.         *)
CalmIsCurrent ==
    \A p \in Pages :
        /\ shown[p] # None /\ shown[p].calm => shown[p] = Detail(shown[p].job)
        /\ \A d \in loading[p] : d.calm => d = Detail(d.job)
        /\ LET r == request[p]
           IN  r # None /\ r.kind = "assign" /\ r.calm /\ r.pc # "refreshing" =>
                 /\ r.fresh
                 /\ Detail(r.job).gate # "LOCKED"
                 /\ NeedsReason(Detail(r.job), r.technician) => r.reason
                 /\ r.pc \in {"routed", "ranked"} =>
                      /\ r.routing = [to |-> Rout(r.job), gate |-> Gate(Job(r.job)),
                                      from |-> row[r.job].assignee]
                      /\ row[r.job].assignee # r.technician

(* Each notice is that of an escalation whose audit is still to be written,*)
(* was lost, or has made the job one that was escalated recently; and only *)
(* pages that had begun before that can still notify.                      *)
Escalating(j, pc) == {p \in Pages : At(p, "escalate", pc) /\ request[p].job = j}

NoticesAreAudited ==
    \A j \in Jobs :
        /\ j \notin recent => notices[j] = lost[j] + Cardinality(Escalating(j, "auditing"))
        /\ notices[j] + Cardinality(Escalating(j, "notifying")) <= lost[j] + Cardinality(Pages)
=============================================================================
