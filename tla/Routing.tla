------------------------------- MODULE Routing -------------------------------
(***************************************************************************)
(* What is computed from the rows when a job is routed, ranked, queued and *)
(* reviewed: routing rules (src/src/jobs/routing.service.ts), candidates   *)
(* and queues (dispatch-board.service.ts), missing information             *)
(* (intake-readiness.service.ts) and the payment gate                      *)
(* (src/src/payments/payment-gate.policy.ts).                              *)
(* A rule is a record [active, category, urgency, scope, area,             *)
(* requireAvailable, requireOnCall, escalateToOwner, escalateToOnCall]     *)
(* whose four filters may be Anything; rules come ordered by priority. A time is*)
(* [day, hour] in the tenant's zone. A job is a record of its row and of   *)
(* what it references: [category, urgency, zip, window, status, assignee,  *)
(* policy, payment, exception, given].                                     *)
(***************************************************************************)
EXTENDS Integers, FiniteSets, SequencesExt

CONSTANTS
    Anything, None,         \* a filter that is null, a column that is null
    Technicians         \* in the order of their names

ActiveStatuses == {"CREATED", "OFFERED", "ACCEPTED", "IN_PROGRESS"}
IntakeFields == {"customerName", "phone", "serviceAddress", "serviceCategory",
                 "issueSummary", "urgency", "preferredWindow"}

-----------------------------------------------------------------------------
(* The payment gate. *)

Required(policy) == policy \cap {"depositRequired", "serviceFeeRequired"} # {}

(* An exception counts under manual_override, active, with reason and time.*)
Gate(job) ==
    IF ~Required(job.policy) THEN "NOT_REQUIRED"
    ELSE IF \/ job.payment = "SUCCEEDED"
            \/ "manual_override" \in job.policy /\ job.exception = "active"
         THEN "UNLOCKED" ELSE "LOCKED"

-----------------------------------------------------------------------------
(* Routing. *)

TimeScope(at) ==
    IF at.day \notin {"Sat", "Sun"} /\ at.hour \in 8..17 THEN "BUSINESS_HOURS" ELSE "AFTER_HOURS"

ScopeOf(job, now) == TimeScope(IF job.window # None THEN job.window ELSE now)

AreaContains(area, zip) == area.active /\ zip # None /\ zip \in area.postalCodes

Passes(filter, value) == filter \in {Anything, value}

(* evaluateJob's baseMatches: the area is not looked at yet. *)
BaseMatches(rules, job, now) ==
    SelectSeq(rules, LAMBDA rule : /\ rule.active
                                   /\ Passes(rule.category, job.category)
                                   /\ Passes(rule.urgency, job.urgency)
                                   /\ Passes(rule.scope, ScopeOf(job, now)))

Reaches(rule, areas, job) == rule.area = Anything \/ AreaContains(areas[rule.area], job.zip)

(* Without any applicable rule every address is covered, by a default that *)
(* asks for an available technician.                                       *)
RoutingOf(rules, areas, job, now) ==
    LET base == BaseMatches(rules, job, now)
        matches == SelectSeq(base, LAMBDA rule : Reaches(rule, areas, job))
        matched == matches # << >>
    IN  [covered |-> base = << >> \/ matched,
         requireAvailable |-> matched => Head(matches).requireAvailable,
         requireOnCall |-> matched /\ Head(matches).requireOnCall,
         escalates |-> {to \in {"OWNER", "ON_CALL"} :
                          /\ matched /\ job.urgency = "EMERGENCY"
                          /\ to = "OWNER" => Head(matches).escalateToOwner
                          /\ to = "ON_CALL" => Head(matches).escalateToOnCall}]

-----------------------------------------------------------------------------
(* Candidates. A technician is [available, onCall, skill, blocks]: skill   *)
(* maps a category to a proficiency or None, a block is [type, window].    *)

BlockTypes(tech, job, now) ==
    {b.type : b \in {x \in tech.blocks : x.window = IF job.window # None THEN job.window ELSE now}}

Unavailable(tech, job, now) == "UNAVAILABLE" \in BlockTypes(tech, job, now)

Available(tech, job, now) ==
    /\ tech.available \/ "AVAILABLE_OVERRIDE" \in BlockTypes(tech, job, now)
    /\ ~Unavailable(tech, job, now)

(* Mutant: out of coverage does not stop anybody. *)
EligibleAnywhere(tech, job, routing, gate, now) ==
    /\ tech.skill[job.category] # None
    /\ routing.requireAvailable => Available(tech, job, now)
    /\ routing.requireOnCall => tech.onCall
    /\ gate # "LOCKED"

Eligible(tech, job, routing, gate, now) ==
    /\ tech.skill[job.category] # None
    /\ routing.covered
    /\ routing.requireAvailable => Available(tech, job, now)
    /\ routing.requireOnCall => tech.onCall
    /\ gate # "LOCKED"

Points(skill) == CASE skill = "EXPERT" -> 30 [] skill = "STANDARD" -> 20
                   [] skill = "BASIC" -> 10 [] OTHER -> 0

(* `load' is the technician's number of active jobs. *)
Score(tech, job, load, now) ==
    LET skill == tech.skill[job.category]
    IN  Points(skill)
        + (IF Available(tech, job, now) THEN 25 ELSE 0)
        + (IF ~Unavailable(tech, job, now) THEN 20 ELSE 0)
        + (IF load <= 5 THEN 20 - 4 * load ELSE 0)
        + (IF job.urgency # "STANDARD" /\ skill = "EXPERT" THEN 10 ELSE 0)

(* recommend: the first eligible one, by score and then by name. *)
Recommend(techs, loads, job, routing, gate, now) ==
    LET eligible == {t \in Technicians : Eligible(techs[t], job, routing, gate, now)}
        score(t) == Score(techs[t], job, loads[t], now)
        first == {t \in eligible :
                    \A u \in eligible : score(t) > score(u) \/ (score(t) = score(u) /\ t <= u)}
    IN  IF first = {} THEN None ELSE CHOOSE t \in first : TRUE

-----------------------------------------------------------------------------
(* The board's queues and the intake review. *)

Queue(job, escalated) ==
    IF job.assignee # None THEN "ASSIGNED"
    ELSE IF escalated THEN "ESCALATED"
    ELSE IF Gate(job) = "LOCKED" THEN "NEW_REQUEST"
    ELSE IF job.window # None \/ job.status \in {"OFFERED", "ACCEPTED", "IN_PROGRESS"}
         THEN "READY_TO_ASSIGN" ELSE "NEW_REQUEST"

(* job.given holds the fields that are neither blank nor an "unknown"      *)
(* placeholder; a window stands in for the preferred time.                 *)
MissingFields(job) ==
    ((IntakeFields \ job.given) \ (IF job.window # None THEN {"preferredWindow"} ELSE {}))
        \cup (IF Gate(job) = "LOCKED" THEN {"paymentStatus"} ELSE {})

(* Mutant: readiness looks at the intake alone. *)
ReadyWhenGiven(job) == MissingFields(job) \ {"paymentStatus"} = {}

ReadyForReview(job) == MissingFields(job) = {}
=============================================================================
