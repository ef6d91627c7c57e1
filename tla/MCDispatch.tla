----------------------------- MODULE MCDispatch -----------------------------
(* Instances of Dispatch for TLC. *)
EXTENDS Dispatch

CONSTANTS j1, j2, a1

(* One service area, and an emergency rule that asks for on-call staff. *)
AreaRule ==
    [active |-> TRUE, category |-> Anything, urgency |-> Anything, scope |-> Anything, area |-> a1,
     requireAvailable |-> TRUE, requireOnCall |-> FALSE,
     escalateToOwner |-> FALSE, escalateToOnCall |-> FALSE]
EmergencyRule ==
    [AreaRule EXCEPT !.urgency = "EMERGENCY", !.area = Anything, !.requireAvailable = FALSE,
                     !.requireOnCall = TRUE, !.escalateToOnCall = TRUE]
Rules == {AreaRule, EmergencyRule, [AreaRule EXCEPT !.active = FALSE]}
ByPriority == <<EmergencyRule, AreaRule>>

Area == [active |-> TRUE, postalCodes |-> {"10001"}]
Monday == [day |-> "Mon", hour |-> 9]
Saturday == [day |-> "Sat", hour |-> 9]

Tech(available, onCall, skill) ==
    [available |-> available, onCall |-> onCall, skill |-> [cooling |-> skill], blocks |-> {}]
Techs == (1 :> Tech(TRUE, FALSE, "STANDARD")) @@ (2 :> Tech(TRUE, TRUE, "STANDARD"))
Forms == {[Techs[1] EXCEPT !.blocks = {[type |-> "UNAVAILABLE", window |-> Saturday]}],
          [Techs[2] EXCEPT !.available = FALSE, !.skill.cooling = None]}

(* The first job asks for a service fee; the second, already booked, lies   *)
(* outside the area.                                                       *)
Facts ==
    (j1 :> [category |-> "cooling", zip |-> "10001", policy |-> {"serviceFeeRequired", "manual_override"},
            given |-> IntakeFields])
    @@ (j2 :> [category |-> "cooling", zip |-> "20002", policy |-> {}, given |-> {"phone"}])
=============================================================================
