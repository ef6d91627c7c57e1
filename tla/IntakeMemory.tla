---------------------------- MODULE IntakeMemory ----------------------------
(***************************************************************************)
(* What AiService (src/src/ai/ai.service.ts) concludes from the messages   *)
(* of a session: which intake fields have been supplied, whether a         *)
(* residential booking is ready, and which question may be put to the      *)
(* customer. A message is what its patterns find in it: a customer's is a  *)
(* set of facts, an assistant's the set of fields it asks for. "home" and  *)
(* "evasion" are answers that none of the patterns recognises.             *)
(***************************************************************************)
EXTENDS Naturals, Sequences

Fields == {"name", "phone", "address", "description", "category",
           "propertyType", "serviceIntent", "urgency"}

(* The fields each fact reveals, whatever was asked. *)
Reveals ==
    [name |-> {"name"}, phone |-> {"phone"}, address |-> {"address"},
     residential |-> {"propertyType"}, commercial |-> {"propertyType"},
     cooling |-> {"category"}, boiler |-> {"category"},
     broken |-> {"description", "serviceIntent"}, leaking |-> {"description"},
     repair |-> {"serviceIntent"}, maintenance |-> {"serviceIntent"},
     emergency |-> {"urgency"}, danger |-> {}, home |-> {}, evasion |-> {}]

Facts == DOMAIN Reveals

(* LifeSafetyService.assess *)
Dangerous(said) == "danger" \in said

Told(rows) == UNION {rows[i].content : i \in {j \in DOMAIN rows : rows[j].role = "user"}}

(* Whatever the customer says right after a question counts as its answer. *)
Answered(rows) ==
    UNION {rows[i - 1].content :
              i \in {j \in DOMAIN rows \ {1} : rows[j].role = "user"
                                               /\ rows[j - 1].role = "assistant"}}

(* buildIntakeSnapshot *)
Collected(rows) == (UNION {Reveals[fact] : fact \in Told(rows)}) \cup Answered(rows)
HeatingOrCooling(rows) == "cooling" \in Told(rows)
RepairLike(rows) == Told(rows) \cap {"broken", "repair"} # {}

(* In the order in which nextMissingQuestion asks. *)
BookingFields == <<"name", "phone", "address", "category", "description", "propertyType">>

Missing(rows) == {i \in DOMAIN BookingFields : BookingFields[i] \notin Collected(rows)}

IsResidentialBookingReady(rows) ==
    "residential" \in Told(rows) /\ HeatingOrCooling(rows) /\ RepairLike(rows)
       /\ Missing(rows) = {}

(* Mutant: only the priority is never asked for. *)
OnlyPriority(rows, asks) == "urgency" \in asks

(* guardAgainstRepeatedQuestion *)
MustNotAsk(rows, asks) ==
    \/ asks \cap Collected(rows) # {}
    \/ "urgency" \in asks
    \/ HeatingOrCooling(rows) /\ RepairLike(rows) /\ "serviceIntent" \in asks

(* No field is left to ask for in "I have the required details. I'm        *)
(* preparing the available appointment times now."                         *)
NextMissingQuestion(rows) ==
    {BookingFields[i] : i \in {j \in Missing(rows) : \A k \in Missing(rows) : j <= k}}

GuardedQuestion(rows, asks) ==
    IF MustNotAsk(rows, asks) THEN NextMissingQuestion(rows) ELSE asks

SaysPreparing(rows, asks) == MustNotAsk(rows, asks) /\ Missing(rows) = {}
=============================================================================
