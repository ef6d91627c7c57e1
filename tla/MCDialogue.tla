----------------------------- MODULE MCDialogue -----------------------------
(* Instances of Dialogue for TLC. *)
EXTENDS Dialogue

UsualOpeners == {{"cooling", "broken", "address"}, {"cooling", "address", "name", "danger"}}
UsualQuestions == {"name", "propertyType", "urgency"}

(* Customers who answer in words that the patterns recognise. *)
PlainAnswers ==
    [name |-> {"name"}, phone |-> {"phone"}, address |-> {"address"},
     description |-> {"broken"}, category |-> {"cooling"}, propertyType |-> {"residential"},
     serviceIntent |-> {"repair"}, urgency |-> {"evasion"}]

(* Customers who repeat "a home" from the property types they are offered.  *)
HomeAnswers == [PlainAnswers EXCEPT !.propertyType = {"home"}]
=============================================================================
