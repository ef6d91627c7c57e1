--------------------------- MODULE MCSmsDelivery ---------------------------
(* Instances of SmsDelivery for TLC: all events go to one phone. *)
EXTENDS SmsDelivery

OnePhone == [e \in Events |-> CHOOSE p \in Phones : TRUE]
=============================================================================
