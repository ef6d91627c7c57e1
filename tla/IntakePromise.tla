---------------------------- MODULE IntakePromise ----------------------------
(***************************************************************************)
(* What intake promises, without its turns: a session's request is saved at*)
(* most once; the customer hears of it, as a reference or as a choice of   *)
(* windows, only when it is on file; and operations are sent a notice with *)
(* every reference. Module Intake implements it.                           *)
(***************************************************************************)
EXTENDS Naturals

CONSTANT Sessions

VARIABLES
    saved,      \* how many requests each session has
    filed,      \* sessions whose conversation and log name the request
    confirmed,  \* sessions whose customer heard of it
    notified    \* sessions whose request operations were sent

promise == <<saved, filed, confirmed, notified>>

Init ==
    /\ saved = [s \in Sessions |-> 0]
    /\ filed = {} /\ confirmed = {} /\ notified = {}

Save(s) ==
    /\ saved[s] = 0
    /\ saved' = [saved EXCEPT ![s] = 1]
    /\ UNCHANGED <<filed, confirmed, notified>>

File(s) ==
    /\ saved[s] = 1
    /\ filed' = filed \cup {s}
    /\ UNCHANGED <<saved, confirmed, notified>>

OfferWindows(s) ==
    /\ s \in filed
    /\ confirmed' = confirmed \cup {s}
    /\ UNCHANGED <<saved, filed, notified>>

GiveReference(s) ==
    /\ s \in filed
    /\ confirmed' = confirmed \cup {s}
    /\ notified' = notified \cup {s}
    /\ UNCHANGED <<saved, filed>>

Next == \E s \in Sessions : Save(s) \/ File(s) \/ OfferWindows(s) \/ GiveReference(s)

Spec == Init /\ [][Next]_promise
=============================================================================
