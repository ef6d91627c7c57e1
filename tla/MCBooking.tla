------------------------------ MODULE MCBooking ------------------------------
(* Instances of Booking for TLC: from a Friday in Los Angeles, over *)
(* the weekend on which summer time begins (on Sunday at 10:00 UTC).       *)
EXTENDS Booking

LosAngeles(utc) == IF utc < 3 * Day + 20 THEN -16 ELSE -14
FridayMorning == Day + 39
FridayNoon == Day + 41
=============================================================================
