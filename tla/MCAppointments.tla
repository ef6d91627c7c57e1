--------------------------- MODULE MCAppointments ---------------------------
(* Instances of Appointments for TLC. *)
EXTENDS Appointments, TLC

Symmetry == Permutations(Jobs) \cup Permutations(Calls) \cup Permutations(Windows)
=============================================================================
