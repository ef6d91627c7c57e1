--------------------------- MODULE MCJobWorkflow ---------------------------
(* Instances of JobWorkflow for TLC. *)
EXTENDS JobWorkflow, TLC

Symmetry == Permutations(Users) \cup Permutations(Customers) \cup Permutations(Technicians)
=============================================================================
