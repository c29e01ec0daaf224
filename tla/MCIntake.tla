------------------------------- MODULE MCIntake -------------------------------
(* Instances of Intake small enough for TLC. *)
EXTENDS Intake, TLC

Symmetry == Permutations(Requests) \cup Permutations(Openings)
===============================================================================
