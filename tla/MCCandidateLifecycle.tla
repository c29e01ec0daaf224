------------------------ MODULE MCCandidateLifecycle ------------------------
(* Instances of CandidateLifecycle small enough for TLC. *)
EXTENDS CandidateLifecycle, TLC

\* Handlers are alike, and so are the Calendar's event identifiers.
MCSymmetry == Permutations(Requests) \cup Permutations(Slots)
=============================================================================
