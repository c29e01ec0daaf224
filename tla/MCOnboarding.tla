---------------------------- MODULE MCOnboarding ----------------------------
(* Instances of Onboarding small enough for TLC. *)
EXTENDS Onboarding, TLC

\* Handlers are alike, and so are jobs and the tasks of a checklist.
MCSymmetry ==
    Permutations(Requests) \cup Permutations(Jobs) \cup Permutations(Tasks)
=============================================================================
