-------------------------- MODULE OnboardingContract --------------------------
(***************************************************************************)
(* What the onboarding component promises, free of HTTP requests, workers, *)
(* locks and audit entries.  A hire is started at most once, its checklist *)
(* moves only while it is in progress, and it becomes an active employee   *)
(* in the very step that completes the whole checklist.                    *)
(***************************************************************************)
CONSTANTS Candidates, Tasks

VARIABLES
    stage,     \* [Candidates -> Stages]: the OnboardingProcess of a candidate
    finished,  \* [Candidates -> SUBSET Tasks]: tasks marked done
    live       \* [Candidates -> BOOLEAN]: the onboarded Employee is active

vars == <<stage, finished, live>>

Stages == {"none", "in_progress", "complete"}

Init ==
    /\ stage = [c \in Candidates |-> "none"]
    /\ finished = [c \in Candidates |-> {}]
    /\ live = [c \in Candidates |-> FALSE]

\* A candidate_accepted event opens the process, its employee inactive.
Begin(c) ==
    /\ stage[c] = "none"
    /\ stage' = [stage EXCEPT ![c] = "in_progress"]
    /\ UNCHANGED <<finished, live>>

\* HR marks tasks done or takes them back; nobody becomes active.
Work(c) ==
    /\ stage[c] = "in_progress"
    /\ \E S \in SUBSET Tasks : finished' = [finished EXCEPT ![c] = S]
    /\ UNCHANGED <<stage, live>>

\* One atomic step completes the checklist, the process and the hire.
Finish(c) ==
    /\ stage[c] = "in_progress"
    /\ finished' = [finished EXCEPT ![c] = Tasks]
    /\ stage' = [stage EXCEPT ![c] = "complete"]
    /\ live' = [live EXCEPT ![c] = TRUE]

\* The employee module deactivates an employee; onboarding never reopens.
Leave(c) ==
    /\ stage[c] = "complete"
    /\ live' = [live EXCEPT ![c] = FALSE]
    /\ UNCHANGED <<stage, finished>>

Next == \E c \in Candidates : Begin(c) \/ Work(c) \/ Finish(c) \/ Leave(c)

Spec == Init /\ [][Next]_vars
===============================================================================
