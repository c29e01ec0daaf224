---------------------------- MODULE RequestLifecycle ---------------------------
(***************************************************************************)
(* What an employee can rely on (CONTEXT.md, Employee Request): a request  *)
(* is reviewed at most once, and once it is cancelled nothing revives it.  *)
(* The code also lets a cancellation overtake a review it raced with;      *)
(* Withdraw therefore starts from every status.                            *)
(***************************************************************************)
EXTENDS Naturals

CONSTANT Requests

VARIABLES
    status,   \* of each request; "none" before it is submitted
    reviews   \* REQUEST_APPROVE and REQUEST_REJECT entries of the audit log

lifecycleVars == <<status, reviews>>

Submit(r) ==
    /\ status[r] = "none"
    /\ status' = [status EXCEPT ![r] = "submitted"]
    /\ UNCHANGED reviews

Review(r, verdict) ==
    /\ status[r] = "submitted"
    /\ reviews[r] = 0
    /\ status' = [status EXCEPT ![r] = verdict]
    /\ reviews' = [reviews EXCEPT ![r] = 1]

Withdraw(r) ==
    /\ status[r] \in {"submitted", "approved", "rejected"}
    /\ status' = [status EXCEPT ![r] = "cancelled"]
    /\ UNCHANGED reviews

LifecycleInit ==
    /\ status = [r \in Requests |-> "none"]
    /\ reviews = [r \in Requests |-> 0]

LifecycleNext ==
    \E r \in Requests :
        \/ Submit(r)
        \/ \E verdict \in {"approved", "rejected"} : Review(r, verdict)
        \/ Withdraw(r)

LifecycleSpec == LifecycleInit /\ [][LifecycleNext]_lifecycleVars
===============================================================================
