------------------------------- MODULE Accounts -------------------------------
(***************************************************************************)
(* Accounts and their roles (identity/application: auth_service,           *)
(* role_service; cli.py; the bootstrap of main.py). First-run setup is     *)
(* serialized by the one row of organization_settings; a change of role    *)
(* checks what it has read and locks nothing but the row it writes.        *)
(***************************************************************************)
EXTENDS FiniteSets, Naturals, Server

CONSTANTS
    People,      \* who may have an account: email addresses
    Super,       \* AUTH_SUPER_ADMIN_EMAIL
    Linked,      \* those whose account belongs to an employee
    MaxReturns   \* bound: handlers that fail

ASSUME SuperIsSomebody == Super \in People
ASSUME LinkedArePeople == Linked \subseteq People
ASSUME NoneIsNobody == None \notin People
ASSUME ReturnsBounded == MaxReturns \in Nat

VARIABLES
    role,          \* users: the role of each account
    organization,  \* organization_settings has its row
    orgLock,       \* who holds that row, or has inserted it, and not committed
    founders,      \* made by first-run setup since nobody had an account (history)
    counter,       \* per handler: what it does
    returns        \* handlers that failed

accountVars == <<role, organization, orgLock, founders, counter, returns>>

-------------------------------------------------------------------------------
(* Types *)

Roles == {"system_admin", "hr", "user"}

AtCounter == [pc |-> "idle", target |-> None, to |-> "none"]

AccountTypeOK ==
    /\ role \in [People -> Roles \cup {"none"}]
    /\ organization \in BOOLEAN
    /\ orgLock \in Handlers \cup {None}
    /\ founders \subseteq People
    /\ counter \in [Handlers -> [pc : {"idle", "setup", "insert", "claimed", "role"},
                                 target : People \cup {None}, to : Roles \cup {"none"}]]
    /\ returns \in 0..MaxReturns

AccountInit ==
    /\ role = [p \in People |-> "none"]
    /\ organization = FALSE
    /\ orgLock = None
    /\ founders = {}
    /\ counter = [h \in Handlers |-> AtCounter]
    /\ returns = 0

Holders(r) == {p \in People : role[p] = r}

\* count_users() > 0
Populated == \E p \in People : role[p] # "none"

Becomes(h, pc) == counter' = [counter EXCEPT ![h].pc = pc]

Leave(h) == counter' = [counter EXCEPT ![h] = AtCounter]

-------------------------------------------------------------------------------
(* setup_first_run *)

BeginSetup(h) ==
    /\ counter[h] = AtCounter
    /\ ~Populated
    /\ Becomes(h, "setup")
    /\ UNCHANGED <<role, organization, orgLock, founders, returns>>

\* Mutant: the gate is not read again.
Unguarded == FALSE

\* The gate once the claim is held.
Overtaken == Populated

\* create_for_setup, when the row is there: SELECT ... FOR UPDATE.
ClaimOrganization(h) ==
    /\ counter[h].pc = "setup"
    /\ organization
    /\ Available(orgLock, h)
    /\ IF Overtaken
       THEN Leave(h) /\ UNCHANGED orgLock
       ELSE Becomes(h, "claimed") /\ orgLock' = h
    /\ UNCHANGED <<role, organization, founders, returns>>

\* It is not, or not yet: an INSERT.
MissOrganization(h) ==
    /\ counter[h].pc = "setup"
    /\ ~organization
    /\ Becomes(h, "insert")
    /\ UNCHANGED <<role, organization, orgLock, founders, returns>>

\* The INSERT waits for another one, and collides with it if it was committed.
InsertOrganization(h) ==
    /\ counter[h].pc = "insert"
    /\ Available(orgLock, h)
    /\ IF organization \/ Overtaken
       THEN Leave(h) /\ UNCHANGED orgLock
       ELSE Becomes(h, "claimed") /\ orgLock' = h
    /\ UNCHANGED <<role, organization, founders, returns>>

\* The email is unique.
CommitSetup(h, p) ==
    /\ counter[h].pc = "claimed"
    /\ role[p] = "none"
    /\ role' = [role EXCEPT ![p] = "system_admin"]
    /\ founders' = founders \cup {p}
    /\ organization' = TRUE
    /\ orgLock' = None
    /\ Leave(h)
    /\ UNCHANGED returns

\* _seed_default: some request asks for the time zone and makes the row.
SeedOrganization ==
    /\ ~organization
    /\ orgLock = None
    /\ organization' = TRUE
    /\ UNCHANGED <<role, orgLock, founders, counter, returns>>

-------------------------------------------------------------------------------
(* Accounts *)

CreateAccount(p, r) ==
    /\ role[p] = "none"
    /\ role' = [role EXCEPT ![p] = r]
    /\ UNCHANGED <<organization, orgLock, founders, counter, returns>>

\* create_staff_account, by a system admin.
CreateStaff(p, r) ==
    /\ Holders("system_admin") # {}
    /\ r \in {"system_admin", "hr"}
    /\ CreateAccount(p, r)

\* create_employee_account, by HR.
CreateEmployeeAccount(p) ==
    /\ Holders("hr") # {}
    /\ p \in Linked
    /\ CreateAccount(p, "user")

\* delete_employee_account asks for no role.
DeleteEmployeeAccount(p) ==
    /\ Holders("hr") # {}
    /\ p \in Linked
    /\ role[p] # "none"
    /\ role' = [role EXCEPT ![p] = "none"]
    /\ founders' = IF \A q \in People \ {p} : role[q] = "none" THEN {} ELSE founders
    /\ UNCHANGED <<organization, orgLock, counter, returns>>

\* cli.py create-admin refuses while there is an administrator.
RescueAdmin(p) ==
    /\ Holders("system_admin") = {}
    /\ CreateAccount(p, "system_admin")

\* ensure_super_admin, when the server starts.
EnsureSuperAdmin ==
    /\ role[Super] \in {"hr", "user"}
    /\ role' = [role EXCEPT ![Super] = "system_admin"]
    /\ UNCHANGED <<organization, orgLock, founders, counter, returns>>

-------------------------------------------------------------------------------
(* change_role *)

\* Nobody changes their own role, the super admin's or the last admin's.
BeginRoleChange(h, admin, p, r) ==
    /\ counter[h] = AtCounter
    /\ role[admin] = "system_admin"
    /\ role[p] \notin {"none", r}
    /\ p \notin {admin, Super}
    /\ role[p] = "system_admin" => Cardinality(Holders("system_admin")) > 1
    /\ counter' = [counter EXCEPT ![h] = [pc |-> "role", target |-> p, to |-> r]]
    /\ UNCHANGED <<role, organization, orgLock, founders, returns>>

\* An UPDATE of an account that was deleted finds no row and fails.
CommitRoleChange(h) ==
    LET p == counter[h].target IN
    /\ counter[h].pc = "role"
    /\ role' = IF role[p] = "none" THEN role ELSE [role EXCEPT ![p] = counter[h].to]
    /\ Leave(h)
    /\ UNCHANGED <<organization, orgLock, founders, returns>>

RollBackAccount(h) ==
    /\ counter[h] # AtCounter
    /\ returns < MaxReturns
    /\ returns' = returns + 1
    /\ orgLock' = IF orgLock = h THEN None ELSE orgLock
    /\ Leave(h)
    /\ UNCHANGED <<role, organization, founders>>

SetupStep(h) ==
    \/ BeginSetup(h)
    \/ ClaimOrganization(h)
    \/ MissOrganization(h)
    \/ InsertOrganization(h)
    \/ \E p \in People : CommitSetup(h, p)

RoleStep(h) ==
    \/ \E admin, p \in People, r \in Roles : BeginRoleChange(h, admin, p, r)
    \/ CommitRoleChange(h)

AccountNext ==
    \/ \E h \in Handlers : SetupStep(h) \/ RoleStep(h) \/ RollBackAccount(h)
    \/ SeedOrganization
    \/ EnsureSuperAdmin
    \/ \E p \in People :
        \/ \E r \in Roles : CreateStaff(p, r)
        \/ CreateEmployeeAccount(p)
        \/ DeleteEmployeeAccount(p)
        \/ RescueAdmin(p)

AccountSpec == AccountInit /\ [][AccountNext]_accountVars

-------------------------------------------------------------------------------
(* Properties *)

\* However many first-run setups are sent at once, with the organization's row
\* there or not, one of them makes an administrator ("exactly one INSERT win",
\* "exactly one claimant hold it at a time", org_settings_repository.py:63-66),
\* unless the accounts that were there were all deleted in between.
FoundedOnce == Cardinality(founders) <= 1

\* A change of role never leaves the deployment without an administrator
\* (LastAdminError, role_service.py:23-30).
AdminRemains ==
    [][(\E h \in Handlers : CommitRoleChange(h)) /\ Holders("system_admin") # {}
            => (Holders("system_admin"))' # {}]_accountVars
===============================================================================
