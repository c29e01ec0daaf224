---------------------------- MODULE Identity_proofs ----------------------------
(***************************************************************************)
(* Accounts, sessions, the settings of the organization and the documents  *)
(* of employees, for any number of people, tokens, keys, edits, papers and *)
(* handlers.                                                               *)
(***************************************************************************)
EXTENDS Accounts, Sessions, AiConfig, Administration, Vault, FiniteSetTheorems, TLAPS

-------------------------------------------------------------------------------
(* Small sets *)

LEMMA CountUpTo ==
  ASSUME NEW S, NEW n \in Nat, NEW f \in [1..n -> S]
  PROVE  DOMAIN f = 1..n /\ Cardinality(DOMAIN f) = n
<1>1. Cardinality(1..n) = n
  BY FS_Interval
<1>2. DOMAIN f = 1..n
  OBVIOUS
<1> QED
  BY <1>1, <1>2

LEMMA AtMostOne ==
  ASSUME NEW S, NEW x, S \subseteq {x}
  PROVE  Cardinality(S) <= 1
<1>1. IsFiniteSet({x}) /\ Cardinality({x}) = 1
  BY FS_Singleton
<1>2. Cardinality(S) <= Cardinality({x})
  BY <1>1, FS_Subset
<1> QED
  BY <1>1, <1>2

-------------------------------------------------------------------------------
(* Sessions *)

\* Whoever is past the write of the account's row holds it.
RowKept ==
    \A h \in Handlers :
        desk[h].pc \in {"written", "revoked"} /\ desk[h].op # "forgot" => userLock = h

\* What is to be revoked is still all that is live when the transaction ends: a
\* token is only issued by a holder of the row.
SeesAll ==
    \A h \in Handlers :
        desk[h].pc = "revoked" /\ desk[h].op # "forgot" => LiveTokens \subseteq desk[h].seen

\* A handler that has begun knows what it is doing.
Busy ==
    \A h \in Handlers :
        /\ desk[h].pc # "idle" => desk[h].op # "idle"
        /\ desk[h].op = "reset" => desk[h].link \in DOMAIN links
        /\ desk[h].op = "forgot" => desk[h].pc = "revoked"

OneLive == \E t \in Nat : LiveTokens \subseteq {t}

SessionInv == SessionTypeOK /\ RowKept /\ SeesAll /\ Busy /\ OneLive

LEMMA SessionStarts == SessionInit => SessionInv
<1> SUFFICES ASSUME SessionInit PROVE SessionInv
  OBVIOUS
<1>1. LiveTokens = {} /\ 1..0 = {}
  BY DEF SessionInit, LiveTokens
<1>2. SessionTypeOK
  <2>1. tokens \in [1..0 -> BOOLEAN] /\ links \in [1..0 -> [unused : BOOLEAN, resets : Nat]]
    BY <1>1 DEF SessionInit
  <2>2. AtRest \in [op : {"idle", "login", "change", "reset", "forgot"},
                    pc : {"idle", "checked", "written", "revoked"},
                    link : Links \cup {None}, seen : (SUBSET Tokens) \cup (SUBSET Links)]
    BY DEF AtRest
  <2> QED
    BY <2>1, <2>2, SessionBounds DEF SessionInit, SessionTypeOK
<1> QED
  BY <1>1, <1>2 DEF SessionInit, SessionInv, RowKept, SeesAll, Busy, OneLive, AtRest

\* The steps of a handler that leave tokens and links alone.
LEMMA DeskKeeps ==
  ASSUME SessionInv, NEW h \in Handlers,
         \/ \E op \in {"login", "change"} : CheckPassword(h, op)
         \/ \E l \in Links : CheckLink(h, l)
         \/ WriteAccount(h)
         \/ RevokeAll(h)
         \/ InvalidateLinks(h)
         \/ RollBackSession(h)
  PROVE  SessionInv'
<1> USE NoneIsNoHandler
<1> DEFINE Desk == [op : {"idle", "login", "change", "reset", "forgot"},
                    pc : {"idle", "checked", "written", "revoked"},
                    link : Links \cup {None}, seen : (SUBSET Tokens) \cup (SUBSET Links)]
<1>1. /\ UNCHANGED <<password, tokens, links>>
      /\ \A g \in Handlers \ {h} : desk'[g] = desk[g]
      /\ LiveTokens' = LiveTokens
  BY DEF CheckPassword, CheckLink, WriteAccount, RevokeAll, InvalidateLinks, RollBackSession,
         SessionInv, SessionTypeOK, Reach, LiveTokens
<1>2. LiveTokens \in SUBSET Tokens /\ UnusedLinks \in SUBSET Links
  BY SessionBounds DEF SessionInv, SessionTypeOK, LiveTokens, UnusedLinks, Tokens, Links
<1> DEFINE Fine ==
      /\ desk'[h] \in Desk
      /\ \A g \in Handlers \ {h} : userLock = g => userLock' = g
      /\ desk'[h].pc \in {"written", "revoked"} /\ desk'[h].op # "forgot" => userLock' = h
      /\ desk'[h].pc = "revoked" /\ desk'[h].op # "forgot" => LiveTokens \subseteq desk'[h].seen
      /\ desk'[h].pc # "idle" => desk'[h].op # "idle"
      /\ desk'[h].op = "reset" => desk'[h].link \in DOMAIN links
      /\ desk'[h].op = "forgot" => desk'[h].pc = "revoked"
<1>3. Fine
  <2> USE DEF Desk, AtRest
  <2>1. desk[h] \in Desk
    BY DEF SessionInv, SessionTypeOK
  <2>2. ASSUME NEW op \in {"login", "change"}, CheckPassword(h, op) PROVE Fine
    <3>1. desk'[h] = [AtRest EXCEPT !.op = op, !.pc = "checked"] /\ userLock' = userLock
      BY <2>2 DEF CheckPassword, SessionInv, SessionTypeOK
    <3> QED
      BY <3>1
  <2>3. ASSUME NEW l \in Links, CheckLink(h, l) PROVE Fine
    <3>1. /\ desk'[h] = [AtRest EXCEPT !.op = "reset", !.pc = "checked", !.link = l]
          /\ userLock' = userLock
          /\ l \in DOMAIN links
      BY <2>3 DEF CheckLink, SessionInv, SessionTypeOK, UnusedLinks
    <3> QED
      BY <3>1
  <2>4. CASE WriteAccount(h)
    <3>1. /\ desk'[h] = [desk[h] EXCEPT !.pc = "written"] /\ userLock' = h
          /\ desk[h].pc = "checked" /\ userLock \in {None, h}
      BY <2>4 DEF WriteAccount, SessionInv, SessionTypeOK, Reach, WritesRow, Available
    <3> QED
      BY <2>1, <3>1 DEF SessionInv, Busy
  <2>5. CASE RevokeAll(h)
    <3>1. /\ desk'[h] = [desk[h] EXCEPT !.pc = "revoked", !.seen = LiveTokens]
          /\ desk[h].pc = "written" /\ userLock' = userLock
      BY <2>5 DEF RevokeAll, SessionInv, SessionTypeOK
    <3> QED
      BY <1>2, <2>1, <3>1 DEF SessionInv, Busy, RowKept
  <2>6. CASE InvalidateLinks(h)
    <3>1. /\ desk'[h] = [AtRest EXCEPT !.op = "forgot", !.pc = "revoked", !.seen = UnusedLinks]
          /\ userLock' = userLock
      BY <2>6 DEF InvalidateLinks, SessionInv, SessionTypeOK
    <3> QED
      BY <1>2, <3>1
  <2>7. CASE RollBackSession(h)
    <3>1. desk'[h] = AtRest /\ userLock' = (IF userLock = h THEN None ELSE userLock)
      BY <2>7 DEF RollBackSession, SessionInv, SessionTypeOK
    <3> QED
      BY <3>1
  <2> HIDE DEF Fine
  <2> QED
    BY <2>2, <2>3, <2>4, <2>5, <2>6, <2>7
<1>4. userLock' \in Handlers \cup {None} /\ rollbacks' \in 0..MaxRollbacks
  <2>1. userLock' \in {userLock, h, None}
    BY DEF CheckPassword, CheckLink, WriteAccount, RevokeAll, InvalidateLinks, RollBackSession,
           WritesRow
  <2>2. rollbacks' = rollbacks \/ (rollbacks < MaxRollbacks /\ rollbacks' = rollbacks + 1)
    BY DEF CheckPassword, CheckLink, WriteAccount, RevokeAll, InvalidateLinks, RollBackSession
  <2> QED
    BY <2>1, <2>2, SessionBounds DEF SessionInv, SessionTypeOK
<1>5. SessionTypeOK'
  <2>1. desk' = [desk EXCEPT ![h] = desk'[h]]
    BY DEF SessionInv, SessionTypeOK, CheckPassword, CheckLink, WriteAccount, RevokeAll,
       InvalidateLinks, RollBackSession, Reach
  <2>2. desk'[h] \in Desk
    BY <1>3
  <2>3. desk' \in [Handlers -> Desk]
    BY <2>1, <2>2 DEF SessionInv, SessionTypeOK
  <2> QED
    BY <1>1, <1>4, <2>3 DEF SessionInv, SessionTypeOK
<1>6. RowKept' /\ SeesAll' /\ Busy'
  BY <1>1, <1>3 DEF SessionInv, RowKept, SeesAll, Busy
<1> QED
  BY <1>1, <1>5, <1>6 DEF SessionInv, OneLive

\* A commit leaves alive the token it issues and no other: it holds the row, so
\* that nobody has issued one since it looked.
LEMMA CommitAccountKeeps ==
  ASSUME SessionInv, NEW h \in Handlers, CommitAccount(h)
  PROVE  SessionInv'
<1> USE NoneIsNoHandler
<1> DEFINE d == desk[h]
           new == IF d.op = "reset" THEN {} ELSE {Cardinality(DOMAIN tokens) + 1}
<1>1. d.pc = "revoked" /\ d.op # "forgot" /\ d.op # "idle" /\ userLock = h
  BY DEF CommitAccount, SessionInv, RowKept, Busy
<1>2. PICK n \in 0..MaxTokens : tokens \in [1..n -> BOOLEAN]
  BY DEF SessionInv, SessionTypeOK
<1>3. DOMAIN tokens = 1..n /\ Cardinality(DOMAIN tokens) = n
  <2>1. n \in Nat
    BY SessionBounds
  <2> QED
    BY <1>2, <2>1, CountUpTo
<1>4. tokens' = [t \in DOMAIN tokens \cup new |-> t \in new \/ (tokens[t] /\ t \notin d.seen)]
  BY DEF CommitAccount
<1>5. LiveTokens \subseteq d.seen
  BY <1>1 DEF SessionInv, SeesAll
<1>6. LiveTokens' = new
  BY <1>2, <1>4, <1>5 DEF LiveTokens
<1>7. OneLive'
  BY <1>3, <1>6, SessionBounds DEF OneLive
<1>8. \A g \in Handlers \ {h} : /\ desk'[g] = desk[g]
                                /\ desk[g].pc \in {"written", "revoked"} => desk[g].op = "forgot"
  BY <1>1 DEF CommitAccount, SessionInv, SessionTypeOK, RowKept
<1>9. desk'[h] = AtRest
  BY DEF CommitAccount, SessionInv, SessionTypeOK
<1>10. SessionTypeOK'
  <2>1. \E m \in 0..MaxTokens : tokens' \in [1..m -> BOOLEAN]
    <3>1. CASE d.op = "reset"
      BY <1>2, <1>3, <1>4, <3>1
    <3>2. CASE d.op # "reset"
      <4>1. new = {n + 1} /\ n + 1 \in 1..MaxTokens
        BY <1>3, <3>2 DEF CommitAccount, Tokens
      <4>2. (1..n) \cup {n + 1} = 1..(n + 1)
        BY <1>2, SessionBounds
      <4>3. tokens' \in [1..(n + 1) -> BOOLEAN]
        BY <1>2, <1>3, <1>4, <4>1, <4>2
      <4> QED
        BY <4>1, <4>3, SessionBounds
    <3> QED
      BY <3>1, <3>2
  <2>2. \E m \in 0..MaxLinks : links' \in [1..m -> [unused : BOOLEAN, resets : Nat]]
    <3>1. PICK m \in 0..MaxLinks : links \in [1..m -> [unused : BOOLEAN, resets : Nat]]
      BY DEF SessionInv, SessionTypeOK
    <3>2. CASE d.op = "reset"
      <4>1. d.link \in 1..m
        BY <1>1, <3>1, <3>2 DEF SessionInv, Busy
      <4>2. [unused |-> FALSE, resets |-> links[d.link].resets + 1] \in [unused : BOOLEAN, resets : Nat]
        BY <3>1, <4>1
      <4> QED
        BY <3>1, <3>2, <4>1, <4>2 DEF CommitAccount
    <3>3. CASE d.op # "reset"
      BY <3>1, <3>3 DEF CommitAccount
    <3> QED
      BY <3>2, <3>3
  <2>3. password' \in 0..MaxPasswords
    BY SessionBounds DEF CommitAccount, SessionInv, SessionTypeOK
  <2>4. AtRest \in [op : {"idle", "login", "change", "reset", "forgot"},
                    pc : {"idle", "checked", "written", "revoked"},
                    link : Links \cup {None}, seen : (SUBSET Tokens) \cup (SUBSET Links)]
    BY DEF AtRest
  <2> QED
    BY <2>1, <2>2, <2>3, <2>4 DEF CommitAccount, SessionInv, SessionTypeOK
<1>11. RowKept' /\ SeesAll'
  BY <1>8, <1>9 DEF RowKept, SeesAll, AtRest
<1>12. Busy'
  BY <1>8, <1>9 DEF CommitAccount, SessionInv, Busy, AtRest
<1> QED
  BY <1>7, <1>10, <1>11, <1>12 DEF SessionInv

\* Nobody else's step makes a token live.
LEMMA OthersOfSession ==
  ASSUME SessionInv,
         \/ \E t \in Tokens : Logout(t)
         \/ RescuePassword
         \/ \E h \in Handlers : CommitLink(h)
  PROVE  SessionInv'
<1>1. /\ userLock' = userLock
      /\ \A h \in Handlers : desk'[h] = desk[h] \/ desk'[h] = AtRest
      /\ LiveTokens' \subseteq LiveTokens
      /\ DOMAIN links \subseteq DOMAIN links'
  <2>1. CASE \E t \in Tokens : Logout(t)
    BY <2>1 DEF Logout, SessionInv, SessionTypeOK, LiveTokens
  <2>2. CASE RescuePassword
    BY <2>2 DEF RescuePassword, LiveTokens
  <2>3. CASE \E h \in Handlers : CommitLink(h)
    <3>1. PICK m \in 0..MaxLinks : links \in [1..m -> [unused : BOOLEAN, resets : Nat]]
      BY DEF SessionInv, SessionTypeOK
    <3>2. DOMAIN links = 1..m /\ Cardinality(DOMAIN links) = m
      <4>1. m \in Nat
        BY SessionBounds
      <4> QED
        BY <3>1, <4>1, CountUpTo
    <3> QED
      BY <2>3, <3>1, <3>2, SessionBounds DEF CommitLink, SessionInv, SessionTypeOK, LiveTokens
  <2> QED
    BY <2>1, <2>2, <2>3
<1>2. SessionTypeOK'
  <2>1. CASE \E t \in Tokens : Logout(t)
    BY <2>1 DEF Logout, SessionInv, SessionTypeOK
  <2>2. CASE RescuePassword
    BY <2>2, SessionBounds DEF RescuePassword, SessionInv, SessionTypeOK
  <2>3. ASSUME NEW h \in Handlers, CommitLink(h) PROVE SessionTypeOK'
    <3> DEFINE Link == [unused : BOOLEAN, resets : Nat]
    <3>1. PICK m \in 0..MaxLinks : links \in [1..m -> Link]
      BY DEF SessionInv, SessionTypeOK
    <3>2. DOMAIN links = 1..m /\ Cardinality(DOMAIN links) = m
      <4>1. m \in Nat
        BY SessionBounds
      <4> QED
        BY <3>1, <4>1, CountUpTo
    <3>3. /\ links' = [l \in 1..(m + 1) |->
                IF l = m + 1 THEN [unused |-> TRUE, resets |-> 0]
                ELSE [links[l] EXCEPT !.unused = @ /\ l \notin desk[h].seen]]
          /\ m + 1 \in 0..MaxLinks
      <4>1. PICK new : new = Cardinality(DOMAIN links) + 1
        OBVIOUS
      <4>2. /\ new \in Links
            /\ links' = [l \in 1..new |->
                    IF l = new THEN [unused |-> TRUE, resets |-> 0]
                    ELSE [links[l] EXCEPT !.unused = @ /\ l \notin desk[h].seen]]
        BY Zenon, <2>3, <4>1 DEF CommitLink
      <4>3. new = m + 1
        BY <3>2, <4>1
      <4> QED
        BY <4>2, <4>3, SessionBounds DEF Links
    <3>4. \A l \in 1..(m + 1) : l # m + 1 => l \in 1..m
      BY <3>1, SessionBounds
    <3>5. links' \in [1..(m + 1) -> Link]
      BY <3>1, <3>3, <3>4
    <3>6. AtRest \in [op : {"idle", "login", "change", "reset", "forgot"},
                      pc : {"idle", "checked", "written", "revoked"},
                      link : Links \cup {None}, seen : (SUBSET Tokens) \cup (SUBSET Links)]
      BY DEF AtRest
    <3> QED
      BY <2>3, <3>3, <3>5, <3>6 DEF CommitLink, SessionInv, SessionTypeOK
  <2> QED
    BY <2>1, <2>2, <2>3
<1> QED
  BY <1>1, <1>2 DEF SessionInv, RowKept, SeesAll, Busy, OneLive, AtRest

\* The types and the locking of the account's row hold throughout.
THEOREM SessionsInductive == SessionSpec => []SessionInv
<1>1. SessionInv /\ [SessionNext]_sessionVars => SessionInv'
  <2> SUFFICES ASSUME SessionInv, [SessionNext]_sessionVars PROVE SessionInv'
    OBVIOUS
  <2>1. ASSUME NEW h \in Handlers, SessionStep(h) PROVE SessionInv'
    BY <2>1, DeskKeeps, CommitAccountKeeps, OthersOfSession DEF SessionStep
  <2>2. CASE (\E t \in Tokens : Logout(t)) \/ RescuePassword
    BY <2>2, OthersOfSession
  <2>3. CASE UNCHANGED sessionVars
    BY <2>3 DEF sessionVars, SessionInv, SessionTypeOK, RowKept, SeesAll, Busy, OneLive,
                LiveTokens
  <2> QED
    BY <2>1, <2>2, <2>3 DEF SessionNext
<1> QED
  BY <1>1, SessionStarts, PTL DEF SessionSpec

\* Whatever logins, changes of the password, resets and logouts overlap, the
\* account has one session at most (revoke_all_for_user after the UPDATE of the
\* account's row).
THEOREM OneSession == SessionSpec => []SingleSession
<1>1. SessionInv => SingleSession
  BY AtMostOne DEF SessionInv, OneLive, SingleSession
<1> QED
  BY <1>1, SessionsInductive, PTL

-------------------------------------------------------------------------------
(* Accounts *)

\* Whoever is past the second look at the gate holds the organization's row, and
\* no setup has succeeded.
ClaimHeld ==
    \A h \in Handlers : counter[h].pc = "claimed" => orgLock = h /\ founders = {}

\* Once a setup has succeeded the gate is shut.
GateShut == founders # {} => Populated

OneFounder == \E p \in People : founders \subseteq {p}

\* A change of role is of somebody, and to a role.
RoleKnown ==
    \A h \in Handlers :
        counter[h].pc = "role" => counter[h].target \in People /\ counter[h].to \in Roles

AccountInv == AccountTypeOK /\ ClaimHeld /\ GateShut /\ OneFounder /\ RoleKnown

Counters == [pc : {"idle", "setup", "insert", "claimed", "role"},
             target : People \cup {None}, to : Roles \cup {"none"}]

LEMMA AtCounterTyped == AtCounter \in Counters
BY DEF AtCounter, Counters

LEMMA AccountStarts == AccountInit => AccountInv
<1> SUFFICES ASSUME AccountInit PROVE AccountInv
  OBVIOUS
<1>1. AccountTypeOK
  <2>1. counter \in [Handlers -> Counters]
    BY AtCounterTyped DEF AccountInit
  <2>2. role \in [People -> Roles \cup {"none"}] /\ returns \in 0..MaxReturns
    BY ReturnsBounded DEF AccountInit
  <2> QED
    BY <2>1, <2>2 DEF AccountInit, AccountTypeOK, Counters
<1>2. ClaimHeld /\ RoleKnown
  BY DEF AccountInit, ClaimHeld, RoleKnown, AtCounter
<1> QED
  BY <1>1, <1>2, SuperIsSomebody DEF AccountInit, AccountInv, GateShut, OneFounder

\* Steps of a setup before its commit: the claim is granted to one, and only
\* while nobody has an account.
LEMMA SetupKeeps ==
  ASSUME AccountInv, NEW h \in Handlers,
         BeginSetup(h) \/ ClaimOrganization(h) \/ MissOrganization(h) \/ InsertOrganization(h)
  PROVE  AccountInv'
<1> USE NoneIsNoHandler
<1> DEFINE to == counter'[h]
<1>1. UNCHANGED <<role, organization, founders, returns>> /\ (Populated <=> Populated')
  BY DEF BeginSetup, ClaimOrganization, MissOrganization, InsertOrganization, Populated
<1>2. /\ counter' = [counter EXCEPT ![h] = to]
      /\ \/ to.pc # "claimed" /\ to.pc # "role" /\ orgLock' = orgLock
         \/ to.pc = "claimed" /\ orgLock' = h /\ ~Populated /\ Available(orgLock, h)
      /\ to \in Counters
      /\ counter[h].pc \in {"idle", "setup", "insert"}
  <2>1. counter[h] \in Counters /\ counter \in [Handlers -> Counters]
    BY DEF AccountInv, AccountTypeOK, Counters
  <2>2. CASE BeginSetup(h)
    BY <2>1, <2>2 DEF BeginSetup, Becomes, AtCounter, Counters
  <2>3. CASE MissOrganization(h)
    BY <2>1, <2>3 DEF MissOrganization, Becomes, Counters
  <2>4. CASE ClaimOrganization(h)
    BY <2>1, <2>4, AtCounterTyped
       DEF ClaimOrganization, Overtaken, Leave, Becomes, AtCounter, Counters
  <2>5. CASE InsertOrganization(h)
    BY <2>1, <2>5, AtCounterTyped
       DEF InsertOrganization, Overtaken, Leave, Becomes, AtCounter, Counters
  <2> QED
    BY <2>2, <2>3, <2>4, <2>5
<1>3. AccountTypeOK'
  BY <1>1, <1>2 DEF AccountInv, AccountTypeOK, Counters
<1>4. ClaimHeld'
  BY <1>1, <1>2 DEF AccountInv, AccountTypeOK, ClaimHeld, GateShut, Available
<1>5. RoleKnown'
  BY <1>1, <1>2 DEF AccountInv, AccountTypeOK, RoleKnown
<1> QED
  BY <1>1, <1>3, <1>4, <1>5 DEF AccountInv, GateShut, OneFounder

LEMMA CommitSetupKeeps ==
  ASSUME AccountInv, NEW h \in Handlers, NEW p \in People, CommitSetup(h, p)
  PROVE  AccountInv'
<1> USE NoneIsNoHandler
<1>1. founders = {} /\ orgLock = h
  BY DEF AccountInv, ClaimHeld, CommitSetup
<1>2. /\ founders' = {p} /\ role' = [role EXCEPT ![p] = "system_admin"]
      /\ counter' = [counter EXCEPT ![h] = AtCounter] /\ orgLock' = None
      /\ organization' = TRUE /\ UNCHANGED returns
  BY <1>1 DEF CommitSetup, Leave
<1>3. AccountTypeOK'
  BY <1>2, AtCounterTyped DEF AccountInv, AccountTypeOK, Roles, Counters
<1>4. ClaimHeld' /\ RoleKnown'
  BY <1>1, <1>2 DEF AccountInv, AccountTypeOK, ClaimHeld, RoleKnown, AtCounter
<1>5. GateShut' /\ OneFounder'
  BY <1>2 DEF AccountInv, AccountTypeOK, GateShut, OneFounder, Populated
<1> QED
  BY <1>3, <1>4, <1>5 DEF AccountInv

\* What changes roles: nobody loses the last account, except when it is deleted.
LEMMA RolesKeep ==
  ASSUME AccountInv,
         \/ \E h \in Handlers : CommitRoleChange(h)
         \/ EnsureSuperAdmin
         \/ \E p \in People :
              \/ \E r \in Roles : CreateStaff(p, r)
              \/ CreateEmployeeAccount(p)
              \/ DeleteEmployeeAccount(p)
              \/ RescueAdmin(p)
  PROVE  AccountInv'
<1>1. /\ role' \in [People -> Roles \cup {"none"}]
      /\ \/ founders' = founders /\ (Populated => Populated')
         \/ founders' = {}
      /\ UNCHANGED <<organization, orgLock, returns>>
      /\ \/ UNCHANGED counter
         \/ \E h \in Handlers : counter' = [counter EXCEPT ![h] = AtCounter]
  <2>1. CASE \E h \in Handlers : CommitRoleChange(h)
    BY <2>1 DEF CommitRoleChange, AccountInv, AccountTypeOK, RoleKnown, Populated, Leave, Roles
  <2>2. CASE EnsureSuperAdmin
    BY <2>2, SuperIsSomebody DEF EnsureSuperAdmin, AccountInv, AccountTypeOK, Populated, Roles
  <2>3. CASE \E p \in People : DeleteEmployeeAccount(p)
    BY <2>3 DEF DeleteEmployeeAccount, AccountInv, AccountTypeOK, Populated
  <2>4. ASSUME NEW p \in People, NEW r \in Roles, CreateAccount(p, r) PROVE <1>1!:
    BY <2>4 DEF CreateAccount, AccountInv, AccountTypeOK, Populated, Roles
  <2> QED
    BY <2>1, <2>2, <2>3, <2>4 DEF CreateStaff, CreateEmployeeAccount, RescueAdmin, Roles
<1>2. AccountTypeOK'
  BY <1>1, AtCounterTyped DEF AccountInv, AccountTypeOK, Counters
<1>3. ClaimHeld' /\ RoleKnown'
  BY <1>1 DEF AccountInv, AccountTypeOK, ClaimHeld, RoleKnown, AtCounter
<1>4. GateShut' /\ OneFounder'
  BY <1>1, SuperIsSomebody DEF AccountInv, GateShut, OneFounder
<1> QED
  BY <1>2, <1>3, <1>4 DEF AccountInv

LEMMA OthersOfAccounts ==
  ASSUME AccountInv,
         \/ SeedOrganization
         \/ \E h \in Handlers : RollBackAccount(h)
         \/ \E h \in Handlers, admin, p \in People, r \in Roles : BeginRoleChange(h, admin, p, r)
         \/ UNCHANGED accountVars
  PROVE  AccountInv'
<1> USE NoneIsNoHandler
<1>1. CASE SeedOrganization \/ UNCHANGED accountVars
  BY <1>1 DEF SeedOrganization, accountVars, AccountInv, AccountTypeOK, ClaimHeld, GateShut,
              OneFounder, RoleKnown, Populated
<1>2. CASE \E h \in Handlers : RollBackAccount(h)
  BY <1>2, AtCounterTyped, ReturnsBounded
     DEF RollBackAccount, Leave, AccountInv, AccountTypeOK, ClaimHeld, GateShut, OneFounder,
         RoleKnown, Populated, AtCounter, Counters
<1>3. ASSUME NEW h \in Handlers, NEW admin \in People, NEW p \in People, NEW r \in Roles,
             BeginRoleChange(h, admin, p, r)
      PROVE  AccountInv'
  BY <1>3 DEF BeginRoleChange, AccountInv, AccountTypeOK, ClaimHeld, GateShut, OneFounder,
              RoleKnown, Populated
<1> QED
  BY <1>1, <1>2, <1>3

\* The claim of the organization's row is exclusive throughout.
THEOREM AccountsInductive == AccountSpec => []AccountInv
<1>1. AccountInv /\ [AccountNext]_accountVars => AccountInv'
  BY SetupKeeps, CommitSetupKeeps, RolesKeep, OthersOfAccounts
     DEF AccountNext, SetupStep, RoleStep
<1> QED
  BY <1>1, AccountStarts, PTL DEF AccountSpec

\* Of any number of first-run setups one succeeds (setup_first_run reads the gate
\* again once it holds the organization's row).
THEOREM OneFounderOnly == AccountSpec => []FoundedOnce
<1>1. AccountInv => FoundedOnce
  BY AtMostOne DEF AccountInv, OneFounder, FoundedOnce
<1> QED
  BY <1>1, AccountsInductive, PTL

-------------------------------------------------------------------------------
(* The AI configuration *)

\* Keys are numbered as they are typed in.
KeysInOrder == keys \in 0..MaxKeys /\ revoked \subseteq 1..keys

\* The row has its columns, and its key was not revoked.
RowKnown ==
    settings # None =>
        /\ DOMAIN settings = DOMAIN Blank
        /\ settings.key \in 0..keys
        /\ settings.key \notin revoked

\* Who is about to save a key typed it in: it was never in force.
ClerkKnown ==
    \A h \in Handlers :
        /\ DOMAIN clerk[h].writes \subseteq DOMAIN Blank
        /\ "key" \in DOMAIN clerk[h].writes =>
              \/ clerk[h].writes.key = NoKey
              \/ /\ clerk[h].writes.key \in 1..keys
                 /\ clerk[h].writes.key \notin revoked
                 /\ settings # None => settings.key # clerk[h].writes.key

\* No two handlers typed in the same key.
KeysApart ==
    \A g, h \in Handlers :
        /\ g # h
        /\ "key" \in DOMAIN clerk[g].writes
        /\ "key" \in DOMAIN clerk[h].writes
        /\ clerk[g].writes.key = clerk[h].writes.key
        => clerk[g].writes.key = NoKey

KeyInv == DOMAIN clerk = Handlers /\ KeysInOrder /\ RowKnown /\ ClerkKnown /\ KeysApart

LEMMA KeysStart == AiInit => KeyInv
BY KeysBounded
   DEF AiInit, KeyInv, KeysInOrder, RowKnown, ClerkKnown, KeysApart, Nothing

\* A handler that has read the row is about to write the key it typed in, none,
\* or not the key.
LEMMA TurnsKeep ==
  ASSUME KeyInv, NEW h \in Handlers, NEW pc \in {"save", "revoke"}, NEW new,
         Turns(h, pc, new),
         DOMAIN new = DOMAIN Blank,
         \/ keys' = keys /\ new.key = NoKey
         \/ keys' = keys /\ settings # None /\ new.key = settings.key
         \/ keys' = keys + 1 /\ keys' <= MaxKeys /\ new.key = keys'
  PROVE  KeyInv'
<1> DEFINE w == IF settings = None THEN new ELSE Dirty(settings, new)
<1>1. /\ clerk' = [clerk EXCEPT ![h] = [pc |-> pc, writes |-> w]]
      /\ UNCHANGED <<settings, revoked>>
  BY DEF Turns
<1>2. /\ DOMAIN w \subseteq DOMAIN Blank
      /\ "key" \in DOMAIN w => w.key = new.key /\ (settings # None => w.key # settings.key)
  BY DEF Dirty
<1>3. "key" \in DOMAIN w => w.key = NoKey \/ (w.key = keys + 1 /\ keys' = keys + 1)
  BY <1>2 DEF Dirty
<1> HIDE DEF w
<1>4. KeysInOrder' /\ RowKnown'
  BY <1>1, KeysBounded DEF KeyInv, KeysInOrder, RowKnown
<1>5. clerk'[h] = [pc |-> pc, writes |-> w] /\ \A g \in Handlers \ {h} : clerk'[g] = clerk[g]
  BY <1>1 DEF KeyInv
<1>6. ClerkKnown'
  <2>1. ASSUME NEW g \in Handlers \ {h} PROVE ClerkKnown!(g)'
    BY <1>1, <1>5, KeysBounded DEF KeyInv, KeysInOrder, ClerkKnown
  <2>2. ClerkKnown!(h)'
    BY <1>1, <1>2, <1>3, <1>5, KeysBounded DEF KeyInv, KeysInOrder, ClerkKnown
  <2> QED
    BY <2>1, <2>2 DEF ClerkKnown
<1>7. KeysApart'
  <2>1. \A g \in Handlers : "key" \in DOMAIN clerk[g].writes => clerk[g].writes.key # keys + 1
    BY KeysBounded DEF KeyInv, ClerkKnown, KeysInOrder, NoKey
  <2> QED
    BY <1>3, <1>5, <2>1 DEF KeyInv, KeysApart
<1> QED
  BY <1>1, <1>4, <1>6, <1>7 DEF KeyInv

\* A key that has been in force is in nobody's hands.
LEMMA CommitSettingsKeeps ==
  ASSUME KeyInv, NEW h \in Handlers, CommitSettings(h)
  PROVE  KeyInv'
<1> DEFINE w == clerk[h].writes
<1>1. DOMAIN SettingsRow = DOMAIN Blank /\ "key" \in DOMAIN Blank
  BY DEF KeyInv, RowKnown, SettingsRow, Blank
<1>2. SettingsRow["key"] \in 0..keys /\ SettingsRow["key"] \notin revoked
  <2>1. CASE settings = None
    <3>1. SettingsRow["key"] = 0
      BY <2>1 DEF SettingsRow, Blank, NoKey
    <3> QED
      BY <3>1, KeysBounded DEF KeyInv, KeysInOrder
  <2>2. CASE settings # None
    BY <2>2 DEF KeyInv, RowKnown, SettingsRow
  <2> QED
    BY <2>1, <2>2
<1>3. "key" \in DOMAIN w =>
        w["key"] \in 0..keys /\ w["key"] \notin revoked /\ (w["key"] = NoKey \/ w["key"] # SettingsRow["key"])
  <2> SUFFICES ASSUME "key" \in DOMAIN w
               PROVE  /\ w["key"] \in 0..keys /\ w["key"] \notin revoked
                      /\ w["key"] = NoKey \/ w["key"] # SettingsRow["key"]
    OBVIOUS
  <2>1. CASE w["key"] = NoKey
    BY <2>1, KeysBounded DEF KeyInv, KeysInOrder, NoKey
  <2>2. CASE w["key"] # NoKey
    <3>1. /\ w["key"] \in 1..keys /\ w["key"] \notin revoked
          /\ settings # None => settings["key"] # w["key"]
      BY <2>2 DEF KeyInv, ClerkKnown
    <3>2. settings = None => SettingsRow["key"] = NoKey
      BY DEF SettingsRow, Blank
    <3> QED
      BY <2>2, <3>1, <3>2, KeysBounded DEF KeyInv, KeysInOrder, SettingsRow
  <2> QED
    BY <2>1, <2>2
<1>4. /\ settings' = [c \in DOMAIN SettingsRow |-> IF c \in DOMAIN w THEN w[c] ELSE SettingsRow[c]]
      /\ revoked' = revoked \/ (revoked' = revoked \cup ({SettingsRow["key"]} \ {NoKey}) /\ "key" \in DOMAIN w)
      /\ clerk' = [clerk EXCEPT ![h] = Nothing]
      /\ keys' = keys
  BY DEF CommitSettings
<1>5. /\ DOMAIN settings' = DOMAIN Blank
      /\ settings'["key"] = IF "key" \in DOMAIN w THEN w["key"] ELSE SettingsRow["key"]
  BY <1>1, <1>4
<1>6. KeysInOrder'
  <2>1. {SettingsRow["key"]} \ {NoKey} \subseteq 1..keys
    BY <1>2, KeysBounded DEF KeyInv, KeysInOrder, NoKey
  <2> QED
    BY <1>4, <2>1 DEF KeyInv, KeysInOrder
<1>7. RowKnown'
  BY <1>2, <1>3, <1>4, <1>5, KeysBounded DEF RowKnown, KeyInv, KeysInOrder, NoKey
<1>8. clerk'[h] = Nothing /\ \A g \in Handlers \ {h} : clerk'[g] = clerk[g]
  BY <1>4 DEF KeyInv
<1>9. KeysApart'
  BY <1>8 DEF KeyInv, KeysApart, Nothing
<1>10. ASSUME NEW g \in Handlers \ {h}, "key" \in DOMAIN clerk[g].writes,
              clerk[g].writes["key"] # NoKey
       PROVE  /\ clerk[g].writes["key"] \notin revoked'
              /\ clerk[g].writes["key"] # settings'["key"]
  <2> DEFINE k == clerk[g].writes["key"]
  <2>1. k \in 1..keys /\ k \notin revoked /\ k # SettingsRow["key"]
    BY <1>10, KeysBounded DEF KeyInv, ClerkKnown, KeysInOrder, NoKey, SettingsRow, Blank
  <2>2. "key" \in DOMAIN w => w["key"] # k
    BY <1>10 DEF KeyInv, KeysApart
  <2> QED
    BY <1>4, <1>5, <2>1, <2>2
<1>11. ClerkKnown'
  BY <1>4, <1>8, <1>10 DEF KeyInv, ClerkKnown, Nothing
<1> QED
  BY <1>4, <1>6, <1>7, <1>9, <1>11 DEF KeyInv

LEMMA RefuseSettingsKeeps ==
  ASSUME KeyInv, NEW h \in Handlers, RefuseSettings(h)
  PROVE  KeyInv'
<1>1. /\ clerk'[h] = Nothing /\ \A g \in Handlers \ {h} : clerk'[g] = clerk[g]
      /\ DOMAIN clerk' = Handlers /\ UNCHANGED <<settings, keys, revoked>>
  BY DEF RefuseSettings, KeyInv
<1> QED
  BY <1>1 DEF KeyInv, KeysInOrder, RowKnown, ClerkKnown, KeysApart, Nothing

\* Whatever a handler changes, the key it writes is one it typed in, or none.
LEMMA StepsKeepKeys ==
  ASSUME KeyInv, NEW h \in Handlers, AdminStep(h) \/ HrStep(h)
  PROVE  KeyInv'
<1>1. /\ DOMAIN SettingsRow = DOMAIN Blank /\ DOMAIN Blank = {"key", "source", "policy",
            "automation_consent", "assistant_consent", "automation", "assistant", "candidate", "mode"}
      /\ settings = None => SettingsRow["key"] = NoKey
      /\ settings # None => SettingsRow = settings
  BY DEF KeyInv, RowKnown, SettingsRow, Blank
<1>2. ASSUME NEW column \in DOMAIN Blank \ {"key"}, NEW value, Sets(h, column, value)
      PROVE  KeyInv'
  <2>1. /\ DOMAIN [settings EXCEPT ![column] = value] = DOMAIN Blank
        /\ [settings EXCEPT ![column] = value].key = settings.key
        /\ settings # None
    BY <1>1, <1>2 DEF Sets
  <2> QED
    BY <1>2, <2>1, TurnsKeep DEF Sets
<1>3. CASE UpdateAll(h)
  <2>1. /\ DOMAIN [SettingsRow EXCEPT !.key = NewKey, !.source = "org_api_key"] = DOMAIN Blank
        /\ [SettingsRow EXCEPT !.key = NewKey, !.source = "org_api_key"].key = NewKey
    BY <1>1
  <2> QED
    BY <1>3, <2>1, TurnsKeep DEF UpdateAll, NewKey
<1>4. CASE UpdateProvider(h)
  BY <1>1, <1>4, TurnsKeep DEF UpdateProvider
<1>5. CASE ActivateKey(h)
  <2>1. /\ DOMAIN [settings EXCEPT !.key = NewKey, !.source = "org_api_key"] = DOMAIN Blank
        /\ [settings EXCEPT !.key = NewKey, !.source = "org_api_key"].key = NewKey
    BY <1>1, <1>5 DEF ActivateKey
  <2> QED
    BY <1>5, <2>1, TurnsKeep DEF ActivateKey, NewKey
<1>6. CASE RevokeKey(h)
  <2>1. /\ DOMAIN [settings EXCEPT !.key = NoKey, !.source = "org_api_key"] = DOMAIN Blank
        /\ [settings EXCEPT !.key = NoKey, !.source = "org_api_key"].key = NoKey
    BY <1>1, <1>6 DEF RevokeKey
  <2> QED
    BY <1>6, <2>1, TurnsKeep DEF RevokeKey
<1>7. ASSUME NEW v, NEW mode, ConfigureRollout(h, v, mode) PROVE KeyInv'
  <2>1. /\ DOMAIN [settings EXCEPT !.candidate = v, !.mode = mode] = DOMAIN Blank
        /\ [settings EXCEPT !.candidate = v, !.mode = mode].key = settings.key
    BY <1>1, <1>7 DEF ConfigureRollout
  <2> QED
    BY <1>7, <2>1, TurnsKeep DEF ConfigureRollout
<1>8. CASE RollBackRollout(h)
  <2>1. /\ DOMAIN [settings EXCEPT !.candidate = None, !.mode = "stable"] = DOMAIN Blank
        /\ [settings EXCEPT !.candidate = None, !.mode = "stable"].key = settings.key
    BY <1>1, <1>8 DEF RollBackRollout
  <2> QED
    BY <1>8, <2>1, TurnsKeep DEF RollBackRollout
<1>9. CASE \E s \in {"org_api_key", "deployment_key"} : SetCredentialSource(h, s)
  BY <1>1, <1>2, <1>9 DEF SetCredentialSource
<1>10. CASE HrStep(h)
  <2>1. \A c \in Capabilities : c \in DOMAIN Blank \ {"key"} /\ ConsentTo[c] \in DOMAIN Blank \ {"key"}
    BY <1>1, CapabilitiesKnown DEF ConsentTo
  <2> QED
    BY <1>1, <1>2, <1>10, <2>1 DEF HrStep, AcceptDataPolicy, AcceptConsent, Enable, Disable
<1> QED
  BY <1>3, <1>4, <1>5, <1>6, <1>7, <1>8, <1>9, <1>10 DEF AdminStep

\* Keys are in order and in one hand throughout.
THEOREM KeysInductive == AiSpec => []KeyInv
<1>1. KeyInv /\ [AiNext]_settingsVars => KeyInv'
  <2> SUFFICES ASSUME KeyInv, [AiNext]_settingsVars PROVE KeyInv'
    OBVIOUS
  <2>1. CASE AiNext
    BY <2>1, StepsKeepKeys, CommitSettingsKeeps, RefuseSettingsKeeps DEF AiNext
  <2>2. CASE UNCHANGED settingsVars
    BY <2>2 DEF settingsVars, KeyInv, KeysInOrder, RowKnown, ClerkKnown, KeysApart
  <2> QED
    BY <2>1, <2>2
<1> QED
  BY <1>1, KeysStart, PTL DEF AiSpec

\* A key that a revocation found in force is never in force again, whoever had
\* read it before and saves after (revoke_org_api_key beside any other save).
THEOREM RevokedStaysGone == AiSpec => []RevokedIsGone
<1>1. KeyInv => RevokedIsGone
  BY DEF KeyInv, RowKnown, RevokedIsGone
<1> QED
  BY <1>1, KeysInductive, PTL

-------------------------------------------------------------------------------
(* What administrators set *)

DomainSets == SUBSET Domains

EditState ==
    [pc : {"idle", "row", "flush", "commit", "audit", "upsert", "apply"},
     op : {"none", "add", "remove", "replace", "tools"},
     row : (DomainSets \cup {None}) \cup ToolRows, seen : DomainSets, list : DomainSets,
     asked : DomainSets \cup ToolRows, id : Nat]

\* What an edit will write, from what it has seen; an UPDATE holds the row; only an
\* edit that is committed can lack its entry.
EditSound(h) ==
    LET e == editing[h] IN
    /\ e.pc \in {"row", "flush", "commit", "audit"} =>
        /\ e.op \in {"add", "remove", "replace"}
        /\ e.asked \in DomainSets /\ e.row \in DomainSets \cup {None}
    /\ e.pc \in {"flush", "commit"} => e.list = AsEdited(e.op, e.seen, e.asked)
    /\ e.pc = "commit" => e.row = e.list \/ allowedLock = h
    /\ e.pc \in {"upsert", "apply"} => e.asked \in ToolRows /\ e.row \in ToolRows
    /\ e.id \in unaudited => e.pc = "audit"
    /\ e.id \in 0..edits /\ (e.id = 0 <=> e.pc = "idle")
    /\ \A g \in Handlers \ {h} : editing[g].id = e.id => e.id = 0

SettingsTyped ==
    /\ allowed \in DomainSets \cup {None} /\ enabled \in ToolRows
    /\ meant \in [domains : DomainSets, tools : ToolRows]
    /\ crossed \in [domains : BOOLEAN, tools : BOOLEAN]
    /\ edits \in Nat /\ outages \in Nat /\ unaudited \subseteq 1..edits

AdminInv ==
    /\ SettingsTyped
    /\ editing \in [Handlers -> EditState]
    /\ EditsStand
    /\ \A h \in Handlers : EditSound(h)

LEMMA NoEditTyped == NoEdit \in EditState /\ NoEdit.pc = "idle" /\ NoEdit.id = 0
BY DEF NoEdit, EditState, DomainSets

LEMMA AdminStarts == AdminInit => AdminInv
<1> SUFFICES ASSUME AdminInit PROVE AdminInv
  OBVIOUS
<1>1. SettingsTyped
  BY DEF AdminInit, SettingsTyped, DomainSets, NoTools, ToolRows
<1>2. editing \in [Handlers -> EditState]
  BY NoEditTyped DEF AdminInit
<1>3. EditsStand
  BY DEF AdminInit, EditsStand, ListOf
<1>4. \A h \in Handlers : EditSound(h)
  BY NoEditTyped DEF AdminInit, EditSound
<1> QED
  BY <1>1, <1>2, <1>3, <1>4 DEF AdminInv

\* An edit goes on before it is in force.
LEMMA EditMoves ==
  ASSUME AdminInv, NEW h \in Handlers, NEW new \in EditState,
         editing' = [editing EXCEPT ![h] = new],
         UNCHANGED <<allowed, enabled, meant, crossed>>, SettingsTyped',
         edits <= edits', outages <= outages', unaudited' = unaudited,
         editing[h].id \in unaudited => outages' > 0,
         \A g \in Handlers \ {h} : allowedLock = g => allowedLock' = g,
         \A g \in Handlers \ {h} : editing[g].id = new.id => new.id = 0,
         EditSound(h)'
  PROVE  AdminInv'
<1>1. /\ editing' \in [Handlers -> EditState] /\ editing'[h] = new
      /\ \A g \in Handlers \ {h} : editing'[g] = editing[g]
  BY DEF AdminInv
<1>2. edits \in Nat /\ outages \in Nat /\ edits' \in Nat /\ outages' \in Nat
  BY DEF AdminInv, SettingsTyped
<1>3. EditsStand'
  <2>1. ASSUME NEW i \in unaudited PROVE outages' > 0 \/ \E g \in Handlers : editing'[g].id = i
    <3>1. CASE outages > 0
      BY <1>2, <3>1
    <3>2. CASE \E g \in Handlers : editing[g].id = i
      BY <1>1, <3>2
    <3> QED
      BY <3>1, <3>2 DEF AdminInv, EditsStand
  <2> QED
    BY <2>1 DEF AdminInv, EditsStand, ListOf
<1>4. ASSUME NEW g \in Handlers \ {h} PROVE EditSound(g)'
  <2>1. EditSound(g) /\ editing'[g] = editing[g]
    BY <1>1 DEF AdminInv
  <2>2. editing[g].id \in 0..edits'
    BY <1>2, <2>1 DEF EditSound
  <2>3. \A k \in Handlers \ {g} : editing'[k].id = editing[g].id => editing[g].id = 0
    BY <1>1, <2>1 DEF EditSound
  <2>4. editing[g].pc = "commit" => editing[g].row = editing[g].list \/ allowedLock' = g
    BY <2>1 DEF EditSound
  <2> QED
    BY <2>1, <2>2, <2>3, <2>4 DEF EditSound, AsEdited
<1> QED
  BY <1>1, <1>3, <1>4 DEF AdminInv

\* A request begins, with a number of its own.
LEMMA OpenKeeps ==
  ASSUME AdminInv, NEW h \in Handlers, NEW pc \in {"row", "upsert"},
         NEW op \in {"add", "remove", "replace", "tools"}, NEW row, NEW asked,
         pc = "row" => /\ op # "tools" /\ asked \in DomainSets
                       /\ row \in DomainSets \cup {None},
         pc = "upsert" => asked \in ToolRows /\ row \in ToolRows,
         Open(h, pc, op, row, asked),
         UNCHANGED <<allowed, allowedLock, enabled, toolLock, outages, unaudited, meant, crossed>>
  PROVE  AdminInv'
<1> DEFINE new == [NoEdit EXCEPT !.pc = pc, !.op = op, !.row = row, !.asked = asked,
                                 !.id = edits + 1]
<1>1. edits \in Nat /\ unaudited \subseteq 1..edits /\ SettingsTyped
  BY DEF AdminInv, SettingsTyped
<1>2. /\ new \in EditState /\ new.pc = pc /\ new.op = op /\ new.row = row
      /\ new.asked = asked /\ new.id = edits + 1
  <2>1. row \in (DomainSets \cup {None}) \cup ToolRows /\ asked \in DomainSets \cup ToolRows
    OBVIOUS
  <2>2. NoEdit \in EditState
    BY NoEditTyped
  <2>3. pc \in {"idle", "row", "flush", "commit", "audit", "upsert", "apply"}
        /\ op \in {"none", "add", "remove", "replace", "tools"} /\ edits + 1 \in Nat
    BY <1>1
  <2>4. new \in EditState
    BY <2>1, <2>2, <2>3 DEF EditState
  <2>5. /\ new.pc = pc /\ new.op = op /\ new.row = row
        /\ new.asked = asked /\ new.id = edits + 1
    BY <2>2 DEF EditState
  <2> QED
    BY <2>4, <2>5
<1>3. editing' = [editing EXCEPT ![h] = new] /\ edits' = edits + 1 /\ editing[h].pc = "idle"
  BY DEF Open, Editing
<1> HIDE DEF new
<1>4. editing'[h] = new /\ \A g \in Handlers \ {h} : editing'[g] = editing[g]
  BY <1>3 DEF AdminInv
<1>5. SettingsTyped'
  BY <1>1, <1>3 DEF SettingsTyped
<1>6. \A g \in Handlers : editing[g].id \in 0..edits
  BY DEF AdminInv, EditSound
<1>7. \A g \in Handlers \ {h} : editing[g].id # new.id
  BY <1>1, <1>2, <1>6
<1>8. new.id \notin unaudited /\ new.id \in 0..edits' /\ new.id # 0
  BY <1>1, <1>2, <1>3
<1>9. EditSound(h)'
  BY <1>2, <1>4, <1>7, <1>8 DEF EditSound
<1>10. editing[h].id \notin unaudited
  BY <1>3 DEF AdminInv, EditSound
<1>11. edits <= edits' /\ outages <= outages'
  BY <1>1, <1>3 DEF SettingsTyped
<1> QED
  BY <1>2, <1>3, <1>5, <1>7, <1>9, <1>10, <1>11, EditMoves

LEMMA BeginsKeep ==
  ASSUME AdminInv, NEW h \in Handlers
  PROVE  /\ BeginDomainEdit(h) => AdminInv'
         /\ BeginReplacement(h) => AdminInv'
         /\ BeginTools(h) => AdminInv'
<1>1. allowed \in DomainSets \cup {None} /\ enabled \in ToolRows
  BY DEF AdminInv, SettingsTyped
<1>2. ASSUME BeginDomainEdit(h) PROVE AdminInv'
  <2>1. PICK D \in DomainSets, op \in {"add", "remove"} : Open(h, "row", op, allowed, D)
    BY <1>2 DEF BeginDomainEdit, DomainSets
  <2> QED
    BY <1>1, <1>2, <2>1, OpenKeeps DEF BeginDomainEdit
<1>3. ASSUME BeginReplacement(h) PROVE AdminInv'
  <2>1. PICK D \in DomainSets : Open(h, "row", "replace", None, D)
    BY <1>3 DEF BeginReplacement, DomainSets, Lists
  <2> QED
    BY <1>3, <2>1, OpenKeeps DEF BeginReplacement
<1>4. ASSUME BeginTools(h) PROVE AdminInv'
  <2>1. PICK wanted \in ToolRows : Open(h, "upsert", "tools", enabled, wanted)
    BY <1>4 DEF BeginTools
  <2> QED
    BY <1>1, <1>4, <2>1, OpenKeeps DEF BeginTools
<1> QED
  BY <1>2, <1>3, <1>4

LEMMA EditedSets ==
  ASSUME NEW op \in {"add", "remove", "replace"}, NEW a \in DomainSets, NEW b \in DomainSets
  PROVE  AsEdited(op, a, b) \in DomainSets
BY DEF AsEdited, DomainSets

LEMMA ListsOfRows ==
  ASSUME NEW row \in DomainSets \cup {None}
  PROVE  ListOf(row) \in DomainSets /\ (row \in DomainSets => ListOf(row) = row)
BY AdminBounds DEF ListOf, DomainSets

LEMMA ReadRowKeeps ==
  ASSUME AdminInv, NEW h \in Handlers, ReadRow(h)
  PROVE  AdminInv'
<1> DEFINE e == editing[h]
           row == IF e.row = None THEN allowed ELSE e.row
           seen == ListOf(IF e.op = "replace" THEN row ELSE e.row)
           list == AsEdited(e.op, ListOf(e.row), e.asked)
           new == [e EXCEPT !.pc = "flush", !.row = row, !.seen = seen, !.list = list]
<1>1. /\ e \in EditState /\ e.pc = "row" /\ e.op \in {"add", "remove", "replace"}
      /\ e.asked \in DomainSets /\ e.row \in DomainSets \cup {None} /\ EditSound(h)
      /\ allowed \in DomainSets \cup {None} /\ SettingsTyped
  BY DEF ReadRow, Editing, AdminInv, EditSound, SettingsTyped
<1>2. row \in DomainSets \cup {None} /\ seen \in DomainSets /\ list \in DomainSets
  BY <1>1, ListsOfRows, EditedSets
<1>3. list = AsEdited(e.op, seen, e.asked)
  BY <1>1 DEF AsEdited
<1>4. editing' = [editing EXCEPT ![h] = new]
  BY DEF ReadRow
<1> HIDE DEF row, seen, list
<1>5. /\ new \in EditState /\ new.pc = "flush" /\ new.op = e.op /\ new.row = row
      /\ new.seen = seen /\ new.list = list /\ new.asked = e.asked /\ new.id = e.id
  BY <1>1, <1>2 DEF EditState
<1> HIDE DEF new
<1>6. editing'[h] = new /\ \A g \in Handlers \ {h} : editing'[g] = editing[g]
  BY <1>4 DEF AdminInv
<1>7. UNCHANGED <<allowed, allowedLock, enabled, edits, outages, unaudited, meant, crossed>>
  BY DEF ReadRow
<1>8. SettingsTyped' /\ edits <= edits' /\ outages <= outages'
  BY <1>1, <1>7 DEF SettingsTyped
<1>9. EditSound(h)'
  BY <1>1, <1>2, <1>3, <1>5, <1>6, <1>7 DEF EditSound
<1>10. \A g \in Handlers \ {h} : editing[g].id = new.id => new.id = 0
  BY <1>1, <1>5 DEF EditSound
<1>11. editing[h].id \notin unaudited
  BY <1>1 DEF EditSound
<1> QED
  BY <1>4, <1>5, <1>7, <1>8, <1>9, <1>10, <1>11, EditMoves

\* The flushes: the row is locked if there is anything to write.
LEMMA FlushesKeep ==
  ASSUME AdminInv, NEW h \in Handlers, FlushDomains(h) \/ FlushTools(h)
  PROVE  AdminInv'
<1> DEFINE e == editing[h]
           pc == IF e.pc = "flush" THEN "commit" ELSE "apply"
           new == [e EXCEPT !.pc = pc]
<1>1. e \in EditState /\ e.pc \in {"flush", "upsert"} /\ EditSound(h) /\ SettingsTyped
  BY DEF FlushDomains, FlushTools, Editing, AdminInv
<1>2. editing' = [editing EXCEPT ![h] = new]
  BY DEF FlushDomains, FlushTools, Editing, Proceed
<1>3. /\ new \in EditState /\ new.pc = pc /\ new.op = e.op /\ new.row = e.row
      /\ new.seen = e.seen /\ new.list = e.list /\ new.asked = e.asked /\ new.id = e.id
  BY <1>1 DEF EditState
<1> HIDE DEF new
<1>4. editing'[h] = new
  BY <1>2 DEF AdminInv
<1>5. /\ UNCHANGED <<allowed, enabled, edits, outages, unaudited, meant, crossed>>
      /\ \A g \in Handlers \ {h} : allowedLock = g => allowedLock' = g
      /\ e.pc = "flush" => e.row = e.list \/ allowedLock' = h
  BY NoneIsNoHandler DEF FlushDomains, FlushTools, Editing, Available
<1>6. SettingsTyped' /\ edits <= edits' /\ outages <= outages'
  BY <1>1, <1>5 DEF SettingsTyped
<1>7. EditSound(h)'
  <2>1. \A g \in Handlers \ {h} : editing'[g].id = editing[g].id
    BY <1>2 DEF AdminInv
  <2> QED
    BY <1>1, <1>3, <1>4, <1>5, <2>1 DEF EditSound
<1>8. \A g \in Handlers \ {h} : editing[g].id = new.id => new.id = 0
  BY <1>1, <1>3 DEF EditSound
<1>9. editing[h].id \notin unaudited
  BY <1>1 DEF EditSound
<1> QED
  BY <1>2, <1>3, <1>5, <1>6, <1>7, <1>8, <1>9, EditMoves

\* The commit: nobody else writes the row between a flush and its commit.
LEMMA CommitDomainsKeeps ==
  ASSUME AdminInv, NEW h \in Handlers, CommitDomains(h)
  PROVE  AdminInv'
<1> DEFINE e == editing[h]
           new == [e EXCEPT !.pc = "audit"]
           wanted == AsEdited(e.op, meant.domains, e.asked)
           replaces == e.op = "replace" /\ allowedLock = h
           lost == ~replaces
                   /\ (crossed.domains \/ allowed # e.row \/ ListOf(allowed) # e.seen)
<1>1. /\ e \in EditState /\ e.pc = "commit" /\ EditSound(h) /\ SettingsTyped
      /\ e.op \in {"add", "remove", "replace"} /\ e.asked \in DomainSets
      /\ e.row \in DomainSets \cup {None} /\ e.list = AsEdited(e.op, e.seen, e.asked)
      /\ e.row = e.list \/ allowedLock = h
      /\ e.id \in 1..edits /\ e.list \in DomainSets /\ e.seen \in DomainSets
  <2>1. e \in EditState /\ e.pc = "commit" /\ EditSound(h) /\ SettingsTyped
    BY DEF CommitDomains, Editing, AdminInv
  <2>2. e.id \in 0..edits /\ e.id # 0 /\ edits \in Nat
    BY <2>1 DEF EditSound, SettingsTyped
  <2>3. e.list \in DomainSets /\ e.seen \in DomainSets
    BY <2>1 DEF EditState
  <2> QED
    BY <2>1, <2>2, <2>3 DEF EditSound
<1>2. /\ allowed' = IF allowedLock = h THEN e.list ELSE allowed
      /\ allowedLock' = IF allowedLock = h THEN None ELSE allowedLock
      /\ unaudited' = unaudited \cup {e.id}
      /\ meant' = [meant EXCEPT !.domains = wanted]
      /\ crossed' = [crossed EXCEPT !.domains = lost]
      /\ editing' = [editing EXCEPT ![h] = new]
      /\ UNCHANGED <<enabled, toolLock, edits, outages>>
  BY DEF CommitDomains, Proceed
<1>3. /\ meant \in [domains : DomainSets, tools : ToolRows]
      /\ crossed \in [domains : BOOLEAN, tools : BOOLEAN]
      /\ allowed \in DomainSets \cup {None}
  BY <1>1 DEF SettingsTyped
<1>4. wanted \in DomainSets
  BY <1>1, <1>3, EditedSets
<1> HIDE DEF wanted
<1>5. /\ meant' \in [domains : DomainSets, tools : ToolRows]
      /\ meant'.domains = wanted /\ meant'.tools = meant.tools
  BY <1>2, <1>3, <1>4
<1>6. /\ crossed' \in [domains : BOOLEAN, tools : BOOLEAN]
      /\ crossed'.domains = lost /\ crossed'.tools = crossed.tools
  <2>1. lost \in BOOLEAN
    OBVIOUS
  <2> HIDE DEF lost
  <2> QED
    BY <1>2, <1>3, <2>1
<1>7. SettingsTyped'
  BY <1>1, <1>2, <1>3, <1>5, <1>6 DEF SettingsTyped
<1>8. /\ new \in EditState /\ new.pc = "audit" /\ new.op = e.op /\ new.row = e.row
      /\ new.asked = e.asked /\ new.id = e.id
  BY <1>1 DEF EditState
<1> HIDE DEF new
<1>9. /\ editing' \in [Handlers -> EditState] /\ editing'[h] = new
      /\ \A g \in Handlers \ {h} : editing'[g] = editing[g]
  BY <1>2, <1>8 DEF AdminInv
<1>10. ~lost => ListOf(allowed') = wanted
  <2>1. CASE replaces
    <3>1. wanted = e.asked /\ allowed' = e.asked
      BY <1>1, <1>2, <2>1 DEF AsEdited, wanted
    <3> QED
      BY <1>1, <3>1, ListsOfRows
  <2>2. CASE ~replaces /\ ~lost
    <3>1. ListOf(allowed) = meant.domains /\ allowed = e.row /\ ListOf(allowed) = e.seen
      BY <2>2 DEF AdminInv, EditsStand
    <3>2. allowed' = e.list
      BY <1>1, <1>2, <3>1
    <3>3. e.list = wanted
      BY <1>1, <3>1 DEF wanted
    <3> QED
      BY <1>1, <3>2, <3>3, ListsOfRows
  <2> QED
    BY <2>1, <2>2
<1> HIDE DEF lost
<1>11. EditsStand'
  <2>1. ASSUME NEW i \in unaudited'
        PROVE  outages' > 0 \/ \E g \in Handlers : editing'[g].id = i
    <3>1. CASE i = e.id
      BY <1>8, <1>9, <3>1
    <3>2. CASE i \in unaudited
      <4>1. outages > 0 \/ \E g \in Handlers : editing[g].id = i
        BY <3>2 DEF AdminInv, EditsStand
      <4>2. \A g \in Handlers : editing'[g].id = editing[g].id
        BY <1>8, <1>9
      <4> QED
        BY <1>2, <4>1, <4>2
    <3> QED
      BY <1>2, <3>1, <3>2
  <2>2. ~crossed'.tools => enabled' = meant'.tools
    BY <1>2, <1>5, <1>6 DEF AdminInv, EditsStand
  <2>3. ~crossed'.domains => ListOf(allowed') = meant'.domains
    BY <1>5, <1>6, <1>10
  <2>4. ListOf(allowed)' = ListOf(allowed')
    BY DEF ListOf
  <2> QED
    BY <2>1, <2>2, <2>3, <2>4 DEF EditsStand
<1>12. EditSound(h)'
  BY <1>1, <1>2, <1>8, <1>9 DEF EditSound
<1>13. ASSUME NEW g \in Handlers \ {h} PROVE EditSound(g)'
  <2>1. EditSound(g) /\ editing'[g] = editing[g]
    BY <1>9 DEF AdminInv
  <2>2. editing[g].id # e.id
    BY <1>1 DEF EditSound
  <2>3. \A k \in Handlers \ {g} : editing'[k].id = editing[g].id => editing[g].id = 0
    BY <1>8, <1>9, <2>1 DEF EditSound
  <2>4. editing[g].pc = "commit" => editing[g].row = editing[g].list \/ allowedLock' = g
    BY <1>2, <2>1 DEF EditSound
  <2> QED
    BY <1>2, <2>1, <2>2, <2>3, <2>4 DEF EditSound, AsEdited
<1> QED
  BY <1>7, <1>9, <1>11, <1>12, <1>13 DEF AdminInv

\* A request is over. What is left without an entry is a failure's.
LEMMA CloseKeeps ==
  ASSUME AdminInv, NEW h \in Handlers, SettingsTyped',
         editing' = [editing EXCEPT ![h] = NoEdit],
         allowed' = allowed, edits' = edits, outages <= outages',
         \A g \in Handlers \ {h} : allowedLock = g => allowedLock' = g,
         unaudited' \subseteq unaudited,
         editing[h].id \in unaudited' => outages' > 0,
         ~crossed'.domains => ~crossed.domains /\ meant'.domains = meant.domains,
         ~crossed'.tools => enabled' = meant'.tools
  PROVE  AdminInv'
<1>1. /\ editing' \in [Handlers -> EditState] /\ editing'[h] = NoEdit
      /\ \A g \in Handlers \ {h} : editing'[g] = editing[g]
  BY NoEditTyped DEF AdminInv
<1>2. edits \in Nat /\ outages \in Nat /\ outages' \in Nat /\ unaudited \subseteq 1..edits
  BY DEF AdminInv, SettingsTyped
<1>3. EditsStand'
  <2>1. ASSUME NEW i \in unaudited' PROVE outages' > 0 \/ \E g \in Handlers : editing'[g].id = i
    <3>1. CASE outages > 0
      BY <1>2, <3>1
    <3>2. CASE \E g \in Handlers : editing[g].id = i
      BY <1>1, <2>1, <3>2
    <3> QED
      BY <3>1, <3>2 DEF AdminInv, EditsStand
  <2> QED
    BY <2>1 DEF AdminInv, EditsStand, ListOf
<1>4. EditSound(h)'
  BY <1>1, <1>2, NoEditTyped DEF EditSound
<1>5. ASSUME NEW g \in Handlers \ {h} PROVE EditSound(g)'
  <2>1. EditSound(g) /\ editing'[g] = editing[g]
    BY <1>1 DEF AdminInv
  <2>2. \A k \in Handlers \ {g} : editing'[k].id = editing[g].id => editing[g].id = 0
    BY <1>1, <2>1, NoEditTyped DEF EditSound
  <2>3. editing[g].pc = "commit" => editing[g].row = editing[g].list \/ allowedLock' = g
    BY <2>1 DEF EditSound
  <2> QED
    BY <1>2, <2>1, <2>2, <2>3 DEF EditSound, AsEdited
<1> QED
  BY <1>1, <1>3, <1>4, <1>5 DEF AdminInv

LEMMA EndsKeep ==
  ASSUME AdminInv, NEW h \in Handlers
  PROVE  /\ AuditDomains(h) => AdminInv'
         /\ RollBackEdit(h) => AdminInv'
<1>1. /\ SettingsTyped /\ EditSound(h) /\ outages \in Nat /\ edits \in Nat
      /\ ~crossed.tools => enabled = meant.tools
  BY DEF AdminInv, SettingsTyped, EditsStand
<1>2. ASSUME AuditDomains(h) PROVE AdminInv'
  <2>1. /\ editing' = [editing EXCEPT ![h] = NoEdit] /\ unaudited' = unaudited \ {editing[h].id}
        /\ UNCHANGED <<allowed, allowedLock, enabled, edits, outages, meant, crossed>>
    BY <1>2 DEF AuditDomains, Closed
  <2>2. outages <= outages'
    BY <1>1, <2>1
  <2>3. unaudited' \subseteq unaudited /\ editing[h].id \notin unaudited'
    BY <2>1
  <2>4. SettingsTyped'
    BY <1>1, <2>1, <2>3 DEF SettingsTyped
  <2> QED
    BY <1>1, <2>1, <2>2, <2>3, <2>4, CloseKeeps
<1>3. ASSUME RollBackEdit(h) PROVE AdminInv'
  <2>1. /\ editing' = [editing EXCEPT ![h] = NoEdit]
        /\ UNCHANGED <<allowed, enabled, edits, unaudited, meant, crossed>>
        /\ \/ outages' = outages + 1
           \/ editing[h].pc \in {"flush", "upsert"} /\ outages' = outages
        /\ \A g \in Handlers \ {h} : allowedLock = g => allowedLock' = g
    BY <1>3 DEF RollBackEdit, Closed
  <2>2. outages' \in Nat /\ outages <= outages'
    BY <1>1, <2>1
  <2>3. editing[h].id \in unaudited' => outages' > 0
    BY <1>1, <2>1 DEF EditSound
  <2>4. SettingsTyped'
    BY <1>1, <2>1, <2>2 DEF SettingsTyped
  <2> QED
    BY <1>1, <2>1, <2>2, <2>3, <2>4, CloseKeeps
<1> QED
  BY <1>2, <1>3

\* The tools are written where they differ from what was read, which is what they are
\* unless two edits crossed.
LEMMA ApplyToolsKeeps ==
  ASSUME AdminInv, NEW h \in Handlers, ApplyTools(h)
  PROVE  AdminInv'
<1> DEFINE e == editing[h]
           after == [t \in Tools |-> IF Upserted(e, t) THEN e.asked[t] ELSE enabled[t]]
           wanted == [t \in Tools |-> IF t \in Named(e) THEN e.asked[t] ELSE meant.tools[t]]
           lost == crossed.tools \/ \E t \in Named(e) : e.row[t] # enabled[t]
<1>1. /\ SettingsTyped /\ e.asked \in ToolRows /\ e.row \in ToolRows
      /\ e.id \notin unaudited
  BY DEF ApplyTools, Editing, AdminInv, EditSound
<1>2. /\ enabled' = after
      /\ meant' = [meant EXCEPT !.tools = wanted]
      /\ crossed' = [crossed EXCEPT !.tools = lost]
      /\ editing' = [editing EXCEPT ![h] = NoEdit]
      /\ UNCHANGED <<allowed, allowedLock, edits, outages, unaudited>>
  BY DEF ApplyTools, Closed
<1>3. /\ meant \in [domains : DomainSets, tools : ToolRows] /\ enabled \in ToolRows
      /\ crossed \in [domains : BOOLEAN, tools : BOOLEAN]
  BY <1>1 DEF SettingsTyped
<1>4. after \in ToolRows /\ wanted \in ToolRows
  <2>1. meant.tools \in ToolRows
    BY <1>3
  <2> QED
    BY <1>1, <1>3, <2>1 DEF ToolRows, Upserted, Named
<1>5. ~lost => after = wanted
  <2> SUFFICES ASSUME ~lost PROVE after = wanted
    OBVIOUS
  <2>1. enabled = meant.tools /\ \A t \in Named(e) : e.row[t] = enabled[t]
    BY DEF AdminInv, EditsStand
  <2>2. ASSUME NEW t \in Tools PROVE after[t] = wanted[t]
    BY <2>1 DEF Upserted
  <2> QED
    BY <2>2
<1>6. lost \in BOOLEAN
  OBVIOUS
<1> HIDE DEF after, wanted, lost
<1>7. /\ meant' \in [domains : DomainSets, tools : ToolRows]
      /\ meant'.domains = meant.domains /\ meant'.tools = wanted
      /\ crossed' \in [domains : BOOLEAN, tools : BOOLEAN]
      /\ crossed'.domains = crossed.domains /\ crossed'.tools = lost
  BY <1>2, <1>3, <1>4, <1>6
<1>8. SettingsTyped' /\ outages <= outages'
  BY <1>1, <1>2, <1>4, <1>7 DEF SettingsTyped
<1> QED
  BY <1>1, <1>2, <1>5, <1>7, <1>8, CloseKeeps

\* Another request makes the row.
LEMMA SeedKeeps ==
  ASSUME AdminInv, SeedSettings
  PROVE  AdminInv'
<1>1. /\ allowed' = Defaults /\ meant' = [meant EXCEPT !.domains = Defaults]
      /\ UNCHANGED <<allowedLock, enabled, toolLock, editing, edits, outages, unaudited, crossed>>
  BY DEF SeedSettings
<1>2. Defaults \in DomainSets /\ ListOf(Defaults) = Defaults
  BY AdminBounds, ListsOfRows DEF DomainSets
<1>3. /\ meant' \in [domains : DomainSets, tools : ToolRows]
      /\ meant'.domains = Defaults /\ meant'.tools = meant.tools
  BY <1>1, <1>2 DEF AdminInv, SettingsTyped
<1>4. SettingsTyped'
  BY <1>1, <1>2, <1>3 DEF AdminInv, SettingsTyped
<1>5. EditsStand'
  BY <1>1, <1>2, <1>3 DEF AdminInv, EditsStand, ListOf
<1>6. \A h \in Handlers : EditSound(h)'
  BY <1>1 DEF AdminInv, EditSound, AsEdited
<1> QED
  BY <1>1, <1>4, <1>5, <1>6 DEF AdminInv

LEMMA AdminNextKeeps ==
  ASSUME AdminInv, [AdminNext]_adminVars
  PROVE  AdminInv'
<1>1. CASE UNCHANGED adminVars
  <2>1. UNCHANGED <<allowed, allowedLock, enabled, toolLock, meant, editing, edits, outages,
                    unaudited, crossed>>
    BY <1>1 DEF adminVars
  <2>2. SettingsTyped'
    BY <2>1 DEF AdminInv, SettingsTyped
  <2>3. EditsStand'
    BY <2>1 DEF AdminInv, EditsStand, ListOf
  <2>4. \A h \in Handlers : EditSound(h)'
    BY <2>1 DEF AdminInv, EditSound, AsEdited
  <2> QED
    BY <2>1, <2>2, <2>3, <2>4 DEF AdminInv
<1> QED
  BY <1>1, BeginsKeep, ReadRowKeeps, FlushesKeep, CommitDomainsKeeps, ApplyToolsKeeps,
     EndsKeep, SeedKeeps DEF AdminNext, DomainStep, ToolStep

\* What a request keeps between its reads, its flush, its commit and its entry.
THEOREM AdminInductive == AdminSpec => []AdminInv
<1>1. AdminInv /\ [AdminNext]_adminVars => AdminInv'
  BY AdminNextKeeps
<1> QED
  BY <1>1, AdminStarts, PTL DEF AdminSpec

\* Unless two edits crossed, the settings are what the edits in force ask for; "the
\* audit row is durable before the response goes out" (admin_router.py:26).
THEOREM EditsAreInForce == AdminSpec => []EditsStand
<1>1. AdminInv => EditsStand
  BY DEF AdminInv
<1> QED
  BY <1>1, AdminInductive, PTL

-------------------------------------------------------------------------------
(* The documents of employees *)

AtWork(h, d) == filing[h].pc # "idle" /\ filing[h].doc = d

\* A document that is being uploaded is nobody else's, and a request for one that is
\* there goes by what its upload said.
FilingSound(h) ==
    LET f == filing[h] IN
    /\ f.pc # "idle" => f.doc \in Papers /\ f.label \in Labels
    /\ f.pc \in {"store", "insert"} =>
        /\ paper[f.doc] = None /\ f.doc \notin shredded
        /\ \A g \in Handlers \ {h} : ~AtWork(g, f.doc)
    /\ f.pc = "store" => filed[f.doc] = None
    /\ f.pc \in {"insert", "remove", "delete", "fetch"} => filed[f.doc] = f.label
    /\ f.pc = "delete" => f.doc \in shredded

\* A row says what the upload said, and a file is where it said.
PapersSound ==
    /\ \A d \in Papers : paper[d] # None => paper[d] = filed[d]
    /\ \A d \in Papers : filed[d] = None => d \notin shredded /\ served[d] = {}
    /\ \A p \in Paths : object[p] # None =>
        filed[object[p]] # None /\ p = StoragePath(filed[object[p]])

\* Whoever shares a path with nobody has a file of its own.
OwnPath(d) ==
    filed[d] # None /\ ~Shared(d) =>
        /\ d \notin shredded => object[StoragePath(filed[d])] = d
        /\ d \in shredded => object[StoragePath(filed[d])] = None
        /\ served[d] \subseteq {d} \cup (IF d \in shredded THEN {None} ELSE {})

\* A file without its row, and a row without its file, is somebody's work, or was that
\* of a request that failed.
HalfDone(d) ==
    d \notin torn =>
        /\ filed[d] # None /\ d \notin shredded /\ paper[d] = None =>
            \E h \in Handlers : AtWork(h, d) /\ filing[h].pc = "insert"
        /\ d \in shredded /\ paper[d] # None =>
            \E h \in Handlers : AtWork(h, d) /\ filing[h].pc = "delete"

VaultInv ==
    /\ VaultTypeOK
    /\ PapersSound
    /\ \A d \in Papers : OwnPath(d) /\ HalfDone(d)
    /\ \A h \in Handlers : FilingSound(h)

LEMMA PathsAreThere == \A label \in Labels : StoragePath(label) \in Paths
BY DEF Paths

LEMMA VaultStarts == VaultInit => VaultInv
<1> SUFFICES ASSUME VaultInit PROVE VaultInv
  OBVIOUS
<1>1. VaultTypeOK
  BY VaultBounds DEF VaultInit, VaultTypeOK, NotFiling
<1>2. PapersSound /\ \A d \in Papers : OwnPath(d) /\ HalfDone(d)
  BY DEF VaultInit, PapersSound, OwnPath, HalfDone
<1>3. \A h \in Handlers : FilingSound(h)
  BY DEF VaultInit, FilingSound, NotFiling
<1> QED
  BY <1>1, <1>2, <1>3 DEF VaultInv

\* Nothing that is stored changes.
LEMMA FilingMoves ==
  ASSUME VaultInv, NEW h \in Handlers, VaultTypeOK',
         NEW new, filing' = [filing EXCEPT ![h] = new],
         UNCHANGED <<paper, object, filed, shredded, served>>, torn \subseteq torn',
         filing[h].pc \in {"insert", "delete"} => filing[h].doc \in torn',
         new.pc # "idle" => \A g \in Handlers \ {h} :
            filing[g].pc \in {"store", "insert"} => filing[g].doc # new.doc,
         FilingSound(h)'
  PROVE  VaultInv'
<1>1. filing'[h] = new /\ \A g \in Handlers \ {h} : filing'[g] = filing[g]
  BY DEF VaultInv, VaultTypeOK
<1>2. PapersSound' /\ \A d \in Papers : OwnPath(d)'
  BY DEF VaultInv, PapersSound, OwnPath, Shared
<1>3. ASSUME NEW d \in Papers PROVE HalfDone(d)'
  <2>1. HalfDone(d)
    BY DEF VaultInv
  <2>2. \A g \in Handlers : AtWork(g, d) /\ filing[g].pc \in {"insert", "delete"}
                            /\ d \notin torn'
            => g # h /\ AtWork(g, d)' /\ filing'[g].pc = filing[g].pc
    BY <1>1 DEF AtWork
  <2> QED
    BY <2>1, <2>2 DEF HalfDone
<1>4. ASSUME NEW g \in Handlers \ {h} PROVE FilingSound(g)'
  <2>1. FilingSound(g) /\ filing'[g] = filing[g]
    BY <1>1 DEF VaultInv
  <2>2. filing[g].pc \in {"store", "insert"} =>
            \A k \in Handlers \ {g} : ~AtWork(k, filing[g].doc)'
    BY <1>1, <2>1 DEF FilingSound, AtWork
  <2> QED
    BY <2>1, <2>2 DEF FilingSound
<1> QED
  BY <1>2, <1>3, <1>4 DEF VaultInv

LEMMA FindKeeps ==
  ASSUME VaultInv, NEW h \in Handlers
  PROVE  /\ BeginUpload(h) => VaultInv'
         /\ BeginDelete(h) => VaultInv'
         /\ BeginDownload(h) => VaultInv'
         /\ VaultFails(h) => VaultInv'
<1>1. filing[h] \in [pc : {"idle", "store", "insert", "remove", "delete", "fetch"},
                     doc : Papers \cup {None}, label : Labels \cup {None}]
  BY DEF VaultInv, VaultTypeOK
<1>2. ASSUME BeginUpload(h) PROVE VaultInv'
  <2>1. PICK d \in Papers, label \in Labels :
        /\ filed[d] = None
        /\ \A g \in Handlers : filing[g].doc # d
        /\ filing' = [filing EXCEPT ![h] = [pc |-> "store", doc |-> d, label |-> label]]
    BY <1>2 DEF BeginUpload
  <2> DEFINE new == [pc |-> "store", doc |-> d, label |-> label]
  <2>2. VaultTypeOK' /\ filing'[h] = new /\ \A g \in Handlers \ {h} : filing'[g] = filing[g]
    BY <1>2, <2>1 DEF BeginUpload, VaultInv, VaultTypeOK
  <2>3. paper[d] = None /\ d \notin shredded
    BY <2>1 DEF VaultInv, PapersSound
  <2>4. FilingSound(h)'
    BY <1>2, <2>1, <2>2, <2>3 DEF BeginUpload, FilingSound, AtWork
  <2> QED
    BY <1>2, <2>1, <2>2, <2>4, FilingMoves DEF BeginUpload, Filing
<1>3. ASSUME NEW pc \in {"remove", "fetch"}, FindPaper(h, pc),
             UNCHANGED <<paper, object, filed, shredded, served, torn, vaultFaults>>
      PROVE  VaultInv'
  <2>1. PICK d \in Papers :
        /\ paper[d] # None
        /\ filing' = [filing EXCEPT ![h] = [pc |-> pc, doc |-> d, label |-> paper[d]]]
    BY <1>3 DEF FindPaper
  <2> DEFINE new == [pc |-> pc, doc |-> d, label |-> paper[d]]
  <2>2. paper[d] \in Labels /\ filed[d] = paper[d]
    BY <2>1 DEF VaultInv, VaultTypeOK, PapersSound
  <2>3. VaultTypeOK' /\ filing'[h] = new
    BY <1>3, <2>1, <2>2 DEF VaultInv, VaultTypeOK
  <2>4. FilingSound(h)'
    BY <1>3, <2>2, <2>3 DEF FilingSound
  <2>5. \A g \in Handlers : filing[g].pc \in {"store", "insert"} => filing[g].doc # d
    BY <2>1 DEF VaultInv, FilingSound
  <2> QED
    BY <1>3, <2>1, <2>3, <2>4, <2>5, FilingMoves DEF FindPaper, Filing
<1>4. ASSUME VaultFails(h) PROVE VaultInv'
  <2>1. filing[h].pc # "idle" /\ filing[h].doc \in Papers
    BY <1>4 DEF VaultFails, Filing, VaultInv, FilingSound
  <2>3. torn' \subseteq Papers /\ torn \subseteq torn'
        /\ (filing[h].pc \in {"insert", "delete"} => filing[h].doc \in torn')
    BY <1>4, <2>1 DEF VaultFails, Filing, VaultInv, VaultTypeOK
  <2>4. VaultTypeOK' /\ filing'[h] = NotFiling
    BY <1>4, <2>3, VaultBounds DEF VaultFails, FiledAway, VaultInv, VaultTypeOK, NotFiling
  <2>2. FilingSound(h)' /\ NotFiling.pc = "idle"
    BY <2>4 DEF FilingSound, NotFiling
  <2> QED
    BY <1>4, <2>2, <2>3, <2>4, FilingMoves DEF VaultFails, FiledAway
<1> QED
  BY <1>2, <1>3, <1>4 DEF BeginDelete, BeginDownload

\* A handler has worked on the document it holds: the others go on as they were.
LEMMA OthersFile ==
  ASSUME VaultInv, NEW h \in Handlers, filing[h].pc # "idle", NEW d, d = filing[h].doc,
         filing'[h].doc = d \/ filing'[h].pc = "idle",
         \A g \in Handlers \ {h} : filing'[g] = filing[g],
         \A o \in Papers \ {d} : paper'[o] = paper[o] /\ (o \in shredded' <=> o \in shredded),
         \A o \in Papers : filed[o] # None => filed'[o] = filed[o],
         \A o \in Papers \ {d} : filed'[o] = filed[o],
         shredded \subseteq shredded'
  PROVE  \A g \in Handlers \ {h} : FilingSound(g)'
<1> SUFFICES ASSUME NEW g \in Handlers \ {h} PROVE FilingSound(g)'
  OBVIOUS
<1>1. FilingSound(g) /\ filing'[g] = filing[g]
  BY DEF VaultInv
<1>2. CASE filing[g].pc \in {"store", "insert"}
  <2>1. filing[g].doc # d /\ filing[g].doc \in Papers
    BY <1>1, <1>2 DEF FilingSound, AtWork
  <2>2. \A k \in Handlers \ {g} : ~AtWork(k, filing[g].doc)'
    BY <1>1, <1>2, <2>1 DEF FilingSound, AtWork
  <2> QED
    BY <1>1, <1>2, <2>1, <2>2 DEF FilingSound
<1>3. CASE filing[g].pc \notin {"store", "insert"}
  <2>1. \A label \in Labels : label # None
    BY VaultBounds
  <2> QED
    BY <1>1, <1>3, <2>1 DEF FilingSound
<1> QED
  BY <1>2, <1>3

\* The work of others is as half done as it was.
LEMMA OthersHalfDone ==
  ASSUME VaultInv, NEW h \in Handlers, filing[h].pc # "idle", NEW d, d = filing[h].doc,
         \A g \in Handlers \ {h} : filing'[g] = filing[g],
         \A o \in Papers \ {d} : /\ paper'[o] = paper[o] /\ filed'[o] = filed[o]
                                 /\ o \in shredded' <=> o \in shredded
                                 /\ o \in torn' <=> o \in torn
  PROVE  \A o \in Papers \ {d} : HalfDone(o)'
<1> SUFFICES ASSUME NEW o \in Papers \ {d} PROVE HalfDone(o)'
  OBVIOUS
<1>1. HalfDone(o)
  BY DEF VaultInv
<1>2. \A g \in Handlers : AtWork(g, o) => g # h /\ AtWork(g, o)' /\ filing'[g].pc = filing[g].pc
  BY DEF AtWork
<1> QED
  BY <1>1, <1>2 DEF HalfDone

LEMMA StoreKeeps ==
  ASSUME VaultInv, NEW h \in Handlers, StoreFile(h)
  PROVE  VaultInv'
<1> DEFINE d == filing[h].doc
           label == filing[h].label
           path == StoragePath(label)
<1>1. /\ d \in Papers /\ label \in Labels /\ paper[d] = None /\ d \notin shredded
      /\ filed[d] = None /\ filing[h].pc = "store" /\ d # None /\ label # None
      /\ \A g \in Handlers \ {h} : ~AtWork(g, d)
  BY VaultBounds DEF StoreFile, Filing, VaultInv, FilingSound
<1>2. path \in Paths
  BY <1>1, PathsAreThere
<1>3. /\ object' = [object EXCEPT ![path] = d]
      /\ filed' = [filed EXCEPT ![d] = label]
      /\ filing' = [filing EXCEPT ![h] = [@ EXCEPT !.pc = "insert"]]
      /\ UNCHANGED <<paper, shredded, served, torn, vaultFaults>>
  BY DEF StoreFile, FileAt
<1>4. VaultTypeOK'
  BY <1>1, <1>2, <1>3 DEF VaultInv, VaultTypeOK
<1>5. /\ object'[path] = d /\ \A p \in Paths \ {path} : object'[p] = object[p]
      /\ filed'[d] = label /\ \A o \in Papers \ {d} : filed'[o] = filed[o]
      /\ filing'[h].pc = "insert" /\ filing'[h].doc = d /\ filing'[h].label = label
      /\ \A g \in Handlers \ {h} : filing'[g] = filing[g]
  BY <1>1, <1>2, <1>3 DEF VaultInv, VaultTypeOK
<1> HIDE DEF path
<1>6. \A o \in Papers : filed[o] # None => o # d
  BY <1>1
<1>7. PapersSound'
  <2>1. \A o \in Papers : paper'[o] # None => paper'[o] = filed'[o]
    BY <1>1, <1>3, <1>5 DEF VaultInv, PapersSound
  <2>2. \A o \in Papers : filed'[o] = None => o \notin shredded' /\ served'[o] = {}
    BY <1>1, <1>3, <1>5 DEF VaultInv, PapersSound
  <2>3. ASSUME NEW p \in Paths, object'[p] # None
        PROVE  filed'[object'[p]] # None /\ p = StoragePath(filed'[object'[p]])
    <3>1. CASE p = path
      BY <1>1, <1>5, <3>1 DEF path
    <3>2. CASE p # path
      <4>1. object[p] # None /\ object[p] \in Papers /\ object'[p] = object[p]
        BY <1>5, <2>3, <3>2 DEF VaultInv, VaultTypeOK
      <4>2. filed[object[p]] # None /\ p = StoragePath(filed[object[p]])
        BY <4>1 DEF VaultInv, PapersSound
      <4> QED
        BY <1>1, <1>5, <4>1, <4>2
    <3> QED
      BY <3>1, <3>2
  <2> QED
    BY <2>1, <2>2, <2>3 DEF PapersSound
<1>8. ASSUME NEW o \in Papers PROVE OwnPath(o)' /\ HalfDone(o)'
  <2>1. CASE o = d
    <3>1. served[d] \subseteq {d}
      BY <1>1 DEF VaultInv, PapersSound
    <3> QED
      BY <1>1, <1>3, <1>5, <2>1, <3>1 DEF OwnPath, HalfDone, AtWork, path
  <2>2. CASE o # d
    <3>1. HalfDone(o)'
      BY <1>1, <1>3, <1>5, <2>2, OthersHalfDone
    <3>2. ASSUME filed'[o] # None, ~Shared(o)' PROVE OwnPath(o)'
      <4>1. filed[o] # None /\ ~Shared(o) /\ StoragePath(filed[o]) # path
            /\ filed'[o] = filed[o]
        BY <1>1, <1>5, <2>2, <3>2 DEF Shared, path
      <4>2. filed[o] \in Labels
        BY <4>1 DEF VaultInv, VaultTypeOK
      <4>3. StoragePath(filed[o]) \in Paths \ {path}
        BY <4>1, <4>2, PathsAreThere
      <4> QED
        BY <1>3, <1>5, <4>1, <4>3 DEF OwnPath, VaultInv
    <3> QED
      BY <3>1, <3>2 DEF OwnPath
  <2> QED
    BY <2>1, <2>2
<1>9. \A g \in Handlers \ {h} : FilingSound(g)'
  BY <1>1, <1>3, <1>5, OthersFile
<1>10. FilingSound(h)'
  BY <1>1, <1>3, <1>5 DEF FilingSound, AtWork
<1> QED
  BY <1>4, <1>7, <1>8, <1>9, <1>10 DEF VaultInv

\* The row of an upload is written, or that of a deletion removed.
LEMMA RowKeeps ==
  ASSUME VaultInv, NEW h \in Handlers, InsertPaper(h) \/ DeletePaper(h)
  PROVE  VaultInv'
<1> DEFINE d == filing[h].doc
           row == IF filing[h].pc = "insert" THEN filing[h].label ELSE None
<1>1. /\ d \in Papers /\ filing[h].label \in Labels /\ filing[h].pc \in {"insert", "delete"}
      /\ filed[d] = filing[h].label /\ filed[d] # None
      /\ filing[h].pc = "insert" => d \notin shredded
      /\ filing[h].pc = "delete" => d \in shredded
  BY VaultBounds DEF InsertPaper, DeletePaper, Filing, VaultInv, FilingSound
<1>2. /\ paper' = [paper EXCEPT ![d] = row]
      /\ filing' = [filing EXCEPT ![h] = NotFiling]
      /\ UNCHANGED <<object, filed, shredded, served, vaultFaults>>
      /\ torn' \in {torn, torn \ {d}} /\ (filing[h].pc = "insert" => torn' = torn)
  BY DEF InsertPaper, DeletePaper, Filing, FiledAway
<1>3. row \in Labels \cup {None} /\ (row # None <=> filing[h].pc = "insert")
      /\ (row # None => row = filed[d])
  BY <1>1
<1> HIDE DEF row
<1>4. VaultTypeOK'
  BY <1>1, <1>2, <1>3 DEF VaultInv, VaultTypeOK, NotFiling
<1>5. /\ paper'[d] = row /\ \A o \in Papers \ {d} : paper'[o] = paper[o]
      /\ filing'[h].pc = "idle" /\ \A g \in Handlers \ {h} : filing'[g] = filing[g]
  BY <1>1, <1>2 DEF VaultInv, VaultTypeOK, NotFiling
<1>6. PapersSound'
  BY <1>2, <1>3, <1>5 DEF VaultInv, PapersSound
<1>7. \A o \in Papers : OwnPath(o)'
  BY <1>2 DEF VaultInv, OwnPath, Shared
<1>8. ASSUME NEW o \in Papers PROVE HalfDone(o)'
  <2>1. CASE o = d
    BY <1>1, <1>2, <1>3, <1>5, <2>1 DEF HalfDone
  <2>2. CASE o # d
    BY <1>1, <1>2, <1>5, <2>2, OthersHalfDone
  <2> QED
    BY <2>1, <2>2
<1>9. \A g \in Handlers \ {h} : FilingSound(g)'
  BY <1>1, <1>2, <1>5, OthersFile
<1>10. FilingSound(h)'
  BY <1>5 DEF FilingSound
<1> QED
  BY <1>4, <1>6, <1>7, <1>8, <1>9, <1>10 DEF VaultInv

\* A deletion removes what the path holds, which is the document's if it shares it
\* with no other.
LEMMA RemoveKeeps ==
  ASSUME VaultInv, NEW h \in Handlers, RemoveFile(h)
  PROVE  VaultInv'
<1> DEFINE d == filing[h].doc
           label == filing[h].label
           path == StoragePath(label)
<1>1. /\ d \in Papers /\ label \in Labels /\ filing[h].pc = "remove"
      /\ filed[d] = label /\ filed[d] # None
  BY VaultBounds DEF RemoveFile, Filing, VaultInv, FilingSound
<1>2. path \in Paths
  BY <1>1, PathsAreThere
<1>3. /\ object' = [p \in Paths |-> IF p = path THEN None ELSE object[p]]
      /\ shredded' = shredded \cup {d}
      /\ filing' = [filing EXCEPT ![h] = [@ EXCEPT !.pc = "delete"]]
      /\ UNCHANGED <<paper, filed, served, torn, vaultFaults>>
  BY DEF RemoveFile, Removed, FileAt
<1>4. VaultTypeOK'
  BY <1>1, <1>2, <1>3 DEF VaultInv, VaultTypeOK
<1>5. /\ object'[path] = None /\ \A p \in Paths \ {path} : object'[p] = object[p]
      /\ filing'[h].pc = "delete" /\ filing'[h].doc = d /\ filing'[h].label = label
      /\ \A g \in Handlers \ {h} : filing'[g] = filing[g]
  BY <1>1, <1>2, <1>3 DEF VaultInv, VaultTypeOK
<1>6. PapersSound'
  BY <1>1, <1>3, <1>5 DEF VaultInv, PapersSound
<1> HIDE DEF path
<1>7. ASSUME NEW o \in Papers PROVE OwnPath(o)' /\ HalfDone(o)'
  <2>1. CASE o = d
    BY <1>1, <1>3, <1>5, <2>1 DEF VaultInv, OwnPath, Shared, HalfDone, AtWork, path
  <2>2. CASE o # d
    <3>1. HalfDone(o)'
      BY <1>1, <1>3, <1>5, <2>2, OthersHalfDone
    <3>2. ASSUME filed[o] # None, ~Shared(o) PROVE OwnPath(o)'
      <4>1. filed[o] \in Labels /\ StoragePath(filed[o]) # path
        BY <1>1, <2>2, <3>2 DEF VaultInv, VaultTypeOK, Shared, path
      <4>2. StoragePath(filed[o]) \in Paths \ {path}
        BY <4>1, PathsAreThere
      <4> QED
        BY <1>3, <1>5, <2>2, <3>2, <4>2 DEF OwnPath, VaultInv
    <3> QED
      BY <1>3, <3>1, <3>2 DEF OwnPath, Shared
  <2> QED
    BY <2>1, <2>2
<1>8. \A g \in Handlers \ {h} : FilingSound(g)'
  BY <1>1, <1>3, <1>5, OthersFile
<1>9. FilingSound(h)'
  BY <1>1, <1>3, <1>5 DEF FilingSound
<1> QED
  BY <1>4, <1>6, <1>7, <1>8, <1>9 DEF VaultInv

LEMMA ServeKeeps ==
  ASSUME VaultInv, NEW h \in Handlers, ServeFile(h)
  PROVE  VaultInv'
<1> DEFINE d == filing[h].doc
           bytes == object[StoragePath(filing[h].label)]
<1>1. /\ d \in Papers /\ filing[h].label \in Labels /\ filing[h].pc = "fetch"
      /\ filed[d] = filing[h].label /\ filed[d] # None
  BY VaultBounds DEF ServeFile, Filing, VaultInv, FilingSound
<1>2. bytes \in Papers \cup {None}
  BY <1>1, PathsAreThere DEF VaultInv, VaultTypeOK
<1>3. /\ served' = [served EXCEPT ![d] = @ \cup {bytes}]
      /\ filing' = [filing EXCEPT ![h] = NotFiling]
      /\ UNCHANGED <<paper, object, filed, shredded, torn, vaultFaults>>
  BY DEF ServeFile, FiledAway
<1>4. VaultTypeOK'
  BY <1>1, <1>2, <1>3 DEF VaultInv, VaultTypeOK, NotFiling
<1>5. /\ served'[d] = served[d] \cup {bytes}
      /\ \A o \in Papers \ {d} : served'[o] = served[o]
      /\ filing'[h].pc = "idle" /\ \A g \in Handlers \ {h} : filing'[g] = filing[g]
  BY <1>1, <1>3 DEF VaultInv, VaultTypeOK, NotFiling
<1>6. PapersSound'
  BY <1>1, <1>3, <1>5 DEF VaultInv, PapersSound
<1>7. ASSUME NEW o \in Papers PROVE OwnPath(o)' /\ HalfDone(o)'
  <2>1. HalfDone(o)'
    <3>1. HalfDone(o)
      BY DEF VaultInv
    <3>2. \A g \in Handlers : AtWork(g, o) /\ filing[g].pc \in {"insert", "delete"}
            => AtWork(g, o)' /\ filing'[g].pc = filing[g].pc
      BY <1>1, <1>5 DEF AtWork
    <3> QED
      BY <1>3, <3>1, <3>2 DEF HalfDone
  <2>2. OwnPath(o)'
    BY <1>1, <1>3, <1>5 DEF OwnPath, Shared, VaultInv
  <2> QED
    BY <2>1, <2>2
<1>8. \A g \in Handlers \ {h} : FilingSound(g)'
  BY <1>1, <1>3, <1>5, OthersFile
<1>9. FilingSound(h)'
  BY <1>5 DEF FilingSound
<1> QED
  BY <1>4, <1>6, <1>7, <1>8, <1>9 DEF VaultInv

LEMMA VaultNextKeeps ==
  ASSUME VaultInv, [VaultNext]_vaultVars
  PROVE  VaultInv'
<1>1. CASE UNCHANGED vaultVars
  BY <1>1 DEF vaultVars, VaultInv, VaultTypeOK, PapersSound, OwnPath, Shared, HalfDone, AtWork,
              FilingSound
<1> QED
  BY <1>1, FindKeeps, StoreKeeps, RowKeeps, RemoveKeeps, ServeKeeps DEF VaultNext

\* What a request knows of its document, and the work that is half done.
THEOREM VaultInductive == VaultSpec => []VaultInv
<1>1. VaultInv /\ [VaultNext]_vaultVars => VaultInv'
  BY VaultNextKeeps
<1> QED
  BY <1>1, VaultStarts, PTL DEF VaultSpec

\* A document that shares its path with no other keeps its file until its deletion, no
\* download gives the bytes of another, and what is over leaves neither file nor row
\* alone, but for a document whose own request failed (document_service.py:139-152,
\* 218-222).
THEOREM DocumentsKeepTheirFiles == VaultSpec => []VaultIsWhole
<1>1. VaultInv => VaultIsWhole
  <2> SUFFICES ASSUME VaultInv PROVE VaultIsWhole
    OBVIOUS
  <2>1. ASSUME NEW d \in Papers, filed[d] # None, ~Shared(d)
        PROVE  /\ paper[d] # None /\ d \notin shredded => object[StoragePath(paper[d])] = d
               /\ served[d] \subseteq {d} \cup (IF d \in shredded THEN {None} ELSE {})
    BY <2>1 DEF VaultInv, OwnPath, PapersSound
  <2>2. ASSUME \A h \in Handlers : Filing(h, "idle"),
               NEW d \in Papers \ torn, filed[d] # None, ~Shared(d)
        PROVE  (paper[d] # None) <=> (\E p \in Paths : object[p] = d)
    <3>1. (paper[d] # None) <=> d \notin shredded
      BY <2>2 DEF VaultInv, HalfDone, Filing
    <3>2. \A p \in Paths : object[p] = d => p = StoragePath(filed[d])
      BY VaultBounds DEF VaultInv, PapersSound
    <3>3. d # None /\ StoragePath(filed[d]) \in Paths
      BY <2>2, PathsAreThere, VaultBounds DEF VaultInv, VaultTypeOK
    <3> QED
      BY <2>2, <3>1, <3>2, <3>3 DEF VaultInv, OwnPath
  <2> QED
    BY <2>1, <2>2 DEF VaultIsWhole
<1> QED
  BY <1>1, VaultInductive, PTL
===============================================================================
