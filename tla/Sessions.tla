------------------------------- MODULE Sessions -------------------------------
(***************************************************************************)
(* The sessions and the password of one account (identity/application:     *)
(* auth_service, token_service, password_reset_service; cli.py). Whoever   *)
(* logs in or changes the password writes the row of the account first and *)
(* so keeps it locked; the refresh tokens that are to be revoked are read  *)
(* after that, and reset links are read before it, without any lock.       *)
(*                                                                         *)
(* The session that first-run setup opens is left out: nobody else knows   *)
(* that password until setup has answered.                                 *)
(***************************************************************************)
EXTENDS FiniteSets, Naturals, Server

CONSTANTS
    MaxTokens,     \* bound: refresh tokens issued
    MaxLinks,      \* bound: reset links sent
    MaxPasswords,  \* bound: changes of the password
    MaxRollbacks   \* bound: handlers that fail

ASSUME SessionBounds == {MaxTokens, MaxLinks, MaxPasswords, MaxRollbacks} \subseteq Nat

VARIABLES
    password,   \* users.password_hash: how often it was changed
    userLock,   \* who has written the row and not committed
    tokens,     \* refresh_tokens: not revoked
    links,      \* password_reset_tokens: unused; how many resets each led to
    desk,       \* per handler: what it does and what it has read
    rollbacks   \* handlers that failed

sessionVars == <<password, userLock, tokens, links, desk, rollbacks>>

-------------------------------------------------------------------------------
(* Types *)

Tokens == 1..MaxTokens
Links == 1..MaxLinks

AtRest == [op |-> "idle", pc |-> "idle", link |-> None, seen |-> {}]

SessionTypeOK ==
    /\ password \in 0..MaxPasswords
    /\ userLock \in Handlers \cup {None}
    /\ \E n \in 0..MaxTokens : tokens \in [1..n -> BOOLEAN]
    /\ \E n \in 0..MaxLinks : links \in [1..n -> [unused : BOOLEAN, resets : Nat]]
    /\ desk \in [Handlers -> [op : {"idle", "login", "change", "reset", "forgot"},
                              pc : {"idle", "checked", "written", "revoked"},
                              link : Links \cup {None},
                              seen : (SUBSET Tokens) \cup (SUBSET Links)]]
    /\ rollbacks \in 0..MaxRollbacks

SessionInit ==
    /\ password = 0
    /\ userLock = None
    /\ tokens = [t \in {} |-> FALSE]
    /\ links = [l \in {} |-> None]
    /\ desk = [h \in Handlers |-> AtRest]
    /\ rollbacks = 0

LiveTokens == {t \in DOMAIN tokens : tokens[t]}
UnusedLinks == {l \in DOMAIN links : links[l].unused}

-------------------------------------------------------------------------------
(* login, change_password, reset_password *)

Reach(h, pc, next) ==
    /\ desk[h].pc = pc
    /\ desk' = [desk EXCEPT ![h].pc = next]

\* The password is checked against the row as it is read now.
CheckPassword(h, op) ==
    /\ desk[h] = AtRest
    /\ op \in {"login", "change"}
    /\ desk' = [desk EXCEPT ![h] = [AtRest EXCEPT !.op = op, !.pc = "checked"]]
    /\ UNCHANGED <<password, userLock, tokens, links, rollbacks>>

\* _find_token: the link is known, unused and not too old.
CheckLink(h, l) ==
    /\ desk[h] = AtRest
    /\ l \in UnusedLinks
    /\ desk' = [desk EXCEPT ![h] = [AtRest EXCEPT !.op = "reset", !.pc = "checked", !.link = l]]
    /\ UNCHANGED <<password, userLock, tokens, links, rollbacks>>

\* Mutant: a login leaves the row of the account alone.
LeavesRow(h) == userLock' = IF desk[h].op = "login" THEN userLock ELSE h

\* record_login, update_password: an UPDATE that is flushed.
WritesRow(h) == userLock' = h

WriteAccount(h) ==
    /\ Reach(h, "checked", "written")
    /\ Available(userLock, h)
    /\ WritesRow(h)
    /\ UNCHANGED <<password, tokens, links, rollbacks>>

\* revoke_all_for_user: the tokens that are live now.
RevokeAll(h) ==
    /\ desk[h].pc = "written"
    /\ desk' = [desk EXCEPT ![h] = [@ EXCEPT !.pc = "revoked", !.seen = LiveTokens]]
    /\ UNCHANGED <<password, userLock, tokens, links, rollbacks>>

\* A login and a change issue a token, a reset marks its link.
CommitAccount(h) ==
    LET d == desk[h]
        new == IF d.op = "reset" THEN {} ELSE {Cardinality(DOMAIN tokens) + 1}
    IN
    /\ d.pc = "revoked"
    /\ d.op # "forgot"
    /\ d.op # "login" => password < MaxPasswords
    /\ new \subseteq Tokens
    /\ password' = IF d.op = "login" THEN password ELSE password + 1
    /\ tokens' = [t \in DOMAIN tokens \cup new |-> t \in new \/ (tokens[t] /\ t \notin d.seen)]
    /\ links' = IF d.op = "reset"
                THEN [links EXCEPT ![d.link] = [unused |-> FALSE, resets |-> @.resets + 1]]
                ELSE links
    /\ userLock' = IF userLock = h THEN None ELSE userLock
    /\ desk' = [desk EXCEPT ![h] = AtRest]
    /\ UNCHANGED rollbacks

\* logout: one token, once the transaction that revokes it too has ended.
Logout(t) ==
    /\ t \in LiveTokens
    /\ \A h \in Handlers : t \notin desk[h].seen \/ desk[h].op = "forgot"
    /\ tokens' = [tokens EXCEPT ![t] = FALSE]
    /\ UNCHANGED <<password, userLock, links, desk, rollbacks>>

\* cli.py reset-password: the sessions go on.
RescuePassword ==
    /\ userLock = None
    /\ password < MaxPasswords
    /\ password' = password + 1
    /\ UNCHANGED <<userLock, tokens, links, desk, rollbacks>>

-------------------------------------------------------------------------------
(* create_reset_token *)

\* invalidate_all_active_for_user: the links that are unused now. The mail with
\* the new one is sent before anything is committed.
InvalidateLinks(h) ==
    /\ desk[h] = AtRest
    /\ desk' = [desk EXCEPT ![h] =
            [AtRest EXCEPT !.op = "forgot", !.pc = "revoked", !.seen = UnusedLinks]]
    /\ UNCHANGED <<password, userLock, tokens, links, rollbacks>>

\* Committed whether or not the mail was sent.
CommitLink(h) ==
    LET new == Cardinality(DOMAIN links) + 1 IN
    /\ desk[h].op = "forgot"
    /\ new \in Links
    /\ links' = [l \in 1..new |->
            IF l = new THEN [unused |-> TRUE, resets |-> 0]
            ELSE [links[l] EXCEPT !.unused = @ /\ l \notin desk[h].seen]]
    /\ desk' = [desk EXCEPT ![h] = AtRest]
    /\ UNCHANGED <<password, userLock, tokens, rollbacks>>

-------------------------------------------------------------------------------

RollBackSession(h) ==
    /\ desk[h] # AtRest
    /\ rollbacks < MaxRollbacks
    /\ rollbacks' = rollbacks + 1
    /\ userLock' = IF userLock = h THEN None ELSE userLock
    /\ desk' = [desk EXCEPT ![h] = AtRest]
    /\ UNCHANGED <<password, tokens, links>>

SessionStep(h) ==
    \/ \E op \in {"login", "change"} : CheckPassword(h, op)
    \/ \E l \in Links : CheckLink(h, l)
    \/ WriteAccount(h)
    \/ RevokeAll(h)
    \/ CommitAccount(h)
    \/ InvalidateLinks(h)
    \/ CommitLink(h)
    \/ RollBackSession(h)

SessionNext ==
    \/ \E h \in Handlers : SessionStep(h)
    \/ \E t \in Tokens : Logout(t)
    \/ RescuePassword

SessionSpec == SessionInit /\ [][SessionNext]_sessionVars

-------------------------------------------------------------------------------
(* Properties *)

\* "Each user should have at most one non-revoked refresh token at any time":
\* also when logins, changes of the password and resets overlap.
SingleSession == Cardinality(LiveTokens) <= 1

\* "Enforces the single active reset token invariant".
SingleLink == Cardinality(UnusedLinks) <= 1

\* A link is for one reset ("single-use").
LinkUsedOnce == \A l \in DOMAIN links : links[l].resets <= 1
===============================================================================
