--------------------------- MODULE GoogleConnection ---------------------------
(***************************************************************************)
(* The organization's one connection to Google                             *)
(* (identity/application/organization_google_connection_service.py): HR    *)
(* starts an OAuth flow, its callback stores the grant, and a disconnection *)
(* revokes it. What the mail jobs do with it is in MailSync and MailImport; *)
(* that they and SendService renew its access token is here.               *)
(*                                                                         *)
(* A process reads the row once; the ORM keeps that copy for the whole     *)
(* session and an UPDATE names only the columns that differ from it. Two   *)
(* processes may therefore mix their columns, and only the callback locks  *)
(* the row before it writes.                                               *)
(***************************************************************************)
EXTENDS Naturals, FiniteSets, Server

CONSTANTS
    GoogleAccounts,  \* Google accounts
    MaxStates,       \* bound: OAuth flows started
    MaxGrants,       \* bound: grants Google issues
    MaxLosses        \* bound: handlers that fail or die

\* Grants and OAuth states are numbers here.
ASSUME NoneIsNoOwner == None \notin GoogleAccounts \cup Nat

VARIABLES
    connection,   \* the row of organization_google_connections
    syncCursor,   \* whether sync_cursors has its row; MailSync makes one
    rowLock,      \* who wrote or locked the connection row and has not committed
    grants,       \* what Google issued: whose it is and whether it still works
    states,       \* per OAuth state: the connections it led to
    oldGrants,    \* per-user grants of the time before the single connection
    session,      \* per handler: what it does and the row as it read it
    losses        \* handlers that failed

googleVars == <<connection, syncCursor, rowLock, grants, states, oldGrants, session, losses>>

-------------------------------------------------------------------------------
(* Types *)

States == 1..MaxStates
Grants == 1..MaxGrants

ConnectionRow ==
    [status : {"disconnected", "connected", "reauthorization_required"},
     email : GoogleAccounts \cup {None},          \* email, google_sub, email_domain
     refresh : Grants \cup {None},          \* the grant of the refresh token
     access : Grants \cup {None},           \* the grant of the access token
     state : States \cup {None}]            \* oauth_state_hash and its columns

\* mark_reauthorization_required and disconnect
Cleared(status) == [status |-> status, email |-> None, refresh |-> None,
                    access |-> None, state |-> None]

Idle == [pc |-> "idle", loaded |-> Cleared("disconnected"), state |-> None, grant |-> None]

GoogleTypeOK ==
    /\ connection \in ConnectionRow
    /\ rowLock \in Handlers \cup {None}
    /\ \E n \in 0..MaxGrants : grants \in [1..n -> [account : GoogleAccounts, live : BOOLEAN]]
    /\ \E n \in 0..MaxStates : states \in [1..n -> Nat]
    /\ syncCursor \in BOOLEAN
    /\ oldGrants \in BOOLEAN
    /\ session \in [Handlers -> [pc : {"idle", "callback", "consumed", "granted", "disconnect",
                                       "revoked", "calendar", "reconcile", "marking",
                                       "renewal", "renewed"},
                                 loaded : ConnectionRow, state : States \cup {None},
                                 grant : Grants \cup {None}]]
    /\ losses \in 0..MaxLosses

GoogleInit ==
    /\ connection = Cleared("disconnected")
    /\ syncCursor = FALSE
    /\ rowLock = None
    /\ grants = [g \in {} |-> None]
    /\ states = [s \in {} |-> 0]
    /\ oldGrants \in BOOLEAN
    /\ session = [h \in Handlers |-> Idle]
    /\ losses = 0

-------------------------------------------------------------------------------
(* The row and its copies *)

\* The UPDATE of a flush: the columns that were changed since the row was read.
Flush(loaded, new) ==
    [column \in DOMAIN new |->
        IF new[column] # loaded[column] THEN new[column] ELSE connection[column]]

Live(g) == g # None /\ grants[g].live

Load(h, pc) ==
    /\ session[h] = Idle
    /\ session' = [session EXCEPT ![h] = [Idle EXCEPT !.pc = pc, !.loaded = connection]]

Finish(h) == session' = [session EXCEPT ![h] = Idle]

\* Mutant: the cursor stays when the connection changes.
CursorLeft == UNCHANGED syncCursor

\* clear_cursor, in the transaction that writes the connection.
ClearCursor == syncCursor' = FALSE

-------------------------------------------------------------------------------
(* initiate, get_status *)

\* Nothing the handler read survives into its UPDATE but the new state, so that
\* reading and writing are one step. Old grants are dealt with first, by the
\* actions below.
Initiate(h) ==
    LET s == Cardinality(DOMAIN states) + 1 IN
    /\ session[h] = Idle
    /\ ~oldGrants
    /\ s \in States
    /\ Available(rowLock, h)
    /\ connection' = [connection EXCEPT !.state = s]
    /\ states' = [t \in 1..s |-> IF t = s THEN 0 ELSE states[t]]
    /\ UNCHANGED <<syncCursor, rowLock, grants, oldGrants, session, losses>>

\* _reconcile_legacy_grants: there are grants of the old kind.
BeginReconcile(h) ==
    /\ oldGrants
    /\ Load(h, "reconcile")
    /\ UNCHANGED <<connection, syncCursor, rowLock, grants, states, oldGrants, losses>>

\* revoke_all: their rows are written, which another handler that found them
\* waits for; then the connection is read.
RevokeOldGrants(h) ==
    /\ session[h].pc = "reconcile"
    /\ \A other \in Handlers : session[other].pc # "marking"
    /\ session' = [session EXCEPT ![h] = [@ EXCEPT !.pc = "marking", !.loaded = connection]]
    /\ UNCHANGED <<connection, syncCursor, rowLock, grants, states, oldGrants, losses>>

\* The connection has to be made anew.
CommitReconcile(h) ==
    /\ session[h].pc = "marking"
    /\ Available(rowLock, h)
    /\ connection' = Flush(session[h].loaded, Cleared("reauthorization_required"))
    /\ ClearCursor
    /\ oldGrants' = FALSE
    /\ Finish(h)
    /\ UNCHANGED <<rowLock, grants, states, losses>>

-------------------------------------------------------------------------------
(* callback *)

\* The state is compared with the row without a lock.
BeginCallback(h, s) ==
    /\ s = connection.state
    /\ session[h] = Idle
    /\ session' = [session EXCEPT
            ![h] = [pc |-> "callback", loaded |-> connection, state |-> s, grant |-> None]]
    /\ UNCHANGED <<connection, syncCursor, rowLock, grants, states, oldGrants, losses>>

\* Mutant: SELECT ... FOR UPDATE without the condition on the state.
Unread(s) == TRUE

\* The condition of the SELECT ... FOR UPDATE, evaluated once the lock is there.
Unconsumed(s) == connection.state = s

\* consume_oauth_state: the state is cleared in this session, whose transaction
\* keeps the row locked.
ConsumeState(h) ==
    /\ session[h].pc = "callback"
    /\ Available(rowLock, h)
    /\ Unconsumed(session[h].state)
    /\ rowLock' = h
    /\ session' = [session EXCEPT ![h].pc = "consumed"]
    /\ UNCHANGED <<connection, syncCursor, grants, states, oldGrants, losses>>

\* Google exchanges the code for tokens of the account HR consented with. It is
\* asked for the consent each time, so that there is always a refresh token.
ExchangeCode(h, account) ==
    LET g == Cardinality(DOMAIN grants) + 1 IN
    /\ session[h].pc = "consumed"
    /\ g \in Grants
    /\ grants' = [old \in 1..g |-> IF old = g THEN [account |-> account, live |-> TRUE]
                                  ELSE grants[old]]
    /\ session' = [session EXCEPT ![h] = [@ EXCEPT !.pc = "granted", !.grant = g]]
    /\ UNCHANGED <<connection, syncCursor, rowLock, states, oldGrants, losses>>

\* Scopes and domain are as required; the cursor goes, the connection is written
\* and everything is committed.
CommitCallback(h) ==
    LET s == session[h].state
        g == session[h].grant
        new == [status |-> "connected", email |-> grants[g].account,
                refresh |-> g, access |-> g, state |-> None]
    IN
    /\ session[h].pc = "granted"
    /\ connection' = Flush(session[h].loaded, new)
    /\ ClearCursor
    /\ states' = [states EXCEPT ![s] = @ + 1]
    /\ rowLock' = None
    /\ Finish(h)
    /\ UNCHANGED <<grants, oldGrants, losses>>

-------------------------------------------------------------------------------
(* disconnect, update_selected_calendar *)

BeginDisconnect(h) ==
    /\ Load(h, "disconnect")
    /\ UNCHANGED <<connection, syncCursor, rowLock, grants, states, oldGrants, losses>>

\* 200 or 400: the grant that was read is gone at Google. Anything else raises
\* (Fail). Without a refresh token there is nothing to revoke.
Revoke(h) ==
    LET g == session[h].loaded.refresh IN
    /\ session[h].pc = "disconnect"
    /\ grants' = IF g = None THEN grants ELSE [grants EXCEPT ![g].live = FALSE]
    /\ session' = [session EXCEPT ![h].pc = "revoked"]
    /\ UNCHANGED <<connection, syncCursor, rowLock, states, oldGrants, losses>>

CommitDisconnect(h) ==
    /\ session[h].pc = "revoked"
    /\ Available(rowLock, h)
    /\ connection' = Flush(session[h].loaded, Cleared("disconnected"))
    /\ ClearCursor
    /\ Finish(h)
    /\ UNCHANGED <<rowLock, grants, states, oldGrants, losses>>

\* The new entity has no OAuth state: a flow that is under way is forgotten.
BeginSelectCalendar(h) ==
    /\ connection.status = "connected"
    /\ Load(h, "calendar")
    /\ UNCHANGED <<connection, syncCursor, rowLock, grants, states, oldGrants, losses>>

CommitSelectCalendar(h) ==
    LET loaded == session[h].loaded IN
    /\ session[h].pc = "calendar"
    /\ Available(rowLock, h)
    /\ connection' = Flush(loaded, [loaded EXCEPT !.state = None])
    /\ Finish(h)
    /\ UNCHANGED <<syncCursor, rowLock, grants, states, oldGrants, losses>>

-------------------------------------------------------------------------------
(* _get_access_token, _resolve_access_token, _handle_connection_token_refresh *)

\* The access token has expired, or Gmail has refused it.
BeginRenewal(h) ==
    /\ connection.status = "connected"
    /\ None \notin {connection.refresh, connection.access}
    /\ Load(h, "renewal")
    /\ UNCHANGED <<connection, syncCursor, rowLock, grants, states, oldGrants, losses>>

\* Google answers for the grant that was read; the new token is flushed and its
\* row stays locked for the rest of the poll, the import or the request.
ObtainToken(h) ==
    /\ session[h].pc = "renewal"
    /\ Live(session[h].loaded.refresh)
    /\ Available(rowLock, h)
    /\ rowLock' = h
    /\ session' = [session EXCEPT ![h].pc = "renewed"]
    /\ UNCHANGED <<connection, syncCursor, grants, states, oldGrants, losses>>

\* refresh_access_token turns every refusal into GmailFetchError, so that the row
\* is never marked: the caller goes without a token.
RenewalRefused(h) ==
    /\ session[h].pc = "renewal"
    /\ ~Live(session[h].loaded.refresh)
    /\ Finish(h)
    /\ UNCHANGED <<connection, syncCursor, rowLock, grants, states, oldGrants, losses>>

\* A new token differs from the one that was read, whatever is in the row now.
CommitRenewal(h) ==
    /\ session[h].pc = "renewed"
    /\ connection' = [connection EXCEPT !.access = session[h].loaded.refresh]
    /\ rowLock' = None
    /\ Finish(h)
    /\ UNCHANGED <<syncCursor, grants, states, oldGrants, losses>>

-------------------------------------------------------------------------------
(* Google, and what fails *)

\* The owner of an account takes the access back, or Google does.
RevokedByOwner(g) ==
    /\ g \in DOMAIN grants
    /\ grants[g].live
    /\ losses < MaxLosses
    /\ losses' = losses + 1
    /\ grants' = [grants EXCEPT ![g].live = FALSE]
    /\ UNCHANGED <<connection, syncCursor, rowLock, states, oldGrants, session>>

\* MailSync has stored where it got to.
CursorMoves ==
    /\ connection.status = "connected"
    /\ syncCursor' = TRUE
    /\ UNCHANGED <<connection, rowLock, grants, states, oldGrants, session, losses>>

\* The handler raises, Google refuses or the process dies: the session is rolled
\* back, a consumed state is there again.
Fail(h) ==
    /\ session[h].pc # "idle"
    /\ losses < MaxLosses
    /\ losses' = losses + 1
    /\ rowLock' = IF rowLock = h THEN None ELSE rowLock
    /\ Finish(h)
    /\ UNCHANGED <<connection, syncCursor, grants, states, oldGrants>>

\* invalid_state: the state was consumed by another callback.
RefuseCallback(h) ==
    /\ session[h].pc = "callback"
    /\ Available(rowLock, h)
    /\ ~Unconsumed(session[h].state)
    /\ Finish(h)
    /\ UNCHANGED <<connection, syncCursor, rowLock, grants, states, oldGrants, losses>>

ConnectionStep(h) ==
    \/ Initiate(h)
    \/ BeginReconcile(h)
    \/ RevokeOldGrants(h)
    \/ CommitReconcile(h)
    \/ \E s \in States : BeginCallback(h, s)
    \/ ConsumeState(h)
    \/ RefuseCallback(h)
    \/ \E account \in GoogleAccounts : ExchangeCode(h, account)
    \/ CommitCallback(h)
    \/ BeginDisconnect(h)
    \/ Revoke(h)
    \/ CommitDisconnect(h)
    \/ BeginSelectCalendar(h)
    \/ CommitSelectCalendar(h)
    \/ Fail(h)

RenewalStep(h) ==
    \/ BeginRenewal(h)
    \/ ObtainToken(h)
    \/ RenewalRefused(h)
    \/ CommitRenewal(h)

GoogleNext ==
    \/ \E h \in Handlers : ConnectionStep(h) \/ RenewalStep(h)
    \/ \E g \in Grants : RevokedByOwner(g)
    \/ CursorMoves

GoogleSpec == GoogleInit /\ [][GoogleNext]_googleVars

-------------------------------------------------------------------------------
(* Properties *)

\* One OAuth flow connects the organization once: callbacks that are replayed,
\* run at the same time or follow one that failed never store a second grant
\* under the same state (consume_oauth_state, "a replay sees no matching state
\* after the first transaction consumes it").
StateUsedOnce == \A s \in DOMAIN states : states[s] <= 1

OwnerOf(g) == IF g = None THEN None ELSE grants[g].account

\* The mail jobs look at the tokens of a connection whose status is connected.
Usable(g) == IF connection.status = "connected" THEN OwnerOf(g) ELSE None

Seen == INSTANCE Mailbox WITH
    Accounts <- GoogleAccounts,
    Positions <- {TRUE},
    account <- Usable(connection.refresh),
    access <- Usable(connection.access),
    cursor <- IF syncCursor THEN TRUE ELSE None

\* The connection is what the mail jobs take it for (Mailbox): whatever handlers
\* and renewals write at once, a new refresh token comes with the access token of
\* its account, and whoever stores or removes it takes the cursor away in the
\* same step.
ServesMailbox == Seen!MailboxSpec

\* Both tokens belong to the account that is connected. A renewal that read the
\* row before a callback committed puts the token of the account before back.
TokensAgree == connection.status = "connected" => OwnerOf(connection.access) = connection.email

\* What disconnect promises: the connection is not cleared while its grant may
\* still be used at Google.
DisconnectedIsRevoked ==
    [][connection.refresh # None /\ connection'.status = "disconnected"
            /\ connection'.refresh = None
        => ~Live(connection.refresh)]_connection
===============================================================================
