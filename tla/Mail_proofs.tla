----------------------------- MODULE Mail_proofs ------------------------------
(***************************************************************************)
(* What the organization does with its Google account, for any number of   *)
(* accounts, messages, mails, workers and handlers.                        *)
(***************************************************************************)
EXTENDS GoogleConnection, MailSync, MailImport, OutboundEmail, Classification,
        LinkProposals, FiniteSetTheorems, TLAPS

-------------------------------------------------------------------------------
(* The connection to Google *)

SessionRecords ==
    [pc : {"idle", "callback", "consumed", "granted", "disconnect", "revoked", "calendar",
           "reconcile", "marking", "renewal", "renewed"},
     loaded : ConnectionRow, state : States \cup {None}, grant : Grants \cup {None}]

GrantsTyped == \E n \in Nat : grants \in [1..n -> [account : GoogleAccounts, live : BOOLEAN]]

\* The tokens of a row were issued by Google.
Issued(row) == {row.refresh, row.access} \subseteq DOMAIN grants \cup {None}

\* A state that led to a connection is not in the row, and never will be.
StatesSound ==
    \E n \in Nat :
        /\ states \in [1..n -> Nat]
        /\ \A s \in 1..n : states[s] = 0 \/ (states[s] = 1 /\ connection.state # s)

\* Whoever consumed a state, or renewed the token, holds the row; a consumed state
\* stays in it until the commit that counts it.
SessionSound(h) ==
    LET x == session[h] IN
    /\ Issued(x.loaded)
    /\ x.pc \in {"consumed", "granted", "renewed"} => rowLock = h
    /\ x.pc \in {"callback", "consumed", "granted"} =>
        x.state # None /\ x.loaded.state = x.state
    /\ x.pc \in {"consumed", "granted"} => connection.state = x.state
    /\ x.pc = "granted" => x.grant \in DOMAIN grants \ {x.loaded.refresh, x.loaded.access}
    /\ x.pc \in {"renewal", "renewed"} => x.loaded.refresh \in DOMAIN grants

GoogleInv ==
    /\ connection \in ConnectionRow /\ Issued(connection)
    /\ session \in [Handlers -> SessionRecords]
    /\ GrantsTyped /\ StatesSound
    /\ \A h \in Handlers : SessionSound(h)

LEMMA ClearedRow ==
  ASSUME NEW status \in {"disconnected", "connected", "reauthorization_required"}
  PROVE  Cleared(status) \in ConnectionRow /\ Issued(Cleared(status))
BY DEF Cleared, ConnectionRow, Issued

LEMMA IdleSession == Idle \in SessionRecords /\ Idle.pc = "idle" /\ Issued(Idle.loaded)
BY ClearedRow DEF Idle, SessionRecords

LEMMA GoogleStarts == GoogleInit => GoogleInv
<1> SUFFICES ASSUME GoogleInit PROVE GoogleInv
  OBVIOUS
<1>1. grants \in [1..0 -> [account : GoogleAccounts, live : BOOLEAN]] /\ states \in [1..0 -> Nat]
  BY DEF GoogleInit
<1>2. GrantsTyped /\ StatesSound
  BY <1>1 DEF GrantsTyped, StatesSound
<1>3. \A h \in Handlers : session[h] = Idle
  BY DEF GoogleInit
<1>4. \A h \in Handlers : SessionSound(h)
  BY <1>3, IdleSession DEF SessionSound
<1>5. session \in [Handlers -> SessionRecords]
  BY IdleSession DEF GoogleInit
<1> QED
  BY <1>2, <1>4, <1>5, ClearedRow DEF GoogleInit, GoogleInv

\* A handler steps: the others keep what they rely on, unless the row is locked.
LEMMA SessionMoves ==
  ASSUME GoogleInv, NEW h \in Handlers, NEW new \in SessionRecords,
         session' = [session EXCEPT ![h] = new],
         GrantsTyped', DOMAIN grants \subseteq DOMAIN grants',
         connection' \in ConnectionRow, Issued(connection)', StatesSound',
         \/ rowLock \in {None, h}
         \/ rowLock' = rowLock /\ connection'.state = connection.state,
         SessionSound(h)'
  PROVE  GoogleInv'
<1>1. /\ session' \in [Handlers -> SessionRecords]
      /\ \A g \in Handlers \ {h} : session'[g] = session[g]
  BY DEF GoogleInv
<1>2. ASSUME NEW g \in Handlers \ {h} PROVE SessionSound(g)'
  <2>1. SessionSound(g)
    BY DEF GoogleInv
  <2>2. CASE rowLock \in {None, h}
    <3>1. session[g].pc \notin {"consumed", "granted", "renewed"}
      BY <2>1, <2>2, NoneIsNoHandler DEF SessionSound
    <3> QED
      BY <1>1, <2>1, <3>1 DEF SessionSound, Issued
  <2>3. CASE rowLock' = rowLock /\ connection'.state = connection.state
    BY <1>1, <2>1, <2>3 DEF SessionSound, Issued
  <2> QED
    BY <2>2, <2>3
<1> QED
  BY <1>1, <1>2 DEF GoogleInv

\* A handler reads, waits for Google or gives up: no row changes.
LEMMA OnlySession ==
  ASSUME GoogleInv, NEW h \in Handlers, NEW new \in SessionRecords,
         session' = [session EXCEPT ![h] = new],
         connection' = connection, grants' = grants, states' = states,
         rowLock' = rowLock \/ rowLock \in {None, h},
         SessionSound(h)'
  PROVE  GoogleInv'
<1>1. GrantsTyped' /\ Issued(connection)' /\ StatesSound'
  BY DEF GoogleInv, GrantsTyped, Issued, StatesSound
<1> QED
  BY <1>1, SessionMoves DEF GoogleInv

\* A handler is done.
LEMMA IdleSound ==
  ASSUME NEW h \in Handlers, Finish(h), GoogleInv
  PROVE  SessionSound(h)' /\ session' = [session EXCEPT ![h] = Idle]
BY IdleSession DEF Finish, SessionSound, GoogleInv, Issued, Idle, Cleared

LEMMA Loads ==
  ASSUME GoogleInv, NEW h \in Handlers,
         NEW pc \in {"reconcile", "disconnect", "calendar", "renewal"},
         Load(h, pc), UNCHANGED <<connection, rowLock, grants, states>>,
         pc = "renewal" => connection.refresh # None
  PROVE  GoogleInv'
<1> DEFINE new == [Idle EXCEPT !.pc = pc, !.loaded = connection]
<1>1. /\ new \in SessionRecords /\ new.pc = pc /\ new.loaded = connection
      /\ session' = [session EXCEPT ![h] = new]
  BY IdleSession DEF Load, SessionRecords, GoogleInv
<1> HIDE DEF new
<1>2. session'[h] = new
  BY <1>1 DEF GoogleInv
<1>3. SessionSound(h)'
  BY <1>1, <1>2 DEF SessionSound, GoogleInv, Issued
<1> QED
  BY <1>1, <1>3, OnlySession

\* The columns that a flush writes.
LEMMA Flushed ==
  ASSUME NEW loaded \in ConnectionRow, NEW new \in ConnectionRow, connection \in ConnectionRow
  PROVE  LET row == Flush(loaded, new) IN
         /\ row \in ConnectionRow
         /\ row.status = IF new.status # loaded.status THEN new.status ELSE connection.status
         /\ row.refresh = IF new.refresh # loaded.refresh THEN new.refresh ELSE connection.refresh
         /\ row.access = IF new.access # loaded.access THEN new.access ELSE connection.access
         /\ row.state = IF new.state # loaded.state THEN new.state ELSE connection.state
<1> DEFINE row == Flush(loaded, new)
           Columns == {"status", "email", "refresh", "access", "state"}
<1>1. DOMAIN new = Columns
  BY DEF ConnectionRow
<1>2. row = [c \in Columns |-> IF new[c] # loaded[c] THEN new[c] ELSE connection[c]]
  BY <1>1 DEF Flush
<1>3. /\ row.status = IF new.status # loaded.status THEN new.status ELSE connection.status
      /\ row.email = IF new.email # loaded.email THEN new.email ELSE connection.email
      /\ row.refresh = IF new.refresh # loaded.refresh THEN new.refresh ELSE connection.refresh
      /\ row.access = IF new.access # loaded.access THEN new.access ELSE connection.access
      /\ row.state = IF new.state # loaded.state THEN new.state ELSE connection.state
  BY <1>2
<1>4. row = [c \in Columns |-> row[c]]
  BY <1>2
<1> HIDE DEF row
<1>5. row \in ConnectionRow
  BY <1>3, <1>4 DEF ConnectionRow
<1> QED
  BY <1>3, <1>5 DEF row

\* A flush that removes the state, or leaves it, keeps a used state used.
LEMMA WritesKeep ==
  ASSUME GoogleInv, NEW h \in Handlers, Finish(h),
         connection' \in ConnectionRow, Issued(connection)',
         connection'.state \in {None, connection.state},
         rowLock \in {None, h}, grants' = grants, states' = states
  PROVE  GoogleInv'
<1>1. StatesSound'
  <2>1. PICK n \in Nat :
            /\ states \in [1..n -> Nat]
            /\ \A s \in 1..n : states[s] = 0 \/ (states[s] = 1 /\ connection.state # s)
    BY DEF GoogleInv, StatesSound
  <2>2. \A s \in 1..n : None # s
    BY NoneIsNoOwner
  <2> QED
    BY <2>1, <2>2 DEF StatesSound
<1>2. GrantsTyped'
  BY DEF GoogleInv, GrantsTyped
<1> QED
  BY <1>1, <1>2, IdleSound, IdleSession, SessionMoves

\* How many were issued or started.
LEMMA Counted ==
  ASSUME NEW n \in Nat
  PROVE  Cardinality(1..n) = n
<1>1. Cardinality(1..n) = IF 1 > n THEN 0 ELSE n - 1 + 1
  BY FS_Interval
<1> QED
  BY <1>1

LEMMA InitiateKeeps ==
  ASSUME GoogleInv, NEW h \in Handlers, Initiate(h)
  PROVE  GoogleInv'
<1>1. PICK n \in Nat :
        /\ states \in [1..n -> Nat]
        /\ \A s \in 1..n : states[s] = 0 \/ (states[s] = 1 /\ connection.state # s)
  BY DEF GoogleInv, StatesSound
<1> DEFINE s == n + 1
<1>2. DOMAIN states = 1..n /\ Cardinality(DOMAIN states) + 1 = s
  BY <1>1, Counted
<1>3. /\ s \in States /\ session[h] = Idle /\ rowLock \in {None, h}
      /\ connection' = [connection EXCEPT !.state = s]
      /\ states' = [t \in 1..s |-> IF t = s THEN 0 ELSE states[t]]
      /\ grants' = grants /\ session' = session /\ rowLock' = rowLock
  BY <1>2 DEF Initiate, Available
<1>4. /\ connection' \in ConnectionRow /\ connection'.state = s
      /\ connection'.refresh = connection.refresh /\ connection'.access = connection.access
  BY <1>3 DEF GoogleInv, ConnectionRow
<1>5. StatesSound'
  <2>1. s \in Nat
    OBVIOUS
  <2>2. ASSUME NEW t \in 1..s
        PROVE  states'[t] \in Nat /\ (states'[t] = 0 \/ (states'[t] = 1 /\ connection'.state # t))
    <3>1. CASE t = s
      BY <1>3, <3>1
    <3>2. CASE t # s
      <4>1. t \in 1..n
        BY <3>2
      <4> QED
        BY <1>1, <1>3, <1>4, <3>2, <4>1
    <3> QED
      BY <3>1, <3>2
  <2>3. states' \in [1..s -> Nat]
    BY <1>3, <2>2
  <2> QED
    BY <2>1, <2>2, <2>3 DEF StatesSound
<1>6. ASSUME NEW g \in Handlers PROVE SessionSound(g)'
  <2>1. SessionSound(g) /\ session[g].pc \notin {"consumed", "granted", "renewed"}
    BY <1>3, IdleSession, NoneIsNoHandler DEF GoogleInv, SessionSound
  <2> QED
    BY <1>3, <2>1 DEF SessionSound, Issued
<1> QED
  BY <1>3, <1>4, <1>5, <1>6 DEF GoogleInv, GrantsTyped, Issued

LEMMA CallbackKeeps ==
  ASSUME GoogleInv, NEW h \in Handlers,
         \/ \E s \in States : BeginCallback(h, s)
         \/ ConsumeState(h)
         \/ RefuseCallback(h)
  PROVE  GoogleInv'
<1>1. ASSUME NEW s \in States, BeginCallback(h, s)
      PROVE  GoogleInv'
  <2> DEFINE new == [pc |-> "callback", loaded |-> connection, state |-> s, grant |-> None]
  <2>1. new \in SessionRecords
    BY DEF SessionRecords, GoogleInv
  <2>2. session' = [session EXCEPT ![h] = new] /\ s = connection.state
        /\ UNCHANGED <<connection, rowLock, grants, states>>
    BY <1>1 DEF BeginCallback
  <2>3. session'[h] = new
    BY <2>2 DEF GoogleInv
  <2>4. s # None
    BY NoneIsNoOwner DEF States
  <2>5. SessionSound(h)'
    BY <2>2, <2>3, <2>4 DEF SessionSound, GoogleInv, Issued
  <2> QED
    BY <2>1, <2>2, <2>5, OnlySession
<1>2. CASE ConsumeState(h)
  <2> DEFINE new == [session[h] EXCEPT !.pc = "consumed"]
  <2>1. /\ new \in SessionRecords /\ new.pc = "consumed" /\ new.state = session[h].state
        /\ new.loaded = session[h].loaded
    BY DEF SessionRecords, GoogleInv
  <2>2. /\ session[h].pc = "callback" /\ connection.state = session[h].state
        /\ session' = [session EXCEPT ![h] = new] /\ rowLock \in {None, h} /\ rowLock' = h
        /\ connection' = connection /\ grants' = grants /\ states' = states
    BY <1>2 DEF ConsumeState, Unconsumed, Available
  <2> HIDE DEF new
  <2>3. session'[h] = new
    BY <2>2 DEF GoogleInv
  <2>4. SessionSound(h)'
    BY <2>1, <2>2, <2>3 DEF SessionSound, GoogleInv, Issued
  <2> QED
    BY <2>1, <2>2, <2>4, OnlySession
<1>3. CASE RefuseCallback(h)
  BY <1>3, IdleSound, IdleSession, OnlySession DEF RefuseCallback
<1> QED
  BY <1>1, <1>2, <1>3

LEMMA ExchangeKeeps ==
  ASSUME GoogleInv, NEW h \in Handlers, NEW whose \in GoogleAccounts, ExchangeCode(h, whose)
  PROVE  /\ GoogleInv'
         /\ \A g \in DOMAIN grants : g \in DOMAIN grants' /\ grants'[g] = grants[g]
<1>1. PICK n \in Nat : grants \in [1..n -> [account : GoogleAccounts, live : BOOLEAN]]
  BY DEF GoogleInv, GrantsTyped
<1> DEFINE g == n + 1
           new == [session[h] EXCEPT !.pc = "granted", !.grant = g]
<1>2. DOMAIN grants = 1..n /\ Cardinality(DOMAIN grants) + 1 = g
  BY <1>1, Counted
<1>3. /\ session[h].pc = "consumed" /\ g \in Grants
      /\ grants' = [old \in 1..g |-> IF old = g THEN [account |-> whose, live |-> TRUE]
                                     ELSE grants[old]]
      /\ session' = [session EXCEPT ![h] = new]
      /\ connection' = connection /\ rowLock' = rowLock /\ states' = states
  BY <1>2 DEF ExchangeCode
<1>4. /\ new \in SessionRecords /\ new.pc = "granted" /\ new.grant = g
      /\ new.loaded = session[h].loaded /\ new.state = session[h].state
  BY <1>3 DEF SessionRecords, GoogleInv
<1> HIDE DEF new
<1>5. ASSUME NEW old \in 1..g
      PROVE  /\ grants'[old] \in [account : GoogleAccounts, live : BOOLEAN]
             /\ old # g => old \in 1..n /\ grants'[old] = grants[old]
  <2>1. old # g => old \in 1..n
    OBVIOUS
  <2> QED
    BY <1>1, <1>3, <2>1
<1>6. grants' \in [1..g -> [account : GoogleAccounts, live : BOOLEAN]] /\ g \in Nat
  BY <1>3, <1>5
<1>7. /\ DOMAIN grants' = 1..g /\ DOMAIN grants \subseteq DOMAIN grants'
      /\ g \in DOMAIN grants' /\ g \notin DOMAIN grants /\ g # None
      /\ \A old \in DOMAIN grants : grants'[old] = grants[old]
  BY <1>2, <1>3, <1>6, NoneIsNoOwner
<1>8. GrantsTyped'
  BY <1>6 DEF GrantsTyped
<1>9. Issued(connection)' /\ StatesSound'
  BY <1>3, <1>7 DEF GoogleInv, Issued, StatesSound
<1>10. session'[h] = new
  BY <1>3 DEF GoogleInv
<1>11. SessionSound(h)'
  <2>1. SessionSound(h)
    BY DEF GoogleInv
  <2>2. /\ Issued(session[h].loaded)
        /\ rowLock = h /\ connection.state = session[h].state
        /\ session[h].state # None /\ session[h].loaded.state = session[h].state
    BY <1>3, <2>1 DEF SessionSound
  <2>3. g \notin {session[h].loaded.refresh, session[h].loaded.access}
    BY <1>7, <2>2 DEF Issued
  <2> QED
    BY <1>3, <1>4, <1>7, <1>10, <2>2, <2>3 DEF SessionSound, Issued
<1>12. GoogleInv'
  BY <1>3, <1>4, <1>7, <1>8, <1>9, <1>11, SessionMoves DEF GoogleInv
<1> QED
  BY <1>7, <1>12

LEMMA CommitCallbackKeeps ==
  ASSUME GoogleInv, NEW h \in Handlers, CommitCallback(h)
  PROVE  /\ GoogleInv'
         /\ LET loaded == session[h].loaded
                g == session[h].grant
            IN /\ g \in DOMAIN grants
               /\ connection'.status = IF loaded.status # "connected" THEN "connected"
                                       ELSE connection.status
               /\ connection'.refresh = g /\ connection'.access = g
<1> DEFINE loaded == session[h].loaded
           s == session[h].state
           g == session[h].grant
           new == [status |-> "connected", email |-> grants[g].account,
                   refresh |-> g, access |-> g, state |-> None]
<1>1. /\ session[h].pc = "granted"
      /\ connection' = Flush(loaded, new)
      /\ states' = [states EXCEPT ![s] = states[s] + 1]
      /\ Finish(h) /\ grants' = grants
  BY DEF CommitCallback
<1>2. /\ loaded \in ConnectionRow /\ g \in Grants \cup {None} /\ s \in States \cup {None}
      /\ rowLock = h /\ connection.state = s /\ s # None /\ loaded.state = s
      /\ g \in DOMAIN grants /\ g \notin {loaded.refresh, loaded.access}
  BY <1>1 DEF GoogleInv, SessionSound, SessionRecords
<1>3. g \in Grants /\ grants[g].account \in GoogleAccounts
  <2>1. PICK n \in Nat : grants \in [1..n -> [account : GoogleAccounts, live : BOOLEAN]]
    BY DEF GoogleInv, GrantsTyped
  <2>2. g # None
    BY <1>2, <2>1, NoneIsNoOwner
  <2> QED
    BY <1>2, <2>1, <2>2
<1>4. new \in ConnectionRow
  BY <1>3 DEF ConnectionRow
<1>5. /\ new.status = "connected" /\ new.refresh = g /\ new.access = g /\ new.state = None
  OBVIOUS
<1> HIDE DEF new, loaded, s, g
<1>6. /\ connection' \in ConnectionRow
      /\ connection'.status = IF loaded.status # "connected" THEN "connected"
                              ELSE connection.status
      /\ connection'.refresh = g /\ connection'.access = g /\ connection'.state = None
  BY <1>1, <1>2, <1>4, <1>5, Flushed DEF GoogleInv
<1>7. StatesSound'
  <2>1. PICK n \in Nat :
            /\ states \in [1..n -> Nat]
            /\ \A t \in 1..n : states[t] = 0 \/ (states[t] = 1 /\ connection.state # t)
    BY DEF GoogleInv, StatesSound
  <2>2. \A t \in 1..n : None # t
    BY NoneIsNoOwner
  <2>3. ASSUME NEW t \in 1..n
        PROVE  states'[t] \in Nat /\ (states'[t] = 0 \/ states'[t] = 1)
    BY <1>1, <1>2, <2>1
  <2>4. states' \in [1..n -> Nat]
    BY <1>1, <2>1, <2>3
  <2> QED
    BY <1>6, <2>2, <2>3, <2>4 DEF StatesSound
<1>8. GrantsTyped' /\ Issued(connection)'
  BY <1>1, <1>2, <1>6 DEF GoogleInv, GrantsTyped, Issued
<1>9. GoogleInv'
  BY <1>1, <1>2, <1>6, <1>7, <1>8, IdleSound, IdleSession, SessionMoves
<1> QED
  BY <1>2, <1>6, <1>9 DEF loaded, g

\* The connection is cleared: what the handler had read as cleared is left alone.
LEMMA ClearsKeep ==
  ASSUME GoogleInv, NEW h \in Handlers, CommitReconcile(h) \/ CommitDisconnect(h)
  PROVE  /\ GoogleInv'
         /\ connection'.status \in {connection.status, "reauthorization_required", "disconnected"}
         /\ connection'.refresh \in {connection.refresh, None}
         /\ connection'.access \in {connection.access, None}
<1> DEFINE loaded == session[h].loaded
<1>1. PICK status \in {"disconnected", "reauthorization_required"} :
        /\ connection' = Flush(loaded, Cleared(status))
        /\ Finish(h) /\ rowLock \in {None, h} /\ grants' = grants /\ states' = states
  BY DEF CommitReconcile, CommitDisconnect, Available
<1>2. loaded \in ConnectionRow /\ Cleared(status) \in ConnectionRow /\ connection \in ConnectionRow
  BY ClearedRow DEF GoogleInv, SessionRecords
<1>3. /\ Cleared(status).status = status /\ Cleared(status).refresh = None
      /\ Cleared(status).access = None /\ Cleared(status).state = None
  BY DEF Cleared
<1> HIDE DEF loaded
<1>4. /\ connection' \in ConnectionRow
      /\ connection'.status \in {connection.status, status}
      /\ connection'.refresh \in {connection.refresh, None}
      /\ connection'.access \in {connection.access, None}
      /\ connection'.state \in {None, connection.state}
  BY <1>1, <1>2, <1>3, Flushed
<1>5. Issued(connection)'
  BY <1>1, <1>4 DEF GoogleInv, Issued
<1> QED
  BY <1>1, <1>4, <1>5, WritesKeep

\* Selecting a calendar forgets a flow that is under way.
LEMMA SelectKeeps ==
  ASSUME GoogleInv, NEW h \in Handlers, CommitSelectCalendar(h)
  PROVE  /\ GoogleInv'
         /\ connection'.status = connection.status
         /\ connection'.refresh = connection.refresh
         /\ connection'.access = connection.access
<1> DEFINE loaded == session[h].loaded
           new == [loaded EXCEPT !.state = None]
<1>1. /\ connection' = Flush(loaded, new) /\ Finish(h)
      /\ rowLock \in {None, h} /\ grants' = grants /\ states' = states
  BY DEF CommitSelectCalendar, Available
<1>2. /\ loaded \in ConnectionRow /\ new \in ConnectionRow /\ connection \in ConnectionRow
      /\ new.status = loaded.status /\ new.refresh = loaded.refresh
      /\ new.access = loaded.access /\ new.state = None
  BY DEF GoogleInv, SessionRecords, ConnectionRow
<1> HIDE DEF new, loaded
<1>3. /\ connection' \in ConnectionRow
      /\ connection'.status = connection.status
      /\ connection'.refresh = connection.refresh
      /\ connection'.access = connection.access
      /\ connection'.state \in {None, connection.state}
  BY <1>1, <1>2, Flushed
<1>4. Issued(connection)'
  BY <1>1, <1>3 DEF GoogleInv, Issued
<1> QED
  BY <1>1, <1>3, <1>4, WritesKeep

LEMMA RenewalKeeps ==
  ASSUME GoogleInv, NEW h \in Handlers, CommitRenewal(h)
  PROVE  /\ GoogleInv'
         /\ connection' = [connection EXCEPT !.access = session[h].loaded.refresh]
         /\ session[h].loaded.refresh \in DOMAIN grants
<1>1. /\ session[h].pc = "renewed" /\ Finish(h)
      /\ connection' = [connection EXCEPT !.access = session[h].loaded.refresh]
      /\ grants' = grants /\ states' = states
  BY DEF CommitRenewal
<1>2. /\ session[h].loaded.refresh \in DOMAIN grants /\ rowLock = h
      /\ session[h].loaded.refresh \in Grants \cup {None}
  BY <1>1 DEF GoogleInv, SessionSound, SessionRecords, ConnectionRow
<1>3. /\ connection' \in ConnectionRow /\ connection'.state = connection.state
      /\ Issued(connection)'
  BY <1>1, <1>2 DEF GoogleInv, ConnectionRow, Issued
<1> QED
  BY <1>1, <1>2, <1>3, WritesKeep

\* A grant ends; it stays the account's.
LEMMA RevokedKeeps ==
  ASSUME GoogleInv, NEW g \in Grants, grants' = [grants EXCEPT ![g].live = FALSE]
  PROVE  /\ GrantsTyped' /\ DOMAIN grants' = DOMAIN grants
         /\ \A old \in DOMAIN grants : grants'[old].account = grants[old].account
<1>1. PICK n \in Nat : grants \in [1..n -> [account : GoogleAccounts, live : BOOLEAN]]
  BY DEF GoogleInv, GrantsTyped
<1>2. grants' \in [1..n -> [account : GoogleAccounts, live : BOOLEAN]]
  BY <1>1
<1> QED
  BY <1>1, <1>2 DEF GrantsTyped

LEMMA RevokeKeeps ==
  ASSUME GoogleInv, NEW h \in Handlers, Revoke(h)
  PROVE  /\ GoogleInv'
         /\ \A g \in DOMAIN grants : grants'[g].account = grants[g].account
<1> DEFINE new == [session[h] EXCEPT !.pc = "revoked"]
           g == session[h].loaded.refresh
<1>1. /\ new \in SessionRecords /\ new.pc = "revoked" /\ new.loaded = session[h].loaded
      /\ g \in Grants \cup {None}
  BY DEF SessionRecords, GoogleInv, ConnectionRow
<1>2. /\ session' = [session EXCEPT ![h] = new]
      /\ grants' = IF g = None THEN grants ELSE [grants EXCEPT ![g].live = FALSE]
      /\ connection' = connection /\ rowLock' = rowLock /\ states' = states
  BY DEF Revoke
<1> HIDE DEF new
<1>3. /\ GrantsTyped' /\ DOMAIN grants' = DOMAIN grants
      /\ \A old \in DOMAIN grants : grants'[old].account = grants[old].account
  <2>1. CASE g = None
    BY <1>2, <2>1 DEF GoogleInv, GrantsTyped
  <2>2. CASE g # None
    <3>1. g \in Grants /\ grants' = [grants EXCEPT ![g].live = FALSE]
      BY <1>1, <1>2, <2>2
    <3> HIDE DEF g
    <3> QED
      BY <3>1, RevokedKeeps
  <2> QED
    BY <2>1, <2>2
<1>4. Issued(connection)' /\ StatesSound'
  BY <1>2, <1>3 DEF GoogleInv, Issued, StatesSound
<1>5. session'[h] = new
  BY <1>2 DEF GoogleInv
<1>6. SessionSound(h)'
  BY <1>1, <1>3, <1>5 DEF GoogleInv, SessionSound, Issued
<1>7. GoogleInv'
  BY <1>1, <1>2, <1>3, <1>4, <1>6, SessionMoves DEF GoogleInv
<1> QED
  BY <1>3, <1>7

LEMMA OtherSessionsKeep ==
  ASSUME GoogleInv, NEW h \in Handlers,
         \/ RevokeOldGrants(h) \/ ObtainToken(h) \/ RenewalRefused(h) \/ Fail(h)
         \/ BeginReconcile(h) \/ BeginDisconnect(h) \/ BeginSelectCalendar(h) \/ BeginRenewal(h)
  PROVE  GoogleInv'
<1>1. CASE RevokeOldGrants(h)
  <2> DEFINE new == [session[h] EXCEPT !.pc = "marking", !.loaded = connection]
  <2>1. new \in SessionRecords /\ new.pc = "marking" /\ new.loaded = connection
    BY DEF SessionRecords, GoogleInv
  <2>2. /\ session' = [session EXCEPT ![h] = new]
        /\ connection' = connection /\ rowLock' = rowLock /\ grants' = grants /\ states' = states
    BY <1>1 DEF RevokeOldGrants
  <2> HIDE DEF new
  <2>3. session'[h] = new
    BY <2>2 DEF GoogleInv
  <2>4. SessionSound(h)'
    BY <2>1, <2>2, <2>3 DEF SessionSound, GoogleInv, Issued
  <2> QED
    BY <2>1, <2>2, <2>4, OnlySession
<1>2. CASE ObtainToken(h)
  <2> DEFINE new == [session[h] EXCEPT !.pc = "renewed"]
  <2>1. new \in SessionRecords /\ new.pc = "renewed" /\ new.loaded = session[h].loaded
    BY DEF SessionRecords, GoogleInv
  <2>2. /\ session' = [session EXCEPT ![h] = new] /\ session[h].pc = "renewal"
        /\ rowLock' = h /\ rowLock \in {None, h}
        /\ connection' = connection /\ grants' = grants /\ states' = states
    BY <1>2 DEF ObtainToken, Available
  <2> HIDE DEF new
  <2>3. session'[h] = new
    BY <2>2 DEF GoogleInv
  <2>4. SessionSound(h)'
    BY <2>1, <2>2, <2>3 DEF SessionSound, GoogleInv, Issued
  <2> QED
    BY <2>1, <2>2, <2>4, OnlySession
<1>3. CASE RenewalRefused(h)
  BY <1>3, IdleSound, IdleSession, OnlySession DEF RenewalRefused
<1>4. CASE Fail(h)
  BY <1>4, IdleSound, IdleSession, OnlySession DEF Fail
<1>5. CASE BeginReconcile(h) \/ BeginDisconnect(h) \/ BeginSelectCalendar(h)
  <2>1. PICK pc \in {"reconcile", "disconnect", "calendar"} :
            Load(h, pc) /\ UNCHANGED <<connection, rowLock, grants, states>>
    BY <1>5 DEF BeginReconcile, BeginDisconnect, BeginSelectCalendar
  <2> QED
    BY <2>1, Loads
<1>6. CASE BeginRenewal(h)
  BY <1>6, Loads DEF BeginRenewal
<1> QED
  BY <1>1, <1>2, <1>3, <1>4, <1>5, <1>6

LEMMA GoogleNextKeeps ==
  ASSUME GoogleInv, [GoogleNext]_googleVars
  PROVE  GoogleInv'
<1>1. ASSUME NEW h \in Handlers, ConnectionStep(h) \/ RenewalStep(h)
      PROVE  GoogleInv'
  BY <1>1, InitiateKeeps, CallbackKeeps, ExchangeKeeps, CommitCallbackKeeps, ClearsKeep,
     SelectKeeps, RenewalKeeps, RevokeKeeps, OtherSessionsKeep
     DEF ConnectionStep, RenewalStep
<1>2. ASSUME NEW g \in Grants, RevokedByOwner(g)
      PROVE  GoogleInv'
  <2>1. /\ grants' = [grants EXCEPT ![g].live = FALSE]
        /\ connection' = connection /\ rowLock' = rowLock /\ states' = states
        /\ session' = session
    BY <1>2 DEF RevokedByOwner
  <2>2. GrantsTyped' /\ DOMAIN grants' = DOMAIN grants
    BY <2>1, RevokedKeeps
  <2>3. \A h \in Handlers : SessionSound(h)'
    BY <2>1, <2>2 DEF GoogleInv, SessionSound, Issued
  <2> QED
    BY <2>1, <2>2, <2>3 DEF GoogleInv, StatesSound, Issued
<1>3. CASE CursorMoves \/ UNCHANGED googleVars
  <2>1. /\ connection' = connection /\ rowLock' = rowLock /\ states' = states
        /\ session' = session /\ grants' = grants
    BY <1>3 DEF CursorMoves, googleVars
  <2>2. GrantsTyped' /\ Issued(connection)' /\ StatesSound'
    BY <2>1 DEF GoogleInv, GrantsTyped, StatesSound, Issued
  <2>3. \A h \in Handlers : SessionSound(h)'
    BY <2>1 DEF GoogleInv, SessionSound, Issued
  <2> QED
    BY <2>1, <2>2, <2>3 DEF GoogleInv
<1> QED
  BY <1>1, <1>2, <1>3 DEF GoogleNext

THEOREM GoogleInductive == GoogleSpec => []GoogleInv
<1> QED
  BY GoogleStarts, GoogleNextKeeps, PTL DEF GoogleSpec

\* One OAuth flow connects the organization once (consume_oauth_state).
THEOREM StatesAreConsumed == GoogleSpec => []StateUsedOnce
<1>1. GoogleInv => StateUsedOnce
  BY DEF GoogleInv, StatesSound, StateUsedOnce
<1> QED
  BY <1>1, GoogleInductive, PTL

\* The tokens and the cursor stay as they are.
LEMMA TokensStay ==
  ASSUME GoogleInv, connection'.status = connection.status,
         connection'.refresh = connection.refresh, connection'.access = connection.access,
         \A g \in DOMAIN grants : grants'[g].account = grants[g].account,
         syncCursor' = syncCursor
  PROVE  UNCHANGED Seen!mailboxVars
<1>1. /\ OwnerOf(connection.refresh)' = OwnerOf(connection.refresh)
      /\ OwnerOf(connection.access)' = OwnerOf(connection.access)
  BY DEF OwnerOf, GoogleInv, Issued
<1> QED
  BY <1>1 DEF Seen!mailboxVars, Usable

LEMMA CallbackConnects ==
  ASSUME GoogleInv, NEW h \in Handlers, CommitCallback(h)
  PROVE  Seen!MailboxNext
<1> DEFINE g == session[h].grant
<1>1. /\ g \in DOMAIN grants /\ connection'.refresh = g /\ connection'.access = g
      /\ grants' = grants /\ syncCursor' = FALSE
  BY CommitCallbackKeeps DEF CommitCallback, ClearCursor
<1>2. g # None /\ grants[g].account \in GoogleAccounts
  <2>1. PICK n \in Nat : grants \in [1..n -> [account : GoogleAccounts, live : BOOLEAN]]
    BY DEF GoogleInv, GrantsTyped
  <2> QED
    BY <1>1, <2>1, NoneIsNoOwner
<1>3. /\ OwnerOf(connection.refresh)' = grants[g].account
      /\ OwnerOf(connection.access)' = grants[g].account
  BY <1>1, <1>2 DEF OwnerOf
<1> HIDE DEF g
<1>4. CASE connection'.status = "connected"
  <2>1. Seen!Connect(grants[g].account)
    BY <1>1, <1>2, <1>3, <1>4 DEF Seen!Connect, Usable, OwnerOf
  <2> QED
    BY <1>2, <2>1 DEF Seen!MailboxNext, Seen!AccountStep
<1>5. CASE connection'.status # "connected"
  <2>1. Seen!Disconnect
    BY <1>1, <1>5 DEF Seen!Disconnect, Usable
  <2> QED
    BY <2>1 DEF Seen!MailboxNext, Seen!AccountStep
<1> QED
  BY <1>4, <1>5

LEMMA ClearingDisconnects ==
  ASSUME GoogleInv, NEW h \in Handlers, CommitReconcile(h) \/ CommitDisconnect(h)
  PROVE  Seen!MailboxNext
<1>1. grants' = grants /\ syncCursor' = FALSE
  BY DEF CommitReconcile, CommitDisconnect, ClearCursor
<1>2. \A g : OwnerOf(g)' = OwnerOf(g)
  BY <1>1 DEF OwnerOf
<1>3. /\ Usable(connection.refresh)' \in {Usable(connection.refresh), None}
      /\ Usable(connection.access)' \in {Usable(connection.access), None}
  BY <1>2, ClearsKeep DEF Usable, OwnerOf
<1>4. Seen!Disconnect
  BY <1>1, <1>3 DEF Seen!Disconnect
<1> QED
  BY <1>4 DEF Seen!MailboxNext, Seen!AccountStep

LEMMA RenewalWrites ==
  ASSUME GoogleInv, NEW h \in Handlers, CommitRenewal(h)
  PROVE  Seen!MailboxNext \/ UNCHANGED Seen!mailboxVars
<1> DEFINE g == session[h].loaded.refresh
<1>1. /\ g \in DOMAIN grants /\ grants' = grants /\ syncCursor' = syncCursor
      /\ connection'.status = connection.status /\ connection'.refresh = connection.refresh
      /\ connection'.access = g
  BY RenewalKeeps DEF CommitRenewal, GoogleInv, ConnectionRow
<1>2. g # None /\ grants[g].account \in GoogleAccounts
  <2>1. PICK n \in Nat : grants \in [1..n -> [account : GoogleAccounts, live : BOOLEAN]]
    BY DEF GoogleInv, GrantsTyped
  <2> QED
    BY <1>1, <2>1, NoneIsNoOwner
<1>3. /\ OwnerOf(connection.refresh)' = OwnerOf(connection.refresh)
      /\ OwnerOf(connection.access)' = grants[g].account
  BY <1>1, <1>2 DEF OwnerOf
<1> HIDE DEF g
<1>4. CASE connection.status = "connected"
  <2>1. Seen!WriteToken(grants[g].account)
    BY <1>1, <1>3, <1>4 DEF Seen!WriteToken, Usable
  <2> QED
    BY <1>2, <2>1 DEF Seen!MailboxNext, Seen!TokenStep
<1>5. CASE connection.status # "connected"
  BY <1>1, <1>5 DEF Seen!mailboxVars, Usable
<1> QED
  BY <1>4, <1>5

\* The connection is what the mail jobs take it for.
THEOREM ConnectionServesMailbox == GoogleSpec => ServesMailbox
<1>1. GoogleInit => Seen!MailboxInit
  BY DEF GoogleInit, Seen!MailboxInit, Usable, Cleared
<1>2. GoogleInv /\ [GoogleNext]_googleVars => [Seen!MailboxNext]_Seen!mailboxVars
  <2> SUFFICES ASSUME GoogleInv, [GoogleNext]_googleVars
               PROVE  Seen!MailboxNext \/ UNCHANGED Seen!mailboxVars
    OBVIOUS
  <2>1. ASSUME NEW h \in Handlers, Initiate(h)
        PROVE  UNCHANGED Seen!mailboxVars
    <3>1. /\ connection'.status = connection.status /\ connection'.refresh = connection.refresh
          /\ connection'.access = connection.access
          /\ grants' = grants /\ syncCursor' = syncCursor
      BY <2>1 DEF Initiate, GoogleInv, ConnectionRow
    <3> QED
      BY <3>1, TokensStay
  <2>2. ASSUME NEW h \in Handlers, CommitSelectCalendar(h)
        PROVE  UNCHANGED Seen!mailboxVars
    <3>1. grants' = grants /\ syncCursor' = syncCursor
      BY <2>2 DEF CommitSelectCalendar
    <3> QED
      BY <2>2, <3>1, SelectKeeps, TokensStay
  <2>3. ASSUME NEW h \in Handlers,
               \/ Revoke(h) \/ \E whose \in GoogleAccounts : ExchangeCode(h, whose)
        PROVE  UNCHANGED Seen!mailboxVars
    <3>1. connection' = connection /\ syncCursor' = syncCursor
      BY <2>3 DEF Revoke, ExchangeCode
    <3>2. \A g \in DOMAIN grants : grants'[g].account = grants[g].account
      BY <2>3, RevokeKeeps, ExchangeKeeps
    <3> QED
      BY <3>1, <3>2, TokensStay
  <2>4. ASSUME NEW g \in Grants, RevokedByOwner(g)
        PROVE  UNCHANGED Seen!mailboxVars
    <3>1. /\ connection' = connection /\ syncCursor' = syncCursor
          /\ grants' = [grants EXCEPT ![g].live = FALSE]
      BY <2>4 DEF RevokedByOwner
    <3> QED
      BY <3>1, RevokedKeeps, TokensStay
  <2>5. ASSUME connection' = connection, syncCursor' = syncCursor, grants' = grants
        PROVE  UNCHANGED Seen!mailboxVars
    BY <2>5, TokensStay
  <2>6. ASSUME NEW h \in Handlers,
               \/ BeginReconcile(h) \/ RevokeOldGrants(h)
               \/ \E s \in States : BeginCallback(h, s)
               \/ ConsumeState(h) \/ RefuseCallback(h) \/ BeginDisconnect(h)
               \/ BeginSelectCalendar(h) \/ Fail(h)
               \/ BeginRenewal(h) \/ ObtainToken(h) \/ RenewalRefused(h)
        PROVE  UNCHANGED Seen!mailboxVars
    BY <2>5, <2>6
       DEF BeginReconcile, RevokeOldGrants, BeginCallback, ConsumeState, RefuseCallback,
           BeginDisconnect, BeginSelectCalendar, Fail, BeginRenewal, ObtainToken, RenewalRefused
  <2>7. ASSUME CursorMoves
        PROVE  Seen!MailboxNext
    <3>1. Seen!MoveCursor(TRUE)
      BY <2>7 DEF CursorMoves, Seen!MoveCursor, Usable, OwnerOf
    <3> QED
      BY <3>1 DEF Seen!MailboxNext
  <2>8. CASE UNCHANGED googleVars
    BY <2>5, <2>8 DEF googleVars
  <2>9. ASSUME NEW h \in Handlers, ConnectionStep(h) \/ RenewalStep(h)
        PROVE  Seen!MailboxNext \/ UNCHANGED Seen!mailboxVars
    BY <2>1, <2>2, <2>3, <2>6, <2>9, CallbackConnects, ClearingDisconnects, RenewalWrites
       DEF ConnectionStep, RenewalStep
  <2> QED
    BY <2>4, <2>7, <2>8, <2>9 DEF GoogleNext
<1> QED
  BY <1>1, <1>2, GoogleInductive, PTL DEF GoogleSpec, ServesMailbox, Seen!MailboxSpec

-------------------------------------------------------------------------------
(* What the cursor has passed is stored *)

PollState ==
    [pc : {"idle", "fetch", "baseline", "persist"}, refresh : Accounts \cup {None},
     token : Accounts \cup {None}, renewed : BOOLEAN, seen : Cursor \cup {None},
     at : 0..MaxMail, kept : SUBSET Messages, passed : SUBSET Messages]

\* The row has tokens of accounts, and a poll that runs has one.
TokensKnown ==
    /\ mail \in [Accounts -> 0..MaxMail]
    /\ {account, access} \subseteq Accounts \cup {None}
    /\ polls \in [Workers -> PollState]
    /\ \A w \in Workers : polls[w].pc # "idle" => polls[w].token \in Accounts

\* All INBOX messages between the baseline of the cursor and the cursor are
\* stored or were passed by.
Covered(c) == InInbox(Between(c.of, c.from, c.at)) \subseteq stored \cup skipped

\* So are those of the cursor that a poll has read, even when the row has gone on.
SeenCovered ==
    /\ cursor # None => cursor \in Cursor /\ Covered(cursor)
    /\ \A w \in Workers : polls[w].seen # None => Covered(polls[w].seen)

\* A poll that is to commit has every message up to the new position in hand, or
\* has given it up.
NothingBetween ==
    \A w \in Workers :
        polls[w].pc = "persist" =>
            /\ polls[w].seen # None
            /\ InInbox(Between(polls[w].token, polls[w].seen.at, polls[w].at))
                 \subseteq polls[w].kept \cup polls[w].passed

IInv == TokensKnown /\ SeenCovered /\ NothingBetween

\* What lies between two positions is before or behind any third one.
LEMMA BetweenSplits ==
  ASSUME NEW a, NEW low \in Nat, NEW middle \in Nat, NEW high \in Nat
  PROVE  InInbox(Between(a, low, high))
           \subseteq InInbox(Between(a, low, middle)) \cup InInbox(Between(a, middle, high))
  BY DEF Between, InInbox

\* Nothing lies between a position and itself.
LEMMA BetweenNothing ==
  ASSUME NEW a, NEW at \in Nat
  PROVE  InInbox(Between(a, at, at)) = {}
  BY DEF Between, InInbox

\* What lies between two positions of an account are messages of it.
LEMMA BetweenMessages ==
  ASSUME NEW a \in Accounts, NEW low \in Nat, NEW high \in Nat, high <= MaxMail
  PROVE  Between(a, low, high) \subseteq Messages
<1>1. (low + 1)..high \subseteq 1..MaxMail
  BY SyncBounds
<1> QED
  BY <1>1 DEF Between, Messages

\* An idle worker has nothing in hand.
LEMMA NoPollTyped == NoPoll \in PollState
  BY SyncBounds DEF NoPoll, PollState

\* A poll goes on to a state of its type, from the tokens it has.
LEMMA PollMoves ==
  ASSUME TokensKnown, NEW w \in Workers, NEW next \in PollState,
         polls' = [polls EXCEPT ![w] = next],
         next.pc # "idle" => next.token \in Accounts,
         mail' = mail, account' = account,
         access' = access \/ access' \in Accounts
  PROVE  TokensKnown'
  BY DEF TokensKnown

\* A step that takes nothing out of the store, leaves the cursor alone or gives it
\* up, and starts no poll.
LEMMA OthersKeep ==
  ASSUME IInv, TokensKnown', UNCHANGED storeVars,
         cursor' \in {cursor, None},
         \A w \in Workers : polls'[w] = polls[w] \/ polls'[w] = NoPoll
  PROVE  IInv'
<1>1. SeenCovered'
  BY DEF IInv, SeenCovered, Covered, storeVars, NoPoll
<1>2. NothingBetween'
  BY DEF IInv, NothingBetween, NoPoll
<1> QED
  BY <1>1, <1>2 DEF IInv

\* Arrivals, the connection, and polls that are given up or begin.
LEMMA AroundKeeps ==
  ASSUME IInv
  PROVE  /\ ChangeAccount => IInv'
         /\ \A a \in Accounts : Arrive(a) \/ Forget(a) => IInv'
         /\ \A w \in Workers : BeginPoll(w) \/ RenewToken(w) \/ HistoryExpired(w)
                                  \/ PollFails(w) => IInv'
<1> USE NoneIsNoAccount, SyncBounds DEF PollIs
<1>1. ASSUME ChangeAccount
      PROVE  IInv'
  <2>1. TokensKnown'
    BY <1>1
    DEF ChangeAccount, AccountStep, Connect, Disconnect, TokenStep, WriteToken, gmailVars,
        IInv, TokensKnown
  <2> QED
    BY <1>1, <2>1, OthersKeep
    DEF ChangeAccount, AccountStep, Connect, Disconnect, TokenStep, WriteToken
<1>2. ASSUME NEW a \in Accounts, Arrive(a) \/ Forget(a)
      PROVE  IInv'
  <2>1. TokensKnown'
    BY <1>2 DEF Arrive, Forget, mailboxVars, IInv, TokensKnown
  <2> QED
    BY <1>2, <2>1, OthersKeep DEF Arrive, Forget, mailboxVars
<1>3. ASSUME NEW w \in Workers, BeginPoll(w)
      PROVE  IInv'
  <2>1. cursor \in Cursor \cup {None}
    BY DEF IInv, SeenCovered
  <2>2. TokensKnown'
    <3>1. account \in Accounts \cup {None} /\ access \in Accounts
      BY <1>3 DEF BeginPoll, IInv, TokensKnown
    <3>2. [NoPoll EXCEPT !.pc = "fetch", !.refresh = account, !.token = access, !.seen = cursor]
            \in PollState
      BY <2>1, <3>1, NoPollTyped DEF PollState
    <3> QED
      BY <1>3, <3>1, <3>2, PollMoves DEF BeginPoll, mailboxVars, gmailVars, IInv, NoPoll
  <2>3. /\ polls'[w].pc = "fetch" /\ polls'[w].seen = cursor
        /\ \A v \in Workers \ {w} : polls'[v] = polls[v]
        /\ UNCHANGED <<cursor, stored, skipped>>
    BY <1>3 DEF BeginPoll, mailboxVars, storeVars, IInv, TokensKnown, NoPoll
  <2>4. SeenCovered'
    BY <2>3 DEF IInv, SeenCovered, Covered
  <2>5. NothingBetween'
    BY <2>3 DEF IInv, NothingBetween
  <2> QED
    BY <2>2, <2>4, <2>5 DEF IInv
<1>4. ASSUME NEW w \in Workers, RenewToken(w)
      PROVE  IInv'
  <2>1. TokensKnown'
    <3>1. polls[w] \in PollState
      BY <1>4 DEF IInv, TokensKnown
    <3>2. polls[w].refresh \in Accounts
      BY <1>4, <3>1 DEF RenewToken, PollState
    <3>3. [polls[w] EXCEPT !.renewed = TRUE, !.token = polls[w].refresh] \in PollState
      BY <3>1, <3>2 DEF PollState
    <3> QED
      BY <1>4, <3>1, <3>2, <3>3, PollMoves DEF RenewToken, mailboxVars, gmailVars, IInv, PollState
  <2>2. /\ polls'[w].pc = "fetch" /\ polls'[w].seen = polls[w].seen
        /\ \A v \in Workers \ {w} : polls'[v] = polls[v]
        /\ UNCHANGED <<cursor, stored, skipped>>
    BY <1>4 DEF RenewToken, mailboxVars, storeVars, IInv, TokensKnown
  <2>3. SeenCovered'
    BY <2>2 DEF IInv, SeenCovered, Covered
  <2>4. NothingBetween'
    BY <2>2 DEF IInv, NothingBetween
  <2> QED
    BY <2>1, <2>3, <2>4 DEF IInv
<1>5. ASSUME NEW w \in Workers, HistoryExpired(w) \/ PollFails(w)
      PROVE  IInv'
  <2>1. TokensKnown'
    BY <1>5, NoPollTyped, PollMoves
    DEF HistoryExpired, PollFails, mailboxVars, gmailVars, IInv, NoPoll
  <2> QED
    BY <1>5, <2>1, OthersKeep
    DEF HistoryExpired, PollFails, mailboxVars, IInv, TokensKnown
<1> QED
  BY <1>1, <1>2, <1>3, <1>4, <1>5

\* A poll without a cursor takes the present position: nothing lies before it.
LEMMA BaselineKeeps ==
  ASSUME IInv, NEW w \in Workers, FetchBaseline(w) \/ CommitBaseline(w)
  PROVE  IInv'
<1> USE NoneIsNoAccount, SyncBounds DEF PollIs
<1>1. CASE FetchBaseline(w)
  <2>1. TokensKnown'
    <3>1. /\ polls[w] \in PollState
          /\ polls[w].token \in Accounts /\ mail[polls[w].token] \in 0..MaxMail
      BY <1>1 DEF FetchBaseline, IInv, TokensKnown
    <3>2. [polls[w] EXCEPT !.pc = "baseline", !.at = mail[polls[w].token]] \in PollState
      BY <3>1 DEF PollState
    <3> QED
      BY <1>1, <3>1, <3>2, PollMoves DEF FetchBaseline, mailboxVars, gmailVars, IInv, PollState
  <2>2. /\ polls'[w].pc = "baseline" /\ polls'[w].seen = polls[w].seen
        /\ \A v \in Workers \ {w} : polls'[v] = polls[v]
        /\ UNCHANGED <<cursor, stored, skipped>>
    BY <1>1 DEF FetchBaseline, mailboxVars, storeVars, IInv, TokensKnown
  <2>3. SeenCovered'
    BY <2>2 DEF IInv, SeenCovered, Covered
  <2>4. NothingBetween'
    BY <2>2 DEF IInv, NothingBetween
  <2> QED
    BY <2>1, <2>3, <2>4 DEF IInv
<1>2. CASE CommitBaseline(w)
  <2>1. polls[w].token \in Accounts /\ polls[w].at \in 0..MaxMail
    BY <1>2 DEF CommitBaseline, IInv, TokensKnown, PollState
  <2>2. PICK c \in Cursor : c = cursor' /\ c.from = c.at
    BY <1>2, <2>1 DEF CommitBaseline, Cursor
  <2>3. InInbox(Between(c.of, c.from, c.at)) = {}
    <3>1. c.at \in Nat
      BY <2>2 DEF Cursor
    <3> QED
      BY <2>2, <3>1, BetweenNothing
  <2>4. TokensKnown'
    BY <1>2, <2>1, NoPollTyped, PollMoves
    DEF CommitBaseline, CommitTokens, gmailVars, IInv, NoPoll
  <2>5. /\ polls'[w] = NoPoll
        /\ \A v \in Workers \ {w} : polls'[v] = polls[v]
        /\ UNCHANGED <<stored, skipped>>
    BY <1>2 DEF CommitBaseline, CommitTokens, storeVars, IInv, TokensKnown
  <2>6. SeenCovered'
    BY <2>2, <2>3, <2>5 DEF IInv, SeenCovered, Covered, NoPoll
  <2>7. NothingBetween'
    BY <2>5 DEF IInv, NothingBetween, NoPoll
  <2> QED
    BY <2>4, <2>6, <2>7 DEF IInv
<1> QED
  BY <1>1, <1>2

\* A fetch puts every message up to the present position either in hand or among
\* those that are passed by.
LEMMA FetchKeeps ==
  ASSUME IInv, NEW w \in Workers, NEW unread \in SUBSET Messages, FetchHistory(w, unread)
  PROVE  IInv'
<1> USE NoneIsNoAccount, SyncBounds
<1>1. PICK a \in Accounts, low \in 0..MaxMail, high \in 0..MaxMail :
        a = polls[w].token /\ low = polls[w].seen.at /\ high = mail[a]
  <2>1. polls[w].token \in Accounts /\ polls[w].seen \in Cursor
    BY DEF FetchHistory, IInv, TokensKnown, PollState
  <2> QED
    BY <2>1 DEF IInv, TokensKnown, Cursor
<1>2. PICK page : page = PageFrom(a, low)
  OBVIOUS
<1>3. PICK rest : rest = Between(a, low, high)
  OBVIOUS
<1>4. rest \subseteq Messages
  BY <1>3, BetweenMessages
<1>5. unread \subseteq page /\ page \subseteq Messages
  <2>1. PICK end : end = IF low + Page < high THEN low + Page ELSE high
    OBVIOUS
  <2>2. end \in Nat /\ end <= MaxMail
    BY <2>1
  <2>3. page = Between(a, low, end)
    BY <1>1, <1>2, <2>1 DEF PageFrom
  <2>4. page \subseteq Messages
    BY <2>2, <2>3, BetweenMessages
  <2>5. unread \subseteq page
    BY <1>1, <1>2 DEF FetchHistory
  <2> QED
    BY <2>4, <2>5
<1>6. polls' = [polls EXCEPT ![w] = [polls[w] EXCEPT
            !.pc = "persist", !.at = high,
            !.kept = InInbox(page \ unread),
            !.passed = InInbox(unread \cup (rest \ page))]]
  BY <1>1, <1>2, <1>3 DEF FetchHistory, PollIs
<1>7. /\ InInbox(page \ unread) \subseteq Messages
      /\ InInbox(unread \cup (rest \ page)) \subseteq Messages
      /\ InInbox(rest) \subseteq InInbox(page \ unread) \cup InInbox(unread \cup (rest \ page))
  BY <1>4, <1>5 DEF InInbox
<1>8. TokensKnown'
  <2>1. polls[w] \in PollState /\ polls[w].token \in Accounts
    BY DEF FetchHistory, IInv, TokensKnown
  <2>2. PICK next : next = [polls[w] EXCEPT
            !.pc = "persist", !.at = high,
            !.kept = InInbox(page \ unread),
            !.passed = InInbox(unread \cup (rest \ page))]
    OBVIOUS
  <2>3. next \in PollState /\ next.token \in Accounts
    BY <1>7, <2>1, <2>2 DEF PollState
  <2> QED
    BY <1>6, <2>2, <2>3, PollMoves DEF FetchHistory, mailboxVars, gmailVars, IInv
<1>9. /\ polls'[w].seen = polls[w].seen /\ polls'[w].seen # None
      /\ polls'[w].token = a /\ polls'[w].seen.at = low /\ polls'[w].at = high
      /\ polls'[w].kept = InInbox(page \ unread)
      /\ polls'[w].passed = InInbox(unread \cup (rest \ page))
      /\ \A v \in Workers \ {w} : polls'[v] = polls[v]
      /\ UNCHANGED <<cursor, stored, skipped>>
  BY <1>1, <1>6 DEF FetchHistory, mailboxVars, storeVars, IInv, TokensKnown
<1>10. SeenCovered'
  BY <1>9 DEF IInv, SeenCovered, Covered
<1>11. NothingBetween'
  BY <1>3, <1>7, <1>9 DEF IInv, NothingBetween
<1> QED
  BY <1>8, <1>10, <1>11 DEF IInv

\* A commit moves the cursor only past what it has stored; one that started from
\* the history of another account starts over where that stood.
LEMMA CommitKeeps ==
  ASSUME IInv, NEW w \in Workers, NEW failed \in SUBSET polls[w].kept, CommitPoll(w, failed)
  PROVE  IInv'
<1> USE NoneIsNoAccount, SyncBounds DEF PollIs
<1>1. /\ polls[w].token \in Accounts /\ polls[w].at \in 0..MaxMail
      /\ polls[w].seen \in Cursor /\ Covered(polls[w].seen)
  BY DEF CommitPoll, IInv, TokensKnown, SeenCovered, NothingBetween, PollState
<1>2. PICK start \in 0..MaxMail :
        start = IF polls[w].seen.of = polls[w].token THEN polls[w].seen.from
                                                     ELSE polls[w].seen.at
  BY <1>1 DEF Cursor
<1>3. stored \subseteq stored' /\ skipped \subseteq skipped'
  BY DEF CommitPoll
<1>4. ASSUME failed = {}
      PROVE  InInbox(Between(polls[w].token, start, polls[w].at)) \subseteq stored' \cup skipped'
  <2>1. InInbox(Between(polls[w].token, polls[w].seen.at, polls[w].at))
          \subseteq stored' \cup skipped'
    BY <1>4 DEF CommitPoll, MayAdvance, IInv, NothingBetween
  <2>2. CASE polls[w].seen.of = polls[w].token
    <3>1. InInbox(Between(polls[w].token, start, polls[w].seen.at)) \subseteq stored \cup skipped
      BY <1>1, <1>2, <2>2 DEF Covered
    <3>2. polls[w].seen.at \in Nat
      BY <1>1 DEF Cursor
    <3> QED
      BY <1>1, <1>3, <2>1, <3>1, <3>2, BetweenSplits
  <2>3. CASE polls[w].seen.of # polls[w].token
    BY <1>2, <2>1, <2>3
  <2> QED
    BY <2>2, <2>3
<1>5. \/ cursor' = cursor
      \/ /\ failed = {}
         /\ cursor' = [of |-> polls[w].token, from |-> start, at |-> polls[w].at]
  BY <1>2 DEF CommitPoll, MayAdvance
<1>6. TokensKnown'
  BY <1>1, NoPollTyped, PollMoves DEF CommitPoll, CommitTokens, gmailVars, IInv, NoPoll
<1>7. polls'[w] = NoPoll /\ \A v \in Workers \ {w} : polls'[v] = polls[v]
  BY DEF CommitPoll, CommitTokens, IInv, TokensKnown
<1>8. \A v \in Workers : polls'[v].seen # None => Covered(polls[v].seen)'
  BY <1>3, <1>7 DEF IInv, SeenCovered, Covered, NoPoll
<1>9. cursor' # None => cursor' \in Cursor /\ Covered(cursor)'
  <2>1. CASE cursor' = cursor
    BY <1>3, <2>1 DEF IInv, SeenCovered, Covered
  <2>2. CASE failed = {} /\ cursor' = [of |-> polls[w].token, from |-> start, at |-> polls[w].at]
    <3>1. cursor' \in Cursor
      BY <1>1, <2>2 DEF Cursor
    <3>2. /\ cursor'.of = polls[w].token /\ cursor'.from = start
          /\ cursor'.at = polls[w].at
      BY <2>2
    <3> QED
      BY <1>4, <2>2, <3>1, <3>2 DEF Covered
  <2> QED
    BY <1>5, <2>1, <2>2
<1>10. NothingBetween'
  BY <1>7 DEF IInv, NothingBetween, NoPoll
<1> QED
  BY <1>6, <1>8, <1>9, <1>10 DEF IInv, SeenCovered

\* The invariant holds in every reachable state, for any mail, bound and fault:
\* what a poll is about to save lies behind no message it has not stored.
THEOREM Inductive == SyncSpec => []IInv
<1>1. SyncInit => IInv
  <2> SUFFICES ASSUME SyncInit
               PROVE  IInv
    OBVIOUS
  <2>1. TokensKnown
    <3>1. 0 \in 0..MaxMail
      BY SyncBounds
    <3> QED
      BY <3>1, NoPollTyped DEF SyncInit, MailboxInit, TokensKnown, NoPoll
  <2>2. SeenCovered /\ NothingBetween
    BY DEF SyncInit, MailboxInit, SeenCovered, NothingBetween, NoPoll
  <2> QED
    BY <2>1, <2>2 DEF IInv
<1>2. IInv /\ [SyncNext]_syncVars => IInv'
  <2> SUFFICES ASSUME IInv, [SyncNext]_syncVars
               PROVE  IInv'
    OBVIOUS
  <2>1. ASSUME NEW w \in Workers, PollStep(w)
        PROVE  IInv'
    BY <2>1, AroundKeeps, BaselineKeeps, FetchKeeps, CommitKeeps DEF PollStep
  <2>2. CASE UNCHANGED syncVars
    BY <2>2 DEF syncVars, mailboxVars, gmailVars, storeVars, IInv, TokensKnown, SeenCovered,
       Covered, NothingBetween
  <2> QED
    BY <2>1, <2>2, AroundKeeps DEF SyncNext
<1> QED
  BY <1>1, <1>2, PTL DEF SyncSpec

\* However polls overlap, fail or meet a new connection, an INBOX message between
\* the baseline and the cursor is stored or was passed by
\* (email_sync_service.py:336-382).
THEOREM CursorKeepsUp == SyncSpec => []CursorCovers
<1>1. IInv => CursorCovers
  BY DEF IInv, SeenCovered, Covered, CursorCovers
<1> QED
  BY <1>1, Inductive, PTL

-------------------------------------------------------------------------------
(* The import of past mail *)

ImporterStates ==
    [pc : {"idle", "list", "fetch", "commit"}, token : Accounts \cup {None},
     generation : Accounts \cup {None}, left : SUBSET Batches, got : SUBSET Batches]

\* Somebody will report the end of the job.
JobInHand ==
    \/ queued > 0
    \/ \E i \in Importers : importers[i].pc \in {"list", "fetch"}
    \/ \E h \in Handlers : requests[h] \in {"noted", "enqueue"}

ImportInv ==
    /\ queued \in Nat
    /\ {account, access} \subseteq Accounts \cup {None}
    /\ requests \in [Handlers -> {"idle", "checked", "noted", "enqueue", "cancelling"}]
    /\ importers \in [Importers -> ImporterStates]
    /\ DOMAIN job = {"id", "status"}
    /\ job.status = "running" /\ job.id \notin abandoned => JobInHand

LEMMA ImportStarts == ImportInit => ImportInv
<1> SUFFICES ASSUME ImportInit PROVE ImportInv
  OBVIOUS
<1>1. NoImporter \in ImporterStates
  BY DEF NoImporter, ImporterStates
<1> QED
  BY <1>1 DEF ImportInit, MailboxInit, ImportInv

\* A handler of the API moves on.
LEMMA StartKeeps ==
  ASSUME ImportInv, NEW h \in Handlers, StartStep(h)
  PROVE  ImportInv'
<1>1. ASSUME NEW pc, NEW next \in {"idle", "checked", "noted", "enqueue", "cancelling"},
             Answer(h, pc, next)
      PROVE  /\ requests' \in [Handlers -> {"idle", "checked", "noted", "enqueue", "cancelling"}]
             /\ requests[h] = pc /\ requests'[h] = next
             /\ \A g \in Handlers \ {h} : requests'[g] = requests[g]
  BY <1>1 DEF Answer, ImportInv
<1>2. \A pc, next : Answer(h, pc, next) /\ UNCHANGED <<queued, importers, job, abandoned>>
            /\ next \in {"idle", "checked", "noted", "enqueue", "cancelling"}
            /\ UNCHANGED mailboxVars
            /\ (pc \in {"noted", "enqueue"} => next \in {"noted", "enqueue"})
        => ImportInv'
  <2> SUFFICES ASSUME NEW pc, NEW next \in {"idle", "checked", "noted", "enqueue", "cancelling"},
                      Answer(h, pc, next), UNCHANGED <<queued, importers, job, abandoned>>,
                      UNCHANGED mailboxVars,
                      pc \in {"noted", "enqueue"} => next \in {"noted", "enqueue"}
               PROVE  ImportInv'
    OBVIOUS
  <2>1. JobInHand => JobInHand'
    BY <1>1 DEF JobInHand
  <2> QED
    BY <1>1, <2>1 DEF ImportInv, mailboxVars
<1>3. CASE CheckStart(h)
  BY <1>2, <1>3 DEF CheckStart
<1>4. CASE NoteStart(h)
  <2>1. /\ Answer(h, "checked", "noted") /\ DOMAIN job' = {"id", "status"}
        /\ UNCHANGED <<mailboxVars, queued, importers, abandoned>>
    BY <1>4 DEF NoteStart
  <2>2. JobInHand'
    BY <1>1, <2>1 DEF JobInHand
  <2> QED
    BY <1>1, <2>1, <2>2 DEF ImportInv, mailboxVars
<1>5. CASE ForgetCancellation(h)
  BY <1>2, <1>5 DEF ForgetCancellation
<1>6. CASE Enqueue(h)
  <2>1. /\ Answer(h, "enqueue", "idle") /\ queued' = queued + 1
        /\ UNCHANGED <<mailboxVars, job, importers, abandoned>>
    BY <1>6 DEF Enqueue
  <2>2. queued' \in Nat /\ queued' > 0
    BY <2>1 DEF ImportInv
  <2> QED
    BY <1>1, <2>1, <2>2 DEF ImportInv, JobInHand, mailboxVars
<1>7. CASE EnqueueFails(h)
  <2>1. /\ Answer(h, "enqueue", "idle") /\ job' = [job EXCEPT !.status = "none"]
        /\ UNCHANGED <<mailboxVars, queued, importers, abandoned>>
    BY <1>7 DEF EnqueueFails, Removed
  <2>2. DOMAIN job' = {"id", "status"} /\ job'.status = "none"
    BY <2>1 DEF ImportInv
  <2> QED
    BY <1>1, <2>1, <2>2 DEF ImportInv, mailboxVars
<1>8. CASE StarterDies(h)
  <2>1. /\ \E pc : Answer(h, pc, "idle")
        /\ job.id \in abandoned'
        /\ UNCHANGED <<mailboxVars, job, queued, importers>>
    BY <1>8 DEF StarterDies
  <2> QED
    BY <1>1, <2>1 DEF ImportInv, mailboxVars
<1>9. CASE CheckCancel(h)
  BY <1>2, <1>9 DEF CheckCancel
<1>10. CASE SetCancel(h)
  BY <1>2, <1>10 DEF SetCancel
<1> QED
  BY <1>3, <1>4, <1>5, <1>6, <1>7, <1>8, <1>9, <1>10 DEF StartStep

\* A worker moves on.
LEMMA ImportStepKeeps ==
  ASSUME ImportInv, NEW i \in Importers, ImportStep(i)
  PROVE  ImportInv'
<1>1. ASSUME NEW importer \in ImporterStates, ImporterIs(i, importer)
      PROVE  /\ importers' \in [Importers -> ImporterStates]
             /\ importers'[i] = importer
             /\ \A j \in Importers \ {i} : importers'[j] = importers[j]
  BY <1>1 DEF ImporterIs, ImportInv
<1>2. importers[i] \in ImporterStates /\ NoImporter \in ImporterStates
  BY DEF ImportInv, NoImporter, ImporterStates
\* Nobody waits for the job any more.
<1>3. ASSUME UNCHANGED <<mailboxVars, requests>>, queued' \in Nat,
             importers' \in [Importers -> ImporterStates], DOMAIN job' = {"id", "status"},
             job'.status # "running" \/ job'.id \in abandoned' \/ queued' > 0
      PROVE  ImportInv'
  BY <1>3 DEF ImportInv, JobInHand, mailboxVars
<1>4. CASE BeginImport(i)
  <2> DEFINE new == [NoImporter EXCEPT !.pc = "list", !.token = access, !.generation = account]
  <2>1. new \in ImporterStates /\ new.pc = "list"
    BY DEF ImportInv, NoImporter, ImporterStates
  <2>2. /\ ImporterIs(i, new) /\ queued > 0 /\ queued' = queued - 1
        /\ UNCHANGED <<mailboxVars, requests, job, abandoned>>
    BY <1>4 DEF BeginImport, Dequeue
  <2> HIDE DEF new
  <2>3. JobInHand' /\ queued' \in Nat
    BY <1>1, <2>1, <2>2 DEF JobInHand, ImportInv
  <2> QED
    BY <1>1, <2>1, <2>2, <2>3 DEF ImportInv, mailboxVars
<1>5. CASE SkipImport(i)
  BY <1>3, <1>5 DEF SkipImport, Dequeue, ImportInv
<1>6. CASE RefuseImport(i)
  BY <1>3, <1>6 DEF RefuseImport, Dequeue, ImportInv
<1>7. CASE SkipUnconnected(i)
  BY <1>3, <1>7 DEF SkipUnconnected, Dequeue, ImportInv
<1>8. ASSUME NEW new \in ImporterStates, ImporterIs(i, new), new.pc = "fetch",
             UNCHANGED <<mailboxVars, queued, requests, job, abandoned>>
      PROVE  ImportInv'
  <2>1. JobInHand'
    BY <1>1, <1>8 DEF JobInHand
  <2> QED
    BY <1>1, <1>8, <2>1 DEF ImportInv, mailboxVars
<1>9. CASE ListMessages(i)
  <2> DEFINE new == [importers[i] EXCEPT !.pc = "fetch",
                                         !.left = IF cancelled THEN {} ELSE Batches]
  <2>1. new \in ImporterStates /\ new.pc = "fetch"
    BY <1>2 DEF ImporterStates
  <2> QED
    BY <1>8, <1>9, <2>1 DEF ListMessages
<1>10. CASE \E b \in Batches : FetchBatch(i, b)
  <2>1. PICK b \in Batches : FetchBatch(i, b)
    BY <1>10
  <2> DEFINE x == importers[i]
             new == [x EXCEPT !.left = x.left \ {b}, !.got = x.got \cup {b}]
  <2>2. new \in ImporterStates /\ new.pc = "fetch"
    BY <1>2, <2>1 DEF ImporterStates, FetchBatch
  <2> QED
    BY <1>8, <2>1, <2>2 DEF FetchBatch
<1>11. CASE Complete(i) \/ StopCancelled(i) \/ MarkFailed(i)
  <2> DEFINE new == [importers[i] EXCEPT !.pc = "commit", !.left = {}]
  <2>1. new \in ImporterStates
    BY <1>2 DEF ImporterStates
  <2>2. /\ ImporterIs(i, new) /\ UNCHANGED <<mailboxVars, queued, requests, abandoned>>
        /\ \E status \in {"completed", "cancelled", "failed"} :
                job' = [job EXCEPT !.status = status]
    BY <1>11 DEF Complete, StopCancelled, MarkFinal, MarkFailed
  <2> HIDE DEF new
  <2>3. DOMAIN job' = {"id", "status"} /\ job'.status # "running"
    BY <2>2 DEF ImportInv
  <2> QED
    BY <1>1, <1>3, <2>1, <2>2, <2>3 DEF ImportInv
<1>12. CASE CommitImport(i)
  <2>1. /\ importers[i].pc = "commit" /\ ImporterIs(i, NoImporter)
        /\ UNCHANGED <<mailboxVars, job, queued, requests, abandoned>>
    BY <1>12 DEF CommitImport
  <2>2. JobInHand => JobInHand'
    BY <1>1, <1>2, <2>1 DEF JobInHand
  <2> QED
    BY <1>1, <1>2, <2>1, <2>2 DEF ImportInv, mailboxVars
<1>13. CASE ImporterDies(i)
  <2>1. queued' \in Nat /\ queued' > 0
    BY <1>13 DEF ImporterDies, ImportInv
  <2> QED
    BY <1>1, <1>2, <1>3, <1>13, <2>1 DEF ImporterDies, ImportInv
<1>14. CASE ImporterTimesOut(i)
  BY <1>1, <1>2, <1>3, <1>14 DEF ImporterTimesOut, ImportInv
<1> QED
  BY <1>4, <1>5, <1>6, <1>7, <1>9, <1>10, <1>11, <1>12, <1>13, <1>14 DEF ImportStep

LEMMA ImportNextKeeps ==
  ASSUME ImportInv, [ImportNext]_importVars
  PROVE  ImportInv'
<1>1. CASE SwitchAccount
  <2>1. {account', access'} \subseteq Accounts \cup {None}
    BY <1>1 DEF SwitchAccount, AccountStep, TokenStep, Connect, Disconnect, WriteToken, ImportInv
  <2> QED
    BY <1>1, <2>1 DEF SwitchAccount, ImportInv, JobInHand
<1>2. CASE UNCHANGED importVars
  BY <1>2 DEF importVars, mailboxVars, ImportInv, JobInHand
<1> QED
  BY <1>1, <1>2, StartKeeps, ImportStepKeeps DEF ImportNext

THEOREM ImportInductive == ImportSpec => []ImportInv
<1> QED
  BY ImportStarts, ImportNextKeeps, PTL DEF ImportSpec

\* A job that Redis calls running is in the queue, at a worker or about to be
\* enqueued, unless its handler or its worker was lost.
THEOREM RunningIsInHand == ImportSpec => []NoZombie
<1>1. ImportInv => NoZombie
  BY DEF ImportInv, JobInHand, NoZombie
<1> QED
  BY <1>1, ImportInductive, PTL

-------------------------------------------------------------------------------
(* A mail marked sent was accepted by Gmail *)

\* A handler that has begun a send is at a mail.
AtMail == \A h \in Handlers : sends[h].pc # "idle" => sends[h].mail \in Mails

\* One that is to mark its mail sent has the answer that Gmail took it.
AnswerKnown ==
    \A h \in Handlers : sends[h].pc = "accepted" => delivered[sends[h].mail] > 0

OutboundTypes == OutboundTypeOK /\ AtMail

\* Mails and handlers have their types, and whoever writes a mail has one.
LEMMA OutboundTyped == OutboundSpec => []OutboundTypes
<1> USE SendBounds, NoneIsNoMail DEF OutboundTypes, OutboundTypeOK, AtMail, NoSend
<1>1. OutboundInit => OutboundTypes
  BY DEF OutboundInit
<1>2. OutboundTypes /\ [OutboundNext]_outboundVars => OutboundTypes'
  <2> SUFFICES ASSUME OutboundTypes, [OutboundNext]_outboundVars
               PROVE  OutboundTypes'
    OBVIOUS
  <2>1. ASSUME NEW m \in Mails, CreateOutbound(m)
        PROVE  OutboundTypes'
    BY <2>1 DEF CreateOutbound
  <2>2. CASE Reconnect
    BY <2>2 DEF Reconnect
  <2>3. ASSUME NEW h \in Handlers, SendStep(h)
        PROVE  OutboundTypes'
    <3>1. ASSUME NEW m \in Mails, NEW op \in {"send", "retry"}, BeginSend(h, m, op)
          PROVE  OutboundTypes'
      BY <3>1 DEF BeginSend
    <3>2. CASE MarkSending(h)
      BY <3>2 DEF MarkSending, Moves, Underway
    <3>3. CASE GmailAccepts(h)
      BY <3>3 DEF GmailAccepts, Moves, Deliver
    <3>4. CASE AnswerLost(h)
      <4>1. sends[h].mail \in Mails
        BY <3>4 DEF AnswerLost, Moves
      <4>2. delivered' \in [Mails -> Nat]
        BY <3>4, <4>1 DEF AnswerLost, Deliver
      <4>3. PICK next \in {"call", "transient"} : Moves(h, "call", next)
        BY <3>4 DEF AnswerLost
      <4> QED
        BY <3>4, <4>2, <4>3 DEF AnswerLost, Failing, Moves
    <3>5. ASSUME NEW reason \in {"transient", "unauthorized", "refused"},
                 GmailRefuses(h, reason)
          PROVE  OutboundTypes'
      BY <3>5 DEF GmailRefuses, Failing, Moves
    <3>6. CASE MarkSent(h)
      BY <3>6 DEF MarkSent, Ends
    <3>7. CASE MarkUnusable(h)
      BY <3>7 DEF MarkUnusable, Moves
    <3>8. CASE RecordFailure(h)
      <4>1. sends[h].mail \in Mails
        BY <3>8 DEF RecordFailure, Ends
      <4>2. PICK status \in {"pending", "failed"} :
                outbound' = [outbound EXCEPT ![sends[h].mail].status = status]
        BY <3>8 DEF RecordFailure
      <4>3. outbound' \in [Mails ->
                [status : {"none", "pending", "sending", "sent", "failed"}, retries : Nat]]
        BY <4>1, <4>2
      <4>4. sends' = [sends EXCEPT ![h] = NoSend]
        BY <3>8 DEF RecordFailure, Ends
      <4> QED
        BY <3>8, <4>3, <4>4 DEF RecordFailure
    <3>9. CASE SenderDies(h)
      BY <3>9 DEF SenderDies, Failing
    <3> QED
      BY <2>3, <3>1, <3>2, <3>3, <3>4, <3>5, <3>6, <3>7, <3>8, <3>9 DEF SendStep
  <2>4. CASE UNCHANGED outboundVars
    BY <2>4 DEF outboundVars
  <2> QED
    BY <2>1, <2>2, <2>3, <2>4 DEF OutboundNext
<1> QED
  BY <1>1, <1>2, PTL DEF OutboundSpec

\* Gmail's answer, once received, stands until the mail is marked: nothing ever
\* takes a delivery back.
LEMMA AnswersKept ==
  ASSUME OutboundTypes, AnswerKnown, SentWasDelivered,
         [OutboundNext]_outboundVars
  PROVE  AnswerKnown' /\ SentWasDelivered'
<1> USE NoneIsNoMail DEF OutboundTypes, OutboundTypeOK, AtMail, AnswerKnown,
        SentWasDelivered, NoSend
<1>1. ASSUME NEW m \in Mails, CreateOutbound(m)
      PROVE  AnswerKnown' /\ SentWasDelivered'
  BY <1>1 DEF CreateOutbound
<1>2. CASE Reconnect
  BY <1>2 DEF Reconnect
<1>3. ASSUME NEW h \in Handlers, SendStep(h)
      PROVE  AnswerKnown' /\ SentWasDelivered'
  <2>1. ASSUME NEW m \in Mails, NEW op \in {"send", "retry"}, BeginSend(h, m, op)
        PROVE  AnswerKnown' /\ SentWasDelivered'
    BY <2>1 DEF BeginSend
  <2>2. CASE MarkSending(h)
    BY <2>2 DEF MarkSending, Moves, Underway
  <2>3. CASE GmailAccepts(h)
    BY <2>3 DEF GmailAccepts, Moves, Deliver
  <2>4. CASE AnswerLost(h)
    <3>1. sends[h].mail \in Mails
      BY <2>4 DEF AnswerLost, Moves
    <3>2. \A m \in Mails : delivered[m] > 0 => delivered'[m] > 0
      BY <2>4, <3>1 DEF AnswerLost, Deliver
    <3>3. PICK next \in {"call", "transient"} : Moves(h, "call", next)
      BY <2>4 DEF AnswerLost
    <3>4. UNCHANGED outbound
      BY <2>4 DEF AnswerLost
    <3> QED
      BY <3>2, <3>3, <3>4 DEF Moves
  <2>5. ASSUME NEW reason \in {"transient", "unauthorized", "refused"},
               GmailRefuses(h, reason)
        PROVE  AnswerKnown' /\ SentWasDelivered'
    BY <2>5 DEF GmailRefuses, Failing, Moves
  <2>6. CASE MarkSent(h)
    BY <2>6 DEF MarkSent, Ends
  <2>7. CASE MarkUnusable(h)
    BY <2>7 DEF MarkUnusable, Moves
  <2>8. CASE RecordFailure(h)
    BY <2>8 DEF RecordFailure, Ends
  <2>9. CASE SenderDies(h)
    BY <2>9 DEF SenderDies, Failing
  <2> QED
    BY <1>3, <2>1, <2>2, <2>3, <2>4, <2>5, <2>6, <2>7, <2>8, <2>9 DEF SendStep
<1>4. CASE UNCHANGED outboundVars
  BY <1>4 DEF outboundVars
<1> QED
  BY <1>1, <1>2, <1>3, <1>4 DEF OutboundNext

\* Whatever sends and retries overlap, fail or die between their transactions, a
\* mail that HR is told was sent was accepted by Gmail (outbound_email_service.py).
THEOREM SentIsDelivered == OutboundSpec => []SentWasDelivered
<1>1. OutboundInit => AnswerKnown /\ SentWasDelivered
  BY DEF OutboundInit, AnswerKnown, SentWasDelivered, NoSend
<1>2. OutboundTypes /\ AnswerKnown /\ SentWasDelivered
        /\ [OutboundNext]_outboundVars
      => AnswerKnown' /\ SentWasDelivered'
  BY AnswersKept
<1> QED
  BY <1>1, <1>2, OutboundTyped, PTL DEF OutboundSpec

-------------------------------------------------------------------------------
(* Classification *)

Claims(row) ==
    row.category = "recruitment" /\ row.status \in {"classified", "needs_classification"}

Visible(e) == DOMAIN apps # {} \/ items[e] # "none"

\* Whoever splits has an item, and who classifies by hand a mail. A mail that a session has judged to be an application
\* is visible, or will be when the session commits.
BatchSound(batch) ==
    /\ batch.pc \in {"split", "manual"} => batch.item # None
    /\ batch.pc = "manual" => DOMAIN batch.rows = {batch.item}
    /\ batch.todo \subseteq DOMAIN batch.rows
    /\ batch.pc # "manual" => \A e \in DOMAIN batch.rows \ batch.todo :
        Claims(batch.rows[e]) => Visible(e) \/ batch.own # None \/ e \in batch.found

ClassifyInv ==
    /\ ClassifyTypeOK
    /\ JudgedIsVisible
    /\ \A h \in Handlers : BatchSound(batches[h])

LEMMA NoBatchTyped == NoBatch \in Batch /\ DOMAIN NoBatch.rows = {} /\ NoBatch.todo = {}
                        /\ NoBatch.pc = "idle"
<1>1. [e \in {} |-> None] \in UNION {[es -> EmailRow] : es \in SUBSET Emails}
  <2>1. [e \in {} |-> None] \in [{} -> EmailRow]
    OBVIOUS
  <2> QED
    BY <2>1
<1>2. [a \in {} |-> {}] \in UNION {[as -> SUBSET Emails] : as \in SUBSET AppIds}
  <2>1. [a \in {} |-> {}] \in [{} -> SUBSET Emails]
    OBVIOUS
  <2> QED
    BY <2>1
<1> QED
  BY <1>1, <1>2 DEF NoBatch, Batch

LEMMA ClassifyStarts == ClassifyInit => ClassifyInv
<1> SUFFICES ASSUME ClassifyInit PROVE ClassifyInv
  OBVIOUS
<1>1. emails \in [Emails -> EmailRow]
  BY ClassifyBounds DEF ClassifyInit, EmailRow, Open
<1>2. apps \in UNION {[1..n -> Application] : n \in 0..MaxApps}
  <2>1. apps \in [1..0 -> Application] /\ 0 \in 0..MaxApps
    BY ClassifyBounds DEF ClassifyInit
  <2> QED
    BY <2>1
<1>3. ClassifyTypeOK
  BY <1>1, <1>2, NoBatchTyped, ClassifyBounds DEF ClassifyInit, ClassifyTypeOK
<1>4. JudgedIsVisible
  BY DEF ClassifyInit, JudgedIsVisible, Swallowed
<1>5. \A h \in Handlers : BatchSound(batches[h])
  BY NoBatchTyped DEF ClassifyInit, BatchSound
<1> QED
  BY <1>3, <1>4, <1>5 DEF ClassifyInv

\* A session goes on: nobody else sees anything of it.
LEMMA BatchMoves ==
  ASSUME ClassifyInv, NEW h \in Handlers, NEW new \in Batch, BatchSound(new),
         batches' = [batches EXCEPT ![h] = new],
         UNCHANGED <<emails, apps, items, byHand, mixed>>,
         begun' \in 0..MaxBatches, mishaps' \in 0..MaxMishaps
  PROVE  ClassifyInv'
<1>1. ClassifyTypeOK'
  BY DEF ClassifyInv, ClassifyTypeOK
<1>2. JudgedIsVisible'
  BY DEF ClassifyInv, JudgedIsVisible, Swallowed
<1>3. \A g \in Handlers : batches'[g] = new \/ batches'[g] = batches[g]
  BY DEF ClassifyInv, ClassifyTypeOK
<1>4. \A b : BatchSound(b) => BatchSound(b)'
  BY DEF BatchSound, Visible
<1>5. ASSUME NEW g \in Handlers PROVE BatchSound(batches[g])'
  BY <1>3, <1>4 DEF ClassifyInv, BatchSound, Visible
<1> QED
  BY <1>1, <1>2, <1>5 DEF ClassifyInv

\* A visible mail is not swallowed, and a mail that claims nothing neither.
LEMMA SeenOrQuiet ==
  ASSUME NEW e \in Emails
  PROVE  Swallowed(e) <=> Claims(emails[e]) /\ ~Visible(e)
BY DEF Swallowed, Claims, Visible

\* The columns a session writes are of mails.
LEMMA WrittenTyped ==
  ASSUME ClassifyInv, NEW batch \in Batch
  PROVE  /\ Written(batch) \in [Emails -> EmailRow]
         /\ DOMAIN batch.rows \subseteq Emails
         /\ \A e \in Emails \ DOMAIN batch.rows : Written(batch)[e] = emails[e]
         /\ \A e \in DOMAIN batch.rows \ Blended(batch) :
                Claims(Written(batch)[e]) => Claims(batch.rows[e])
<1>1. PICK es \in SUBSET Emails : batch.rows \in [es -> EmailRow]
  BY DEF Batch
<1>2. \A now, row \in EmailRow : \A was : Merged(now, was, row) \in EmailRow
  BY DEF Merged, EmailRow
<1>3. \A e \in Emails : emails[e] \in EmailRow
  BY DEF ClassifyInv, ClassifyTypeOK
<1>4. ASSUME NEW e \in es PROVE Merged(emails[e], batch.was[e], batch.rows[e]) \in EmailRow
  BY <1>1, <1>2, <1>3
<1>5. Written(batch) \in [Emails -> EmailRow]
  BY <1>1, <1>3, <1>4 DEF Written
<1>6. DOMAIN batch.rows \subseteq Emails
  BY <1>1
<1>7. \A e \in Emails \ DOMAIN batch.rows : Written(batch)[e] = emails[e]
  BY DEF Written
<1>8. \A e \in DOMAIN batch.rows \ Blended(batch) :
        Claims(Written(batch)[e]) => Claims(batch.rows[e])
  BY DEF Blended, Claims
<1> QED
  BY <1>5, <1>6, <1>7, <1>8

\* The counters of the bounds
LEMMA CountersKept ==
  ASSUME ClassifyInv
  PROVE  /\ UNCHANGED begun => begun' \in 0..MaxBatches
         /\ UNCHANGED mishaps => mishaps' \in 0..MaxMishaps
         /\ Begins => begun' \in 0..MaxBatches
         /\ Mishap(1) => mishaps' \in 0..MaxMishaps
BY ClassifyBounds DEF ClassifyInv, ClassifyTypeOK, Begins, Mishap

\* What a callback gives is a session that has lost nothing.
LEMMA CallbacksKeep ==
  ASSUME ClassifyInv, NEW batch \in Batch, NEW e \in Emails
  PROVE  /\ WithApplication(batch, e) \in Batch
         /\ WithApplication(batch, e).pc = batch.pc
         /\ WithApplication(batch, e).item = batch.item
         /\ WithApplication(batch, e).todo = batch.todo
         /\ WithApplication(batch, e).rows = batch.rows
         /\ WithApplication(batch, e).found = batch.found
         /\ batch.own # None => WithApplication(batch, e).own # None
         /\ WithApplication(batch, e).own # None \/ DOMAIN apps # {}
         /\ WithItem(batch, e) \in Batch
         /\ WithItem(batch, e).pc = batch.pc /\ WithItem(batch, e).item = batch.item
         /\ WithItem(batch, e).todo = batch.todo
         /\ WithItem(batch, e).rows = batch.rows
         /\ WithItem(batch, e).own = batch.own
         /\ batch.found \subseteq WithItem(batch, e).found
         /\ e \in WithItem(batch, e).found \/ items[e] # "none"
<1> DEFINE refs(a) == IF a \in DOMAIN batch.links THEN batch.links[a] ELSE apps[a].refs
           read == [a \in DOMAIN apps |-> refs(a)]
           linked == [a \in DOMAIN apps |-> refs(a) \cup {e}]
           owned == IF batch.own = None THEN None
                    ELSE [batch.own EXCEPT !.refs = @ \cup {e}]
           mine == batch.own # None /\ batch.own.of = e
           fresh == [of |-> e, refs |-> {e}]
           told == WithApplication(batch, e)
           asked == WithItem(batch, e)
<1>1. DOMAIN apps \in SUBSET AppIds /\ \A a \in DOMAIN apps : apps[a] \in Application
  <2>1. PICK n \in 0..MaxApps : apps \in [1..n -> Application]
    BY DEF ClassifyInv, ClassifyTypeOK
  <2> QED
    BY <2>1, ClassifyBounds DEF AppIds
<1>2. \A a \in DOMAIN apps : refs(a) \in SUBSET Emails
  <2>1. PICK as \in SUBSET AppIds : batch.links \in [as -> SUBSET Emails]
    BY DEF Batch
  <2> QED
    BY <1>1, <2>1 DEF Application
<1>3. /\ read \in UNION {[as -> SUBSET Emails] : as \in SUBSET AppIds}
      /\ linked \in UNION {[as -> SUBSET Emails] : as \in SUBSET AppIds}
  <2>1. read \in [DOMAIN apps -> SUBSET Emails] /\ linked \in [DOMAIN apps -> SUBSET Emails]
    BY <1>2
  <2> QED
    BY <1>1, <2>1
<1>4. owned \in Application \cup {None} /\ (batch.own # None => owned # None)
  BY ClassifyBounds DEF Batch, Application
<1>5. fresh \in Application \cup {None} /\ fresh # None
  BY ClassifyBounds DEF Application
<1>6. asked = [batch EXCEPT
            !.found = IF items[e] = "none" THEN batch.found \cup {e} ELSE batch.found]
  BY DEF WithItem, Batch
<1>7. \/ /\ mine \/ \E a \in DOMAIN apps : apps[a].of = e
         /\ told = [batch EXCEPT !.links = read]
      \/ /\ batch.own = None
         /\ told = [batch EXCEPT !.own = fresh]
      \/ /\ DOMAIN apps # {} \/ batch.own # None
         /\ told = [batch EXCEPT !.links = linked, !.own = owned]
  <2>1. CASE mine \/ \E a \in DOMAIN apps : apps[a].of = e
    BY <2>1 DEF WithApplication
  <2>2. CASE /\ ~(mine \/ \E a \in DOMAIN apps : apps[a].of = e)
             /\ DOMAIN apps = {} /\ batch.own = None
    BY <2>2 DEF WithApplication
  <2>3. CASE /\ ~(mine \/ \E a \in DOMAIN apps : apps[a].of = e)
             /\ ~(DOMAIN apps = {} /\ batch.own = None)
    BY <2>3 DEF WithApplication
  <2> QED
    BY <2>1, <2>2, <2>3
<1> HIDE DEF read, linked, owned, fresh, told, asked
<1>8. /\ told \in Batch /\ told.todo = batch.todo /\ told.rows = batch.rows
      /\ told.found = batch.found /\ told.pc = batch.pc /\ told.item = batch.item
  BY <1>3, <1>4, <1>5, <1>7 DEF Batch
<1>9. told.own = batch.own \/ told.own = fresh \/ told.own = owned
  BY <1>7 DEF Batch
<1>10. batch.own # None => told.own # None
  BY <1>4, <1>5, <1>9
<1>11. told.own # None \/ DOMAIN apps # {}
  <2>1. CASE mine /\ told = [batch EXCEPT !.links = read]
    BY <2>1 DEF Batch
  <2>2. CASE told = [batch EXCEPT !.own = fresh]
    BY <1>5, <2>2 DEF Batch
  <2>3. CASE batch.own # None
    BY <1>10, <2>3
  <2> QED
    BY <1>7, <2>1, <2>2, <2>3
<1>12. /\ asked \in Batch /\ asked.todo = batch.todo /\ asked.rows = batch.rows
       /\ asked.own = batch.own /\ batch.found \subseteq asked.found
       /\ e \in asked.found \/ items[e] # "none"
       /\ asked.pc = batch.pc /\ asked.item = batch.item
  BY <1>6 DEF Batch
<1> QED
  BY <1>8, <1>10, <1>11, <1>12 DEF told, asked

\* A mail is judged, and what its row claims is true.
LEMMA JudgedSound ==
  ASSUME ClassifyInv, NEW h \in Handlers, NEW e \in batches[h].todo, NEW batch \in Batch,
         batch.pc = batches[h].pc, batch.item = batches[h].item,
         batch.todo = batches[h].todo, batch.rows = batches[h].rows,
         batches[h].own # None => batch.own # None, batches[h].found \subseteq batch.found,
         NEW row \in EmailRow,
         Claims(row) => Visible(e) \/ batch.own # None \/ e \in batch.found
  PROVE  Judged(batch, e, row) \in Batch /\ BatchSound(Judged(batch, e, row))
<1> DEFINE new == Judged(batch, e, row)
<1>1. PICK es \in SUBSET Emails : batch.rows \in [es -> EmailRow]
  BY DEF Batch
<1>2. [batch.rows EXCEPT ![e] = row] \in [es -> EmailRow]
  BY <1>1
<1>3. /\ new \in Batch /\ new.todo = batch.todo \ {e} /\ new.own = batch.own
      /\ new.pc = batch.pc /\ new.item = batch.item
      /\ new.found = batch.found /\ new.rows = [batch.rows EXCEPT ![e] = row]
  <2>1. PICK rows : rows = [batch.rows EXCEPT ![e] = row]
    OBVIOUS
  <2>2. rows \in UNION {[as -> EmailRow] : as \in SUBSET Emails}
    BY <1>2, <2>1
  <2>3. new = [batch EXCEPT !.todo = batch.todo \ {e}, !.rows = rows]
    BY <2>1 DEF Judged
  <2>4. PICK todo : todo = batch.todo \ {e}
    OBVIOUS
  <2>5. batch.todo \in SUBSET Emails /\ DOMAIN batch = {"pc", "todo", "rows", "was", "links",
                                                        "own", "found", "item"}
    BY DEF Batch
  <2>6. new = [batch EXCEPT !.todo = todo, !.rows = rows] /\ todo \in SUBSET Emails
    BY <2>3, <2>4, <2>5
  <2> HIDE DEF new
  <2>7. /\ new.todo = todo /\ new.rows = rows /\ new.own = batch.own /\ new.pc = batch.pc
        /\ new.item = batch.item /\ new.found = batch.found
    BY <2>5, <2>6
  <2>8. new \in Batch
    BY <2>2, <2>6 DEF Batch
  <2> QED
    BY <2>1, <2>4, <2>7, <2>8
<1>4. BatchSound(batches[h])
  BY DEF ClassifyInv
<1> HIDE DEF new
<1>5. ASSUME NEW x \in DOMAIN new.rows \ new.todo, Claims(new.rows[x])
      PROVE  Visible(x) \/ new.own # None \/ x \in new.found
  <2>1. CASE x = e
    BY <1>1, <1>3, <1>5, <2>1
  <2>2. CASE x # e
    <3>1. x \in DOMAIN batches[h].rows \ batches[h].todo /\ new.rows[x] = batches[h].rows[x]
      BY <1>1, <1>3, <2>2
    <3> QED
      BY <1>3, <1>4, <1>5, <3>1 DEF BatchSound
  <2> QED
    BY <2>1, <2>2
<1>6. BatchSound(new)
  BY <1>1, <1>3, <1>4, <1>5 DEF BatchSound
<1> QED
  BY <1>3, <1>6 DEF new

\* A session that judges a mail, with its callback or after the callback failed.
LEMMA ApplyKeeps ==
  ASSUME ClassifyInv, NEW h \in Handlers, NEW e \in Emails, NEW callback \in Batch,
         NEW status \in Open \cup {"classified", "needs_classification"},
         NEW category \in {"recruitment", "other"},
         callback.pc = batches[h].pc, callback.item = batches[h].item,
         callback.todo = batches[h].todo, callback.rows = batches[h].rows,
         batches[h].own # None => callback.own # None,
         batches[h].found \subseteq callback.found,
         category = "recruitment" =>
            Visible(e) \/ callback.own # None \/ e \in callback.found,
         Apply(h, e, status, category, callback)
  PROVE  ClassifyInv'
<1>1. /\ Verdict(status, category) \in EmailRow /\ AfterFailure(category) \in EmailRow
      /\ Verdict(status, category).category = category
      /\ AfterFailure(category).status = "needs_review"
  <2>1. 0 \in 0..(MaxTries + 1)
    BY ClassifyBounds
  <2>2. \A s \in Open \cup {"classified", "needs_classification"} :
            Verdict(s, category) \in EmailRow
    BY <2>1 DEF Verdict, EmailRow
  <2> QED
    BY <2>2 DEF Verdict, AfterFailure, Open
<1>2. e \in batches[h].todo /\ batches[h] \in Batch
  BY DEF Apply, ClassifyInv, ClassifyTypeOK
<1>3. CASE batches' = [batches EXCEPT ![h] = Judged(callback, e, Verdict(status, category))]
             /\ UNCHANGED mishaps
  <2> DEFINE new == Judged(callback, e, Verdict(status, category))
  <2>1. new \in Batch /\ BatchSound(new)
    BY <1>1, <1>2, JudgedSound DEF Claims
  <2> HIDE DEF new
  <2> QED
    BY <1>3, <2>1, BatchMoves, CountersKept DEF Apply, new
<1>4. CASE batches' = [batches EXCEPT ![h] = Judged(batches[h], e, AfterFailure(category))]
             /\ Mishap(1)
  <2> DEFINE new == Judged(batches[h], e, AfterFailure(category))
  <2>1. new \in Batch /\ BatchSound(new)
    BY <1>1, <1>2, JudgedSound DEF Claims
  <2> HIDE DEF new
  <2> QED
    BY <1>4, <2>1, BatchMoves, CountersKept DEF Apply, new
<1> QED
  BY <1>3, <1>4 DEF Apply

LEMMA JudgementsKeep ==
  ASSUME ClassifyInv, NEW h \in Handlers, NEW e \in Emails
  PROVE  /\ JudgeApplication(h, e) => ClassifyInv'
         /\ \A status \in {"classified", "needs_classification"} :
                JudgeForHR(h, e, status) => ClassifyInv'
         /\ \A status \in {"classified", "needs_review"} :
                JudgeOther(h, e, status) => ClassifyInv'
<1>1. batches[h] \in Batch
  BY DEF ClassifyInv, ClassifyTypeOK
<1>2. ASSUME JudgeApplication(h, e) PROVE ClassifyInv'
  <2> DEFINE callback == WithApplication(batches[h], e)
  <2>1. Apply(h, e, "classified", "recruitment", callback)
    BY <1>2 DEF JudgeApplication
  <2>2. /\ callback \in Batch /\ callback.todo = batches[h].todo
        /\ callback.rows = batches[h].rows /\ callback.found = batches[h].found
        /\ callback.pc = batches[h].pc /\ callback.item = batches[h].item
        /\ batches[h].own # None => callback.own # None
        /\ callback.own # None \/ DOMAIN apps # {}
    BY <1>1, CallbacksKeep
  <2> HIDE DEF callback
  <2> QED
    BY <2>1, <2>2, ApplyKeeps DEF Visible
<1>3. ASSUME NEW status \in {"classified", "needs_classification"}, JudgeForHR(h, e, status)
      PROVE  ClassifyInv'
  BY <1>1, <1>3, CallbacksKeep, ApplyKeeps DEF JudgeForHR, Visible
<1>4. ASSUME NEW status \in {"classified", "needs_review"}, JudgeOther(h, e, status)
      PROVE  ClassifyInv'
  <2>1. status \in Open \cup {"classified", "needs_classification"}
    BY DEF Open
  <2> QED
    BY <1>1, <1>4, <2>1, ApplyKeeps DEF JudgeOther
<1> QED
  BY <1>2, <1>3, <1>4

LEMMA ProviderKeeps ==
  ASSUME ClassifyInv, NEW h \in Handlers, NEW e \in Emails, ProviderFails(h, e)
  PROVE  ClassifyInv'
<1> DEFINE batch == batches[h]
           row == batch.rows[e]
           spent == row.tries >= MaxTries
           next == [row EXCEPT
                !.status = IF spent THEN "permanently_failed" ELSE "ai_unavailable",
                !.tries = IF spent THEN @ ELSE @ + 1]
           after == IF spent THEN WithItem(batch, e) ELSE batch
<1>1. e \in batch.todo /\ batch \in Batch
  BY DEF ProviderFails, ClassifyInv, ClassifyTypeOK
<1>2. CASE e \in DOMAIN batch.rows
  <2>1. row \in EmailRow
    BY <1>2, <1>1 DEF Batch
  <2>2. next \in EmailRow /\ ~Claims(next)
    <3>1. MaxTries \in Nat /\ row.tries \in 0..(MaxTries + 1)
      BY <2>1, ClassifyBounds DEF EmailRow
    <3>2. (IF spent THEN row.tries ELSE row.tries + 1) \in 0..(MaxTries + 1)
      BY <3>1
    <3>3. next = [row EXCEPT
                !.status = IF spent THEN "permanently_failed" ELSE "ai_unavailable",
                !.tries = IF spent THEN row.tries ELSE row.tries + 1]
      BY <2>1 DEF EmailRow
    <3> QED
      BY <2>1, <3>2, <3>3 DEF EmailRow, Open, Claims
  <2>3. /\ after \in Batch /\ after.todo = batch.todo /\ after.rows = batch.rows
        /\ after.pc = batch.pc /\ after.item = batch.item
        /\ after.own = batch.own /\ batch.found \subseteq after.found
    BY <1>1, CallbacksKeep
  <2> HIDE DEF next, after
  <2>4. /\ Judged(after, e, next) \in Batch /\ BatchSound(Judged(after, e, next))
        /\ Judged(batch, e, next) \in Batch /\ BatchSound(Judged(batch, e, next))
    BY <1>1, <2>2, <2>3, JudgedSound
  <2>5. /\ \/ /\ batches' = [batches EXCEPT ![h] = Judged(after, e, next)]
              /\ UNCHANGED mishaps
           \/ /\ Mishap(1)
              /\ batches' = [batches EXCEPT ![h] = Judged(batch, e, next)]
        /\ UNCHANGED <<emails, apps, items, begun, byHand, mixed>>
    BY DEF ProviderFails, after, next
  <2> QED
    BY <2>4, <2>5, BatchMoves, CountersKept
<1> QED
  BY <1>1, <1>2 DEF ClassifyInv, BatchSound

\* A mail whose judgement fails claims nothing.
LEMMA FailuresKeep ==
  ASSUME ClassifyInv, NEW h \in Handlers, NEW e \in Emails, JudgementFails(h, e)
  PROVE  ClassifyInv'
<1> DEFINE batch == batches[h]
           next == [batch.rows[e] EXCEPT !.status = "classification_failed"]
<1>1. e \in batch.todo /\ batch \in Batch
  BY DEF JudgementFails, ClassifyInv, ClassifyTypeOK
<1>2. e \in DOMAIN batch.rows
  BY <1>1 DEF ClassifyInv, BatchSound
<1>3. next \in EmailRow /\ ~Claims(next)
  <2>1. batch.rows[e] \in EmailRow
    BY <1>1, <1>2 DEF Batch
  <2> QED
    BY <2>1 DEF EmailRow, Claims
<1>4. batches' = [batches EXCEPT ![h] = Judged(batch, e, next)]
  BY DEF JudgementFails
<1> HIDE DEF next
<1>5. Judged(batch, e, next) \in Batch /\ BatchSound(Judged(batch, e, next))
  BY <1>1, <1>3, JudgedSound
<1> QED
  BY <1>4, <1>5, BatchMoves, CountersKept DEF JudgementFails

LEMMA AppsCounted ==
  ASSUME ClassifyInv
  PROVE  LET n == Cardinality(DOMAIN apps) IN
         n \in 0..MaxApps /\ apps \in [1..n -> Application] /\ (DOMAIN apps # {} => n > 0)
<1>1. PICK n \in 0..MaxApps : apps \in [1..n -> Application]
  BY DEF ClassifyInv, ClassifyTypeOK
<1>2. Cardinality(1..n) = n
  <2>1. n \in Nat
    BY <1>1, ClassifyBounds
  <2>2. Cardinality(1..n) = IF 1 > n THEN 0 ELSE n - 1 + 1
    BY <2>1, FS_Interval
  <2> QED
    BY <2>1, <2>2
<1> QED
  BY <1>1, <1>2, ClassifyBounds

LEMMA LoadedKeeps ==
  ASSUME ClassifyInv, NEW h \in Handlers, NEW es \in SUBSET Emails,
         NEW pc \in {"batch", "single"}, Loaded(h, pc, es)
  PROVE  ClassifyInv'
<1> DEFINE rows == [e \in es |-> emails[e]]
           new == [NoBatch EXCEPT !.pc = pc, !.todo = es, !.rows = rows, !.was = rows]
<1>1. rows \in UNION {[xs -> EmailRow] : xs \in SUBSET Emails} /\ DOMAIN rows = es
  <2>1. rows \in [es -> EmailRow]
    BY DEF ClassifyInv, ClassifyTypeOK
  <2> QED
    BY <2>1
<1>2. /\ batches' = [batches EXCEPT ![h] = new]
      /\ UNCHANGED <<emails, apps, items, mishaps, byHand, mixed>>
  BY DEF Loaded
<1> HIDE DEF rows
<1>3. new \in Batch /\ new.todo = es /\ new.rows = rows /\ new.pc = pc
  BY <1>1, NoBatchTyped DEF Batch
<1>4. BatchSound(new)
  BY <1>1, <1>3 DEF BatchSound
<1> HIDE DEF new
<1> QED
  BY <1>2, <1>3, <1>4, BatchMoves, CountersKept DEF Loaded

LEMMA BeginsKeep ==
  ASSUME ClassifyInv, NEW h \in Handlers
  PROVE  /\ \A es \in SUBSET Emails : BeginBatch(h, es) => ClassifyInv'
         /\ \A e \in Emails : BeginSingle(h, e) => ClassifyInv'
<1>1. ASSUME NEW es \in SUBSET Emails, BeginBatch(h, es) PROVE ClassifyInv'
  BY <1>1, LoadedKeeps DEF BeginBatch
<1>2. ASSUME NEW e \in Emails, BeginSingle(h, e) PROVE ClassifyInv'
  <2>1. {e} \in SUBSET Emails /\ Loaded(h, "single", {e})
    BY <1>2 DEF BeginSingle
  <2> QED
    BY <2>1, LoadedKeeps
<1> QED
  BY <1>1, <1>2

\* A batch that has judged all its mails commits; what others are told stays true.
LEMMA CommitBatchKeeps ==
  ASSUME ClassifyInv, NEW h \in Handlers, CommitBatch(h)
  PROVE  ClassifyInv'
<1> DEFINE batch == batches[h]
           n == Cardinality(DOMAIN apps)
           new == IF batch.own = None THEN n ELSE n + 1
<1>1. batch \in Batch /\ BatchSound(batch) /\ batch.todo = {}
  BY DEF ClassifyInv, ClassifyTypeOK, CommitBatch
<1>2. n \in 0..MaxApps /\ apps \in [1..n -> Application] /\ (DOMAIN apps # {} => n > 0)
  BY AppsCounted
<1>3. /\ new <= MaxApps
      /\ apps' = [a \in 1..new |->
            IF a > n THEN batch.own
            ELSE IF a \in DOMAIN batch.links THEN [apps[a] EXCEPT !.refs = batch.links[a]]
            ELSE apps[a]]
      /\ emails' = Written(batch)
      /\ items' = [e \in Emails |-> IF e \in batch.found THEN "open" ELSE items[e]]
      /\ byHand' = byHand \ DOMAIN batch.rows
      /\ mixed' = (mixed \ DOMAIN batch.rows) \cup Blended(batch)
      /\ batches' = [batches EXCEPT ![h] = NoBatch]
      /\ UNCHANGED <<begun, mishaps>>
  BY DEF CommitBatch
<1>4. new \in 0..MaxApps /\ n <= new /\ (batch.own # None => new > 0)
  BY <1>2, <1>3, ClassifyBounds
<1>5. apps' \in [1..new -> Application]
  <2>1. ASSUME NEW a \in 1..new PROVE apps'[a] \in Application
    <3>1. CASE a > n
      BY <1>1, <1>2, <1>3, <3>1, ClassifyBounds DEF Batch
    <3>2. CASE a <= n
      <4>1. apps[a] \in Application
        BY <1>2, <1>4, <3>2
      <4>2. a \in DOMAIN batch.links => batch.links[a] \in SUBSET Emails
        <5>1. PICK as \in SUBSET AppIds : batch.links \in [as -> SUBSET Emails]
          BY <1>1 DEF Batch
        <5> QED
          BY <5>1
      <4> QED
        BY <1>2, <1>3, <1>4, <3>2, <4>1, <4>2 DEF Application
    <3> QED
      BY <1>2, <1>4, <3>1, <3>2
  <2> QED
    BY <1>3, <2>1
<1>6. /\ Written(batch) \in [Emails -> EmailRow]
      /\ DOMAIN batch.rows \subseteq Emails
      /\ \A e \in Emails \ DOMAIN batch.rows : Written(batch)[e] = emails[e]
      /\ \A e \in DOMAIN batch.rows \ Blended(batch) :
             Claims(Written(batch)[e]) => Claims(batch.rows[e])
  BY <1>1, WrittenTyped
<1>7. ClassifyTypeOK'
  <2>1. /\ emails' \in [Emails -> EmailRow]
        /\ byHand' \subseteq Emails /\ mixed' \subseteq Emails
    BY <1>3, <1>6 DEF ClassifyInv, ClassifyTypeOK, Blended
  <2>2. items' \in [Emails -> {"none", "open", "resolved", "dismissed"}]
    BY <1>3 DEF ClassifyInv, ClassifyTypeOK
  <2>3. batches' \in [Handlers -> Batch]
    BY <1>3, NoBatchTyped DEF ClassifyInv, ClassifyTypeOK
  <2>4. apps' \in UNION {[1..k -> Application] : k \in 0..MaxApps}
    BY <1>4, <1>5
  <2>5. begun' \in 0..MaxBatches /\ mishaps' \in 0..MaxMishaps
    BY <1>3 DEF ClassifyInv, ClassifyTypeOK
  <2> QED
    BY <2>1, <2>2, <2>3, <2>4, <2>5 DEF ClassifyTypeOK
<1>8. ASSUME NEW e \in Emails, Visible(e) \/ batch.own # None \/ e \in batch.found
      PROVE  Visible(e)'
  <2>1. CASE DOMAIN apps # {} \/ batch.own # None
    <3>1. new > 0 /\ DOMAIN apps' = 1..new
      BY <1>2, <1>4, <1>5, <2>1
    <3> QED
      BY <1>4, <3>1 DEF Visible
  <2>2. CASE e \in batch.found \/ items[e] # "none"
    BY <1>3, <2>2 DEF Visible
  <2> QED
    BY <1>8, <2>1, <2>2 DEF Visible
<1>9. JudgedIsVisible'
  <2> SUFFICES ASSUME NEW e \in Emails \ (byHand' \cup mixed'), Claims(emails'[e])
               PROVE  Visible(e)'
    BY DEF JudgedIsVisible, Swallowed, Claims, Visible
  <2>1. CASE e \in DOMAIN batch.rows
    <3>1. e \notin Blended(batch) /\ Claims(batch.rows[e])
      BY <1>3, <1>6, <2>1
    <3>2. batch.pc # "manual" /\ e \notin batch.todo
      BY <1>1 DEF CommitBatch
    <3> QED
      BY <1>1, <1>8, <2>1, <3>1, <3>2 DEF BatchSound
  <2>2. CASE e \notin DOMAIN batch.rows
    <3>1. e \notin byHand \cup mixed /\ Claims(emails[e])
      BY <1>3, <1>6, <2>2
    <3>2. Visible(e)
      BY <3>1, SeenOrQuiet DEF ClassifyInv, JudgedIsVisible
    <3> QED
      BY <1>8, <3>2
  <2> QED
    BY <2>1, <2>2
<1>10. ASSUME NEW g \in Handlers PROVE BatchSound(batches[g])'
  <2>1. CASE g = h
    BY <1>3, <2>1, NoBatchTyped DEF BatchSound, ClassifyInv, ClassifyTypeOK
  <2>2. CASE g # h
    <3>1. batches'[g] = batches[g] /\ BatchSound(batches[g]) /\ batches[g] \in Batch
      BY <1>3, <2>2 DEF ClassifyInv, ClassifyTypeOK
    <3>2. DOMAIN batches[g].rows \subseteq Emails
      BY <3>1 DEF Batch
    <3> QED
      BY <1>8, <3>1, <3>2 DEF BatchSound
  <2> QED
    BY <2>1, <2>2
<1> QED
  BY <1>7, <1>9, <1>10 DEF ClassifyInv

\* A session that dies or is rolled back.
LEMMA AbortBatchKeeps ==
  ASSUME ClassifyInv, NEW h \in Handlers, AbortBatch(h)
  PROVE  ClassifyInv'
<1>1. NoBatch \in Batch /\ BatchSound(NoBatch)
  BY NoBatchTyped DEF BatchSound
<1> QED
  BY <1>1, BatchMoves, CountersKept DEF AbortBatch

\* HR decides about a mail or an item; no item goes away.
LEMMA InboxKeeps ==
  ASSUME ClassifyInv, NEW e \in Emails
  PROVE  /\ \A status \in {"open", "resolved"} : CorrectIntent(e, status) => ClassifyInv'
         /\ DismissItem(e) => ClassifyInv'
         /\ \A h \in Handlers : BeginSplit(h, e) => ClassifyInv'
         /\ \A h \in Handlers : \A category \in {"recruitment", "other"} :
                BeginManual(h, e, category) => ClassifyInv'
<1>1. ASSUME NEW status \in {"open", "resolved", "dismissed"},
             items' = [items EXCEPT ![e] = status],
             UNCHANGED <<emails, apps, batches, begun, mishaps, byHand, mixed>>
      PROVE  ClassifyInv'
  <2>1. ClassifyTypeOK'
    BY <1>1 DEF ClassifyInv, ClassifyTypeOK
  <2>2. \A x \in Emails : Visible(x) => Visible(x)'
    BY <1>1 DEF Visible, ClassifyInv, ClassifyTypeOK
  <2>3. JudgedIsVisible'
    BY <1>1, <2>2 DEF ClassifyInv, JudgedIsVisible, Swallowed, Visible
  <2>4. ASSUME NEW g \in Handlers PROVE BatchSound(batches[g])'
    <3>1. DOMAIN batches[g].rows \subseteq Emails
      BY DEF ClassifyInv, ClassifyTypeOK, Batch
    <3> QED
      BY <1>1, <2>2, <3>1 DEF ClassifyInv, BatchSound
  <2> QED
    BY <2>1, <2>3, <2>4 DEF ClassifyInv
<1>2. ASSUME NEW h \in Handlers, NEW category \in {"recruitment", "other"},
             BeginManual(h, e, category)
      PROVE  ClassifyInv'
  <2> DEFINE rows == [m \in {e} |-> Verdict("classified", category)]
             was == [m \in {e} |-> emails[m]]
             new == [NoBatch EXCEPT !.pc = "manual", !.item = e, !.rows = rows, !.was = was]
  <2>1. Verdict("classified", category) \in EmailRow /\ emails[e] \in EmailRow
    BY ClassifyBounds DEF Verdict, EmailRow, ClassifyInv, ClassifyTypeOK
  <2>2. rows \in [{e} -> EmailRow] /\ was \in [{e} -> EmailRow]
    BY <2>1
  <2>3. /\ rows \in UNION {[es -> EmailRow] : es \in SUBSET Emails}
        /\ was \in UNION {[es -> EmailRow] : es \in SUBSET Emails}
        /\ DOMAIN rows = {e}
    BY <2>2
  <2>4. /\ batches' = [batches EXCEPT ![h] = new]
        /\ UNCHANGED <<emails, apps, items, begun, mishaps, byHand, mixed>>
    BY <1>2 DEF BeginManual
  <2> HIDE DEF rows, was
  <2>5. new \in Batch /\ new.pc = "manual" /\ new.item = e /\ new.rows = rows /\ new.todo = {}
    BY <2>3, NoBatchTyped DEF Batch
  <2>6. BatchSound(new)
    BY <2>3, <2>5, ClassifyBounds DEF BatchSound
  <2> HIDE DEF new
  <2> QED
    BY <2>4, <2>5, <2>6, BatchMoves, CountersKept
<1>3. ASSUME NEW h \in Handlers, BeginSplit(h, e) PROVE ClassifyInv'
  <2> DEFINE new == [NoBatch EXCEPT !.pc = "split", !.item = e]
  <2>1. new \in Batch /\ BatchSound(new)
    BY NoBatchTyped, ClassifyBounds DEF Batch, BatchSound
  <2>2. /\ batches' = [batches EXCEPT ![h] = new]
        /\ UNCHANGED <<emails, apps, items, mishaps, byHand, mixed>>
    BY <1>3 DEF BeginSplit
  <2> HIDE DEF new
  <2> QED
    BY <1>3, <2>1, <2>2, BatchMoves, CountersKept DEF BeginSplit
<1> QED
  BY <1>1, <1>2, <1>3 DEF CorrectIntent, DismissItem

\* HR's mail is HR's; nothing else of a mail changes.
LEMMA ManualKeeps ==
  ASSUME ClassifyInv, NEW h \in Handlers, CommitManual(h)
  PROVE  ClassifyInv'
<1> DEFINE batch == batches[h]
<1>1. batch \in Batch /\ BatchSound(batch) /\ batch.pc = "manual"
  BY DEF ClassifyInv, ClassifyTypeOK, CommitManual
<1>2. batch.item \in Emails /\ DOMAIN batch.rows = {batch.item}
  BY <1>1 DEF BatchSound, Batch
<1>3. /\ emails' = Written(batch)
      /\ byHand' = byHand \cup {batch.item}
      /\ batches' = [batches EXCEPT ![h] = NoBatch]
      /\ UNCHANGED <<apps, items, begun, mishaps, mixed>>
  BY DEF CommitManual
<1>4. /\ Written(batch) \in [Emails -> EmailRow]
      /\ \A e \in Emails \ DOMAIN batch.rows : Written(batch)[e] = emails[e]
  BY <1>1, WrittenTyped
<1>5. ClassifyTypeOK'
  BY <1>2, <1>3, <1>4, NoBatchTyped DEF ClassifyInv, ClassifyTypeOK
<1>6. JudgedIsVisible'
  BY <1>2, <1>3, <1>4 DEF ClassifyInv, JudgedIsVisible, Swallowed
<1>7. ASSUME NEW g \in Handlers PROVE BatchSound(batches[g])'
  <2>1. batches'[g] = batches[g] \/ batches'[g] = NoBatch
    BY <1>3 DEF ClassifyInv, ClassifyTypeOK
  <2> QED
    BY <1>3, <2>1, NoBatchTyped DEF ClassifyInv, BatchSound, Visible
<1> QED
  BY <1>5, <1>6, <1>7 DEF ClassifyInv

LEMMA SplitKeeps ==
  ASSUME ClassifyInv, NEW h \in Handlers, CommitSplit(h)
  PROVE  ClassifyInv'
<1> DEFINE e == batches[h].item
           n == Cardinality(DOMAIN apps)
           row == [of |-> e, refs |-> {e}]
<1>1. e \in Emails /\ row \in Application
  BY DEF CommitSplit, ClassifyInv, BatchSound, ClassifyTypeOK, Batch, Application
<1>2. n \in 0..MaxApps /\ apps \in [1..n -> Application]
  BY AppsCounted
<1>3. /\ n + 2 <= MaxApps
      /\ apps' = [a \in 1..(n + 2) |-> IF a > n THEN row ELSE apps[a]]
      /\ items' = [items EXCEPT ![e] = IF @ = "dismissed" THEN @ ELSE "resolved"]
      /\ batches' = [batches EXCEPT ![h] = NoBatch]
      /\ UNCHANGED <<emails, begun, mishaps, byHand, mixed>>
  BY DEF CommitSplit
<1> HIDE DEF row
<1>4. n + 2 \in 1..MaxApps /\ apps' \in [1..(n + 2) -> Application]
  BY <1>1, <1>2, <1>3, ClassifyBounds
<1>5. items' \in [Emails -> {"none", "open", "resolved", "dismissed"}]
  BY <1>1, <1>3 DEF ClassifyInv, ClassifyTypeOK
<1>6. ClassifyTypeOK'
  <2>1. n + 2 \in 0..MaxApps
    BY <1>2, <1>4, ClassifyBounds
  <2>2. apps' \in UNION {[1..k -> Application] : k \in 0..MaxApps}
    BY <1>4, <2>1
  <2>3. batches' \in [Handlers -> Batch]
    BY <1>3, NoBatchTyped DEF ClassifyInv, ClassifyTypeOK
  <2> QED
    BY <1>3, <1>5, <2>2, <2>3 DEF ClassifyInv, ClassifyTypeOK
<1>7. DOMAIN apps' # {}
  BY <1>4
<1>8. JudgedIsVisible'
  BY <1>7 DEF JudgedIsVisible, Swallowed
<1>9. ASSUME NEW g \in Handlers PROVE BatchSound(batches[g])'
  <2>1. batches'[g] = batches[g] \/ batches'[g] = NoBatch
    BY <1>3 DEF ClassifyInv, ClassifyTypeOK
  <2> QED
    BY <1>7, <2>1, NoBatchTyped DEF ClassifyInv, BatchSound, Visible
<1> QED
  BY <1>6, <1>8, <1>9 DEF ClassifyInv

LEMMA ClassifyNextKeeps ==
  ASSUME ClassifyInv, [ClassifyNext]_classifyVars
  PROVE  ClassifyInv'
<1>1. CASE InboxStep
  BY <1>1, InboxKeeps, ManualKeeps, SplitKeeps DEF InboxStep
<1>2. ASSUME NEW h \in Handlers, BatchStep(h) PROVE ClassifyInv'
  BY <1>2, BeginsKeep, JudgementsKeep, ProviderKeeps, FailuresKeep, CommitBatchKeeps,
     AbortBatchKeeps DEF BatchStep
<1>3. CASE UNCHANGED classifyVars
  BY <1>3 DEF classifyVars, ClassifyInv, ClassifyTypeOK, JudgedIsVisible, Swallowed, BatchSound,
              Visible
<1> QED
  BY <1>1, <1>2, <1>3 DEF ClassifyNext

\* Every session that is open has told HR of the mails it judged, or will when it
\* commits (_apply_classification: the callback first, the status after it).
THEOREM ClassifyInductive == ClassifySpec => []ClassifyInv
<1>1. ClassifyInv /\ [ClassifyNext]_classifyVars => ClassifyInv'
  BY ClassifyNextKeeps
<1> QED
  BY <1>1, ClassifyStarts, PTL DEF ClassifySpec

\* No application is swallowed, whatever sessions overlap and whatever fails: a mail that
\* one session judged to be one has an application in its thread or an item in the inbox.
THEOREM NoApplicationIsSwallowed == ClassifySpec => []JudgedIsVisible
<1>1. ClassifyInv => JudgedIsVisible
  BY DEF ClassifyInv
<1> QED
  BY <1>1, ClassifyInductive, PTL

-------------------------------------------------------------------------------
(* Links that HR proposes *)

Columns == [Targets -> SUBSET LinkedMails]

\* Only what was proposed can be resolved, and what it says is never changed.
LinkSound(h) ==
    LET l == linking[h] IN
    /\ l.pc \in {"propose", "resolve", "decide"} =>
        l.id \in Proposals /\ l.item \in InboxItems /\ l.target \in Targets
    /\ l.pc = "propose" =>
        /\ proposal[l.id].status = "none"
        /\ \A g \in Handlers \ {h} :
            linking[g].pc \in {"propose", "resolve", "decide"} => linking[g].id # l.id
    /\ l.pc \in {"resolve", "decide"} =>
        /\ proposal[l.id].status # "none"
        /\ proposal[l.id].item = l.item /\ proposal[l.id].target = l.target
        /\ l.was = "pending" /\ l.decision \in {"confirmed", "rejected"}
    /\ l.pc = "thread" => l.item \in ThreadMails

\* What was read of a column is still in it, unless an older one was written.
SeenStands(h) ==
    linking[h].pc \in {"decide", "thread"} =>
        \A t \in Targets \ crossed : linking[h].seen[t] \subseteq references[t]

ProposalsSound ==
    /\ \A p \in Proposals : proposal[p].status # "none" =>
        proposal[p].item \in InboxItems /\ proposal[p].target \in Targets
    /\ \A p \in contested : proposal[p].status # "none"

LinkInv ==
    /\ LinkTypeOK
    /\ ProposalsSound
    /\ LinksAgree
    /\ \A h \in Handlers : LinkSound(h) /\ SeenStands(h)

LEMMA NotLinkingTyped == NotLinking \in LinkState /\ NotLinking.pc = "idle"
BY DEF NotLinking, LinkState, LinkedMails

LEMMA LinkStarts == LinkInit => LinkInv
<1> SUFFICES ASSUME LinkInit PROVE LinkInv
  OBVIOUS
<1>1. LinkTypeOK
  BY LinkFaultsBounded, NotLinkingTyped
     DEF LinkInit, LinkTypeOK, NoProposal, ProposalRow, LinkedMails
<1>2. ProposalsSound /\ LinksAgree
  BY DEF LinkInit, ProposalsSound, LinksAgree, Confirmed, NoProposal
<1>3. \A h \in Handlers : LinkSound(h) /\ SeenStands(h)
  BY NotLinkingTyped DEF LinkInit, LinkSound, SeenStands
<1> QED
  BY <1>1, <1>2, <1>3 DEF LinkInv

\* A handler reads, and writes nothing.
LEMMA LinkReads ==
  ASSUME LinkInv, NEW h \in Handlers, NEW new \in LinkState,
         linking' = [linking EXCEPT ![h] = new],
         UNCHANGED <<proposal, references, inbox, threaded, crossed, contested>>,
         linkFaults' \in 0..MaxLinkFaults,
         \A g \in Handlers \ {h} :
            linking[g].pc = "propose" => new.pc \in {"idle", "thread"} \/ new.id # linking[g].id,
         LinkSound(h)', SeenStands(h)'
  PROVE  LinkInv'
<1>1. LinkTypeOK'
  BY DEF LinkInv, LinkTypeOK
<1>2. ProposalsSound' /\ LinksAgree'
  BY DEF LinkInv, ProposalsSound, LinksAgree, Confirmed
<1>3. linking'[h] = new /\ \A g \in Handlers \ {h} : linking'[g] = linking[g]
  BY DEF LinkInv, LinkTypeOK
<1>4. ASSUME NEW g \in Handlers \ {h} PROVE LinkSound(g)' /\ SeenStands(g)'
  <2>1. LinkSound(g) /\ SeenStands(g)
    BY DEF LinkInv
  <2>2. SeenStands(g)'
    BY <1>3, <2>1 DEF SeenStands
  <2>3. LinkSound(g)'
    BY <1>3, <2>1 DEF LinkSound
  <2> QED
    BY <2>2, <2>3
<1> QED
  BY <1>1, <1>2, <1>4 DEF LinkInv

LEMMA ReadsKeep ==
  ASSUME LinkInv, NEW h \in Handlers
  PROVE  /\ BeginPropose(h) => LinkInv'
         /\ BeginResolve(h) => LinkInv'
         /\ ReadTarget(h) => LinkInv'
         /\ BeginThreadLink(h) => LinkInv'
         /\ RollBackLink(h) => LinkInv'
<1>1. linking[h] \in LinkState /\ references \in Columns /\ linkFaults \in 0..MaxLinkFaults
  BY DEF LinkInv, LinkTypeOK, Columns
<1>2. ASSUME BeginPropose(h) PROVE LinkInv'
  <2>1. PICK p \in Proposals, i \in InboxItems, t \in Targets :
        /\ proposal[p].status = "none"
        /\ \A g \in Handlers : linking[g].id # p
        /\ linking' = [linking EXCEPT ![h] =
                [NotLinking EXCEPT !.pc = "propose", !.id = p, !.item = i, !.target = t]]
    BY <1>2 DEF BeginPropose
  <2> DEFINE new == [NotLinking EXCEPT !.pc = "propose", !.id = p, !.item = i, !.target = t]
  <2>2. new \in LinkState /\ new.pc = "propose" /\ new.id = p /\ new.item = i /\ new.target = t
    BY DEF NotLinking, LinkState, LinkedMails
  <2> HIDE DEF new
  <2>3. linking'[h] = new /\ \A g \in Handlers \ {h} : linking'[g] = linking[g]
    BY <2>1 DEF LinkInv, LinkTypeOK, new
  <2>4. LinkSound(h)' /\ SeenStands(h)'
    BY <1>2, <2>1, <2>2, <2>3 DEF BeginPropose, LinkSound, SeenStands
  <2>5. linking' = [linking EXCEPT ![h] = new]
    BY <2>1 DEF new
  <2>6. \A g \in Handlers \ {h} : new.id # linking[g].id
    BY <2>1, <2>2
  <2> QED
    BY <1>1, <1>2, <2>2, <2>4, <2>5, <2>6, LinkReads DEF BeginPropose
<1>3. ASSUME BeginResolve(h) PROVE LinkInv'
  <2>1. PICK p \in Proposals, d \in {"confirmed", "rejected"} :
        /\ Resolvable(p)
        /\ linking' = [linking EXCEPT ![h] =
                [NotLinking EXCEPT !.pc = "resolve", !.id = p, !.decision = d,
                                   !.was = proposal[p].status, !.item = proposal[p].item,
                                   !.target = proposal[p].target,
                                   !.shown = inbox[proposal[p].item].status]]
    BY <1>3 DEF BeginResolve
  <2> DEFINE new == [NotLinking EXCEPT !.pc = "resolve", !.id = p, !.decision = d,
                                   !.was = proposal[p].status, !.item = proposal[p].item,
                                   !.target = proposal[p].target,
                                   !.shown = inbox[proposal[p].item].status]
  <2>2. /\ proposal[p].status = "pending" /\ proposal[p].item \in InboxItems
        /\ proposal[p].target \in Targets
        /\ inbox[proposal[p].item].status \in
                {"needs_classification", "ready_for_review", "resolved"}
    BY <2>1 DEF Resolvable, LinkInv, LinkTypeOK, ProposalsSound
  <2>3. /\ new \in LinkState /\ new.pc = "resolve" /\ new.id = p /\ new.decision = d
        /\ new.was = "pending" /\ new.item = proposal[p].item
        /\ new.target = proposal[p].target
    BY <2>2 DEF NotLinking, LinkState, LinkedMails
  <2> HIDE DEF new
  <2>4. linking'[h] = new
    BY <2>1 DEF LinkInv, LinkTypeOK, new
  <2>5. LinkSound(h)' /\ SeenStands(h)'
    BY <1>3, <2>2, <2>3, <2>4 DEF BeginResolve, LinkSound, SeenStands
  <2>6. ASSUME NEW g \in Handlers \ {h}, linking[g].pc = "propose" PROVE new.id # linking[g].id
    BY <2>2, <2>3, <2>6 DEF LinkInv, LinkSound
  <2> QED
    BY ZenonT(60), <1>1, <1>3, <2>1, <2>3, <2>5, <2>6, LinkReads DEF BeginResolve, new
<1>4. ASSUME ReadTarget(h) PROVE LinkInv'
  <2> DEFINE new == [linking[h] EXCEPT !.pc = "decide", !.seen = references]
  <2>1. /\ new \in LinkState /\ new.pc = "decide" /\ new.id = linking[h].id
        /\ new.decision = linking[h].decision /\ new.was = linking[h].was
        /\ new.item = linking[h].item /\ new.target = linking[h].target
        /\ new.seen = references
    BY <1>1 DEF LinkState, Columns
  <2> HIDE DEF new
  <2>2. linking' = [linking EXCEPT ![h] = new] /\ linking[h].pc = "resolve"
    BY <1>4 DEF ReadTarget, Linking, new
  <2>3. linking'[h] = new
    BY <2>2 DEF LinkInv, LinkTypeOK
  <2>4. LinkSound(h)' /\ SeenStands(h)'
    BY <1>4, <2>1, <2>2, <2>3 DEF ReadTarget, LinkInv, LinkSound, SeenStands
  <2>5. ASSUME NEW g \in Handlers \ {h}, linking[g].pc = "propose" PROVE new.id # linking[g].id
    BY <2>1, <2>2, <2>5 DEF LinkInv, LinkSound
  <2> QED
    BY <1>1, <1>4, <2>1, <2>2, <2>4, <2>5, LinkReads DEF ReadTarget
<1>5. ASSUME BeginThreadLink(h) PROVE LinkInv'
  <2>1. PICK m \in ThreadMails :
        linking' = [linking EXCEPT ![h] =
                [NotLinking EXCEPT !.pc = "thread", !.item = m, !.seen = references]]
    BY <1>5 DEF BeginThreadLink
  <2> DEFINE new == [NotLinking EXCEPT !.pc = "thread", !.item = m, !.seen = references]
  <2>2. new \in LinkState /\ new.pc = "thread" /\ new.item = m /\ new.seen = references
    BY <1>1 DEF NotLinking, LinkState, LinkedMails, Columns
  <2> HIDE DEF new
  <2>3. linking'[h] = new
    BY <2>1 DEF LinkInv, LinkTypeOK, new
  <2>4. LinkSound(h)' /\ SeenStands(h)'
    BY <1>5, <2>2, <2>3 DEF BeginThreadLink, LinkSound, SeenStands
  <2> QED
    BY <1>1, <1>5, <2>1, <2>2, <2>4, LinkReads DEF BeginThreadLink, new
<1>6. ASSUME RollBackLink(h) PROVE LinkInv'
  <2>1. linking' = [linking EXCEPT ![h] = NotLinking] /\ linkFaults' \in 0..MaxLinkFaults
    BY <1>1, <1>6, LinkFaultsBounded DEF RollBackLink, LinkDone
  <2>2. linking'[h] = NotLinking
    BY <2>1 DEF LinkInv, LinkTypeOK
  <2>3. LinkSound(h)' /\ SeenStands(h)'
    BY <2>2, NotLinkingTyped DEF LinkSound, SeenStands
  <2> QED
    BY <1>6, <2>1, <2>3, NotLinkingTyped, LinkReads DEF RollBackLink
<1> QED
  BY <1>2, <1>3, <1>4, <1>5, <1>6

\* A proposal is written: what it says is new.
LEMMA CommitProposalKeeps ==
  ASSUME LinkInv, NEW h \in Handlers, CommitProposal(h)
  PROVE  LinkInv'
<1> DEFINE l == linking[h]
           row == [status |-> "pending", item |-> l.item, target |-> l.target]
<1>1. /\ l.id \in Proposals /\ l.item \in InboxItems /\ l.target \in Targets
      /\ proposal[l.id].status = "none" /\ l.id \notin contested
      /\ \A g \in Handlers \ {h} :
            linking[g].pc \in {"propose", "resolve", "decide"} => linking[g].id # l.id
  BY DEF CommitProposal, Linking, LinkInv, LinkSound, ProposalsSound
<1>2. /\ proposal' = [proposal EXCEPT ![l.id] = row]
      /\ linking' = [linking EXCEPT ![h] = NotLinking]
      /\ UNCHANGED <<references, inbox, linkFaults, threaded, crossed, contested>>
  BY DEF CommitProposal, LinkDone
<1>3. row \in ProposalRow /\ row.status = "pending" /\ row.item = l.item /\ row.target = l.target
  BY <1>1 DEF ProposalRow
<1> HIDE DEF row
<1>4. /\ proposal'[l.id] = row /\ \A p \in Proposals \ {l.id} : proposal'[p] = proposal[p]
      /\ linking'[h] = NotLinking /\ \A g \in Handlers \ {h} : linking'[g] = linking[g]
  BY <1>1, <1>2 DEF LinkInv, LinkTypeOK
<1>5. LinkTypeOK'
  BY <1>2, <1>3, NotLinkingTyped DEF LinkInv, LinkTypeOK
<1>6. contested \subseteq Proposals \ {l.id}
  BY <1>1 DEF LinkInv, LinkTypeOK
<1>7. ProposalsSound'
  BY <1>1, <1>2, <1>3, <1>4, <1>6 DEF LinkInv, ProposalsSound
<1>8. \A t \in Targets : Confirmed(t)' = Confirmed(t)
  BY <1>1, <1>3, <1>4 DEF Confirmed
<1>9. LinksAgree'
  BY <1>2, <1>4, <1>6, <1>8 DEF LinkInv, LinksAgree
<1>10. ASSUME NEW g \in Handlers PROVE LinkSound(g)' /\ SeenStands(g)'
  <2>1. CASE g = h
    BY <1>4, <2>1, NotLinkingTyped DEF LinkSound, SeenStands
  <2>2. CASE g # h
    <3>1. LinkSound(g) /\ SeenStands(g) /\ linking'[g] = linking[g]
      BY <1>4, <2>2 DEF LinkInv
    <3>2. SeenStands(g)'
      BY <1>2, <3>1 DEF SeenStands
    <3>3. LinkSound(g)'
      BY <1>1, <1>4, <2>2, <3>1, NotLinkingTyped DEF LinkSound
    <3> QED
      BY <3>2, <3>3
  <2> QED
    BY <2>1, <2>2
<1> QED
  BY <1>5, <1>7, <1>9, <1>10 DEF LinkInv

\* What h writes of a column that is not crossed is the column and the mail.
LEMMA Writes ==
  ASSUME LinkInv, NEW h \in Handlers, linking[h].pc \in {"decide", "thread"},
         NEW t \in Targets \ crossed, NEW email \in LinkedMails, ~Overwrites(h, t, email)
  PROVE  Appended(h, t, email) = references[t] \cup {email}
<1>1. linking[h].seen[t] \subseteq references[t]
  BY DEF LinkInv, SeenStands
<1> QED
  BY <1>1 DEF Overwrites, Appended

LEMMA WritesTyped ==
  ASSUME LinkInv, NEW h \in Handlers, NEW t \in Targets, NEW email \in LinkedMails
  PROVE  Appended(h, t, email) \subseteq LinkedMails
BY DEF LinkInv, LinkTypeOK, LinkState, Appended

\* Columns are written and h is done; the proposals say what they said.
LEMMA LinkWrites ==
  ASSUME LinkInv, NEW h \in Handlers, LinkTypeOK', LinksAgree', ProposalsSound',
         linking' = [linking EXCEPT ![h] = NotLinking],
         crossed \subseteq crossed',
         \A t \in Targets \ crossed' : references[t] \subseteq references'[t],
         \A p \in Proposals :
            /\ proposal'[p].item = proposal[p].item /\ proposal'[p].target = proposal[p].target
            /\ proposal[p].status = "none" <=> proposal'[p].status = "none"
  PROVE  LinkInv'
<1>1. linking'[h] = NotLinking /\ \A g \in Handlers \ {h} : linking'[g] = linking[g]
  BY DEF LinkInv, LinkTypeOK
<1>2. ASSUME NEW g \in Handlers PROVE LinkSound(g)' /\ SeenStands(g)'
  <2>1. CASE g = h
    BY <1>1, <2>1, NotLinkingTyped DEF LinkSound, SeenStands
  <2>2. CASE g # h
    <3>1. LinkSound(g) /\ SeenStands(g) /\ linking'[g] = linking[g]
      BY <1>1, <2>2 DEF LinkInv
    <3>2. SeenStands(g)'
      BY <3>1 DEF SeenStands
    <3>3. LinkSound(g)'
      BY <1>1, <3>1, NotLinkingTyped DEF LinkSound
    <3> QED
      BY <3>2, <3>3
  <2> QED
    BY <2>1, <2>2
<1> QED
  BY <1>2 DEF LinkInv

\* The worker links the mail in every application of the thread.
LEMMA CommitThreadKeeps ==
  ASSUME LinkInv, NEW h \in Handlers, CommitThreadLink(h)
  PROVE  LinkInv'
<1> DEFINE m == linking[h].item
<1>1. m \in ThreadMails /\ m \in LinkedMails /\ linking[h].pc = "thread"
  BY DEF CommitThreadLink, Linking, LinkInv, LinkSound, LinkedMails
<1>2. /\ references' = [t \in Targets |-> Appended(h, t, m)]
      /\ crossed' = crossed \cup {t \in Targets : Overwrites(h, t, m)}
      /\ threaded' = threaded \cup {m}
      /\ linking' = [linking EXCEPT ![h] = NotLinking]
      /\ UNCHANGED <<proposal, inbox, linkFaults, contested>>
  BY DEF CommitThreadLink, LinkDone
<1>3. ASSUME NEW t \in Targets \ crossed' PROVE references'[t] = references[t] \cup {m}
  BY <1>1, <1>2, Writes
<1>4. LinkTypeOK'
  <2>1. references' \in [Targets -> SUBSET LinkedMails]
    BY <1>1, <1>2, WritesTyped
  <2> QED
    BY <1>1, <1>2, <2>1, NotLinkingTyped DEF LinkInv, LinkTypeOK
<1>5. ProposalsSound'
  BY <1>2 DEF LinkInv, ProposalsSound
<1>6. LinksAgree'
  BY <1>2, <1>3 DEF LinkInv, LinksAgree, Confirmed
<1> QED
  BY <1>2, <1>3, <1>4, <1>5, <1>6, LinkWrites

\* HR's decision: one application, one proposal and its item.
LEMMA CommitResolutionKeeps ==
  ASSUME LinkInv, NEW h \in Handlers, CommitResolution(h)
  PROVE  LinkInv'
<1> DEFINE l == linking[h]
           links == l.decision = "confirmed"
           status == IF links THEN "resolved" ELSE "ready_for_review"
<1>1. /\ l.id \in Proposals /\ l.item \in InboxItems /\ l.target \in Targets
      /\ l.pc = "decide" /\ l.was = "pending" /\ l.decision \in {"confirmed", "rejected"}
      /\ proposal[l.id].status # "none" /\ proposal[l.id].item = l.item
      /\ proposal[l.id].target = l.target
  BY DEF CommitResolution, Linking, LinkInv, LinkSound
<1>2. /\ references' = IF links
                       THEN [references EXCEPT ![l.target] = Appended(h, l.target, l.item)]
                       ELSE references
      /\ crossed' = IF links /\ Overwrites(h, l.target, l.item)
                    THEN crossed \cup {l.target} ELSE crossed
      /\ inbox' = [inbox EXCEPT ![l.item].status = IF status = l.shown THEN @ ELSE status]
      /\ contested' = IF proposal[l.id].status = l.was THEN contested
                      ELSE contested \cup {l.id}
      /\ proposal' = [proposal EXCEPT ![l.id].status = l.decision]
      /\ linking' = [linking EXCEPT ![h] = NotLinking]
      /\ UNCHANGED <<linkFaults, threaded>>
  BY DEF CommitResolution, LinkDone
<1>3. /\ proposal'[l.id].status = l.decision
      /\ \A p \in Proposals \ {l.id} : proposal'[p] = proposal[p]
      /\ \A p \in Proposals :
            proposal'[p].item = proposal[p].item /\ proposal'[p].target = proposal[p].target
  BY <1>1, <1>2 DEF LinkInv, LinkTypeOK, ProposalRow
<1>4. LinkTypeOK'
  <2>1. references' \in [Targets -> SUBSET LinkedMails]
    BY <1>1, <1>2, WritesTyped DEF LinkInv, LinkTypeOK, LinkedMails
  <2>2. proposal' \in [Proposals -> ProposalRow]
    <3>1. PICK row : row = [proposal[l.id] EXCEPT !.status = l.decision]
      OBVIOUS
    <3>2. proposal[l.id] \in ProposalRow
      BY <1>1 DEF LinkInv, LinkTypeOK
    <3>3. row \in ProposalRow
      BY <1>1, <3>1, <3>2 DEF ProposalRow
    <3>4. proposal' = [proposal EXCEPT ![l.id] = row]
      BY <1>2, <3>1
    <3> QED
      BY <3>3, <3>4 DEF LinkInv, LinkTypeOK
  <2>3. inbox' \in [InboxItems ->
            [status : {"needs_classification", "ready_for_review", "resolved"},
             dismissed : BOOLEAN]]
    BY <1>1, <1>2 DEF LinkInv, LinkTypeOK
  <2> QED
    BY <1>1, <1>2, <2>1, <2>2, <2>3, NotLinkingTyped DEF LinkInv, LinkTypeOK
<1>5. ProposalsSound'
  BY <1>1, <1>2, <1>3 DEF LinkInv, ProposalsSound, LinkTypeOK
<1>6. ASSUME NEW t \in Targets \ crossed'
      PROVE  references'[t] = IF links /\ t = l.target THEN references[t] \cup {l.item}
                              ELSE references[t]
  <2>1. CASE links /\ t = l.target
    <3>1. t \in Targets \ crossed /\ ~Overwrites(h, t, l.item) /\ l.item \in LinkedMails
      BY <1>1, <1>2, <1>6, <2>1 DEF LinkedMails
    <3>2. Appended(h, t, l.item) = references[t] \cup {l.item}
      BY <1>1, <3>1, Writes
    <3> QED
      BY <1>2, <2>1, <3>2 DEF LinkInv, LinkTypeOK
  <2>2. CASE ~(links /\ t = l.target)
    BY <1>2, <2>2 DEF LinkInv, LinkTypeOK
  <2> QED
    BY <2>1, <2>2
<1>7. ASSUME NEW t \in Targets \ crossed', \A p \in contested' : proposal'[p].target # t
      PROVE  references'[t] = threaded' \cup Confirmed(t)'
  <2>1. references[t] = threaded \cup Confirmed(t)
    <3>1. t \notin crossed /\ contested \subseteq contested' /\ contested' \subseteq Proposals
      BY <1>2, <1>4, <1>7 DEF LinkTypeOK
    <3>2. \A p \in contested : proposal[p].target # t
      BY <1>3, <1>7, <3>1
    <3> QED
      BY <3>1, <3>2 DEF LinkInv, LinksAgree
  <2>2. CASE t # l.target
    <3>1. Confirmed(t)' = Confirmed(t)
      BY <1>1, <1>3, <2>2 DEF Confirmed
    <3> QED
      BY <1>2, <1>6, <2>1, <2>2, <3>1
  <2>3. CASE t = l.target
    <3>1. proposal[l.id].status = "pending"
      BY <1>1, <1>2, <1>3, <1>7, <2>3
    <3>2. Confirmed(t)' = IF links THEN Confirmed(t) \cup {l.item} ELSE Confirmed(t)
      BY <1>1, <1>3, <2>3, <3>1 DEF Confirmed
    <3> QED
      BY <1>2, <1>6, <2>1, <2>3, <3>2
  <2> QED
    BY <2>2, <2>3
<1>8. LinksAgree'
  BY <1>7 DEF LinksAgree
<1>9. \A t \in Targets \ crossed' : references[t] \subseteq references'[t]
  BY <1>6
<1>10. \A p \in Proposals : proposal[p].status = "none" <=> proposal'[p].status = "none"
  BY <1>1, <1>3
<1>11. crossed \subseteq crossed'
  BY <1>2
<1> QED
  BY <1>2, <1>3, <1>4, <1>5, <1>8, <1>9, <1>10, <1>11, LinkWrites

LEMMA LinkNextKeeps ==
  ASSUME LinkInv, [LinkNext]_linkVars
  PROVE  LinkInv'
<1>1. ASSUME NEW i \in InboxItems, Dismiss(i) PROVE LinkInv'
  BY <1>1 DEF Dismiss, LinkInv, LinkTypeOK, ProposalsSound, LinksAgree, Confirmed, LinkSound,
              SeenStands
<1>2. CASE UNCHANGED linkVars
  BY <1>2 DEF linkVars, LinkInv, LinkTypeOK, ProposalsSound, LinksAgree, Confirmed, LinkSound,
              SeenStands
<1> QED
  BY <1>1, <1>2, ReadsKeep, CommitProposalKeeps, CommitThreadKeeps, CommitResolutionKeeps
     DEF LinkNext

\* What a request or a worker relies on between its reads and its commit.
THEOREM LinkInductive == LinkSpec => []LinkInv
<1>1. LinkInv /\ [LinkNext]_linkVars => LinkInv'
  BY LinkNextKeeps
<1> QED
  BY <1>1, LinkStarts, PTL DEF LinkSpec

\* "A cross-thread link that has no effect until HR resolves it" (entities.py:531).
THEOREM LinksAreDecided == LinkSpec => []LinksAgree
<1>1. LinkInv => LinksAgree
  BY DEF LinkInv
<1> QED
  BY <1>1, LinkInductive, PTL

===============================================================================
