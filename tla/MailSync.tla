-------------------------------- MODULE MailSync -------------------------------
(***************************************************************************)
(* Incremental mail synchronisation                                        *)
(* (gmail/application/email_sync_service.py): a cron job, or HR by hand,   *)
(* asks Gmail for what was added since the cursor, stores it and moves the *)
(* cursor. A poll is one transaction; two of them may overlap, and the     *)
(* connection may change under them.                                       *)
(*                                                                         *)
(* The cursor is a bare number. Whose history it counts, and from where    *)
(* on, is kept beside it (of, from) for the properties alone.              *)
(***************************************************************************)
EXTENDS Mailbox, Naturals, FiniteSets

CONSTANTS
    Workers,       \* bound: polls that run at the same time
    MaxMail,       \* bound: messages that arrive in one account
    Page,          \* batch_size: the messages one poll asks for
    Filed,         \* numbers of the messages that are not in the INBOX
    MaxChanges,    \* bound: connections and disconnections
    MaxSyncFaults  \* bound: what fails or is refused

ASSUME SyncBounds == MaxMail \in Nat /\ Page \in Nat

VARIABLES
    mail,       \* per account: messages that have arrived, which is its history id
    forgotten,  \* per account: how much of its history Gmail no longer tells
    stored,     \* email_messages
    skipped,    \* messages the sync passed by with the cursor going on
    polls,      \* per worker: the poll it runs
    changes,    \* connections and disconnections so far
    faults      \* failures so far

gmailVars == <<mail, forgotten>>
storeVars == <<stored, skipped>>
syncVars == <<mailboxVars, gmailVars, storeVars, polls, changes, faults>>

-------------------------------------------------------------------------------
(* Types *)

Messages == Accounts \X (1..MaxMail)

Cursor == [of : Accounts, from : 0..MaxMail, at : 0..MaxMail]

NoPoll == [pc |-> "idle", refresh |-> None, token |-> None, renewed |-> FALSE,
           seen |-> None, at |-> 0, kept |-> {}, passed |-> {}]

SyncTypeOK ==
    /\ account \in Accounts \cup {None}
    /\ access \in Accounts \cup {None}
    /\ cursor \in Cursor \cup {None}
    /\ mail \in [Accounts -> 0..MaxMail]
    /\ forgotten \in [Accounts -> 0..MaxMail]
    /\ stored \subseteq Messages
    /\ skipped \subseteq Messages
    /\ polls \in [Workers -> [pc : {"idle", "fetch", "baseline", "persist"},
                              refresh : Accounts \cup {None},
                              token : Accounts \cup {None}, renewed : BOOLEAN,
                              seen : Cursor \cup {None}, at : 0..MaxMail,
                              kept : SUBSET Messages, passed : SUBSET Messages]]
    /\ changes \in 0..MaxChanges
    /\ faults \in 0..MaxSyncFaults

SyncInit ==
    /\ MailboxInit
    /\ mail = [a \in Accounts |-> 0]
    /\ forgotten = [a \in Accounts |-> 0]
    /\ stored = {}
    /\ skipped = {}
    /\ polls = [w \in Workers |-> NoPoll]
    /\ changes = 0
    /\ faults = 0

-------------------------------------------------------------------------------
(* Gmail and the connection *)

Fault(n) ==
    /\ faults + n <= MaxSyncFaults
    /\ faults' = faults + n

Arrive(a) ==
    /\ mail[a] < MaxMail
    /\ mail' = [mail EXCEPT ![a] = @ + 1]
    /\ UNCHANGED <<mailboxVars, forgotten, storeVars, polls, changes, faults>>

\* Gmail keeps its history for about a week.
Forget(a) ==
    /\ forgotten[a] < mail[a]
    /\ Fault(1)
    /\ forgotten' = [forgotten EXCEPT ![a] = mail[a]]
    /\ UNCHANGED <<mailboxVars, mail, storeVars, polls, changes>>

\* HR connects or disconnects, or somebody else renews the token. A poll that has
\* written a renewed token keeps the row locked until it ends.
ChangeAccount ==
    /\ changes < MaxChanges
    /\ \A w \in Workers : ~polls[w].renewed
    /\ AccountStep \/ TokenStep
    /\ changes' = changes + 1
    /\ UNCHANGED <<gmailVars, storeVars, polls, faults>>

Between(a, low, high) == {<<a, n>> : n \in (low + 1)..high}

\* fetch_history: one page of the history, and the present history id.
PageFrom(a, at) == Between(a, at, IF at + Page < mail[a] THEN at + Page ELSE mail[a])

InInbox(messages) == {m \in messages : m[2] \notin Filed}

-------------------------------------------------------------------------------
(* poll_emails, manual_sync *)

PollIs(w, poll) == polls' = [polls EXCEPT ![w] = poll]

\* The connection and the cursor are read once. Without a token nothing is asked.
BeginPoll(w) ==
    /\ polls[w].pc = "idle"
    /\ access # None
    /\ PollIs(w, [NoPoll EXCEPT !.pc = "fetch", !.refresh = account, !.token = access,
                              !.seen = cursor])
    /\ UNCHANGED <<mailboxVars, gmailVars, storeVars, changes, faults>>

\* _handle_connection_token_refresh, when the token has expired or was refused:
\* the row is written, and stays locked until the poll commits.
RenewToken(w) ==
    LET poll == polls[w] IN
    /\ poll.pc = "fetch"
    /\ poll.refresh # None
    /\ \A other \in Workers : ~polls[other].renewed
    /\ PollIs(w, [poll EXCEPT !.renewed = TRUE, !.token = poll.refresh])
    /\ UNCHANGED <<mailboxVars, gmailVars, storeVars, changes, faults>>

\* No cursor: the present history id becomes one.
FetchBaseline(w) ==
    LET poll == polls[w] IN
    /\ poll.pc = "fetch"
    /\ poll.seen = None
    /\ PollIs(w, [poll EXCEPT !.pc = "baseline", !.at = mail[poll.token]])
    /\ UNCHANGED <<mailboxVars, gmailVars, storeVars, changes, faults>>

\* Gmail still knows the history from there on.
Known(a, at) == forgotten[a] <= at /\ at <= mail[a]

\* Messages whose metadata cannot be read are left out, those beyond the page
\* are never asked for.
FetchHistory(w, unread) ==
    LET poll == polls[w]
        a == poll.token
        page == PageFrom(a, poll.seen.at)
    IN
    /\ poll.pc = "fetch"
    /\ poll.seen # None
    /\ Known(a, poll.seen.at)
    /\ unread \subseteq page
    /\ Fault(Cardinality(unread))
    /\ PollIs(w, [poll EXCEPT
            !.pc = "persist", !.at = mail[a],
            !.kept = InInbox(page \ unread),
            !.passed = InInbox(unread \cup (Between(a, poll.seen.at, mail[a]) \ page))])
    /\ UNCHANGED <<mailboxVars, gmailVars, storeVars, changes>>

\* 404: the adapter turns it into a GmailFetchError, the branch that clears the
\* cursor is not reached, and the poll is rolled back.
HistoryExpired(w) ==
    LET poll == polls[w] IN
    /\ poll.pc = "fetch"
    /\ poll.seen # None
    /\ ~Known(poll.token, poll.seen.at)
    /\ PollIs(w, NoPoll)
    /\ UNCHANGED <<mailboxVars, gmailVars, storeVars, changes, faults>>

\* The transaction ends: a renewed token is written over whatever the row says.
CommitTokens(w) ==
    LET poll == polls[w] IN
    /\ access' = IF poll.renewed THEN poll.token ELSE access
    /\ PollIs(w, NoPoll)
    /\ UNCHANGED <<account, gmailVars, changes>>

\* upsert_cursor looks for the row again, and makes one if it has gone.
CommitBaseline(w) ==
    LET poll == polls[w] IN
    /\ poll.pc = "baseline"
    /\ cursor' = [of |-> poll.token, from |-> poll.at, at |-> poll.at]
    /\ CommitTokens(w)
    /\ UNCHANGED <<storeVars, faults>>

\* Mutant: the cursor moves although some message was not stored.
Always(failed) == TRUE

\* "Do not advance the cursor when any message failed; retry it next cycle."
MayAdvance(failed) == failed = {}

\* batch_upsert stores each message in a savepoint of its own.
CommitPoll(w, failed) ==
    LET poll == polls[w]
        start == IF poll.seen.of = poll.token THEN poll.seen.from ELSE poll.seen.at
    IN
    /\ poll.pc = "persist"
    /\ failed \subseteq poll.kept
    /\ Fault(Cardinality(failed))
    /\ stored' = stored \cup (poll.kept \ failed)
    /\ IF MayAdvance(failed)
       THEN /\ cursor' = [of |-> poll.token, from |-> start, at |-> poll.at]
            /\ skipped' = skipped \cup poll.passed
       ELSE UNCHANGED <<cursor, skipped>>
    /\ CommitTokens(w)

\* Google refuses the token or the renewal, the database fails, or the process
\* dies: nothing is changed. A grant that is gone leaves the status alone: the
\* adapter reports it in words that are not looked for.
PollFails(w) ==
    /\ polls[w].pc # "idle"
    /\ Fault(1)
    /\ PollIs(w, NoPoll)
    /\ UNCHANGED <<mailboxVars, gmailVars, storeVars, changes>>

PollStep(w) ==
    \/ BeginPoll(w)
    \/ FetchBaseline(w)
    \/ \E unread \in SUBSET Messages : FetchHistory(w, unread)
    \/ HistoryExpired(w)
    \/ CommitBaseline(w)
    \/ \E failed \in SUBSET polls[w].kept : CommitPoll(w, failed)

SyncNext ==
    \/ ChangeAccount
    \/ \E a \in Accounts : Arrive(a) \/ Forget(a)
    \/ \E w \in Workers : PollStep(w) \/ RenewToken(w) \/ PollFails(w)

SyncSpec == SyncInit /\ [][SyncNext]_syncVars

\* The cron job polls again and again, and a poll ends.
SyncFairness == \A w \in Workers : WF_syncVars(PollStep(w))

LiveSyncSpec == SyncSpec /\ SyncFairness

-------------------------------------------------------------------------------
(* Properties *)

\* What the cursor has passed is in the database: however polls overlap, fail or
\* meet a new connection, an INBOX message between the baseline and the cursor
\* is stored, or was passed by because its metadata could not be read or it was
\* beyond the page (email_sync_service.py:336-382).
CursorCovers ==
    cursor # None =>
        InInbox(Between(cursor.of, cursor.from, cursor.at)) \subseteq stored \cup skipped

\* "Clear the cursor so the next poll establishes a fresh baseline": after an
\* account was switched, the cursor counts the history of the new one.
FreshBaseline ==
    account # None /\ cursor # None => cursor.of = account

\* "Clearing cursor before bounded recovery": a cursor that Gmail no longer knows
\* does not stay.
SyncRecovers ==
    (cursor # None /\ cursor.at < forgotten[cursor.of])
        ~> (cursor = None \/ cursor.at >= forgotten[cursor.of])
===============================================================================
