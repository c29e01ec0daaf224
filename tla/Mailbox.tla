-------------------------------- MODULE Mailbox --------------------------------
(***************************************************************************)
(* The organization's mailbox as the mail jobs see it: the account it is   *)
(* connected to, the account whose access token the row holds, and the     *)
(* cursor of the synchronisation. Whoever changes the account forgets the  *)
(* cursor in the same transaction. GoogleConnection implements this.       *)
(***************************************************************************)
EXTENDS Server

CONSTANTS
    Accounts,  \* Google accounts
    Positions  \* where the synchronisation may be

ASSUME NoneIsNoAccount == None \notin Accounts \cup Positions

VARIABLES
    account,  \* of the refresh token
    access,   \* of the access token
    cursor    \* the row of sync_cursors

mailboxVars == <<account, access, cursor>>

MailboxInit ==
    /\ account = None
    /\ access = None
    /\ cursor = None

\* callback, for the first time, again, or with another account
Connect(a) ==
    /\ account' = a
    /\ access' = a
    /\ cursor' = None

\* disconnect, and mark_reauthorization_required for grants of the old kind. What
\* was not there when the handler read the row is not taken away from a connection
\* that was made meanwhile; the cursor is.
Disconnect ==
    /\ account' \in {account, None}
    /\ access' \in {access, None}
    /\ cursor' = None

AccountStep == Disconnect \/ \E a \in Accounts : Connect(a)

\* A poll has committed where it got to.
MoveCursor(position) ==
    /\ cursor' = position
    /\ UNCHANGED <<account, access>>

\* A renewal has committed. It asked for a token of the account it had read, which
\* need not be the connected one any more.
WriteToken(a) ==
    /\ access' = a
    /\ UNCHANGED <<account, cursor>>

TokenStep == \E a \in Accounts : WriteToken(a)

MailboxNext ==
    \/ AccountStep
    \/ TokenStep
    \/ \E position \in Positions : MoveCursor(position)

MailboxSpec == MailboxInit /\ [][MailboxNext]_mailboxVars
===============================================================================
