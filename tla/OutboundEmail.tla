----------------------------- MODULE OutboundEmail -----------------------------
(***************************************************************************)
(* Mail that HR sends (gmail/application/outbound_email_service.py): a     *)
(* command is created once per content, then sent and retried by hand.     *)
(* Three transactions surround the call of Gmail, nothing locks the row    *)
(* and every UPDATE names it by its id alone.                              *)
(***************************************************************************)
EXTENDS Naturals, Server

CONSTANTS
    Mails,          \* contents, each with its idempotency key
    MaxRetries,     \* max_retries
    MaxSends,       \* bound: sends begun
    MaxMailFaults   \* bound: refusals, lost answers and crashes

ASSUME NoneIsNoMail == None \notin Mails
ASSUME SendBounds == MaxSends \in Nat /\ MaxMailFaults \in Nat

VARIABLES
    outbound,   \* outbound_emails
    delivered,  \* per mail: how often Gmail accepted it
    usable,     \* the connection of the organization is connected
    sends,      \* per handler: the send it is at
    sendCount,  \* sends begun so far
    mailFaults  \* failures so far

outboundVars == <<outbound, delivered, usable, sends, sendCount, mailFaults>>

-------------------------------------------------------------------------------
(* Types *)

NoSend == [pc |-> "idle", mail |-> None, retries |-> 0]

OutboundTypeOK ==
    /\ outbound \in [Mails -> [status : {"none", "pending", "sending", "sent", "failed"},
                               retries : Nat]]
    /\ delivered \in [Mails -> Nat]
    /\ usable \in BOOLEAN
    /\ sends \in [Handlers -> [pc : {"idle", "read", "call", "accepted", "transient",
                                     "unauthorized", "refused"},
                               mail : Mails \cup {None}, retries : Nat]]
    /\ sendCount \in 0..MaxSends
    /\ mailFaults \in 0..MaxMailFaults

OutboundInit ==
    /\ outbound = [m \in Mails |-> [status |-> "none", retries |-> 0]]
    /\ delivered = [m \in Mails |-> 0]
    /\ usable \in BOOLEAN
    /\ sends = [h \in Handlers |-> NoSend]
    /\ sendCount = 0
    /\ mailFaults = 0

Failing ==
    /\ mailFaults < MaxMailFaults
    /\ mailFaults' = mailFaults + 1

-------------------------------------------------------------------------------
(* create_outbound, and the connection *)

\* The unique key refuses a second command with the same content.
CreateOutbound(m) ==
    /\ outbound[m].status = "none"
    /\ outbound' = [outbound EXCEPT ![m].status = "pending"]
    /\ UNCHANGED <<delivered, usable, sends, sendCount, mailFaults>>

\* HR connects the organization anew (GoogleConnection).
Reconnect ==
    /\ ~usable
    /\ usable' = TRUE
    /\ UNCHANGED <<outbound, delivered, sends, sendCount, mailFaults>>

-------------------------------------------------------------------------------
(* send_outbound, retry_outbound *)

\* A retry asks whether there were too many, a send does not.
BeginSend(h, m, op) ==
    /\ sends[h] = NoSend
    /\ outbound[m].status \notin {"none", "sent"}
    /\ op = "retry" => outbound[m].retries < MaxRetries
    /\ usable
    /\ sendCount < MaxSends
    /\ sendCount' = sendCount + 1
    /\ sends' = [sends EXCEPT ![h] = [pc |-> "read", mail |-> m,
                                      retries |-> outbound[m].retries + 1]]
    /\ UNCHANGED <<outbound, delivered, usable, mailFaults>>

Moves(h, pc, next) ==
    /\ sends[h].pc = pc
    /\ sends' = [sends EXCEPT ![h].pc = next]

Ends(h, pc) ==
    /\ sends[h].pc = pc
    /\ sends' = [sends EXCEPT ![h] = NoSend]

\* Mutant: the mail is called sent before Gmail has accepted it.
Optimistic == "sent"

\* The status that is committed before the call.
Underway == "sending"

MarkSending(h) ==
    /\ Moves(h, "read", "call")
    /\ outbound' = [outbound EXCEPT
            ![sends[h].mail] = [status |-> Underway, retries |-> sends[h].retries]]
    /\ UNCHANGED <<delivered, usable, sendCount, mailFaults>>

Deliver(h) == delivered' = [delivered EXCEPT ![sends[h].mail] = @ + 1]

GmailAccepts(h) ==
    /\ Moves(h, "call", "accepted")
    /\ Deliver(h)
    /\ UNCHANGED <<outbound, usable, sendCount, mailFaults>>

\* The answer is lost: retry_with_backoff posts the mail again, or gives up.
AnswerLost(h) ==
    /\ Failing
    /\ Moves(h, "call", "call") \/ Moves(h, "call", "transient")
    /\ Deliver(h)
    /\ UNCHANGED <<outbound, usable, sendCount>>

\* A network failure or rate limit; a 401; any other refusal.
GmailRefuses(h, reason) ==
    /\ Failing
    /\ reason \in {"transient", "unauthorized", "refused"}
    /\ Moves(h, "call", reason)
    /\ UNCHANGED <<outbound, delivered, usable, sendCount>>

MarkSent(h) ==
    /\ Ends(h, "accepted")
    /\ outbound' = [outbound EXCEPT ![sends[h].mail].status = "sent"]
    /\ UNCHANGED <<delivered, usable, sendCount, mailFaults>>

\* _handle_send_error: the connection first, in a transaction of its own.
MarkUnusable(h) ==
    /\ Moves(h, "unauthorized", "refused")
    /\ usable' = FALSE
    /\ UNCHANGED <<outbound, delivered, sendCount, mailFaults>>

\* A failure that may pass leaves the mail to be retried by hand.
RecordFailure(h) ==
    /\ Ends(h, "transient") \/ Ends(h, "refused")
    /\ outbound' = [outbound EXCEPT ![sends[h].mail].status =
            IF sends[h].pc = "transient" /\ sends[h].retries < MaxRetries
            THEN "pending" ELSE "failed"]
    /\ UNCHANGED <<delivered, usable, sendCount, mailFaults>>

\* The process dies between two of the transactions.
SenderDies(h) ==
    /\ Failing
    /\ sends[h].pc # "idle"
    /\ sends' = [sends EXCEPT ![h] = NoSend]
    /\ UNCHANGED <<outbound, delivered, usable, sendCount>>

SendStep(h) ==
    \/ \E m \in Mails, op \in {"send", "retry"} : BeginSend(h, m, op)
    \/ MarkSending(h)
    \/ GmailAccepts(h)
    \/ AnswerLost(h)
    \/ \E reason \in {"transient", "unauthorized", "refused"} : GmailRefuses(h, reason)
    \/ MarkSent(h)
    \/ MarkUnusable(h)
    \/ RecordFailure(h)
    \/ SenderDies(h)

OutboundNext ==
    \/ \E m \in Mails : CreateOutbound(m)
    \/ Reconnect
    \/ \E h \in Handlers : SendStep(h)

OutboundSpec == OutboundInit /\ [][OutboundNext]_outboundVars

-------------------------------------------------------------------------------
(* Properties *)

\* What HR is told was sent has left: whichever sends and retries overlap, fail
\* or die between their transactions, a mail marked sent was accepted by Gmail.
SentWasDelivered == \A m \in Mails : outbound[m].status = "sent" => delivered[m] > 0

\* "The idempotency_key prevents duplicate sends on retry."
DeliveredOnce == \A m \in Mails : delivered[m] <= 1
===============================================================================
