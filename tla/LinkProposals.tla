----------------------------- MODULE LinkProposals -----------------------------
(***************************************************************************)
(* A mail of another thread is linked to a job application by two requests *)
(* of HR: a proposal, which changes nothing, and its resolution            *)
(* (recruitment/application/inbox_service.py). Mails of the application's  *)
(* own thread are linked by the worker that classified them, in the same   *)
(* column (job_application_service.py). That column, message_references,   *)
(* is read as a whole and written as a whole, without a lock; a request    *)
(* writes all its rows at its end.                                         *)
(***************************************************************************)
EXTENDS Naturals, FiniteSets, Server

CONSTANTS
    Proposals,     \* bound: proposals ever made
    InboxItems,    \* bound: inbox items of other threads, each with its mail
    ThreadMails,   \* bound: mails of the applications' thread
    Targets,       \* bound: job applications, all of one thread
    MaxLinkFaults  \* bound: requests and batches that fail

ASSUME LinkFaultsBounded == MaxLinkFaults \in Nat

VARIABLES
    proposal,    \* job_application_link_proposals
    references,  \* message_references of each application
    inbox,       \* recruitment_inbox_items: status and dismissal
    linking,     \* what each handler or worker is doing
    linkFaults,
    threaded,    \* history: mails of the thread a worker linked
    crossed,     \* history: applications whose column was written over a newer one
    contested    \* history: proposals that two requests resolved at once

linkVars == <<proposal, references, inbox, linking, linkFaults, threaded, crossed, contested>>

-------------------------------------------------------------------------------

LinkedMails == InboxItems \cup ThreadMails

NoProposal == [status |-> "none", item |-> None, target |-> None]
NotLinking == [pc |-> "idle", id |-> None, was |-> None, decision |-> None,
               item |-> None, shown |-> None, target |-> None,
               seen |-> [t \in Targets |-> {}]]

LinkInit ==
    /\ proposal = [p \in Proposals |-> NoProposal]
    /\ references = [t \in Targets |-> {}]
    /\ inbox = [i \in InboxItems |-> [status |-> "needs_classification", dismissed |-> FALSE]]
    /\ linking = [h \in Handlers |-> NotLinking]
    /\ linkFaults = 0
    /\ threaded = {}
    /\ crossed = {}
    /\ contested = {}

ProposalRow ==
    [status : {"none", "pending", "confirmed", "rejected"},
     item : InboxItems \cup {None}, target : Targets \cup {None}]

LinkState ==
    [pc : {"idle", "propose", "resolve", "decide", "thread"},
     id : Proposals \cup {None}, was : {"pending", None},
     decision : {"confirmed", "rejected", None}, item : LinkedMails \cup {None},
     shown : {"needs_classification", "ready_for_review", "resolved", None},
     target : Targets \cup {None}, seen : [Targets -> SUBSET LinkedMails]]

LinkTypeOK ==
    /\ proposal \in [Proposals -> ProposalRow]
    /\ linking \in [Handlers -> LinkState]
    /\ references \in [Targets -> SUBSET LinkedMails]
    /\ inbox \in [InboxItems ->
            [status : {"needs_classification", "ready_for_review", "resolved"},
             dismissed : BOOLEAN]]
    /\ linkFaults \in 0..MaxLinkFaults
    /\ threaded \subseteq ThreadMails /\ crossed \subseteq Targets
    /\ contested \subseteq Proposals

Linking(h, pc) == linking[h].pc = pc
LinkDone(h) == linking' = [linking EXCEPT ![h] = NotLinking]

-------------------------------------------------------------------------------
(* HR *)

\* propose_cross_thread_link: the item is not dismissed when it is read, and of
\* another thread than the application.
BeginPropose(h) ==
    /\ Linking(h, "idle")
    /\ \E p \in Proposals, i \in InboxItems, t \in Targets :
        /\ proposal[p].status = "none"
        /\ \A g \in Handlers : linking[g].id # p
        /\ ~inbox[i].dismissed
        /\ linking' = [linking EXCEPT ![h] =
                [NotLinking EXCEPT !.pc = "propose", !.id = p, !.item = i, !.target = t]]
    /\ UNCHANGED <<proposal, references, inbox, linkFaults, threaded, crossed, contested>>

CommitProposal(h) ==
    LET l == linking[h] IN
    /\ Linking(h, "propose")
    /\ proposal' = [proposal EXCEPT ![l.id] =
            [status |-> "pending", item |-> l.item, target |-> l.target]]
    /\ LinkDone(h)
    /\ UNCHANGED <<references, inbox, linkFaults, threaded, crossed, contested>>

\* Mutant: any proposal may be resolved, and resolved again.
AnyProposal(p) == proposal[p].status # "none"

\* The guard of resolve_link_proposal
Resolvable(p) == proposal[p].status = "pending"

\* resolve_link_proposal reads the proposal and its item, then the application.
BeginResolve(h) ==
    /\ Linking(h, "idle")
    /\ \E p \in Proposals, d \in {"confirmed", "rejected"} :
        /\ Resolvable(p)
        /\ linking' = [linking EXCEPT ![h] =
                [NotLinking EXCEPT !.pc = "resolve", !.id = p, !.decision = d,
                                   !.was = proposal[p].status, !.item = proposal[p].item,
                                   !.target = proposal[p].target,
                                   !.shown = inbox[proposal[p].item].status]]
    /\ UNCHANGED <<proposal, references, inbox, linkFaults, threaded, crossed, contested>>

ReadTarget(h) ==
    /\ Linking(h, "resolve")
    /\ linking' = [linking EXCEPT ![h] = [@ EXCEPT !.pc = "decide", !.seen = references]]
    /\ UNCHANGED <<proposal, references, inbox, linkFaults, threaded, crossed, contested>>

\* The column of t as h makes it from what it has seen: unchanged if it has the mail.
Appended(h, t, mail) ==
    IF mail \in linking[h].seen[t] THEN references[t] ELSE linking[h].seen[t] \cup {mail}

\* h writes the column of t over another one than it has seen.
Overwrites(h, t, mail) ==
    /\ mail \notin linking[h].seen[t]
    /\ references[t] # linking[h].seen[t]

\* The link if it is confirmed, the item's status, the decision, and the commit. Each
\* row waits for its lock, and is then written whatever it has become, in the columns
\* that differ from what was read.
CommitResolution(h) ==
    LET l == linking[h]
        links == l.decision = "confirmed"
        status == IF links THEN "resolved" ELSE "ready_for_review"
    IN
    /\ Linking(h, "decide")
    /\ references' = IF links
                     THEN [references EXCEPT ![l.target] = Appended(h, l.target, l.item)]
                     ELSE references
    /\ crossed' = IF links /\ Overwrites(h, l.target, l.item)
                  THEN crossed \cup {l.target} ELSE crossed
    /\ inbox' = [inbox EXCEPT ![l.item].status = IF status = l.shown THEN @ ELSE status]
    /\ contested' = IF proposal[l.id].status = l.was THEN contested
                    ELSE contested \cup {l.id}
    /\ proposal' = [proposal EXCEPT ![l.id].status = l.decision]
    /\ LinkDone(h)
    /\ UNCHANGED <<linkFaults, threaded>>

\* dismiss_item
Dismiss(i) ==
    /\ ~inbox[i].dismissed
    /\ inbox' = [inbox EXCEPT ![i] = [status |-> "resolved", dismissed |-> TRUE]]
    /\ UNCHANGED <<proposal, references, linking, linkFaults, threaded, crossed,
                   contested>>

-------------------------------------------------------------------------------
(* The worker *)

\* create_from_classification of a mail in the thread: its applications are read.
BeginThreadLink(h) ==
    /\ Linking(h, "idle")
    /\ \E m \in ThreadMails \ threaded :
        /\ \A g \in Handlers : linking[g].item # m
        /\ linking' = [linking EXCEPT ![h] =
                [NotLinking EXCEPT !.pc = "thread", !.item = m, !.seen = references]]
    /\ UNCHANGED <<proposal, references, inbox, linkFaults, threaded, crossed, contested>>

\* The end of its batch.
CommitThreadLink(h) ==
    LET m == linking[h].item IN
    /\ Linking(h, "thread")
    /\ references' = [t \in Targets |-> Appended(h, t, m)]
    /\ crossed' = crossed \cup {t \in Targets : Overwrites(h, t, m)}
    /\ threaded' = threaded \cup {m}
    /\ LinkDone(h)
    /\ UNCHANGED <<proposal, inbox, linkFaults, contested>>

\* The request or the batch fails and is rolled back.
RollBackLink(h) ==
    /\ ~Linking(h, "idle")
    /\ linkFaults < MaxLinkFaults
    /\ linkFaults' = linkFaults + 1
    /\ LinkDone(h)
    /\ UNCHANGED <<proposal, references, inbox, threaded, crossed, contested>>

LinkNext ==
    \/ \E h \in Handlers :
        \/ BeginPropose(h) \/ CommitProposal(h)
        \/ BeginResolve(h) \/ ReadTarget(h) \/ CommitResolution(h)
        \/ BeginThreadLink(h) \/ CommitThreadLink(h)
        \/ RollBackLink(h)
    \/ \E i \in InboxItems : Dismiss(i)

LinkSpec == LinkInit /\ [][LinkNext]_linkVars

-------------------------------------------------------------------------------
(* Properties *)

Confirmed(t) ==
    {proposal[p].item : p \in {q \in Proposals :
        proposal[q].status = "confirmed" /\ proposal[q].target = t}}

\* "A cross-thread link that has no effect until HR resolves it" (entities.py:531):
\* an application refers to the mails of its thread and to those HR confirmed, to all
\* of them and no others, whatever is proposed, rejected, dismissed or fails. Excused
\* are applications whose column was written over a newer one, and proposals that two
\* requests resolved at once.
LinksAgree ==
    \A t \in Targets \ crossed :
        (\A p \in contested : proposal[p].target # t) =>
            references[t] = threaded \cup Confirmed(t)

\* "Link proposal has already been resolved" (inbox_service.py:353).
ResolvedOnce == contested = {}

\* A confirmed link is not lost to another one (inbox_service.py:341: "Apply or
\* reject").
ConfirmedIsLinked == \A t \in Targets : Confirmed(t) \subseteq references[t]

\* An item whose mail was linked "has been handled by HR" (enums.py:138, resolved).
LinkedIsHandled ==
    \A p \in Proposals :
        proposal[p].status = "confirmed" => inbox[proposal[p].item].status = "resolved"
===============================================================================
