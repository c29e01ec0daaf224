------------------------------- MODULE MCMailbox ------------------------------
(***************************************************************************)
(* What the organization does with its Google account: the connection, the *)
(* synchronisation, the import, classification, the links HR proposes, and *)
(* mail that is sent. Each runs against the rest as its module describes   *)
(* it, so that a behaviour is one of one of them.                          *)
(***************************************************************************)
EXTENDS GoogleConnection, MailSync, MailImport, OutboundEmail, Classification,
        LinkProposals, TLC

VARIABLE component

\* account, access and cursor are what MailSync and MailImport share.
MailboxIdle(c) ==
    /\ c \notin {"sync", "import"} => UNCHANGED mailboxVars
    /\ c # "sync" => UNCHANGED <<gmailVars, storeVars, polls, changes, faults>>
    /\ c # "import" => UNCHANGED <<job, cancelled, started, queued, requests, importers,
                                   imported, abandoned, troubles>>

otherThan(c) ==
    /\ UNCHANGED component
    /\ MailboxIdle(c)
    /\ c # "connection" => UNCHANGED googleVars
    /\ c # "outbound" => UNCHANGED outboundVars
    /\ c # "classification" => UNCHANGED classifyVars
    /\ c # "links" => UNCHANGED linkVars

MailInit ==
    /\ component \in {"connection", "sync", "import", "outbound", "classification",
                     "links"}
    /\ GoogleInit
    /\ SyncInit
    /\ ImportInit
    /\ OutboundInit
    /\ ClassifyInit
    /\ LinkInit
    /\ component # "connection" => oldGrants   \* one start is enough for the others
    /\ component # "outbound" => usable

MailNext ==
    \/ component = "connection" /\ GoogleNext /\ otherThan("connection")
    \/ component = "sync" /\ SyncNext /\ otherThan("sync")
    \/ component = "import" /\ ImportNext /\ otherThan("import")
    \/ component = "outbound" /\ OutboundNext /\ otherThan("outbound")
    \/ component = "classification" /\ ClassifyNext /\ otherThan("classification")
    \/ component = "links" /\ LinkNext /\ otherThan("links")

mailVars == <<component, googleVars, syncVars, importVars, outboundVars, classifyVars,
              linkVars>>

MailSpec == MailInit /\ [][MailNext]_mailVars

\* Handlers are alike, and so are accounts and workers, which go by the same names;
\* the mails that are sent and those that are judged too.
MCSymmetry == Permutations(Handlers) \cup Permutations(Emails)

\* No more messages arrive in all the accounts than in one.
MCFewMails == \A a, b \in Accounts : a # b => mail[a] + mail[b] <= MaxMail
===============================================================================
