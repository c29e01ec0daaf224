---------------------------- MODULE Classification ----------------------------
(***************************************************************************)
(* What becomes of fetched mail (gmail/application/classification_service, *)
(* recruitment/application/job_application_service and inbox_service):     *)
(* batches of the sync, the import and the classify endpoint judge mails   *)
(* with the AI and create job applications or items of the recruitment     *)
(* inbox, which HR then splits, corrects or dismisses. The mails here are  *)
(* of one Gmail thread.                                                    *)
(*                                                                         *)
(* A batch is one session and one transaction. Nothing is locked: what a   *)
(* session has read it keeps. The list of message references is written as *)
(* a whole; of a mail those columns are written that the session changed,  *)
(* so that a row may come to be of two sessions.                           *)
(***************************************************************************)
EXTENDS FiniteSets, Naturals, Server

CONSTANTS
    Emails,       \* messages of one thread
    MaxTries,     \* _MAX_PROVIDER_RETRIES
    MaxApps,      \* bound: job applications created
    MaxBatches,   \* bound: batches and splits begun
    MaxMishaps    \* bound: callbacks and judgements that fail, sessions that die

ASSUME ClassifyBounds ==
    /\ {MaxTries, MaxApps, MaxBatches, MaxMishaps} \subseteq Nat
    /\ None \notin Emails /\ None \notin [of : Emails, refs : SUBSET Emails]

VARIABLES
    emails,    \* email_messages
    apps,      \* job_applications: the source message and message_references
    items,     \* recruitment_inbox_items, at most one per message
    batches,   \* per handler: the session it has open
    begun,     \* batches and splits so far
    mishaps,   \* failures so far
    byHand,    \* history: mails HR has classified since a batch last wrote them
    mixed      \* history: mails whose verdict is of two sessions

classifyVars == <<emails, apps, items, batches, begun, mishaps, byHand, mixed>>

-------------------------------------------------------------------------------
(* Types *)

Open == {"unprocessed", "ai_unavailable", "needs_review", "permanently_failed"}

EmailRow ==
    [status : Open \cup {"classified", "needs_classification", "classification_failed"},
     category : {"none", "recruitment", "other"},
     tries : 0..(MaxTries + 1)]

AppIds == 1..MaxApps

Application == [of : Emails, refs : SUBSET Emails]

\* A batch, the one mail of a reclassification, a split, or one that HR classifies.
Batch ==
    [pc : {"idle", "batch", "single", "split", "manual"}, todo : SUBSET Emails,
     rows : UNION {[es -> EmailRow] : es \in SUBSET Emails},
     was : UNION {[es -> EmailRow] : es \in SUBSET Emails},
     links : UNION {[as -> SUBSET Emails] : as \in SUBSET AppIds},
     own : Application \cup {None}, found : SUBSET Emails, item : Emails \cup {None}]

NoBatch == [pc |-> "idle", todo |-> {}, rows |-> [e \in {} |-> None],
            was |-> [e \in {} |-> None], links |-> [a \in {} |-> {}], own |-> None, found |-> {}, item |-> None]

ClassifyTypeOK ==
    /\ emails \in [Emails -> EmailRow]
    /\ apps \in UNION {[1..n -> Application] : n \in 0..MaxApps}
    /\ items \in [Emails -> {"none", "open", "resolved", "dismissed"}]
    /\ batches \in [Handlers -> Batch]
    /\ begun \in 0..MaxBatches
    /\ mishaps \in 0..MaxMishaps
    /\ byHand \subseteq Emails /\ mixed \subseteq Emails

ClassifyInit ==
    /\ emails = [e \in Emails |-> [status |-> "unprocessed", category |-> "none",
                                  tries |-> 0]]
    /\ apps = [a \in {} |-> None]
    /\ items = [e \in Emails |-> "none"]
    /\ batches = [h \in Handlers |-> NoBatch]
    /\ begun = 0
    /\ mishaps = 0
    /\ byHand = {} /\ mixed = {}

Begins ==
    /\ begun < MaxBatches
    /\ begun' = begun + 1

Mishap(n) ==
    /\ mishaps + n <= MaxMishaps
    /\ mishaps' = mishaps + n

-------------------------------------------------------------------------------
(* A batch *)

Loaded(h, pc, es) ==
    /\ batches[h] = NoBatch
    /\ Begins
    /\ LET read == [e \in es |-> emails[e]] IN
       batches' = [batches EXCEPT
            ![h] = [NoBatch EXCEPT !.pc = pc, !.todo = es, !.rows = read, !.was = read]]
    /\ UNCHANGED <<emails, apps, items, mishaps, byHand, mixed>>

\* The sync and the import take new mails, the classify endpoint also those
\* whose retry is due.
BeginBatch(h, es) ==
    /\ es # {}
    /\ \A e \in es : emails[e].status \in {"unprocessed", "ai_unavailable"}
    /\ Loaded(h, "batch", es)

\* reclassify_email: one that HR looks at.
BeginSingle(h, e) ==
    /\ emails[e].status \in Open \ {"unprocessed"}
    /\ Loaded(h, "single", {e})

\* on_application_created: an application of this message is enough; those of
\* the thread are given the reference; else there is a new one.
WithApplication(batch, e) ==
    LET known == DOMAIN apps
        refs(a) == IF a \in DOMAIN batch.links THEN batch.links[a] ELSE apps[a].refs
        read == [a \in known |-> refs(a)]
        mine == batch.own # None /\ batch.own.of = e
    IN  CASE mine \/ \E a \in known : apps[a].of = e ->
                [batch EXCEPT !.links = read]
          [] known = {} /\ batch.own = None ->
                [batch EXCEPT !.own = [of |-> e, refs |-> {e}]]
          [] OTHER ->
                [batch EXCEPT !.links = [a \in known |-> refs(a) \cup {e}],
                              !.own = IF batch.own = None THEN None
                                      ELSE [batch.own EXCEPT !.refs = @ \cup {e}]]

\* on_uncertain_classification: not if there is an item, dismissed or not.
WithItem(batch, e) == [batch EXCEPT !.found = IF items[e] = "none" THEN @ \cup {e} ELSE @]

Judged(batch, e, row) ==
    [batch EXCEPT !.todo = @ \ {e}, !.rows = [@ EXCEPT ![e] = row]]

Verdict(status, category) ==
    [status |-> status, category |-> category, tries |-> 0]

\* Mutant: the mail is called classified whether or not the callback succeeded.
Regardless(category) == Verdict("classified", category)

\* A callback that fails leaves the mail to be reviewed, "not silently swallowed".
AfterFailure(category) == Verdict("needs_review", category)

\* _apply_classification: the callback first, the status after it.
Apply(h, e, status, category, callback) ==
    /\ e \in batches[h].todo
    /\ \/ /\ batches' = [batches EXCEPT
                    ![h] = Judged(callback, e, Verdict(status, category))]
          /\ UNCHANGED mishaps
       \/ /\ callback # batches[h]
          /\ Mishap(1)
          /\ batches' = [batches EXCEPT ![h] = Judged(@, e, AfterFailure(category))]
    /\ UNCHANGED <<emails, apps, items, begun, byHand, mixed>>

JudgeApplication(h, e) ==
    Apply(h, e, "classified", "recruitment", WithApplication(batches[h], e))

\* Several applicants, or a low confidence.
JudgeForHR(h, e, status) ==
    Apply(h, e, status, "recruitment", WithItem(batches[h], e))

JudgeOther(h, e, status) == Apply(h, e, status, "other", batches[h])

\* The provider fails. When the retries are used up HR is given an item; a
\* failure to create it is only logged.
ProviderFails(h, e) ==
    LET batch == batches[h]
        row == batch.rows[e]
        spent == row.tries >= MaxTries
        next == [row EXCEPT !.status = IF spent THEN "permanently_failed" ELSE "ai_unavailable",
                            !.tries = IF spent THEN @ ELSE @ + 1]
    IN
    /\ e \in batch.todo
    /\ \/ /\ batches' = [batches EXCEPT
                    ![h] = Judged(IF spent THEN WithItem(batch, e) ELSE batch, e, next)]
          /\ UNCHANGED mishaps
       \/ /\ spent
          /\ Mishap(1)
          /\ batches' = [batches EXCEPT ![h] = Judged(batch, e, next)]
    /\ UNCHANGED <<emails, apps, items, begun, byHand, mixed>>

\* Any other exception while a batch judges a mail: "for manual review", but neither
\* reclassify_email nor classify_email_manually takes a mail of this status.
JudgementFails(h, e) ==
    /\ batches[h].pc = "batch"
    /\ e \in batches[h].todo
    /\ Mishap(1)
    /\ batches' = [batches EXCEPT
            ![h] = Judged(@, e, [@.rows[e] EXCEPT !.status = "classification_failed"])]
    /\ UNCHANGED <<emails, apps, items, begun, byHand, mixed>>

\* The UPDATE of a mail has the columns that are not as the session loaded them.
Merged(now, was, row) ==
    [status |-> IF row.status # was.status THEN row.status ELSE now.status,
     category |-> IF row.category # was.category THEN row.category ELSE now.category,
     tries |-> IF row.tries # was.tries THEN row.tries ELSE now.tries]

\* The mails once the session has written its own.
Written(batch) ==
    [e \in Emails |-> IF e \in DOMAIN batch.rows
                      THEN Merged(emails[e], batch.was[e], batch.rows[e]) ELSE emails[e]]

\* The verdict that comes of it is not the one the session gave.
Blended(batch) ==
    {e \in DOMAIN batch.rows : \/ Written(batch)[e].status # batch.rows[e].status
                               \/ Written(batch)[e].category # batch.rows[e].category}

\* A second item for one message violates its unique key and the whole batch with
\* it (AbortBatch).
CommitBatch(h) ==
    LET batch == batches[h]
        n == Cardinality(DOMAIN apps)
        new == IF batch.own = None THEN n ELSE n + 1
    IN
    /\ batch.pc \in {"batch", "single"}
    /\ batch.todo = {}
    /\ new <= MaxApps
    /\ \A e \in batch.found : items[e] = "none"
    /\ apps' = [a \in 1..new |->
            IF a > n THEN batch.own
            ELSE IF a \in DOMAIN batch.links THEN [apps[a] EXCEPT !.refs = batch.links[a]]
            ELSE apps[a]]
    /\ emails' = Written(batch)
    /\ items' = [e \in Emails |-> IF e \in batch.found THEN "open" ELSE items[e]]
    /\ byHand' = byHand \ DOMAIN batch.rows
    /\ mixed' = (mixed \ DOMAIN batch.rows) \cup Blended(batch)
    /\ batches' = [batches EXCEPT ![h] = NoBatch]
    /\ UNCHANGED <<begun, mishaps>>

AbortBatch(h) ==
    /\ batches[h].pc # "idle"
    /\ \/ Mishap(1)
       \/ /\ batches[h].todo = {}
          /\ \E e \in batches[h].found : items[e] # "none"
          /\ UNCHANGED mishaps
    /\ batches' = [batches EXCEPT ![h] = NoBatch]
    /\ UNCHANGED <<emails, apps, items, begun, byHand, mixed>>

-------------------------------------------------------------------------------
(* HR *)

\* classify_email_manually: the category HR gives, no application is created. The
\* mail is read, and committed after other sessions may have written it.
BeginManual(h, e, category) ==
    /\ batches[h] = NoBatch
    /\ emails[e].status \in Open \ {"unprocessed"}
    /\ batches' = [batches EXCEPT
            ![h] = [NoBatch EXCEPT !.pc = "manual", !.item = e,
                                   !.rows = [m \in {e} |-> Verdict("classified", category)],
                                   !.was = [m \in {e} |-> emails[m]]]]
    /\ UNCHANGED <<emails, apps, items, begun, mishaps, byHand, mixed>>

CommitManual(h) ==
    /\ batches[h].pc = "manual"
    /\ emails' = Written(batches[h])
    /\ byHand' = byHand \cup {batches[h].item}
    /\ batches' = [batches EXCEPT ![h] = NoBatch]
    /\ UNCHANGED <<apps, items, begun, mishaps, mixed>>

\* split_item, correct_intent and dismiss_item refuse an item that is dismissed.
\* A dismissal is a column of its own, which a correction does not write, so that
\* only a split may still do anything once the item was dismissed.
InHand(e) == items[e] \in {"open", "resolved"}

CorrectIntent(e, status) ==
    /\ InHand(e)
    /\ status \in {"open", "resolved"}
    /\ items' = [items EXCEPT ![e] = status]
    /\ UNCHANGED <<emails, apps, batches, begun, mishaps, byHand, mixed>>

DismissItem(e) ==
    /\ InHand(e)
    /\ items' = [items EXCEPT ![e] = "dismissed"]
    /\ UNCHANGED <<emails, apps, batches, begun, mishaps, byHand, mixed>>

BeginSplit(h, e) ==
    /\ batches[h] = NoBatch
    /\ Begins
    /\ InHand(e)
    /\ batches' = [batches EXCEPT ![h] = [NoBatch EXCEPT !.pc = "split", !.item = e]]
    /\ UNCHANGED <<emails, apps, items, mishaps, byHand, mixed>>

\* Two applicants: two applications of the one message.
CommitSplit(h) ==
    LET e == batches[h].item
        n == Cardinality(DOMAIN apps)
    IN
    /\ batches[h].pc = "split"
    /\ n + 2 <= MaxApps
    /\ apps' = [a \in 1..(n + 2) |->
            IF a > n THEN [of |-> e, refs |-> {e}] ELSE apps[a]]
    /\ items' = [items EXCEPT ![e] = IF @ = "dismissed" THEN @ ELSE "resolved"]
    /\ batches' = [batches EXCEPT ![h] = NoBatch]
    /\ UNCHANGED <<emails, begun, mishaps, byHand, mixed>>

BatchStep(h) ==
    \/ \E es \in SUBSET Emails : BeginBatch(h, es)
    \/ \E e \in Emails :
        \/ JudgeApplication(h, e)
        \/ \E status \in {"classified", "needs_classification"} : JudgeForHR(h, e, status)
        \/ \E status \in {"classified", "needs_review"} : JudgeOther(h, e, status)
        \/ ProviderFails(h, e)
        \/ JudgementFails(h, e)
        \/ BeginSingle(h, e)
    \/ CommitBatch(h)
    \/ AbortBatch(h)

InboxStep ==
    \/ \E h \in Handlers :
        \/ CommitSplit(h)
        \/ CommitManual(h)
        \/ \E e \in Emails :
            \/ BeginSplit(h, e)
            \/ \E category \in {"recruitment", "other"} : BeginManual(h, e, category)
    \/ \E e \in Emails :
        \/ \E status \in {"open", "resolved"} : CorrectIntent(e, status)
        \/ DismissItem(e)

ClassifyNext == InboxStep \/ \E h \in Handlers : BatchStep(h)

ClassifySpec == ClassifyInit /\ [][ClassifyNext]_classifyVars

-------------------------------------------------------------------------------
(* Properties *)

\* An application that is asked about no more and has come to nothing.
Swallowed(e) ==
    /\ emails[e].category = "recruitment"
    /\ emails[e].status \in {"classified", "needs_classification"}
    /\ DOMAIN apps = {}
    /\ items[e] = "none"

\* No application is swallowed: a mail that a session judged to be one and that nobody
\* is asked about any more has an application in its thread or an item in the inbox,
\* whatever batches, reclassifications and decisions of HR overlap, callbacks fail or
\* sessions are rolled back. It says nothing of a mail HR classified by hand, nor of one
\* whose status is of one session and its category of another: that is NothingSwallowed.
JudgedIsVisible == \A e \in Emails \ (byHand \cup mixed) : ~Swallowed(e)

\* "the outcome is retryable/reviewable, not silently swallowed" (_apply_classification),
\* of mixed rows too. The code does not: the callback of a reclassification fails while HR
\* classifies the mail by hand, and its unchanged needs_review is not in its UPDATE.
NothingSwallowed == \A e \in Emails \ byHand : ~Swallowed(e)

\* "the supplemental message is linked to every application in that thread".
LinkedToThread ==
    \A e \in Emails \ (byHand \cup mixed) :
        /\ emails[e].category = "recruitment"
        /\ emails[e].status = "classified"
        /\ items[e] = "none"
        => \E a \in DOMAIN apps : e \in apps[a].refs

\* "Idempotent check: one Job Application per Gmail message".
OneApplicationPerMessage ==
    \A a, b \in DOMAIN apps :
        apps[a].of = apps[b].of /\ items[apps[a].of] = "none" => a = b
===============================================================================
