---------------------------- MODULE Administration ----------------------------
(***************************************************************************)
(* What a system administrator sets for the whole organization             *)
(* (identity/api/admin_router.py): the login domains, a column of the only *)
(* row of organization_settings, and the tools of the assistant, one row   *)
(* each. The assistant reads the tools when a question arrives.            *)
(*                                                                         *)
(* A session keeps a row as it first read it, and an UPDATE names only the *)
(* columns that differ from that. An edit of the domains is committed      *)
(* before its audit entry, an edit of the tools together with it.          *)
(***************************************************************************)
EXTENDS Naturals, FiniteSets, Server

CONSTANTS
    Domains,     \* bound: domains
    MaxDomains,  \* _MAX_DOMAINS, which is 50
    Defaults,    \* default_allowed_domains of the configuration
    Tools,       \* TOOL_DEFINITIONS
    MaxEdits,    \* bound: requests
    MaxOutages   \* bound: requests whose database fails

ASSUME AdminBounds ==
    /\ Defaults \subseteq Domains /\ MaxEdits \in Nat /\ MaxOutages \in Nat
    /\ \A domains \in SUBSET Domains : domains # None

VARIABLES
    allowed,    \* allowed_domains, None while there is no row
    allowedLock,
    enabled,    \* assistant_tool_config, None for a tool without a row
    toolLock,
    editing,    \* what each handler is doing
    edits,      \* requests so far
    outages,    \* failures so far
    unaudited,  \* history: edits of the domains in force without an entry
    meant,      \* history: what the edits in force ask for, one after another
    crossed     \* history: an edit was based on what another one replaced

adminVars == <<allowed, allowedLock, enabled, toolLock, editing, edits, outages,
               unaudited, meant, crossed>>

-------------------------------------------------------------------------------
(* Types *)

Lists == {D \in SUBSET Domains : Cardinality(D) <= MaxDomains}
ToolRows == [Tools -> BOOLEAN \cup {None}]
NoTools == [t \in Tools |-> None]  \* an empty table

NoEdit == [pc |-> "idle", op |-> "none", row |-> None, seen |-> {}, list |-> {},
           asked |-> {}, id |-> 0]

AdminInit ==
    /\ allowed = None
    /\ allowedLock = None
    /\ enabled = NoTools
    /\ toolLock = None
    /\ editing = [h \in Handlers |-> NoEdit]
    /\ edits = 0
    /\ outages = 0
    /\ unaudited = {}
    /\ meant = [domains |-> {}, tools |-> enabled]
    /\ crossed = [domains |-> FALSE, tools |-> FALSE]

AdminTypeOK ==
    /\ allowed \in Lists \cup {None}
    /\ enabled \in ToolRows
    /\ {allowedLock, toolLock} \subseteq Handlers \cup {None}
    /\ unaudited \subseteq 1..edits

Editing(h, pc) == editing[h].pc = pc
Proceed(h, pc) == editing' = [editing EXCEPT ![h] = [@ EXCEPT !.pc = pc]]
Closed(h) == editing' = [editing EXCEPT ![h] = NoEdit]

Open(h, pc, op, row, asked) ==
    /\ Editing(h, "idle")
    /\ edits < MaxEdits
    /\ edits' = edits + 1
    /\ editing' = [editing EXCEPT ![h] =
            [NoEdit EXCEPT !.pc = pc, !.op = op, !.row = row, !.asked = asked,
                           !.id = edits + 1]]

-------------------------------------------------------------------------------
(* The login domains *)

\* get_allowed_domains of a row, which need not be there
ListOf(row) == IF row = None THEN {} ELSE row

\* What an edit makes of a list
AsEdited(op, list, asked) ==
    CASE op = "add" -> list \cup asked
      [] op = "remove" -> list \ asked
      [] op = "replace" -> asked

\* add_domains and remove_domain look at the list first, and refuse what is there
\* already, what is not, and what would be too much.
BeginDomainEdit(h) ==
    /\ \E D \in SUBSET Domains \ {{}} :
        LET list == ListOf(allowed) IN
        \/ /\ D \cap list = {}
           /\ list \cup D \in Lists
           /\ Open(h, "row", "add", allowed, D)
        \/ /\ D \subseteq list
           /\ Cardinality(D) = 1
           /\ Open(h, "row", "remove", allowed, D)
    /\ UNCHANGED <<allowed, allowedLock, enabled, toolLock, outages, unaudited, meant,
                   crossed>>

BeginReplacement(h) ==
    /\ \E D \in Lists : Open(h, "row", "replace", None, D)
    /\ UNCHANGED <<allowed, allowedLock, enabled, toolLock, outages, unaudited, meant,
                   crossed>>

\* set_allowed_domains reads the row, which its session may know already; the list
\* it writes was made from what add_domains and remove_domain have seen.
ReadRow(h) ==
    LET e == editing[h]
        row == IF e.row = None THEN allowed ELSE e.row
    IN
    /\ Editing(h, "row")
    /\ editing' = [editing EXCEPT ![h] =
            [@ EXCEPT !.pc = "flush",
                      !.row = row,
                      !.seen = ListOf(IF e.op = "replace" THEN row ELSE e.row),
                      !.list = AsEdited(e.op, ListOf(e.row), e.asked)]]
    /\ UNCHANGED <<allowed, allowedLock, enabled, toolLock, edits, outages, unaudited,
                   meant, crossed>>

\* The flush: an INSERT, which collides with a row made meanwhile (singleton_key,
\* RollBackEdit), an UPDATE, or nothing when the list is as it was read.
FlushDomains(h) ==
    LET e == editing[h] IN
    /\ Editing(h, "flush")
    /\ e.row # e.list => Available(allowedLock, h)
    /\ e.row = None => allowed = None
    /\ allowedLock' = IF e.row # e.list THEN h ELSE allowedLock
    /\ Proceed(h, "commit")
    /\ UNCHANGED <<allowed, enabled, toolLock, edits, outages, unaudited, meant, crossed>>

\* The commit of set_allowed_domains.
CommitDomains(h) ==
    LET e == editing[h] IN
    /\ Editing(h, "commit")
    /\ allowed' = IF allowedLock = h THEN e.list ELSE allowed
    /\ allowedLock' = IF allowedLock = h THEN None ELSE allowedLock
    /\ unaudited' = unaudited \cup {e.id}
    /\ meant' = [meant EXCEPT !.domains = AsEdited(e.op, @, e.asked)]
    /\ crossed' = [crossed EXCEPT !.domains =
            /\ ~(e.op = "replace" /\ allowedLock = h)
            /\ @ \/ allowed # e.row \/ ListOf(allowed) # e.seen]
    /\ Proceed(h, "audit")
    /\ UNCHANGED <<enabled, toolLock, edits, outages>>

\* log_action and the commit of the endpoint, then the answer.
AuditDomains(h) ==
    /\ Editing(h, "audit")
    /\ unaudited' = unaudited \ {editing[h].id}
    /\ Closed(h)
    /\ UNCHANGED <<allowed, allowedLock, enabled, toolLock, edits, outages, meant,
                   crossed>>

\* get_timezone of any other request makes the row (_seed_default).
SeedSettings ==
    /\ allowed = None
    /\ allowedLock = None
    /\ allowed' = Defaults
    /\ meant' = [meant EXCEPT !.domains = Defaults]
    /\ UNCHANGED <<allowedLock, enabled, toolLock, editing, edits, outages, unaudited,
                   crossed>>

-------------------------------------------------------------------------------
(* The tools of the assistant *)

\* Named(e): the tools a request is about
Named(e) == {t \in Tools : e.asked[t] # None}

\* upsert_many reads the row of every tool the request names.
BeginTools(h) ==
    /\ \E wanted \in ToolRows \ {NoTools} : Open(h, "upsert", "tools", enabled, wanted)
    /\ UNCHANGED <<allowed, allowedLock, enabled, toolLock, outages, unaudited, meant,
                   crossed>>

\* The flush of upsert_many: the lock stands for those of all rows, as the page sends
\* every tool. A row made meanwhile makes it fail (RollBackEdit).
FlushTools(h) ==
    /\ Editing(h, "upsert")
    /\ Available(toolLock, h)
    /\ \A t \in Named(editing[h]) : editing[h].row[t] = None => enabled[t] = None
    /\ toolLock' = h
    /\ Proceed(h, "apply")
    /\ UNCHANGED <<allowed, allowedLock, enabled, edits, outages, unaudited, meant,
                   crossed>>

\* Mutant: the tools of the request are taken for all there are.
UpsertedAll(e, t) == e.row[t] # e.asked[t]

\* enabled is written where it differs from what was read.
Upserted(e, t) == t \in Named(e) /\ e.row[t] # e.asked[t]

\* log_action and the commit.
ApplyTools(h) ==
    LET e == editing[h] IN
    /\ Editing(h, "apply")
    /\ enabled' = [t \in Tools |-> IF Upserted(e, t) THEN e.asked[t] ELSE enabled[t]]
    /\ toolLock' = None
    /\ meant' = [meant EXCEPT !.tools = [t \in Tools |->
            IF t \in Named(e) THEN e.asked[t] ELSE @[t]]]
    /\ crossed' = [crossed EXCEPT !.tools = @ \/ \E t \in Named(e) : e.row[t] # enabled[t]]
    /\ Closed(h)
    /\ UNCHANGED <<allowed, allowedLock, edits, outages, unaudited>>

\* What list_assistant_tools shows as switched on, and what a question is offered
\* (get_enabled_tool_names, assistant/api/router.py:95 and 172).
Listed == {t \in Tools : enabled[t] # FALSE}
Offered == {t \in Tools : enabled[t] = TRUE}

-------------------------------------------------------------------------------
(* Failures *)

\* The database fails, or the row that was to be inserted is there. Before its commit
\* the request is rolled back; afterwards only its audit entry and its answer fail.
RollBackEdit(h) ==
    LET e == editing[h]
        collides ==
            \/ e.pc = "flush" /\ e.row = None /\ allowed # None
            \/ e.pc = "upsert" /\ \E t \in Named(e) : e.row[t] = None /\ enabled[t] # None
    IN
    /\ ~Editing(h, "idle")
    /\ \/ collides /\ UNCHANGED outages
       \/ outages < MaxOutages /\ outages' = outages + 1
    /\ allowedLock' = IF allowedLock = h THEN None ELSE allowedLock
    /\ toolLock' = IF toolLock = h THEN None ELSE toolLock
    /\ Closed(h)
    /\ UNCHANGED <<allowed, enabled, edits, unaudited, meant, crossed>>

-------------------------------------------------------------------------------

DomainStep(h) ==
    \/ BeginDomainEdit(h)
    \/ BeginReplacement(h)
    \/ ReadRow(h)
    \/ FlushDomains(h)
    \/ CommitDomains(h)
    \/ AuditDomains(h)

ToolStep(h) == BeginTools(h) \/ FlushTools(h) \/ ApplyTools(h)

AdminNext ==
    \/ \E h \in Handlers : DomainStep(h) \/ ToolStep(h) \/ RollBackEdit(h)
    \/ SeedSettings

AdminSpec == AdminInit /\ [][AdminNext]_adminVars

-------------------------------------------------------------------------------
(* Properties *)

\* The settings are what the edits in force ask for, one after another, unless an
\* edit was based on what another one replaced in the meantime: then one of the two
\* is lost, and only a replacement of the list settles it. An edit of the domains
\* lacks its audit entry only while its request runs, or after a failure ("the audit
\* row is durable before the response goes out", admin_router.py:26).
EditsStand ==
    /\ ~crossed.domains => ListOf(allowed) = meant.domains
    /\ ~crossed.tools => enabled = meant.tools
    /\ \A i \in unaudited : outages > 0 \/ \E h \in Handlers : editing[h].id = i

\* "set semantics" (org_settings_repository.py:241): a domain that was added is in
\* the list until it is removed, whatever other edits there are.
AddedStays == meant.domains \subseteq ListOf(allowed)

\* "Tools not yet in DB default to enabled=True" (admin_router.py:1043): what the
\* administrator is shown is what the assistant is offered.
ListedIsOffered == Listed = Offered
===============================================================================
