------------------------------- MODULE ChatPanel -------------------------------
(***************************************************************************)
(* The chat panel of the assistants (frontend/components/AiChat.tsx over   *)
(* lib/api/assistant.ts). The panel keeps the conversation; each question  *)
(* opens a stream of events, and meanwhile the user may stop it, decide on *)
(* a draft, begin a new conversation or leave. The server is what the      *)
(* stream may bring (ChatTurns): any texts, at most one draft, then done   *)
(* or an error.                                                            *)
(***************************************************************************)
EXTENDS FiniteSets, Naturals, Sequences, SequencesExt

CONSTANTS
    MaxQuestions,  \* bound: questions asked
    MaxChats,      \* bound: chat sessions started
    MaxClicks,     \* bound: clicks on the buttons of drafts
    MaxMishaps     \* bound: failures of the connection, of a call, of the reader

ASSUME PanelBounds ==
    MaxQuestions \in Nat /\ MaxChats \in Nat \ {0} /\ MaxClicks \in Nat /\ MaxMishaps \in Nat

VARIABLES
    panel,        \* the component's state and refs
    transcript,   \* messages
    card,         \* draftAction
    shown,        \* the DraftActionCard in the page: its draft, the click it waits for
    call,         \* per click on a button of a draft: how far its calls are
    stream,       \* per question: the connection, and whether the draft has come
    chat,         \* per chat session: the request to start it, and the row
    decisions,    \* the clicks that have an entry in the audit log
    performed,    \* the clicks whose write was made
    mishaps       \* failures so far

panelVars ==
    <<panel, transcript, card, shown, call, stream, chat, decisions, performed, mishaps>>

-------------------------------------------------------------------------------
(* Types *)

Questions == 1..MaxQuestions
Chats == 1..MaxChats
Clicks == 1..MaxClicks

\* left: its card went away while the call was under way. late: the card it was made
\* on was on its way out.
Calls == [of : 0..MaxQuestions, left : BOOLEAN, late : BOOLEAN,
          at : {"none", "recording", "writing", "rejecting", "done", "rejected", "failed"}]

PanelTypeOK ==
    /\ panel \in [mounted : BOOLEAN, ready : BOOLEAN, loading : BOOLEAN, finalized : BOOLEAN,
                  renewing : Seq(Chats), failed : BOOLEAN, chat : 0..MaxChats,
                  bubble : SUBSET Questions, posts : SUBSET SUBSET Questions]
    /\ \A i \in DOMAIN transcript :
           transcript[i] \in [role : {"user", "assistant", "note"}, of : SUBSET Questions]
    /\ card \in 0..MaxQuestions
    /\ shown \in [of : 0..MaxQuestions, by : 0..MaxClicks]
    /\ call \in [Clicks -> Calls]
    /\ stream \in [Questions -> {"none", "asked", "open", "drafted", "closed"}]
    /\ chat \in [Chats -> {"none", "starting", "open", "ended"}]
    /\ decisions \subseteq Clicks
    /\ performed \subseteq Clicks
    /\ mishaps \in 0..MaxMishaps

\* The panel mounts and asks for a session.
PanelInit ==
    /\ panel = [mounted |-> TRUE, ready |-> FALSE, loading |-> FALSE, finalized |-> FALSE,
                renewing |-> << >>, failed |-> FALSE, chat |-> 0, bubble |-> {}, posts |-> {}]
    /\ transcript = << >>
    /\ card = 0
    /\ shown = [of |-> 0, by |-> 0]
    /\ call = [c \in Clicks |-> [of |-> 0, left |-> FALSE, late |-> FALSE, at |-> "none"]]
    /\ stream = [q \in Questions |-> "none"]
    /\ chat = [s \in Chats |-> IF s = 1 THEN "starting" ELSE "none"]
    /\ decisions = {}
    /\ performed = {}
    /\ mishaps = 0

Mishap ==
    /\ mishaps < MaxMishaps
    /\ mishaps' = mishaps + 1

Responding(q) == stream[q] \in {"open", "drafted"}
Connected(q) == stream[q] = "asked" \/ Responding(q)

\* Mutant: the text that an unfinished stream has left is kept.
KeepText(p) == [p EXCEPT !.finalized = FALSE, !.failed = FALSE]

\* What every question and every conversation begins with.
Fresh(p) == [p EXCEPT !.finalized = FALSE, !.failed = FALSE, !.bubble = {}]

Message(role, of) == Append(transcript, [role |-> role, of |-> of])

\* cancelStreamRef.current(): the connection of the last question is aborted.
Abort == stream' = [q \in Questions |-> IF Connected(q) THEN "closed" ELSE stream[q]]

-------------------------------------------------------------------------------
(* The session of the panel *)

\* The session has been created and its id comes back: only a panel that is still
\* mounted takes it.
StartChat(s) ==
    /\ chat[s] = "starting"
    /\ chat' = [chat EXCEPT ![s] = "open"]
    /\ panel' = IF panel.mounted THEN [panel EXCEPT !.chat = s, !.ready = TRUE] ELSE panel
    /\ UNCHANGED <<transcript, card, shown, call, stream, decisions, performed, mishaps>>

\* The start fails: the panel goes on with the session it had, or with none.
NoChat(s) ==
    /\ chat[s] = "starting"
    /\ Mishap
    /\ chat' = [chat EXCEPT ![s] = "ended"]
    /\ panel' = IF panel.mounted THEN [panel EXCEPT !.ready = TRUE] ELSE panel
    /\ UNCHANGED <<transcript, card, shown, call, stream, decisions, performed>>

EndChat == IF panel.chat = 0 THEN chat ELSE [chat EXCEPT ![panel.chat] = "ended"]

\* The panel goes away; its session is ended, its stream is left alone.
Unmount ==
    /\ panel.mounted
    /\ panel' = [panel EXCEPT !.mounted = FALSE]
    /\ chat' = EndChat
    /\ UNCHANGED <<transcript, card, shown, call, stream, decisions, performed, mishaps>>

\* What handleNewChat does once the old session has been seen off.
Restart(s, chats, p) ==
    /\ chat[s] = "none"
    /\ \A r \in Chats : r < s => chat[r] # "none"
    /\ chat' = [chats EXCEPT ![s] = "starting"]
    /\ panel' = [Fresh(p) EXCEPT !.ready = FALSE, !.loading = FALSE]
    /\ transcript' = << >>
    /\ card' = 0

\* Bound: a session is left for each new conversation.
ChatIsLeft == Len(panel.renewing) < Cardinality({s \in Chats : chat[s] = "none"})

\* handleNewChat up to the await of endSession. Its button stays: it can be clicked
\* again during the await.
NewChat ==
    /\ panel.mounted
    /\ transcript # << >>
    /\ ~panel.loading
    /\ ChatIsLeft
    /\ Abort
    /\ \/ /\ panel.chat # 0
          /\ panel' = [panel EXCEPT !.renewing = Append(@, panel.chat)]
          /\ UNCHANGED <<transcript, card, chat>>
       \/ /\ panel.chat = 0
          /\ \E s \in Chats : Restart(s, chat, panel)
    /\ UNCHANGED <<shown, call, decisions, performed, mishaps>>

\* ... and after it, whatever has happened meanwhile.
Renew(i) ==
    /\ i \in DOMAIN panel.renewing
    /\ \E s \in Chats : Restart(s, [chat EXCEPT ![panel.renewing[i]] = "ended"],
                               [panel EXCEPT !.renewing = RemoveAt(@, i)])
    /\ UNCHANGED <<shown, call, stream, decisions, performed, mishaps>>

-------------------------------------------------------------------------------
(* Questions and their streams: handleSend, handleStop, sendStreamMessage *)

AbortAndAsk(q) ==
    stream' = [p \in Questions |-> IF p = q THEN "asked"
                                   ELSE IF Connected(p) THEN "closed" ELSE stream[p]]

\* A suggestion can be clicked before the session is there, and so can the retry of
\* the error bar; the composer cannot be used. If a stream was open, its onDone clears loading again.
Send(q) ==
    /\ panel.mounted
    /\ ~panel.loading
    /\ panel.ready \/ transcript = << >> \/ panel.failed
    /\ stream[q] = "none"
    /\ \A p \in Questions : p < q => stream[p] # "none"
    /\ AbortAndAsk(q)
    /\ transcript' = Message("user", {q})
    /\ card' = 0
    /\ panel' = [Fresh(panel) EXCEPT !.loading = \A p \in Questions : ~Responding(p)]
    /\ UNCHANGED <<shown, call, chat, decisions, performed, mishaps>>

Stop ==
    /\ panel.mounted
    /\ panel.loading
    /\ Abort
    /\ panel' = [panel EXCEPT !.loading = FALSE, !.finalized = TRUE, !.bubble = {}]
    /\ transcript' = IF panel.bubble = {} THEN transcript ELSE Message("assistant", panel.bubble)
    /\ UNCHANGED <<card, shown, call, chat, decisions, performed, mishaps>>

\* The response begins.
Respond(q) ==
    /\ stream[q] = "asked"
    /\ stream' = [stream EXCEPT ![q] = "open"]
    /\ UNCHANGED <<panel, transcript, card, shown, call, chat, decisions, performed, mishaps>>

ReadText(q) ==
    /\ Responding(q)
    /\ ~panel.finalized
    /\ panel' = [panel EXCEPT !.bubble = @ \cup {q}]
    /\ UNCHANGED <<transcript, card, shown, call, stream, chat, decisions, performed, mishaps>>

\* A card that is still leaving the page is the one that shows the next draft.
ReadDraft(q) ==
    /\ stream[q] = "open"
    /\ stream' = [stream EXCEPT ![q] = "drafted"]
    /\ card' = IF panel.finalized THEN card ELSE q
    /\ shown' = IF panel.finalized THEN shown ELSE [shown EXCEPT !.of = q]
    /\ UNCHANGED <<panel, transcript, call, chat, decisions, performed, mishaps>>

\* done: the bubble is to be posted by a timer. Once finalized it only ends the
\* reading.
ReadDone(q) ==
    /\ Responding(q)
    /\ stream' = [stream EXCEPT ![q] = "closed"]
    /\ panel' = IF panel.finalized THEN panel
                ELSE [panel EXCEPT !.finalized = TRUE, !.loading = FALSE, !.bubble = {},
                                   !.posts = @ \cup ({panel.bubble} \ {{}})]
    /\ UNCHANGED <<transcript, card, shown, call, chat, decisions, performed, mishaps>>

\* setTimeout(..., 0): the answer joins the messages unless it is the last one.
Post(b) ==
    /\ b \in panel.posts
    /\ panel' = [panel EXCEPT !.posts = @ \ {b}]
    /\ transcript' = IF transcript # << >> /\ Last(transcript) = [role |-> "assistant", of |-> b]
                     THEN transcript ELSE Message("assistant", b)
    /\ UNCHANGED <<card, shown, call, stream, chat, decisions, performed, mishaps>>

\* An error event, a refusal, or a connection that breaks.
Fail(q) ==
    /\ Connected(q)
    /\ Mishap
    /\ stream' = [stream EXCEPT ![q] = "closed"]
    /\ panel' = IF panel.finalized THEN panel
                ELSE [panel EXCEPT !.finalized = TRUE, !.loading = FALSE, !.bubble = {},
                                   !.failed = TRUE]
    /\ UNCHANGED <<transcript, card, shown, call, chat, decisions, performed>>

\* The frame of done arrives in two reads and is dropped, because its parts are
\* kept in variables of one read; the stream ends, and onDone finalizes nothing.
\* TIMEOUT_MS ends a stream the same way.
EndUnread(q) ==
    /\ Responding(q)
    /\ Mishap
    /\ stream' = [stream EXCEPT ![q] = "closed"]
    /\ panel' = [panel EXCEPT !.loading = FALSE]
    /\ UNCHANGED <<transcript, card, shown, call, chat, decisions, performed>>

\* TIMEOUT_MS before the response: nobody is told.
TimeOut(q) ==
    /\ stream[q] = "asked"
    /\ Mishap
    /\ stream' = [stream EXCEPT ![q] = "closed"]
    /\ UNCHANGED <<panel, transcript, card, shown, call, chat, decisions, performed>>

-------------------------------------------------------------------------------
(* The draft: DraftActionCard, handleDraftConfirm, handleDraftReject (the panel *)
(* of HR; that of employees keeps no log and opens the form of the request)   *)

\* Mutant: the write first, as the comment of recordDraftDecision has it.
WriteFirst(op) == IF op = "confirm" THEN "writing" ELSE "rejecting"

\* Both buttons begin with the entry in the audit log.
FirstCall(op) == IF op = "confirm" THEN "recording" ELSE "rejecting"

Underway(c) == call[c].at \in {"recording", "writing", "rejecting"}

\* The card in the page goes away. Its calls go on without it.
CardGoes ==
    call' = [c \in Clicks |-> [call[c] EXCEPT !.left = @ \/ (Underway(c) /\ c = shown.by)]]

\* A card without a draft leaves after its animation.
CardLeaves ==
    /\ card = 0
    /\ shown.of # 0
    /\ CardGoes
    /\ shown' = [of |-> 0, by |-> 0]
    /\ UNCHANGED <<panel, transcript, card, stream, chat, decisions, performed, mishaps>>

\* The panel is collapsed and opened again (isOpen): the draft gets another card.
Reopen ==
    /\ panel.mounted
    /\ shown.of # 0
    /\ CardGoes
    /\ shown' = [of |-> card, by |-> 0]
    /\ UNCHANGED <<panel, transcript, card, stream, chat, decisions, performed, mishaps>>

\* A click on a card: its buttons are disabled while a call of its own is under way, and
\* gone after a confirmation. One that is on its way out shows the draft it had.
Decide(c, op) ==
    /\ panel.mounted
    /\ shown.of # 0
    /\ shown.by = 0
    /\ call[c].at = "none"
    /\ \A b \in Clicks : b < c => call[b].at # "none"
    /\ call' = [call EXCEPT ![c] = [of |-> shown.of, left |-> FALSE, late |-> card # shown.of,
                                     at |-> FirstCall(op)]]
    /\ shown' = [shown EXCEPT !.by = c]
    /\ UNCHANGED <<panel, transcript, card, stream, chat, decisions, performed, mishaps>>

CallAt(c, at) == call' = [call EXCEPT ![c].at = at]

\* The buttons of the card, if it is still there, can be used again.
Enable(c) == shown' = IF shown.by = c THEN [shown EXCEPT !.by = 0] ELSE shown

\* record_draft_decision commits the entry. After a rejection draftAction is cleared,
\* whatever draft it is by now.
Record(c) ==
    /\ decisions' = decisions \cup {c}
    /\ \/ /\ call[c].at = "recording"
          /\ CallAt(c, "writing")
          /\ UNCHANGED <<card, shown>>
       \/ /\ call[c].at = "rejecting"
          /\ CallAt(c, "rejected")
          /\ card' = 0
          /\ Enable(c)
    /\ UNCHANGED <<panel, transcript, stream, chat, performed, mishaps>>

\* confirmDraftAction: the endpoint of the draft does the write. draftAction is
\* cleared, whatever draft it is by now.
Write(c) ==
    /\ call[c].at = "writing"
    /\ performed' = performed \cup {c}
    /\ CallAt(c, "done")
    /\ card' = 0
    /\ transcript' = Message("note", {call[c].of})
    /\ UNCHANGED <<panel, shown, stream, chat, decisions, mishaps>>

\* A call fails, or only its answer is lost. A confirmation can then be clicked
\* again; a rejection goes on as if it had been recorded.
CallFails(c) ==
    /\ Underway(c)
    /\ Mishap
    /\ \E lost \in BOOLEAN :
           /\ decisions' = IF lost /\ call[c].at # "writing" THEN decisions \cup {c} ELSE decisions
           /\ performed' = IF lost /\ call[c].at = "writing" THEN performed \cup {c} ELSE performed
    /\ CallAt(c, IF call[c].at = "rejecting" THEN "rejected" ELSE "failed")
    /\ card' = IF call[c].at = "rejecting" THEN 0 ELSE card
    /\ Enable(c)
    /\ UNCHANGED <<panel, transcript, stream, chat>>

-------------------------------------------------------------------------------

PanelNext ==
    \/ \E s \in Chats : StartChat(s) \/ NoChat(s)
    \/ Unmount
    \/ NewChat
    \/ \E i \in DOMAIN panel.renewing : Renew(i)
    \/ Stop
    \/ \E q \in Questions :
           \/ Send(q)
           \/ Respond(q)
           \/ ReadText(q)
           \/ ReadDraft(q)
           \/ ReadDone(q)
           \/ Fail(q)
           \/ EndUnread(q)
           \/ TimeOut(q)
    \/ \E b \in panel.posts : Post(b)
    \/ CardLeaves
    \/ Reopen
    \/ \E c \in Clicks :
           \/ \E op \in {"confirm", "reject"} : Decide(c, op)
           \/ Record(c)
           \/ Write(c)
           \/ CallFails(c)

PanelSpec == PanelInit /\ [][PanelNext]_panelVars

-------------------------------------------------------------------------------
(* Properties *)

Answers == {i \in DOMAIN transcript : transcript[i].role = "assistant"}

\* However questions, stops, time-outs and new conversations follow each other, a
\* message of the assistant is made of one answer and no answer is shown twice
\* (AiChat.tsx:434, 480-481, 562: cancelStreamRef and finalizedRef).
AnswersWhole ==
    /\ \A i \in Answers : Cardinality(transcript[i].of) = 1
    /\ \A i, j \in Answers : transcript[i].of = transcript[j].of => i = j

\* Each write follows the entry of its own confirmation in the audit log. A draft is
\* decided on once, however cards come and go, unless a confirmation has failed, its
\* card went away while its calls were under way, or, after a rejection, the card was
\* clicked while it was leaving (AiChat.tsx:187-201, 586-600).
WritesConfirmed ==
    /\ performed \subseteq decisions
    /\ \A a, b \in Clicks : a < b /\ call[b].at # "none" /\ call[a].of = call[b].of =>
           \/ call[a].at = "failed"
           \/ call[a].left
           \/ call[a].at = "rejected" /\ call[b].late

\* What the panel shows came from the assistant, and what it writes from HR.
PanelIsTrue == AnswersWhole /\ WritesConfirmed

\* "Record the HR decision after the write (or rejection) has completed"
\* (assistant.ts:293): a confirmation that is in the log has been carried out.
DecisionIsTrue ==
    \A c \in decisions : call[c].at \in {"done", "failed"} => c \in performed

\* Without a failed call, a draft is written once: not so if its card went away while
\* it was being written, and came back.
WritesOnce ==
    mishaps = 0 => \A a, b \in performed : call[a].of = call[b].of => a = b

\* "Calls onEvent for each event" (assistant.ts:102): a panel that has stopped
\* loading shows an answer, an error or what was stopped.
FinalizedWhenIdle ==
    panel.loading \/ panel.finalized \/ panel.renewing # << >> \/ transcript = << >>

\* The panel loads only while it is connected.
LoadsFromStream == panel.loading => \E q \in Questions : Connected(q)

\* An answer stands in the conversation of its question.
AnswersHaveQuestions ==
    \A i \in Answers : \E j \in 1..(i - 1) :
        transcript[j].role = "user" /\ transcript[j].of = transcript[i].of

\* "Called when the frontend ChatInterface unmounts" (assistant.ts:352): no
\* session stays open when the panel is gone.
EndedOnLeave == \A s \in Chats : ~panel.mounted => chat[s] # "open"

\* A draft is on show until HR decides on it or asks the next question.
DraftStays ==
    [][card # 0 /\ card' = 0 =>
           \/ \E c \in Clicks : Underway(c) /\ call[c].of = card
           \/ transcript' = << >>
           \/ Len(transcript') > Len(transcript)]_panelVars
===============================================================================
