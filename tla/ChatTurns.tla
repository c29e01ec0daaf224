------------------------------- MODULE ChatTurns -------------------------------
(***************************************************************************)
(* The server's side of the assistants (assistant/api, assistant_service,  *)
(* employee_assistant_service, streaming_loop): chat sessions and the      *)
(* turns in which a question is answered. A turn lets the model call tools *)
(* until it answers in words, streams what it says, and records the calls  *)
(* and itself in the caller's session. Its transaction ends only after its *)
(* answer has been sent.                                                   *)
(*                                                                         *)
(* What a panel does with the stream is ChatPanel.                         *)
(***************************************************************************)
EXTENDS FiniteSets, Naturals, Sequences, SequencesExt, Server

CONSTANTS
    HrUsers, OtherUsers,  \* login accounts
    MaxSessions,    \* bound: chat sessions started
    MaxTurns,       \* bound: turns begun
    MaxIterations,  \* MAX_TOOL_ITERATIONS
    MaxCalls,       \* bound: tool calls of one response
    MaxUpsets       \* bound: failures of the database, the model, the connection

Users == HrUsers \cup OtherUsers

VARIABLES
    rooms,      \* assistant_chat_sessions, and who has rated an answer in each
    turns,      \* per handler: the turn it is at
    recorded,   \* turns whose transaction was committed: what it holds
    upsets      \* failures so far

turnVars == <<rooms, turns, recorded, upsets>>

-------------------------------------------------------------------------------
(* Types *)

Rooms == 1..MaxSessions

AtDesk == [pc |-> "idle", by |-> None, streams |-> FALSE, room |-> 0, seen |-> 0,
           round |-> 0, calls |-> 0, ran |-> 0, words |-> FALSE, draft |-> 0, drafts |-> 0,
           spoiled |-> FALSE, sent |-> << >>]

Turn == [pc : {"idle", "gathering", "asking", "calling", "closing", "ending", "failed"},
         by : Users \cup {None}, streams : BOOLEAN, room : 0..MaxSessions, seen : Nat,
         round : 0..MaxIterations, calls : 0..MaxCalls, ran : Nat, words : BOOLEAN,
         draft : Nat, drafts : Nat, spoiled : BOOLEAN, sent : Seq({"text", "draft", "done", "error"})]

\* What became of a turn: the rows it left, against what it did.
Outcome == [by : Users, room : 0..MaxSessions, how : {"ended", "failed", "left"},
            ran : Nat, drafted : BOOLEAN, events : Nat, counted : BOOLEAN, audited : BOOLEAN]

TurnTypeOK ==
    /\ \E n \in 0..MaxSessions :
           rooms \in [1..n -> [of : Users, ended : BOOLEAN, count : 0..MaxTurns,
                               rated : SUBSET Users]]
    /\ \A h \in Handlers : turns[h] \in Turn
    /\ Len(recorded) <= MaxTurns
    /\ \A i \in DOMAIN recorded : recorded[i] \in Outcome
    /\ upsets \in 0..MaxUpsets

TurnInit ==
    /\ rooms = << >>
    /\ turns = [h \in Handlers |-> AtDesk]
    /\ recorded = << >>
    /\ upsets = 0

Upset ==
    /\ upsets < MaxUpsets
    /\ upsets' = upsets + 1

-------------------------------------------------------------------------------
(* Chat sessions: start, end, feedback *)

\* Mutant: the session is looked up by its id alone.
KnownRoom(u, r) == IF r \in DOMAIN rooms THEN r ELSE 0

\* get_owned: an id that is not the caller's is as good as none.
OwnedRoom(u, r) == IF r \in DOMAIN rooms /\ rooms[r].of = u THEN r ELSE 0

StartSession(u) ==
    /\ Len(rooms) < MaxSessions
    /\ rooms' = Append(rooms, [of |-> u, ended |-> FALSE, count |-> 0, rated |-> {}])
    /\ UNCHANGED <<turns, recorded, upsets>>

EndSession(u, r) ==
    /\ OwnedRoom(u, r) # 0
    /\ rooms' = [rooms EXCEPT ![r].ended = TRUE]
    /\ UNCHANGED <<turns, recorded, upsets>>

\* An event of its own. A refusal leaves only an entry in the audit log, for HR.
Feedback(u, r) ==
    /\ OwnedRoom(u, r) # 0
    /\ rooms' = [rooms EXCEPT ![r].rated = @ \cup {u}]
    /\ UNCHANGED <<turns, recorded, upsets>>

-------------------------------------------------------------------------------
(* A turn *)

\* The id of the session comes from the client and may be anyone's. A chat session
\* that has ended will do.
Ask(h, u, r, streams) ==
    LET own == OwnedRoom(u, r) IN
    /\ turns[h] = AtDesk
    /\ Len(recorded) + Cardinality({g \in Handlers : turns[g] # AtDesk}) < MaxTurns
    /\ turns' = [turns EXCEPT ![h] =
            [AtDesk EXCEPT !.pc = "gathering", !.by = u, !.streams = streams, !.room = own,
                           !.seen = IF own = 0 THEN 0 ELSE rooms[own].count]]
    /\ UNCHANGED <<rooms, recorded, upsets>>

\* A part of the context that cannot be queried is only logged and left out; but
\* the transaction is spoiled.
PartMissing(turn) == [turn EXCEPT !.spoiled = TRUE]

\* The context is gathered from the database, part by part.
Gather(h) ==
    LET turn == [turns[h] EXCEPT !.pc = "asking"] IN
    /\ turns[h].pc = "gathering"
    /\ \/ turns' = [turns EXCEPT ![h] = turn] /\ UNCHANGED upsets
       \/ turns' = [turns EXCEPT ![h] = PartMissing(turn)] /\ Upset
    /\ UNCHANGED <<rooms, recorded>>

Say(turn, event) ==
    IF turn.streams /\ ~(event = "text" /\ turn.sent # << >> /\ Last(turn.sent) = "text")
    THEN [turn EXCEPT !.sent = Append(@, event)] ELSE turn

\* The model answers: words, tool calls or both, or nothing at all.
ModelAnswers(h, words, n) ==
    LET turn == turns[h]
        heard == IF words THEN Say([turn EXCEPT !.words = TRUE], "text") ELSE turn
    IN
    /\ turn.pc = "asking"
    /\ turns' = [turns EXCEPT ![h] =
            [heard EXCEPT !.round = @ + 1, !.calls = n,
                          !.pc = IF n = 0 THEN "closing" ELSE "calling"]]
    /\ UNCHANGED <<rooms, recorded, upsets>>

\* A tool that only reads asks the database, whose failure spoils the transaction.
HrReads(turn) == IF turn.spoiled THEN {} ELSE {"data", "db"}
EmployeeReads(turn) == IF turn.spoiled THEN {} ELSE {"data", "db"}

\* HR's drafts are about a candidate, who is looked up first; an employee's are
\* made of the arguments alone.
HrDrafts(turn) == IF turn.spoiled THEN {} ELSE {"draft", "db"}
EmployeeDrafts == {"draft"}

\* Every tool refuses bad arguments, and so does the registry an unknown tool.
Results(turn) ==
    {"error"} \cup IF turn.by \in HrUsers THEN HrReads(turn) \cup HrDrafts(turn)
                   ELSE EmployeeReads(turn) \cup EmployeeDrafts

\* Only the last draft of a turn is kept.
RunTool(h, result) ==
    LET turn == turns[h]
        left == turn.calls - 1
    IN
    /\ turn.pc = "calling"
    /\ result \in Results(turn)
    /\ IF result = "db" THEN Upset ELSE UNCHANGED upsets
    /\ turns' = [turns EXCEPT ![h] =
            [turn EXCEPT !.calls = left,
                         !.ran = @ + 1,
                         !.drafts = IF result = "draft" THEN @ + 1 ELSE @,
                         !.draft = IF result = "draft" THEN turn.drafts + 1 ELSE @,
                         !.spoiled = @ \/ result = "db",
                         !.pc = IF left > 0 THEN "calling"
                                ELSE IF turn.round < MaxIterations THEN "asking"
                                ELSE "closing"]]
    /\ UNCHANGED <<rooms, recorded>>

\* Mutant: a turn that was all tool calls ends as it is.
AsItIs(turn) == turn

\* TOOL_LOOP_FALLBACK: a turn without a word apologises.
InWords(turn) == IF turn.words THEN turn ELSE Say(turn, "text")

\* The end of the loop. A reply with a draft is audited, which a spoiled
\* transaction does not survive; a stream is not.
Audits(turn) == turn.draft # 0 /\ ~turn.streams /\ turn.by \in HrUsers

Close(h) ==
    LET turn == InWords(turns[h])
        drafted == IF turn.draft = 0 THEN turn ELSE Say(turn, "draft")
    IN
    /\ turn.pc = "closing"
    /\ turns' = [turns EXCEPT ![h] =
            IF Audits(turn) /\ turn.spoiled THEN [turn EXCEPT !.pc = "failed"]
            ELSE [Say(drafted, "done") EXCEPT !.pc = "ending"]]
    /\ UNCHANGED <<rooms, recorded, upsets>>

\* The model cannot be reached. Within a stream this becomes its last event.
ModelFails(h) ==
    /\ turns[h].pc = "asking"
    /\ Upset
    /\ turns' = [turns EXCEPT ![h] = [Say(@, "error") EXCEPT !.pc = "failed"]]
    /\ UNCHANGED <<rooms, recorded>>

Over(h, how, kept) ==
    LET turn == turns[h] IN
    /\ turns' = [turns EXCEPT ![h] = AtDesk]
    /\ recorded' = Append(recorded,
           [by |-> turn.by, room |-> turn.room, how |-> how, ran |-> turn.ran,
            drafted |-> turn.draft # 0,
            events |-> IF kept /\ turn.room # 0 THEN turn.ran ELSE 0,
            counted |-> kept /\ turn.room # 0 /\ how = "ended",
            audited |-> kept /\ how = "ended" /\ Audits(turn)])

\* Mutant: the count is kept although the turn failed.
CountsAll(turn) == turn.room # 0

\* message_count += 1 on the row as it was read when the turn began.
Counts(turn) == turn.room # 0 /\ turn.pc = "ending"

\* get_db_session commits once the response is out: the events of the tools and
\* the count. A spoiled transaction cannot be committed, a reply that failed is
\* rolled back.
EndTurn(h) ==
    LET turn == turns[h]
        kept == ~turn.spoiled /\ (turn.pc = "ending" \/ turn.streams)
    IN
    /\ turn.pc \in {"ending", "failed"}
    /\ Over(h, IF turn.pc = "ending" THEN "ended" ELSE "failed", kept)
    /\ rooms' = IF kept /\ Counts(turn)
                THEN [rooms EXCEPT ![turn.room].count = turn.seen + 1] ELSE rooms
    /\ UNCHANGED upsets

\* The client goes away: the stream is cancelled where it waits. In the model's
\* answer the session is left sound and still committed, in a query it is not.
Leave(h) ==
    /\ turns[h].streams
    /\ turns[h].pc \in {"gathering", "asking", "calling", "closing"}
    /\ Upset
    /\ \E kept \in BOOLEAN :
           /\ kept => ~turns[h].spoiled
           /\ Over(h, "left", kept)
    /\ UNCHANGED rooms

-------------------------------------------------------------------------------

TurnStep(h) ==
    \/ \E u \in Users, r \in 0..Len(rooms), streams \in BOOLEAN : Ask(h, u, r, streams)
    \/ Gather(h)
    \/ \E words \in BOOLEAN, n \in 0..MaxCalls : ModelAnswers(h, words, n)
    \/ \E result \in {"data", "draft", "error", "db"} : RunTool(h, result)
    \/ Close(h)
    \/ ModelFails(h)
    \/ EndTurn(h)
    \/ Leave(h)

TurnNext ==
    \/ \E h \in Handlers : TurnStep(h)
    \/ \E u \in Users :
           \/ StartSession(u)
           \/ \E r \in DOMAIN rooms : EndSession(u, r) \/ Feedback(u, r)

TurnSpec == TurnInit /\ [][TurnNext]_turnVars

-------------------------------------------------------------------------------
(* Properties *)

Terminal == {"done", "error"}

\* Whatever the model, the tools and the database do, a stream that nobody left
\* says something and then ends once, with done or with an error; and a draft that
\* is kept comes before done (sse.py: "the client sees a connection that simply
\* stops"; streaming_loop.py:254).
StreamsEnd ==
    \A h \in Handlers :
        LET turn == turns[h]
            ends == {i \in DOMAIN turn.sent : turn.sent[i] \in Terminal}
        IN  turn.streams =>
                /\ ends = IF turn.pc \in {"ending", "failed"} THEN {Len(turn.sent)} ELSE {}
                /\ "done" \in Range(turn.sent) =>
                       /\ turn.sent[1] = "text"
                       /\ (turn.draft # 0) <=> "draft" \in Range(turn.sent)

\* Telemetry is never attributed to a chat session of somebody else
\* (session_access.py:76-90), and a turn's calls are recorded all or not at all.
TelemetryIsOwned ==
    /\ \A i \in DOMAIN recorded :
           LET r == recorded[i] IN
           /\ r.events > 0 => r.events = r.ran /\ rooms[r.room].of = r.by
           /\ r.counted => rooms[r.room].of = r.by
    /\ \A r \in DOMAIN rooms :
           /\ rooms[r].rated \subseteq {rooms[r].of}
           /\ rooms[r].count <=
                  Cardinality({i \in DOMAIN recorded : recorded[i].room = r /\ recorded[i].counted})

\* Every turn says how it ends, and is recorded whole in a session of its own user.
TurnsAreWhole == StreamsEnd /\ TelemetryIsOwned

\* "how many messages were exchanged" (quality_models.py:42).
CountsTurns ==
    \A r \in DOMAIN rooms :
        rooms[r].count =
            Cardinality({i \in DOMAIN recorded : recorded[i].room = r /\ recorded[i].counted})

\* "Same logic as POST /chat" (router.py:160), which "Logs audit when a Draft Action
\* is returned" (router.py:87).
DraftsAudited ==
    \A i \in DOMAIN recorded :
        LET r == recorded[i] IN
        r.how = "ended" /\ r.drafted /\ r.by \in HrUsers => r.audited

\* A draft the model was told of is shown.
DraftsShown == \A h \in Handlers : turns[h].pc = "ending" => turns[h].drafts <= 1

\* A turn that the client was told is done has been recorded.
DoneIsRecorded ==
    \A i \in DOMAIN recorded :
        recorded[i].how = "ended" /\ recorded[i].room # 0 => recorded[i].counted
===============================================================================
