------------------------------- MODULE Judgement -------------------------------
(***************************************************************************)
(* How the AI judges one mail                                              *)
(* (gmail/application/classification_rollout.py, rules_classifier.py and   *)
(* classification_telemetry.py, gmail/infrastructure/ai_classifier.py):    *)
(* the rollout decides which classifier is asked, a classifier asks the    *)
(* provider again and again and reads its answer, the rules add evidence,  *)
(* and what was asked and answered is told to the telemetry.               *)
(*                                                                         *)
(* What becomes of a judged mail is Classification, whose batches are the  *)
(* handlers here; who may change the rollout is AiConfig.                  *)
(***************************************************************************)
EXTENDS Naturals, Sequences, SequencesExt, Server

CONSTANTS
    Mails,
    Sides,          \* partition: a message id falls on one of so many sides (100)
    MaxAttempts,    \* classification_llm_max_retries
    MaxJudgements,  \* bound: judgements begun
    Responses,      \* bound: the shapes of a provider's answer
    RuleBases,      \* CLASSIFICATION_RULES: the base confidence of each, in percent
    Scorings        \* bound: how a mail scores by each rule

VARIABLES
    side,      \* where the hash of a message id falls
    rollout,   \* rollout_mode and canary_percentage of the organization
    judges,    \* per handler: the judgement it is at
    events,    \* classification_rollout_events
    verdicts,  \* per mail: category and evidence, and the mode it was judged in
    judged     \* judgements begun

judgeVars == <<side, rollout, judges, events, verdicts, judged>>

-------------------------------------------------------------------------------
(* Types *)

\* EmailCategory in its order; the others are like the second.
CategoryOrder == <<"recruitment", "interview", "uncategorized">>
EmailCategory == ToSet(CategoryOrder)

\* A message id falls on a side, and an answer mentions categories only.
ASSUME SidesAreThere == Sides \in Nat
ASSUME AnswersMention == \A response \in Responses : response.mentions \subseteq EmailCategory

Verdicts == EmailCategory \cup {"none", "failed"}

Stages == [mode : {"stable", "shadow", "canary", "full"}, percent : 0..Sides]

NoJudge == [pc |-> "idle", mail |-> None, plan |-> [mode |-> "stable", percent |-> 0],
            tries |-> 0, stable |-> "none", candidate |-> "none", rule |-> 0]

JudgeTypeOK ==
    /\ side \in [Mails -> 0..(Sides - 1)]
    /\ rollout \in Stages
    /\ judges \in [Handlers ->
           [pc : {"idle", "stable", "candidate", "told", "unavailable"},
            mail : Mails \cup {None}, plan : Stages, tries : 0..(MaxAttempts - 1),
            stable : Verdicts, candidate : Verdicts, rule : 0..Len(RuleBases)]]
    /\ \A i \in DOMAIN events :
           events[i] \in [of : Mails, plan : Stages, by : {"stable", "candidate"},
                          stable : Verdicts, candidate : Verdicts]
    /\ \A e \in Mails : verdicts[e] # None => verdicts[e] \in
           [mode : {"stable", "shadow", "canary", "full"}, category : EmailCategory,
            rule : 0..Len(RuleBases)]
    /\ judged \in 0..MaxJudgements

JudgeInit ==
    /\ side \in [Mails -> 0..(Sides - 1)]
    /\ rollout = NoJudge.plan
    /\ judges = [h \in Handlers |-> NoJudge]
    /\ events = << >>
    /\ verdicts = [e \in Mails |-> None]
    /\ judged = 0

-------------------------------------------------------------------------------
(* Tier 1: the rules, whose signals are evidence and decide nothing *)

\* final_confidence, in 1/1000, of a score in 1/100.
Confidence(r, score) ==
    LET scaled == 2 * score * RuleBases[r] IN
    IF scaled > 10000 THEN 1000 ELSE scaled \div 10

\* A rule takes over when its score is above the confidence of the best so far.
Better(scores, best, r) ==
    IF 10 * scores[r] > best.confidence
    THEN [rule |-> r, confidence |-> Confidence(r, scores[r])] ELSE best

BestRule(scores) ==
    LET take(best, r) == Better(scores, best, r) IN
    FoldLeft(take, [rule |-> 0, confidence |-> 0], [r \in DOMAIN RuleBases |-> r]).rule

-------------------------------------------------------------------------------
(* Tier 2: what a classifier makes of an answer *)

\* The first category, in their order, that is mentioned at all.
Foremost(mentioned) ==
    LET places == {i \in DOMAIN CategoryOrder : CategoryOrder[i] \in mentioned} IN
    CategoryOrder[CHOOSE i \in places : \A j \in places : i <= j]

\* _extract_content_from_response: the content, else a category that the
\* reasoning mentions, else one of the other attributes. The text is its first
\* word and the categories in it; None is no text.
Extracted(response) ==
    CASE response.at \in {"content", "other"} ->
             [word |-> response.word, mentions |-> response.mentions]
      [] response.at = "reasoning" /\ response.mentions # {} ->
             [word |-> Foremost(response.mentions), mentions |-> response.mentions]
      [] OTHER -> None

\* _parse_category
Parsed(text) ==
    CASE text.word \in EmailCategory -> text.word
      [] text.word \notin EmailCategory /\ text.mentions # {} -> Foremost(text.mentions)
      [] OTHER -> "uncategorized"

-------------------------------------------------------------------------------
(* The rollout *)

InCanary(e, percent) == side[e] < percent

\* configure_classification_rollout and rollback: any stage from any other. The
\* percentage is of the canary.
Stage(mode, percent) ==
    /\ mode = "canary" <=> percent > 0
    /\ rollout' = [mode |-> mode, percent |-> percent]
    /\ UNCHANGED <<side, judges, events, verdicts, judged>>

\* use_candidate
CandidateDecides(plan, e) ==
    \/ plan.mode = "full"
    \/ plan.mode = "canary" /\ InCanary(e, plan.percent)

\* A batch is built with the rollout of the moment. Mail that is judged is left
\* alone, but what nobody could place may be judged again.
Consider(h, e, scores) ==
    /\ judges[h] = NoJudge
    /\ judged < MaxJudgements
    /\ verdicts[e] # None => verdicts[e].category = "uncategorized"
    /\ judged' = judged + 1
    /\ judges' = [judges EXCEPT ![h] =
           [NoJudge EXCEPT
               !.pc = IF CandidateDecides(rollout, e) THEN "candidate" ELSE "stable",
               !.mail = e, !.plan = rollout, !.rule = BestRule(scores)]]
    /\ UNCHANGED <<side, rollout, events, verdicts>>

Calling(j) == j.pc \in {"stable", "candidate"}

\* The one asked comes to an end with this answer; in the shadow the candidate
\* is asked after the stable one.
Ends(j, answer) ==
    LET next == [j EXCEPT ![j.pc] = answer, !.tries = 0] IN
    IF j.pc = "stable" /\ answer = "failed" THEN [next EXCEPT !.pc = "unavailable"]
    ELSE IF j.pc = "stable" /\ j.plan.mode = "shadow" THEN [next EXCEPT !.pc = "candidate"]
    ELSE [next EXCEPT !.pc = "told"]

Follows(h, j) ==
    /\ judges' = [judges EXCEPT ![h] = j]
    /\ UNCHANGED <<side, rollout, events, verdicts, judged>>

\* The provider answers; an answer without text fails at once.
ProviderResponds(h, response) ==
    LET text == Extracted(response) IN
    /\ Calling(judges[h])
    /\ Follows(h, Ends(judges[h], IF text = None THEN "failed" ELSE Parsed(text)))

\* A time-out, a lost connection or an error status is tried again, so many times.
NoResponse(h) ==
    /\ Calling(judges[h])
    /\ Follows(h, IF judges[h].tries + 1 < MaxAttempts
                  THEN [judges[h] EXCEPT !.tries = @ + 1]
                  ELSE Ends(judges[h], "failed"))

\* selected_classifier_version
By(j) == IF CandidateDecides(j.plan, j.mail) THEN "candidate" ELSE "stable"

\* Mutant: the answer that came last is taken.
LastAnswer(j) == IF j.candidate \in EmailCategory THEN j.candidate ELSE j.stable

\* selected
Selected(j) == IF CandidateDecides(j.plan, j.mail) THEN j.candidate ELSE j.stable

\* The event is recorded, unless there is no rollout; the mail of an answer is
\* judged, any other is left unavailable. The handler's batch is committed.
Conclude(h) ==
    LET j == judges[h] IN
    /\ j.pc \in {"told", "unavailable"}
    /\ events' = IF j.pc = "unavailable" \/ j.plan.mode = "stable" THEN events
                 ELSE Append(events, [of |-> j.mail, plan |-> j.plan, by |-> By(j),
                                      stable |-> j.stable, candidate |-> j.candidate])
    /\ verdicts' = IF Selected(j) \notin EmailCategory THEN verdicts
                   ELSE [verdicts EXCEPT ![j.mail] =
                            [mode |-> j.plan.mode, category |-> Selected(j), rule |-> j.rule]]
    /\ judges' = [judges EXCEPT ![h] = NoJudge]
    /\ UNCHANGED <<side, rollout, judged>>

\* The batch is rolled back, and with it what it told.
Forget(h) ==
    /\ judges[h] # NoJudge
    /\ judges' = [judges EXCEPT ![h] = NoJudge]
    /\ UNCHANGED <<side, rollout, events, verdicts, judged>>

JudgeNext ==
    \/ \E mode \in {"stable", "shadow", "canary", "full"}, percent \in 0..Sides :
           Stage(mode, percent)
    \/ \E h \in Handlers :
           \/ \E e \in Mails, scores \in Scorings : Consider(h, e, scores)
           \/ \E response \in Responses : ProviderResponds(h, response)
           \/ NoResponse(h)
           \/ Conclude(h)
           \/ Forget(h)

JudgeSpec == JudgeInit /\ [][JudgeNext]_judgeVars

-------------------------------------------------------------------------------
(* Properties *)

\* Whatever the rollout becomes while mails are judged: a verdict under a rollout
\* has an event that tells it, in the shadow it is the stable classifier's, and a
\* mail the canary took once is not given back while the percentage stays
\* ("its result is never returned to the caller", "deterministic partition").
RolloutKeepsItsWord ==
    /\ \A e \in Mails : verdicts[e] # None =>
           LET v == verdicts[e] IN
           v.mode # "stable" => \E i \in DOMAIN events :
               LET event == events[i] IN
               /\ event.of = e
               /\ event.plan.mode = v.mode
               /\ event[event.by] = v.category
               /\ v.mode = "shadow" => event.by = "stable"
    /\ \A i, k \in DOMAIN events :
           /\ events[i].of = events[k].of
           /\ events[i].plan.mode = "canary" /\ events[k].plan.mode = "canary"
           /\ events[i].plan.percent <= events[k].plan.percent
           /\ events[i].by = "candidate"
           => events[k].by = "candidate"

\* summarize: the latest event of a mail counts.
Latest(e) == {i \in DOMAIN events :
    events[i].of = e /\ \A k \in DOMAIN events : events[k].of = e => k <= i}

\* "evaluate_release_gates() checks [provider_error_rate] before a candidate can be
\* promoted out of shadow mode" (classification_rollout.py:190-195).
PromotedIsMeasured ==
    [][rollout.mode = "shadow" /\ rollout'.mode \in {"canary", "full"} =>
           \A e \in Mails : \A i \in Latest(e) : events[i].candidate # "failed"]_judgeVars

\* "Returns the highest-scoring category" (rules_classifier.py:445).
HighestScoring ==
    \A scores \in Scorings :
        LET best == BestRule(scores) IN
        best # 0 => \A r \in DOMAIN RuleBases : scores[r] <= scores[best]

\* "prioritize exact matches" (ai_classifier.py:284): a text that names its
\* category is not judged by another one that it mentions.
NamedCategory ==
    \A response \in Responses :
        LET text == Extracted(response) IN
        text # None /\ response.word \in EmailCategory => Parsed(text) = response.word
===============================================================================
