------------------------------- MODULE MCServices -------------------------------
(***************************************************************************)
(* What works beside the transactions of the business: the two halves of   *)
(* the assistants, which meet only in the stream, the session of a         *)
(* browser, the classifier, and its evaluation, what administrators set,   *)
(* and the documents of employees. They share no state that is modelled,   *)
(* so a behaviour is one of one component.                                 *)
(***************************************************************************)
EXTENDS ChatPanel, ChatTurns, BrowserSession, Judgement, Evaluation, Administration,
        Vault, TLC

VARIABLE component

otherThan(c) ==
    /\ UNCHANGED component
    /\ c # "panel" => UNCHANGED panelVars
    /\ c # "turns" => UNCHANGED turnVars
    /\ c # "browser" => UNCHANGED browserVars
    /\ c # "classifier" => UNCHANGED judgeVars
    /\ c \notin {"feedback", "evaluation"} => UNCHANGED evaluationVars
    /\ c # "administration" => UNCHANGED adminVars
    /\ c # "vault" => UNCHANGED vaultVars

ServicesInit ==
    /\ component \in {"panel", "turns", "browser", "classifier", "feedback", "evaluation",
                     "administration", "vault"}
    /\ PanelInit
    /\ TurnInit
    /\ BrowserInit
    /\ JudgeInit
    /\ component = "classifier" \/ side = [e \in Mails |-> 0]
    /\ FeedbackInit
    /\ EvaluationInit
    /\ AdminInit
    /\ VaultInit

\* Bound: with clicks on drafts comes a second question, or a second conversation, or
\* the end of the panel.
Clicked == \E c \in Clicks : call[c].at # "none"
Asked == {q \in Questions : stream[q] # "none"}
Begun == {s \in Chats : chat[s] # "none"}
Away == IF panel.mounted THEN 0 ELSE 1
MCPanelBound ==
    Clicked => Cardinality(Asked) + Cardinality(Begun) + Len(panel.renewing) + Away <= 3

ServicesNext ==
    \/ component = "panel" /\ PanelNext /\ MCPanelBound' /\ otherThan("panel")
    \/ component = "turns" /\ TurnNext /\ otherThan("turns")
    \/ component = "browser" /\ BrowserNext /\ otherThan("browser")
    \/ component = "classifier" /\ JudgeNext /\ otherThan("classifier")
    \/ component = "feedback" /\ FeedbackNext /\ otherThan("feedback")
    \/ component = "evaluation" /\ EvaluationNext /\ otherThan("evaluation")
    \/ component = "administration" /\ AdminNext /\ otherThan("administration")
    \/ component = "vault" /\ VaultNext /\ otherThan("vault")

servicesVars ==
    <<component, panelVars, turnVars, browserVars, judgeVars, evaluationVars, adminVars,
      vaultVars>>

ServicesSpec == ServicesInit /\ [][ServicesNext]_servicesVars

-------------------------------------------------------------------------------

\* The answers of a provider that differ in what they give: in the content, in the
\* reasoning or nowhere, a category or other words, with mentions of two categories
\* or none.
MCResponses ==
    [at : {"content"}, word : {"interview", "none"}, mentions : {{}, {"recruitment", "interview"}}]
    \cup {[at |-> "reasoning", word |-> "interview", mentions |-> {"recruitment", "interview"}],
          [at |-> "reasoning", word |-> "none", mentions |-> {}],
          [at |-> "nowhere", word |-> "none", mentions |-> {}]}

\* Two rules, and a mail that scores by both.
MCRuleBases == <<85, 70>>
MCScorings == {<<50, 60>>}

\* Datasets of up to two items, with and without ids, and their frozen predictions.
MCItems == [id : ItemIds \cup {NoId}, truth : {"recruitment", "other"}, cohort : BOOLEAN]

MCDatasets ==
    {[items |-> items, frozen |-> frozen] :
        items \in UNION {[1..n -> MCItems] : n \in 0..2},
        frozen \in UNION {[ids -> {"other"}] : ids \in SUBSET ItemIds}}

\* Types and names of files of which two join to one path.
MCPaperTypes == {<<"a">>, <<"a", "b">>}
MCFileNames == {<<"c">>, <<"b", "c">>}

\* Handlers are alike, so are the tabs of a browser, which go by the same names, and
\* people, employees among them.
MCSymmetry == Permutations(Handlers) \cup Permutations(People)
===============================================================================
