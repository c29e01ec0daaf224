------------------------------- MODULE Evaluation -------------------------------
(***************************************************************************)
(* How the classifier is evaluated. HR's corrections of an inbox item are  *)
(* recorded, opted in and committed to versioned sets                      *)
(* (recruitment/application/evaluation_service.py and inbox_service.py);   *)
(* a dataset of such samples is loaded, predicted and measured             *)
(* (gmail/evaluation/_contract.py).                                        *)
(*                                                                         *)
(* Nothing is locked: a handler writes the columns it changed of what it   *)
(* has read.                                                               *)
(***************************************************************************)
EXTENDS FiniteSets, Naturals, Sequences, Server

CONSTANTS
    MaxCorrections,   \* bound: corrections of the item
    MaxSamples,       \* bound: samples
    ItemIds,          \* ids of the items of a dataset
    NoId,             \* an id that is missing or empty
    Datasets          \* bound: the datasets that are loaded

VARIABLES
    item,          \* the recruitment_inbox_item: its status and correction_history
    corrections,   \* correction_records
    samples,       \* evaluation_samples
    editors,       \* per handler: what it has read
    evaluation     \* a run of EvaluationContract

feedbackVars == <<item, corrections, samples, editors>>
evaluationVars == <<feedbackVars, evaluation>>

-------------------------------------------------------------------------------
(* Types *)

InboxStatus == {"needs_classification", "ready_for_review", "resolved"}

CorrectionRecord ==
    [previous : InboxStatus, was : InboxStatus, status : {"none", "selected", "committed"},
     redacted : BOOLEAN]

NoEditor == [pc |-> "idle", at |-> 0, status |-> "none", seen |-> {}]

FeedbackTypeOK ==
    /\ item.status \in InboxStatus
    /\ item.history \subseteq 1..MaxCorrections
    /\ Len(corrections) <= MaxCorrections
    /\ \A c \in DOMAIN corrections : corrections[c] \in CorrectionRecord
    /\ Len(samples) <= MaxSamples
    /\ \A s \in DOMAIN samples :
           samples[s] \in [of : DOMAIN corrections, text : BOOLEAN, sender : {"as received"}]
    /\ \A h \in Handlers :
           /\ editors[h].pc \in {"idle", "correct", "select", "commit"}
           /\ editors[h].at \in 0..MaxCorrections
           /\ editors[h].seen \subseteq 1..MaxCorrections

FeedbackInit ==
    /\ item = [status |-> "needs_classification", history |-> {}]
    /\ corrections = << >>
    /\ samples = << >>
    /\ editors = [h \in Handlers |-> NoEditor]

Edits(h, editor) ==
    /\ editors[h] = NoEditor
    /\ editors' = [editors EXCEPT ![h] = editor]
    /\ UNCHANGED <<item, corrections, samples, evaluation>>

Edited(h) ==
    /\ editors' = [editors EXCEPT ![h] = NoEditor]
    /\ UNCHANGED evaluation

-------------------------------------------------------------------------------
(* Corrections *)

\* correct_inbox_intent: the item is read.
ReadItem(h) ==
    /\ Len(corrections) < MaxCorrections
    /\ Edits(h, [NoEditor EXCEPT !.pc = "correct", !.status = item.status,
                                 !.seen = item.history])

\* The item is written, with the history as it was read and this one more, and
\* then recorded with the status it has by now.
CorrectItem(h, status) ==
    /\ editors[h].pc = "correct"
    /\ Len(corrections) < MaxCorrections
    /\ item' = [status |-> status, history |-> editors[h].seen \cup {Len(corrections) + 1}]
    /\ corrections' = Append(corrections, [previous |-> status, was |-> editors[h].status,
                                           status |-> "none", redacted |-> FALSE])
    /\ Edited(h)
    /\ UNCHANGED samples

\* Mutant: any correction of the tenant is taken.
AnyCorrection(c) == TRUE

\* commit_to_evaluation_set: HR has opted in.
OptedIn(c) == corrections[c].status = "selected"

\* select_for_evaluation and commit_to_evaluation_set: the record is read.
ReadCorrection(h, c, pc) ==
    /\ pc = "commit" => OptedIn(c)
    /\ Edits(h, [NoEditor EXCEPT !.pc = pc, !.at = c, !.status = corrections[c].status])

\* The redaction is of the item's text.
SelectForEvaluation(h) ==
    LET c == editors[h].at IN
    /\ editors[h].pc = "select"
    /\ corrections' = [corrections EXCEPT
           ![c].status = IF editors[h].status = "selected" THEN @ ELSE "selected",
           ![c].redacted = TRUE]
    /\ Edited(h)
    /\ UNCHANGED <<item, samples>>

CommitToEvaluationSet(h) ==
    LET c == editors[h].at IN
    /\ editors[h].pc = "commit"
    /\ Len(samples) < MaxSamples
    /\ samples' = Append(samples, [of |-> c, text |-> corrections[c].redacted,
                                   sender |-> "as received"])
    /\ corrections' = [corrections EXCEPT ![c].status = "committed"]
    /\ Edited(h)
    /\ UNCHANGED item

\* The request fails and its transaction is rolled back.
Abandon(h) ==
    /\ editors[h] # NoEditor
    /\ Edited(h)
    /\ UNCHANGED <<item, corrections, samples>>

FeedbackNext ==
    \E h \in Handlers :
        \/ ReadItem(h)
        \/ \E status \in InboxStatus \ {"needs_classification"} : CorrectItem(h, status)
        \/ \E c \in DOMAIN corrections, pc \in {"select", "commit"} : ReadCorrection(h, c, pc)
        \/ SelectForEvaluation(h)
        \/ CommitToEvaluationSet(h)
        \/ Abandon(h)

-------------------------------------------------------------------------------
(* A run of the contract *)

Categories == {"recruitment", "other"}

ASSUME DatasetsAreRead ==
    \A dataset \in Datasets :
        dataset.items \in Seq([id : ItemIds \cup {NoId}, truth : Categories, cohort : BOOLEAN])

\* A dataset: its items, each with an id, a ground truth and whether it belongs
\* to the cohort, and the frozen predictions by id.
NotLoaded == [pc |-> "raw", items |-> << >>, frozen |-> [i \in {} |-> NoId], predictions |-> << >>]

EvaluationInit == evaluation = NotLoaded

\* _validate: ids that are there are different, every required cohort has an item.
Validated(dataset) ==
    LET ids == {k \in DOMAIN dataset.items : dataset.items[k].id # NoId} IN
    /\ dataset.items # << >>
    /\ \A j, k \in ids : dataset.items[j].id = dataset.items[k].id => j = k
    /\ \E k \in DOMAIN dataset.items : dataset.items[k].cohort

\* Mutant: an item without an id is taken.
AnyItem(entry) == TRUE

\* _parse_item
ParsedItem(entry) == entry.id # NoId

\* EvaluationContract: a frozen prediction is of an item.
Load(dataset) ==
    /\ evaluation.pc = "raw"
    /\ Validated(dataset)
    /\ \A k \in DOMAIN dataset.items : ParsedItem(dataset.items[k])
    /\ DOMAIN dataset.frozen \subseteq {dataset.items[k].id : k \in DOMAIN dataset.items}
    /\ evaluation' = [evaluation EXCEPT !.pc = "predict", !.items = dataset.items,
                                        !.frozen = dataset.frozen]
    /\ UNCHANGED feedbackVars

\* _run: the frozen prediction of an item, else the predictor's, which must be of
\* this item; without either the run fails.
Predict(prediction) ==
    LET id == evaluation.items[Len(evaluation.predictions) + 1].id IN
    /\ evaluation.pc = "predict"
    /\ Len(evaluation.predictions) < Len(evaluation.items)
    /\ prediction.of = id
    /\ id \in DOMAIN evaluation.frozen => prediction.says = evaluation.frozen[id]
    /\ evaluation' = [evaluation EXCEPT !.predictions = Append(@, prediction)]
    /\ UNCHANGED feedbackVars

\* Loading or predicting raises.
FailEvaluation ==
    /\ evaluation.pc \in {"raw", "predict"}
    /\ evaluation' = [NotLoaded EXCEPT !.pc = "failed"]
    /\ UNCHANGED feedbackVars

ReportIt ==
    /\ evaluation.pc = "predict"
    /\ Len(evaluation.predictions) = Len(evaluation.items)
    /\ evaluation' = [evaluation EXCEPT !.pc = "report"]
    /\ UNCHANGED feedbackVars

EvaluationNext ==
    \/ \E dataset \in Datasets : Load(dataset)
    \/ \E prediction \in [of : ItemIds \cup {NoId}, says : Categories, sure : BOOLEAN] :
           Predict(prediction)
    \/ FailEvaluation
    \/ ReportIt

-------------------------------------------------------------------------------
(* _compute_metrics: the counts a recall, a precision and a review rate come from *)

\* item_map and gt_map: of items with one id the last counts.
ItemOf(prediction) ==
    LET of == {k \in DOMAIN evaluation.items : evaluation.items[k].id = prediction.of} IN
    evaluation.items[CHOOSE k \in of : \A j \in of : j <= k]

Counted(Of(_)) == Cardinality({k \in DOMAIN evaluation.predictions : Of(evaluation.predictions[k])})

TruePositives(c) == Counted(LAMBDA p : p.says = c /\ ItemOf(p).truth = c)
FalsePositives(c) == Counted(LAMBDA p : p.says = c /\ ItemOf(p).truth # c)
FalseNegatives(c) == Counted(LAMBDA p : p.says # c /\ ItemOf(p).truth = c)
Reviews(c) == Counted(LAMBDA p : ~p.sure /\ ItemOf(p).truth = c)
CohortSupport == Counted(LAMBDA p : ItemOf(p).cohort)

ItemsOf(Of(_)) == Cardinality({k \in DOMAIN evaluation.items : Of(evaluation.items[k])})

EvaluationSpec ==
    /\ FeedbackInit /\ EvaluationInit
    /\ [][FeedbackNext \/ EvaluationNext]_evaluationVars

-------------------------------------------------------------------------------
(* Properties *)

\* A report counts every item of an accepted dataset once, under its own truth
\* and cohort: _validate leaves empty ids to _parse_item, and _compute_metrics
\* looks items up by id.
CountsEachItem ==
    evaluation.pc = "report" =>
        /\ \A c \in Categories :
               /\ TruePositives(c) + FalseNegatives(c) = ItemsOf(LAMBDA i : i.truth = c)
               /\ TruePositives(c) + FalsePositives(c) = Counted(LAMBDA p : p.says = c)
               /\ Reviews(c) <= ItemsOf(LAMBDA i : i.truth = c)
        /\ CohortSupport = ItemsOf(LAMBDA i : i.cohort)

\* What an evaluation rests on: a report that counts each item, and samples that
\* HR opted in to and whose text was redacted, however selections, commits and
\* corrections overlap.
EvaluationIsSound ==
    /\ CountsEachItem
    /\ \A s \in DOMAIN samples : samples[s].text

\* "The correction history is preserved for audit" (inbox_service.py:407).
HistoryIsKept == DOMAIN corrections \subseteq item.history

\* "previous_inbox_status: Inbox status before correction"
\* (evaluation_service.py:117).
PreviousIsPrevious ==
    \A c \in DOMAIN corrections : corrections[c].previous = corrections[c].was

\* "Only redacted data is written to versioned evaluation sets"
\* (evaluation_service.py:11).
SamplesAreRedacted ==
    \A s \in DOMAIN samples : samples[s].text /\ samples[s].sender = "redacted"

\* "This method transitions it to committed": a correction is one sample.
OneSampleEach ==
    \A s, t \in DOMAIN samples : samples[s].of = samples[t].of => s = t
===============================================================================
