------------------------------ MODULE CvPipeline ------------------------------
(***************************************************************************)
(* One CV on its way from an email to a draft (recruitment/application:    *)
(* cv_processor, review_service; gmail/api/router.py). Every step of the   *)
(* pipeline is a commit of its own, with a call to storage, to OCR or to   *)
(* the language model before it; the look-up of the checksum, the state of *)
(* the email and the rows that HR reviews are read without locks.          *)
(***************************************************************************)
EXTENDS FiniteSets, Naturals, Sequences, Server

CONSTANTS
    MaxCvs   \* bound: documents made of the file

VARIABLES
    mail,   \* email_messages.processing_status
    cvs,    \* cv_documents made of the file, in the order of their inserts
    runs,   \* per handler: what it does
    met     \* two runs were between look-up and insert at the same time

cvVars == <<mail, cvs, runs, met>>

-------------------------------------------------------------------------------
(* Types *)

InProgress == {"pending", "ocr_processing", "llm_parsing"}
CvStatus ==
    InProgress \cup {"completed", "needs_review", "failed", "skipped", "upload_failed", "dismissed"}

NoRun == [pc |-> "idle", marks |-> FALSE, cv |-> None, saw |-> None]

CvTypeOK ==
    /\ mail \in {"classified", "cv_processing", "needs_review"}
    /\ Len(cvs) <= MaxCvs
    /\ \A i \in DOMAIN cvs :
        cvs[i] \in [status : CvStatus, checksum : BOOLEAN, text : BOOLEAN,
                    draft : {"none", "model", "hr"}, confirmed : BOOLEAN]
    /\ \A h \in Handlers :
        /\ runs[h].pc \in {"idle", "asked", "fetch", "lookup", "upload", "ocr", "reading", "parse",
                           "parsing", "route", "finish", "retry", "correct"}
        /\ runs[h].cv \in 1..MaxCvs \cup {None}
    /\ met \in BOOLEAN

CvInit ==
    /\ mail = "classified"
    /\ cvs = <<>>
    /\ runs = [h \in Handlers |-> NoRun]
    /\ met = FALSE

Goes(h, pc) == runs' = [runs EXCEPT ![h].pc = pc]

\* The pipeline returns a document.
Ends(h, status) ==
    runs' = [runs EXCEPT ![h] = [@ EXCEPT !.pc = "finish", !.cv = None, !.saw = status]]

Stops(h) == runs' = [runs EXCEPT ![h] = NoRun]

\* The row that the handler works on.
Row(h) == cvs[runs[h].cv]

Writes(h, row) == cvs' = [cvs EXCEPT ![runs[h].cv] = row]

\* A run has looked and not inserted yet.
Searching(h) == runs[h].pc \in {"lookup", "upload"}

-------------------------------------------------------------------------------
(* An email's attachments *)

\* process_attachments reads the email and then marks it.
AskProcessing(h) ==
    /\ runs[h] = NoRun
    /\ mail = "classified"
    /\ Goes(h, "asked")
    /\ UNCHANGED <<mail, cvs, met>>

Enter(h, marks) ==
    /\ runs' = [runs EXCEPT ![h] = [NoRun EXCEPT !.pc = "fetch", !.marks = marks]]
    /\ UNCHANGED <<cvs, met>>

MarkEmail(h) ==
    /\ runs[h].pc = "asked"
    /\ mail' = "cv_processing"
    /\ Enter(h, TRUE)

\* _update_database_and_process_cvs leaves the state of the email alone.
AutoProcess(h) ==
    /\ runs[h] = NoRun
    /\ mail = "classified"
    /\ Enter(h, FALSE)
    /\ UNCHANGED mail

\* Gmail has given the file, and it goes into the pipeline.
FetchAttachments(h) ==
    /\ runs[h].pc = "fetch"
    /\ Goes(h, "lookup")
    /\ met' = (met \/ \E o \in Handlers \ {h} : Searching(o))
    /\ UNCHANGED <<mail, cvs>>

\* It is of a type or size that is not fetched, or Gmail failed: an attachment that
\* cannot be had is skipped, and without any the email is as before.
NothingFetched(h) ==
    /\ runs[h].pc = "fetch"
    /\ mail' = IF runs[h].marks THEN "classified" ELSE mail
    /\ Stops(h)
    /\ UNCHANGED <<cvs, met>>

\* The email is in review when one of its documents is.
FinishProcessing(h) ==
    /\ runs[h].pc = "finish"
    /\ mail' = IF ~runs[h].marks THEN mail
               ELSE IF runs[h].saw \in {"needs_review", "failed"} THEN "needs_review"
               ELSE "classified"
    /\ Stops(h)
    /\ UNCHANGED <<cvs, met>>

\* pipeline_timeout_seconds or Gmail ends the run with an error; any other
\* exception is logged, and the email has no documents.
AbandonProcessing(h, status) ==
    /\ runs[h].pc \in {"fetch", "lookup", "upload", "ocr", "reading", "parse", "parsing",
                       "route"}
    /\ mail' = IF runs[h].marks THEN status ELSE mail
    /\ Stops(h)
    /\ UNCHANGED <<cvs, met>>

\* list_messages: after half an hour, longer than any run.
ResetStuck ==
    /\ mail = "cv_processing"
    /\ \A h \in Handlers : ~runs[h].marks
    /\ mail' = "classified"
    /\ UNCHANGED <<cvs, runs, met>>

\* reclassify_email, classify_manually: HR gives the email back.
Reclassify ==
    /\ mail = "needs_review"
    /\ mail' = "classified"
    /\ UNCHANGED <<cvs, runs, met>>

-------------------------------------------------------------------------------
(* process_single_attachment *)

\* Mutant: a document that failed does not count.
Fresh == {i \in DOMAIN cvs : cvs[i].checksum /\ cvs[i].status # "failed"}

\* find_by_checksum
Known == {i \in DOMAIN cvs : cvs[i].checksum}

FindDuplicate(h) ==
    /\ runs[h].pc = "lookup"
    /\ \E i \in Known : Ends(h, cvs[i].status)
    /\ UNCHANGED <<mail, cvs, met>>

NewCv(h, status, pc) ==
    /\ Len(cvs) < MaxCvs
    /\ cvs' = Append(cvs, [status |-> status, checksum |-> status = "pending", text |-> FALSE,
                           draft |-> "none", confirmed |-> FALSE])
    /\ IF pc = "finish" THEN Ends(h, status)
       ELSE runs' = [runs EXCEPT ![h].pc = pc, ![h].cv = Len(cvs) + 1]
    /\ UNCHANGED <<mail, met>>

\* A file of a wrong type or size.
SkipFile(h) ==
    /\ runs[h].pc = "lookup"
    /\ Known = {}
    /\ NewCv(h, "skipped", "finish")

BeginUpload(h) ==
    /\ runs[h].pc = "lookup"
    /\ Known = {}
    /\ Goes(h, "upload")
    /\ UNCHANGED <<mail, cvs, met>>

UploadFails(h) == runs[h].pc = "upload" /\ NewCv(h, "upload_failed", "finish")

InsertCv(h) == runs[h].pc = "upload" /\ NewCv(h, "pending", "ocr")

\* One step of the pipeline: its row gets a status, and what came out of it.
Advance(h, from, to, row) ==
    /\ runs[h].pc = from
    /\ Writes(h, row)
    /\ IF to = "finish" THEN Ends(h, row.status) ELSE Goes(h, to)
    /\ UNCHANGED <<mail, met>>

StartOcr(h) == Advance(h, "ocr", "reading", [Row(h) EXCEPT !.status = "ocr_processing"])

OcrAnswers(h) == Advance(h, "reading", "parse", [Row(h) EXCEPT !.text = TRUE])

\* OCR raises, or its text, which is stored, is too short.
OcrFails(h, short) ==
    Advance(h, "reading", "finish", [Row(h) EXCEPT !.status = "failed", !.text = short])

StartParse(h) == Advance(h, "parse", "parsing", [Row(h) EXCEPT !.status = "llm_parsing"])

ParseAnswers(h) == Advance(h, "parsing", "route", [Row(h) EXCEPT !.draft = "model"])

ParseFails(h) == Advance(h, "parsing", "finish", [Row(h) EXCEPT !.status = "failed"])

\* _handle_confidence_routing
RouteDraft(h, status) ==
    /\ status \in {"completed", "needs_review"}
    /\ Advance(h, "route", "finish", [Row(h) EXCEPT !.status = status])

-------------------------------------------------------------------------------
(* HR reviews a document, whatever its status *)

\* retry_llm_parse keeps the row it has read while the model works.
BeginRetry(h, i) ==
    /\ runs[h] = NoRun
    /\ cvs[i].text
    /\ cvs' = [cvs EXCEPT ![i].status = "llm_parsing"]
    /\ runs' = [runs EXCEPT ![h] =
            [NoRun EXCEPT !.pc = "retry", !.cv = i, !.saw = cvs[i].confirmed]]
    /\ UNCHANGED <<mail, met>>

\* merge_confirmed_fields keeps what was confirmed when the row was read.
RetryAnswers(h, status) ==
    /\ runs[h].pc = "retry"
    /\ status \in {"completed", "needs_review"}
    /\ Writes(h, [Row(h) EXCEPT !.status = status,
                                !.draft = IF runs[h].saw THEN "hr" ELSE "model"])
    /\ Stops(h)
    /\ UNCHANGED <<mail, met>>

\* The model refuses, or a minute has passed.
RetryFails(h, status) ==
    /\ runs[h].pc = "retry"
    /\ status \in {"failed", "needs_review"}
    /\ Writes(h, [Row(h) EXCEPT !.status = status])
    /\ Stops(h)
    /\ UNCHANGED <<mail, met>>

\* submit_correction: the draft is committed with the candidate, the status next.
SubmitCorrection(h, i) ==
    /\ runs[h] = NoRun
    /\ cvs' = [cvs EXCEPT ![i].draft = "hr", ![i].confirmed = TRUE]
    /\ runs' = [runs EXCEPT ![h] =
            [NoRun EXCEPT !.pc = "correct", !.cv = i, !.saw = cvs[i].status = "completed"]]
    /\ UNCHANGED <<mail, met>>

CompleteCorrection(h) ==
    /\ runs[h].pc = "correct"
    /\ Writes(h, IF runs[h].saw THEN Row(h)
                 ELSE [Row(h) EXCEPT !.status = "completed"])
    /\ Stops(h)
    /\ UNCHANGED <<mail, met>>

Dismiss(i) ==
    /\ cvs[i].status # "dismissed"
    /\ cvs' = [cvs EXCEPT ![i].status = "dismissed"]
    /\ UNCHANGED <<mail, runs, met>>

-------------------------------------------------------------------------------

\* The server stops: what was committed stays.
LoseHandler(h) ==
    /\ runs[h] # NoRun
    /\ Stops(h)
    /\ UNCHANGED <<mail, cvs, met>>

PipelineStep(h) ==
    \/ FindDuplicate(h)
    \/ SkipFile(h)
    \/ BeginUpload(h)
    \/ UploadFails(h)
    \/ InsertCv(h)
    \/ StartOcr(h)
    \/ OcrAnswers(h)
    \/ \E short \in BOOLEAN : OcrFails(h, short)
    \/ StartParse(h)
    \/ ParseAnswers(h)
    \/ ParseFails(h)
    \/ \E s \in CvStatus : RouteDraft(h, s)

ProcessStep(h) ==
    \/ AskProcessing(h)
    \/ MarkEmail(h)
    \/ AutoProcess(h)
    \/ FetchAttachments(h)
    \/ NothingFetched(h)
    \/ FinishProcessing(h)
    \/ \E s \in {"needs_review", "classified"} : AbandonProcessing(h, s)

ReviewStep(h) ==
    \/ \E i \in DOMAIN cvs : BeginRetry(h, i) \/ SubmitCorrection(h, i)
    \/ \E s \in CvStatus : RetryAnswers(h, s) \/ RetryFails(h, s)
    \/ CompleteCorrection(h)

CvNext ==
    \/ \E h \in Handlers :
        ProcessStep(h) \/ PipelineStep(h) \/ ReviewStep(h) \/ LoseHandler(h)
    \/ \E i \in DOMAIN cvs : Dismiss(i)
    \/ ResetStuck
    \/ Reclassify

CvSpec == CvInit /\ [][CvNext]_cvVars

-------------------------------------------------------------------------------
(* Properties *)

\* A file is processed once, however often its email is, with timeouts, crashes,
\* failed documents and HR in between, as long as no two runs overlap between
\* the look-up of the checksum and the insert.
OneDocumentPerFile == met \/ Cardinality(Known) <= 1

\* What HR confirmed is not replaced by what the model read ("Keep HR-confirmed
\* values when a later AI parse produces a new draft", cv_draft.py:143).
CorrectionStands == \A i \in DOMAIN cvs : cvs[i].confirmed => cvs[i].draft = "hr"

\* Marking the email keeps a second run out ("Atomically transition to
\* cv_processing to prevent race conditions", gmail/api/router.py:666).
ProcessedByOne == Cardinality({h \in Handlers : runs[h].marks}) <= 1
===============================================================================
