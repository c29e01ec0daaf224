----------------------------- MODULE KnowledgeBase -----------------------------
(***************************************************************************)
(* The knowledge base (modules/knowledge_base): documents are uploaded,    *)
(* replaced and deleted by HTTP handlers, and turned into searchable       *)
(* chunks by ARQ jobs. The two knowledge bases have the same code and      *)
(* tables of their own.                                                    *)
(*                                                                         *)
(* A job is queued before the transaction that describes its document      *)
(* commits. An ingestion is one transaction: marking the row as processing *)
(* takes its lock, and nothing it writes is seen before it ends. Objects   *)
(* in MinIO change at once.                                                *)
(***************************************************************************)
EXTENDS Naturals, Server

CONSTANTS
    Documents,    \* bound: documents ever uploaded
    MaxVersions,  \* bound: files of one document
    MaxJobs,      \* bound: queued jobs of one document
    MaxFaults     \* bound: workers that die, requests that fail, enqueuings
                  \* without Redis

ASSUME NoneIsNoDocument == None \notin Documents \cup Nat
ASSUME DocumentBounds == MaxVersions \in Nat \ {0} /\ MaxFaults \in Nat

VARIABLES
    document,   \* hr_knowledge_base_documents
    documentLock,
    chunks,     \* the versions a document has chunks of
    files,      \* the versions MinIO holds of each document
    jobs,       \* queued ingest_document jobs of each document
    faults,     \* faults so far
    kbCall      \* what each handler or worker is doing

kbVars == <<document, documentLock, chunks, files, jobs, faults, kbCall>>

-------------------------------------------------------------------------------
(* Types *)

FileVersions == 1..MaxVersions
DocumentStatus == {"pending", "ready", "error"}  \* "processing" is never committed
Document == [status : {"none", "deleted"} \cup DocumentStatus, version : 0..MaxVersions]

KbIdle == [pc |-> "idle", doc |-> None, loaded |-> None, cleared |-> {}]

\* Where a job can be, and a request
JobSteps == {"mark", "ingest", "index", "fail"}
RequestSteps == {"enqueue", "commit", "clear", "write", "delete", "deleted"}

KnowledgeBaseTypeOK ==
    /\ document \in [Documents -> Document]
    /\ documentLock \in [Documents -> Handlers \cup {None}]
    /\ chunks \in [Documents -> SUBSET FileVersions]
    /\ files \in [Documents -> SUBSET FileVersions]
    /\ jobs \in [Documents -> Nat]
    /\ faults \in 0..MaxFaults
    /\ kbCall \in [Handlers ->
            [pc : {"idle"} \cup JobSteps \cup RequestSteps, doc : Documents \cup {None},
             loaded : Document \cup {None}, cleared : SUBSET FileVersions]]

KnowledgeBaseInit ==
    /\ document = [d \in Documents |-> [status |-> "none", version |-> 0]]
    /\ documentLock = [d \in Documents |-> None]
    /\ chunks = [d \in Documents |-> {}]
    /\ files = [d \in Documents |-> {}]
    /\ jobs = [d \in Documents |-> 0]
    /\ faults = 0
    /\ kbCall = [h \in Handlers |-> KbIdle]

-------------------------------------------------------------------------------
(* Rows and sessions *)

RowExists(d) == document[d].status \in DocumentStatus

At(h, pc) == kbCall[h].pc = pc
Goto(h, pc) == kbCall' = [kbCall EXCEPT ![h] = [@ EXCEPT !.pc = pc]]
Finish(h) == kbCall' = [kbCall EXCEPT ![h] = KbIdle]

\* get_document: the session keeps the row as it first read it.
Load(h, d, pc) ==
    kbCall' = [kbCall EXCEPT ![h] =
        [KbIdle EXCEPT !.pc = pc, !.doc = d, !.loaded = document[d]]]

Release(h) ==
    documentLock' = [d \in Documents |->
        IF documentLock[d] = h THEN None ELSE documentLock[d]]

\* The version a replacement uploads
NextVersion(h) == kbCall[h].loaded.version + 1

-------------------------------------------------------------------------------
(* Upload and replacement *)

\* upload_document up to the flushed insert: the file is stored first.
Upload(h, d) ==
    /\ At(h, "idle")
    /\ document[d].status = "none"
    /\ \A g \in Handlers : kbCall[g].doc # d
    /\ files' = [files EXCEPT ![d] = {1}]
    /\ Load(h, d, "enqueue")
    /\ UNCHANGED <<document, documentLock, chunks, jobs, faults>>

BeginReplace(h, d) ==
    /\ At(h, "idle")
    /\ RowExists(d)
    /\ document[d].version < MaxVersions
    /\ Load(h, d, "clear")
    /\ UNCHANGED <<document, documentLock, chunks, files, jobs, faults>>

\* replace_file deletes the chunks it sees, the old file and stores the new one.
ClearAndStore(h) ==
    LET d == kbCall[h].doc IN
    /\ At(h, "clear")
    /\ files' = [files EXCEPT ![d] =
            (@ \ {kbCall[h].loaded.version}) \cup {NextVersion(h)}]
    /\ kbCall' = [kbCall EXCEPT ![h] = [@ EXCEPT !.pc = "write", !.cleared = chunks[d]]]
    /\ UNCHANGED <<document, documentLock, chunks, jobs, faults>>

\* The flushed UPDATE of the row. Without a row it fails (RollBackKb).
WriteReplaced(h) ==
    LET d == kbCall[h].doc IN
    /\ At(h, "write")
    /\ Available(documentLock[d], h)
    /\ RowExists(d)
    /\ documentLock' = [documentLock EXCEPT ![d] = h]
    /\ Goto(h, "enqueue")
    /\ UNCHANGED <<document, chunks, files, jobs, faults>>

\* _enqueue_ingestion, which only warns when Redis cannot be reached.
Enqueue(h) ==
    /\ At(h, "enqueue")
    /\ \/ /\ jobs[kbCall[h].doc] < MaxJobs
          /\ jobs' = [jobs EXCEPT ![kbCall[h].doc] = @ + 1]
          /\ UNCHANGED faults
       \/ /\ faults < MaxFaults
          /\ faults' = faults + 1
          /\ UNCHANGED jobs
    /\ Goto(h, "commit")
    /\ UNCHANGED <<document, documentLock, chunks, files>>

\* The status of a replaced document is written only if it was not pending when
\* it was loaded: the UPDATE names the columns that differ.
CommitUpload(h) ==
    LET d == kbCall[h].doc
        loaded == kbCall[h].loaded
    IN
    /\ At(h, "commit")
    /\ document' = [document EXCEPT ![d] =
            [status |-> IF loaded.status = "pending" THEN @.status ELSE "pending",
             version |-> NextVersion(h)]]
    /\ chunks' = [chunks EXCEPT ![d] = @ \ kbCall[h].cleared]
    /\ Release(h)
    /\ Finish(h)
    /\ UNCHANGED <<files, jobs, faults>>

-------------------------------------------------------------------------------
(* Deletion *)

BeginRemoval(h, d) ==
    /\ At(h, "idle")
    /\ RowExists(d)
    /\ kbCall' = [kbCall EXCEPT ![h] = [KbIdle EXCEPT
            !.pc = "delete", !.doc = d, !.loaded = document[d], !.cleared = chunks[d]]]
    /\ UNCHANGED <<document, documentLock, chunks, files, jobs, faults>>

\* The DELETE waits for the row; the file goes before the commit.
DeleteRow(h) ==
    LET d == kbCall[h].doc IN
    /\ At(h, "delete")
    /\ Available(documentLock[d], h)
    /\ RowExists(d)
    /\ documentLock' = [documentLock EXCEPT ![d] = h]
    /\ files' = [files EXCEPT ![d] = @ \ {kbCall[h].loaded.version}]
    /\ Goto(h, "deleted")
    /\ UNCHANGED <<document, chunks, jobs, faults>>

\* Mutant: only the chunks that were there when they were deleted.
SeenChunks(h) == kbCall[h].cleared

\* ON DELETE CASCADE: the chunks that go with the row.
Cascade(h) == chunks[kbCall[h].doc]

CommitRemoval(h) ==
    LET d == kbCall[h].doc IN
    /\ At(h, "deleted")
    /\ document' = [document EXCEPT ![d].status = "deleted"]
    /\ chunks' = [chunks EXCEPT ![d] = @ \ Cascade(h)]
    /\ Release(h)
    /\ Finish(h)
    /\ UNCHANGED <<files, jobs, faults>>

-------------------------------------------------------------------------------
(* Ingestion *)

\* ingest: a document that is not there is an error ARQ does not retry.
StartJob(h, d) ==
    /\ At(h, "idle")
    /\ jobs[d] > 0
    /\ jobs' = [jobs EXCEPT ![d] = @ - 1]
    /\ IF RowExists(d) THEN Load(h, d, "mark") ELSE UNCHANGED kbCall
    /\ UNCHANGED <<document, documentLock, chunks, files, faults>>

\* Step 1: the UPDATE to processing takes the lock of the row, if it is there.
MarkProcessing(h) ==
    LET d == kbCall[h].doc IN
    /\ At(h, "mark")
    /\ Available(documentLock[d], h)
    /\ documentLock' = [documentLock EXCEPT ![d] = IF RowExists(d) THEN h ELSE @]
    /\ Goto(h, "ingest")
    /\ UNCHANGED <<document, chunks, files, jobs, faults>>

\* Steps 2 to 4: the text of the file at the path that was loaded, in chunks.
Chunked(h) == kbCall[h].loaded.version \in files[kbCall[h].doc]

\* Step 5: a vector of every chunk. One batch that fails, is short or comes too late
\* fails them all.
Embedded(h) == Chunked(h) /\ Goto(h, "index")

\* Steps 2 to 5. Any of them can fail; without a file they do.
Ingest(h) ==
    /\ At(h, "ingest")
    /\ Embedded(h) \/ Goto(h, "fail")
    /\ UNCHANGED <<document, documentLock, chunks, files, jobs, faults>>

\* Steps 6 and 7 and the commit, for a document that is still there.
CommitChunks(h) ==
    LET d == kbCall[h].doc IN
    /\ At(h, "index")
    /\ IF RowExists(d)
       THEN /\ chunks' = [chunks EXCEPT ![d] = @ \cup {kbCall[h].loaded.version}]
            /\ document' = [document EXCEPT ![d].status = "ready"]
       ELSE UNCHANGED <<chunks, document>>
    /\ Release(h)
    /\ Finish(h)
    /\ UNCHANGED <<files, jobs, faults>>

CommitError(h) ==
    LET d == kbCall[h].doc IN
    /\ At(h, "fail")
    /\ document' = [document EXCEPT ![d].status = IF RowExists(d) THEN "error" ELSE @]
    /\ Release(h)
    /\ Finish(h)
    /\ UNCHANGED <<chunks, files, jobs, faults>>

\* The worker dies with its job, which is delivered again. It may die after the
\* commit, when the job is not yet marked as finished.
WorkerDies(h) ==
    /\ faults < MaxFaults
    /\ \/ /\ kbCall[h].pc \in JobSteps
          /\ UNCHANGED <<document, chunks>>
       \/ /\ At(h, "index")
          /\ RowExists(kbCall[h].doc)
          /\ chunks' = [chunks EXCEPT ![kbCall[h].doc] = @ \cup {kbCall[h].loaded.version}]
          /\ document' = [document EXCEPT ![kbCall[h].doc].status = "ready"]
    /\ faults' = faults + 1
    /\ jobs' = [jobs EXCEPT ![kbCall[h].doc] = @ + 1]
    /\ Release(h)
    /\ Finish(h)
    /\ UNCHANGED files

\* A request fails or is lost, or its row is gone: its session is rolled back,
\* the files stay.
RollBackKb(h) ==
    /\ kbCall[h].pc \in RequestSteps
    /\ \/ /\ faults < MaxFaults
          /\ faults' = faults + 1
       \/ /\ kbCall[h].pc \in {"write", "delete"}
          /\ ~RowExists(kbCall[h].doc)
          /\ UNCHANGED faults
    /\ Release(h)
    /\ Finish(h)
    /\ UNCHANGED <<document, chunks, files, jobs>>

KbProgress(h) ==
    \/ ClearAndStore(h) \/ WriteReplaced(h) \/ Enqueue(h) \/ CommitUpload(h)
    \/ DeleteRow(h) \/ CommitRemoval(h)
    \/ MarkProcessing(h) \/ Ingest(h) \/ CommitChunks(h) \/ CommitError(h)

KbNext ==
    \E h \in Handlers :
        \/ \E d \in Documents :
            Upload(h, d) \/ BeginReplace(h, d) \/ BeginRemoval(h, d) \/ StartJob(h, d)
        \/ KbProgress(h)
        \/ WorkerDies(h)
        \/ RollBackKb(h)

\* A running handler or job goes on, and a queued job is picked up.
KbFairness ==
    \A h \in Handlers :
        /\ WF_kbVars(KbProgress(h))
        /\ \A d \in Documents : WF_kbVars(StartJob(h, d))

KbSpec == KnowledgeBaseInit /\ [][KbNext]_kbVars
KbFairSpec == KbSpec /\ KbFairness

-------------------------------------------------------------------------------
(* Properties *)

\* The "safe-delete guarantee" (document_service.py:362): whatever a running or
\* repeated ingestion inserts while its document is deleted, no chunk outlives
\* its document, so the assistant never quotes a deleted one.
NoOrphanChunks ==
    \A d \in Documents : chunks[d] # {} => RowExists(d)

\* The commit of a replacement or of an ingestion that was under way does not
\* bring a deleted document back.
DeletedStays ==
    [][\A d \in Documents : document[d].status = "deleted" =>
            document'[d].status = "deleted"]_kbVars

\* "On failure, updates status to 'error' with the error message"
\* (ingestion_service.py:339): a document that was uploaded does not stay pending.
UploadsSettle ==
    \A d \in Documents :
        (document[d].status = "pending") ~> (document[d].status # "pending")
===============================================================================
