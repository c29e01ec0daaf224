--------------------------------- MODULE Vault ---------------------------------
(***************************************************************************)
(* The documents of an employee (employee/application/document_service.py) *)
(* are rows whose files MinIO holds under a path made of what the upload   *)
(* says. MinIO changes at once; a row changes when the request commits. A  *)
(* document is named here by its bytes: no two uploads bring the same.     *)
(*                                                                         *)
(* Type and name are what the form says, unchecked. Either may have a "/": *)
(* they are sequences of the parts between, and the path joins them.       *)
(***************************************************************************)
EXTENDS FiniteSets, Naturals, Sequences, Server

CONSTANTS
    Papers,        \* bound: documents ever uploaded
    Owners,        \* bound: employees
    PaperTypes,    \* document types, as sequences of parts
    FileNames,     \* names of files, as sequences of parts
    MaxVaultFaults \* bound: requests that fail

VARIABLES
    paper,     \* employee_documents: None before the upload and after the deletion
    object,    \* MinIO: the bytes under each path
    filing,    \* what each handler is doing
    filed,     \* history: what each upload that reached MinIO said
    shredded,  \* history: the documents whose deletion reached MinIO
    served,    \* history: the bytes that downloads of a document gave, None for none
    torn,      \* history: the documents whose own request failed between file and row
    vaultFaults

vaultVars == <<paper, object, filing, filed, shredded, served, torn, vaultFaults>>

-------------------------------------------------------------------------------

\* What an upload says of its document
Labels == [owner : Owners, type : PaperTypes, name : FileNames]

ASSUME VaultBounds ==
    MaxVaultFaults \in Nat /\ None \notin Papers /\ None \notin Labels

\* f"employees/{employee_id}/{document_type}/{file_name}"
StoragePath(label) == <<label.owner>> \o label.type \o label.name

Paths == {StoragePath(label) : label \in Labels}

NotFiling == [pc |-> "idle", doc |-> None, label |-> None]

VaultInit ==
    /\ paper = [d \in Papers |-> None]
    /\ object = [p \in Paths |-> None]
    /\ filing = [h \in Handlers |-> NotFiling]
    /\ filed = [d \in Papers |-> None]
    /\ shredded = {}
    /\ served = [d \in Papers |-> {}]
    /\ torn = {}
    /\ vaultFaults = 0

VaultTypeOK ==
    /\ paper \in [Papers -> Labels \cup {None}]
    /\ object \in [Paths -> Papers \cup {None}]
    /\ filing \in [Handlers -> [pc : {"idle", "store", "insert", "remove", "delete", "fetch"},
                                doc : Papers \cup {None}, label : Labels \cup {None}]]
    /\ filed \in [Papers -> Labels \cup {None}]
    /\ shredded \subseteq Papers
    /\ served \in [Papers -> SUBSET (Papers \cup {None})]
    /\ torn \subseteq Papers
    /\ vaultFaults \in 0..MaxVaultFaults

Filing(h, pc) == filing[h].pc = pc
FileAt(h, pc) == filing' = [filing EXCEPT ![h] = [@ EXCEPT !.pc = pc]]
FiledAway(h) == filing' = [filing EXCEPT ![h] = NotFiling]

\* get_by_id of a document that is there
FindPaper(h, pc) ==
    /\ Filing(h, "idle")
    /\ \E d \in Papers :
        /\ paper[d] # None
        /\ filing' = [filing EXCEPT ![h] = [pc |-> pc, doc |-> d, label |-> paper[d]]]

-------------------------------------------------------------------------------
(* Requests *)

\* upload_document: the owner exists, size and type of the file are accepted.
BeginUpload(h) ==
    /\ Filing(h, "idle")
    /\ \E d \in Papers, label \in Labels :
        /\ filed[d] = None
        /\ \A g \in Handlers : filing[g].doc # d
        /\ filing' = [filing EXCEPT ![h] = [pc |-> "store", doc |-> d, label |-> label]]
    /\ UNCHANGED <<paper, object, filed, shredded, served, torn, vaultFaults>>

\* upload_file: what the path held is replaced.
StoreFile(h) ==
    /\ Filing(h, "store")
    /\ object' = [object EXCEPT ![StoragePath(filing[h].label)] = filing[h].doc]
    /\ filed' = [filed EXCEPT ![filing[h].doc] = filing[h].label]
    /\ FileAt(h, "insert")
    /\ UNCHANGED <<paper, shredded, served, torn, vaultFaults>>

\* The row, and the commit.
InsertPaper(h) ==
    /\ Filing(h, "insert")
    /\ paper' = [paper EXCEPT ![filing[h].doc] = filing[h].label]
    /\ FiledAway(h)
    /\ UNCHANGED <<object, filed, shredded, served, torn, vaultFaults>>

BeginDelete(h) ==
    /\ FindPaper(h, "remove")
    /\ UNCHANGED <<paper, object, filed, shredded, served, torn, vaultFaults>>

\* Mutant: the deletion takes all files of the document's type.
WithFolder(path, label) ==
    \E name \in FileNames : path = <<label.owner>> \o label.type \o name

Removed(path, label) == path = StoragePath(label)

\* delete_file: whatever the path holds by now. S3 does not mind if that is nothing.
RemoveFile(h) ==
    /\ Filing(h, "remove")
    /\ object' = [p \in Paths |-> IF Removed(p, filing[h].label) THEN None ELSE object[p]]
    /\ shredded' = shredded \cup {filing[h].doc}
    /\ FileAt(h, "delete")
    /\ UNCHANGED <<paper, filed, served, torn, vaultFaults>>

\* The row is looked up again, deleted if another request has not, and the commit.
DeletePaper(h) ==
    /\ Filing(h, "delete")
    /\ paper' = [paper EXCEPT ![filing[h].doc] = None]
    /\ torn' = torn \ {filing[h].doc}
    /\ FiledAway(h)
    /\ UNCHANGED <<object, filed, shredded, served, vaultFaults>>

\* download_document: the row first, for the ownership check, then the file.
BeginDownload(h) ==
    /\ FindPaper(h, "fetch")
    /\ UNCHANGED <<paper, object, filed, shredded, served, torn, vaultFaults>>

ServeFile(h) ==
    /\ Filing(h, "fetch")
    /\ served' = [served EXCEPT ![filing[h].doc] =
            @ \cup {object[StoragePath(filing[h].label)]}]
    /\ FiledAway(h)
    /\ UNCHANGED <<paper, object, filed, shredded, torn, vaultFaults>>

\* MinIO or the database fails, or the process ends: the session is rolled back.
VaultFails(h) ==
    /\ ~Filing(h, "idle")
    /\ vaultFaults < MaxVaultFaults
    /\ vaultFaults' = vaultFaults + 1
    /\ torn' = IF Filing(h, "insert") \/ Filing(h, "delete") THEN torn \cup {filing[h].doc}
               ELSE torn
    /\ FiledAway(h)
    /\ UNCHANGED <<paper, object, filed, shredded, served>>

VaultNext ==
    \E h \in Handlers :
        \/ BeginUpload(h) \/ StoreFile(h) \/ InsertPaper(h)
        \/ BeginDelete(h) \/ RemoveFile(h) \/ DeletePaper(h)
        \/ BeginDownload(h) \/ ServeFile(h)
        \/ VaultFails(h)

VaultSpec == VaultInit /\ [][VaultNext]_vaultVars

-------------------------------------------------------------------------------
(* Properties *)

\* Another upload brought a file of the same path, under whatever type and name.
Shared(d) ==
    \E o \in Papers \ {d} :
        filed[o] # None /\ StoragePath(filed[o]) = StoragePath(filed[d])

\* Whatever else is uploaded, deleted or fails: a document whose path is its own has its
\* file until its own deletion begins, and a download gives no other bytes; and when
\* nothing is under way, no file and no row is left without the other, but for documents
\* whose own upload or deletion failed between the two and was not repeated since
\* (document_service.py:139-152, 218-222).
VaultIsWhole ==
    /\ \A d \in Papers : filed[d] # None /\ ~Shared(d) =>
           /\ paper[d] # None /\ d \notin shredded => object[StoragePath(paper[d])] = d
           /\ served[d] \subseteq {d} \cup (IF d \in shredded THEN {None} ELSE {})
    /\ (\A h \in Handlers : Filing(h, "idle")) =>
           \A d \in Papers \ torn : filed[d] # None /\ ~Shared(d) =>
               (paper[d] # None) <=> (\E p \in Paths : object[p] = d)

\* "append-only — uploading a new version keeps previous versions"
\* (employee/domain/entities.py:113).
VersionsKept ==
    \A d \in Papers : paper[d] # None /\ d \notin shredded => object[StoragePath(paper[d])] = d
===============================================================================
