--------------------------------- MODULE Library ---------------------------------
(* The library registry, a JSON file of rows, and the retrieval index of its     *)
(* documents: the dense table on disk and the pipeline's view in memory, changed *)
(* together under one lock.  The calls of the API read and save rows in the      *)
(* event loop and run the index in threads; a row saved at the end is the one    *)
(* read at the start.  The chunks of a document are added and removed together.  *)
(* A batch is a call per document; the corpus has other documents.               *)
EXTENDS Naturals

CONSTANTS
  Document,      \* documents of the registry
  Paper,         \* those that are papers, imported by fetching them
  LibraryCall,   \* calls under way
  MaxRestarts    \* bound: restarts of the server

ASSUME LibraryAssumption == /\ Paper \subseteq Document /\ MaxRestarts \in Nat
                            /\ "none" \notin Document /\ "free" \notin LibraryCall

VARIABLES
  row,         \* the registry: status, and whether there is an artifact of segments
  wasReady,    \* documents with a version whose status is knowledge_ready
  dense,       \* how often the table has the chunks of each document
  inMemory,    \* documents of the pipeline (document_by_id and the sparse index)
  indexLock,   \* the call that holds it, or "free"
  callPlace,   \* where each call is
  callDoc,     \* its document
  overlapped,  \* calls during which another changed, or began with, their document
  restarts,
  stale,       \* documents whose row is known not to tell what the index has
  torn         \* documents whose row and index a restart met in disagreement

libraryVars == <<row, wasReady, dense, inMemory, indexLock, callPlace, callDoc, overlapped,
                 restarts, stale, torn>>

RowStatus == {"absent", "metadata_saved", "fetching", "fetch_failed", "parsed", "indexing",
              "index_failed", "knowledge_ready"}
InIndex == {"adding", "added", "removing", "deleted"}

LibraryTypeOK ==
  /\ row \in [Document -> [status : RowStatus, segments : BOOLEAN]]
  /\ wasReady \subseteq Document /\ inMemory \subseteq Document
  /\ stale \subseteq Document /\ torn \subseteq Document
  /\ dense \in [Document -> Nat]
  /\ indexLock \in LibraryCall \cup {"free"}
  /\ callPlace \in [LibraryCall -> {"none", "fetch", "index", "indexed", "failed", "remove",
                                    "remove nothing", "removed"} \cup InIndex]
  /\ callDoc \in [LibraryCall -> Document \cup {"none"}] /\ overlapped \subseteq LibraryCall
  /\ restarts \in 0..MaxRestarts

NoRow == [status |-> "absent", segments |-> FALSE]
LibraryInit ==
  /\ row = [d \in Document |-> NoRow]
  /\ wasReady = {} /\ inMemory = {} /\ stale = {} /\ torn = {}
  /\ dense = [d \in Document |-> 0]
  /\ indexLock = "free"
  /\ callPlace = [c \in LibraryCall |-> "none"]
  /\ callDoc = callPlace
  /\ overlapped = {} /\ restarts = 0

CallsOn(d) == {c \in LibraryCall : callDoc[c] = d}

\* save_document_row: the prior row becomes a version
Save(d, status, segments) ==
  /\ row' = [row EXCEPT ![d] = [status |-> status, segments |-> segments]]
  /\ wasReady' = IF row[d].status = "knowledge_ready" THEN wasReady \cup {d} ELSE wasReady
\* save_paper_row: so it does, but a row of the same status leaves no versions
SavePaper(d, status, segments) ==
  \/ row[d].status # status /\ Save(d, status, segments)
  \/ /\ row[d].status = status
     /\ row' = [row EXCEPT ![d].segments = segments] /\ wasReady' = wasReady \ {d}
SaveEither(d, status, segments) ==
  Save(d, status, segments) \/ (d \in Paper /\ SavePaper(d, status, segments))
SaveNothing == UNCHANGED <<row, wasReady>>

Begin(c, d, place) ==
  /\ callPlace[c] = "none"
  /\ callPlace' = [callPlace EXCEPT ![c] = place] /\ callDoc' = [callDoc EXCEPT ![c] = d]
  /\ overlapped' = IF CallsOn(d) = {} THEN overlapped ELSE overlapped \cup CallsOn(d) \cup {c}
Proceed(c, from, to) ==
  /\ callPlace[c] = from
  /\ callPlace' = [callPlace EXCEPT ![c] = to]
  /\ callDoc' = IF to = "none" THEN [callDoc EXCEPT ![c] = "none"] ELSE callDoc
  /\ overlapped' = IF to = "none" THEN overlapped \ {c} ELSE overlapped
Between(d) == overlapped' = overlapped \cup CallsOn(d) /\ UNCHANGED <<callPlace, callDoc>>

Distrust(d) == stale' = stale \cup {d}
\* Chunks in the index are lost sight of when the row has no segments any more.
Orphans(d) == IF d \in inMemory THEN Distrust(d) ELSE UNCHANGED stale

--------------------------------------------------------------------------------
(* What the endpoints do first.                                                *)

\* import_library_document; reindex_library_document of a row with segments
ImportDocument(c, d) ==
  /\ d \notin Paper \/ row[d].segments
  /\ Begin(c, d, "index")
  /\ Save(d, "indexing", TRUE)
  /\ UNCHANGED <<dense, inMemory, indexLock, restarts, stale, torn>>

\* save_or_import_library_paper: the new row has no segments until they are parsed
ImportPaper(c, d) ==
  /\ d \in Paper
  /\ Begin(c, d, "fetch")
  /\ SavePaper(d, "fetching", FALSE)
  /\ Orphans(d)
  /\ UNCHANGED <<dense, inMemory, indexLock, restarts, torn>>

\* its action metadata, which ends there
SaveMetadata(d) ==
  /\ d \in Paper
  /\ SavePaper(d, "metadata_saved", FALSE)
  /\ Orphans(d)
  /\ Between(d)
  /\ UNCHANGED <<dense, inMemory, indexLock, restarts, torn>>

FetchFails(c) ==
  /\ Proceed(c, "fetch", "none")
  /\ SavePaper(callDoc[c], "fetch_failed", FALSE)
  /\ UNCHANGED <<dense, inMemory, indexLock, restarts, stale, torn>>

Fetched(c) ==
  /\ Proceed(c, "fetch", "index")
  /\ SavePaper(callDoc[c], "indexing", TRUE)
  /\ UNCHANGED <<dense, inMemory, indexLock, restarts, stale, torn>>

\* batch remove: the chunks are those of the row's segments
RemoveDocument(c, d) ==
  /\ row[d].status # "absent"
  /\ Begin(c, d, IF row[d].segments THEN "remove" ELSE "remove nothing")
  /\ SaveNothing
  /\ UNCHANGED <<dense, inMemory, indexLock, restarts, stale, torn>>

\* restore_library_document of a version that was ready (of another: it is not);
\* of a row without its document it adds a second row, which is left out
RestoreVersion(d) ==
  /\ d \in wasReady /\ row[d].segments
  /\ Save(d, "knowledge_ready", TRUE)
  /\ Distrust(d)
  /\ Between(d)
  /\ UNCHANGED <<dense, inMemory, indexLock, restarts, torn>>

--------------------------------------------------------------------------------
(* add_documents and remove_documents, in threads.                             *)

\* Mutant of Unlocked: the index is not locked.
UnlockedAlways == TRUE
Unlocked == indexLock = "free"

Enters(c, from, to) == Unlocked /\ Proceed(c, from, to) /\ indexLock' = c
Leaves(c, from, to) == Proceed(c, from, to) /\ indexLock' = "free"

\* Mutant of Pending: chunks that are in the pipeline are added again.
PendingAlways(d) == TRUE
Pending(d) == d \notin inMemory

AddDocuments(c) ==
  /\ \/ Pending(callDoc[c]) /\ Enters(c, "index", "adding")
     \/ ~Pending(callDoc[c]) /\ Unlocked /\ Proceed(c, "index", "indexed") /\ UNCHANGED indexLock
  /\ SaveNothing
  /\ UNCHANGED <<dense, inMemory, restarts, stale, torn>>

\* the embedding, or the table, raises
AddFails(c) ==
  /\ Leaves(c, "adding", "failed")
  /\ SaveNothing
  /\ UNCHANGED <<dense, inMemory, restarts, stale, torn>>

AddDense(c) ==
  /\ Proceed(c, "adding", "added")
  /\ dense' = [dense EXCEPT ![callDoc[c]] = @ + 1]
  /\ SaveNothing
  /\ UNCHANGED <<inMemory, indexLock, restarts, stale, torn>>

AddToPipeline(c) ==
  /\ Leaves(c, "added", "indexed")
  /\ inMemory' = inMemory \cup {callDoc[c]}
  /\ SaveNothing
  /\ UNCHANGED <<dense, restarts, stale, torn>>

RemoveDocuments(c) ==
  /\ \/ callDoc[c] \in inMemory /\ Enters(c, "remove", "removing")
     \/ callDoc[c] \notin inMemory /\ Unlocked /\ Proceed(c, "remove", "removed")
          /\ UNCHANGED indexLock
  /\ SaveNothing
  /\ UNCHANGED <<dense, inMemory, restarts, stale, torn>>

DeleteDense(c) ==
  /\ Proceed(c, "removing", "deleted")
  /\ dense' = [dense EXCEPT ![callDoc[c]] = 0]
  /\ SaveNothing
  /\ UNCHANGED <<inMemory, indexLock, restarts, stale, torn>>

\* the table raises: the endpoint saves nothing
DeleteFails(c) ==
  /\ Leaves(c, "removing", "none")
  /\ SaveNothing
  /\ UNCHANGED <<dense, inMemory, restarts, stale, torn>>

RemoveFromPipeline(c) ==
  /\ Leaves(c, "deleted", "removed")
  /\ inMemory' = inMemory \ {callDoc[c]}
  /\ SaveNothing
  /\ UNCHANGED <<dense, restarts, stale, torn>>

--------------------------------------------------------------------------------
(* What the endpoints do last.  A call that nothing overlapped sets the row right, *)
(* whatever it was.                                                              *)

Settles(c) == stale' = IF c \in overlapped THEN stale \cup {callDoc[c]} ELSE stale \ {callDoc[c]}

FinishIndex(c) ==
  /\ Proceed(c, "indexed", "none")
  /\ SaveEither(callDoc[c], "knowledge_ready", TRUE)
  /\ Settles(c)
  /\ UNCHANGED <<dense, inMemory, indexLock, restarts, torn>>

\* Mutant of FailedStatus: the row of a failed call is saved like any other.
FailedStatusReady == "knowledge_ready"
FailedStatus == "index_failed"
FailIndex(c) ==
  /\ Proceed(c, "failed", "none")
  /\ SaveEither(callDoc[c], FailedStatus, TRUE)
  /\ UNCHANGED <<dense, inMemory, indexLock, restarts, stale, torn>>

FinishRemove(c) ==
  /\ \/ Proceed(c, "removed", "none") /\ Save(callDoc[c], "parsed", TRUE) /\ Settles(c)
     \/ Proceed(c, "remove nothing", "none") /\ Save(callDoc[c], "parsed", FALSE)
          /\ (IF c \in overlapped THEN Distrust(callDoc[c]) ELSE UNCHANGED stale)
  /\ UNCHANGED <<dense, inMemory, indexLock, restarts, torn>>

\* The server restarts: the pipeline is loaded from the rows that are ready.  A
\* registry whose writing was cut short does not parse and is read as an empty one.
RestartLibrary ==
  /\ restarts < MaxRestarts /\ restarts' = restarts + 1
  /\ \/ SaveNothing /\ torn' = torn \cup stale \cup {d \in Document : CallsOn(d) # {}}
     \/ row' = [d \in Document |-> NoRow] /\ wasReady' = {} /\ torn' = Document
  /\ inMemory' = {d \in Document : row'[d].status = "knowledge_ready" /\ row'[d].segments}
  /\ callPlace' = [c \in LibraryCall |-> "none"]
  /\ callDoc' = callPlace' /\ overlapped' = {} /\ indexLock' = "free"
  /\ UNCHANGED <<dense, stale>>

LibraryUser ==
  \/ \E c \in LibraryCall, d \in Document :
       ImportDocument(c, d) \/ ImportPaper(c, d) \/ RemoveDocument(c, d)
  \/ \E d \in Document : SaveMetadata(d) \/ RestoreVersion(d)
  \/ RestartLibrary

CallStep(c) ==
  \/ FetchFails(c) \/ Fetched(c)
  \/ AddDocuments(c) \/ AddFails(c) \/ AddDense(c) \/ AddToPipeline(c)
  \/ RemoveDocuments(c) \/ DeleteDense(c) \/ DeleteFails(c) \/ RemoveFromPipeline(c)
  \/ FinishIndex(c) \/ FailIndex(c) \/ FinishRemove(c)

LibraryNext == LibraryUser \/ \E c \in LibraryCall : CallStep(c)

LibrarySpec == LibraryInit /\ [][LibraryNext]_libraryVars

--------------------------------------------------------------------------------
\* Until a restart meets a call under way, the dense table has the chunks of just
\* the documents of the pipeline, once, whenever nobody holds the lock: a search,
\* which looks every hit of the table up in the pipeline, finds it.
TablesAgree ==
  indexLock = "free" /\ torn = {} =>
    \A d \in Document : dense[d] = IF d \in inMemory THEN 1 ELSE 0

\* What the status says is so, apart from the cases of stale and torn: a ready
\* document is in the index, one that was removed is not.
StatusIsTrue ==
  \A d \in Document \ (stale \cup torn) : CallsOn(d) = {} =>
    /\ row[d].status = "knowledge_ready" => d \in inMemory
    /\ row[d].status = "parsed" => d \notin inMemory

\* The row, the table and the pipeline tell the same of a document.
RowsMatchIndex == TablesAgree /\ StatusIsTrue
================================================================================
