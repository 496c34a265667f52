------------------------- MODULE DocumentProcessing -------------------------
(***************************************************************************)
(* The documents of one knowledge base: DocumentService (upload, remove,   *)
(* reprocess), DocumentProcessorService (the run that cuts a document into *)
(* chunks and stores them batch by batch), and the part of PaperService    *)
(* that puts a paper's file into the knowledge base.                       *)
(*                                                                         *)
(* Handlers start a run and do not wait for it, so that several runs may   *)
(* work on one document.  A document's state is spread over its row, its   *)
(* chunk rows (unique per document and index), the vectors in Milvus, the  *)
(* file on disk and two counters of the knowledge base; no two of them are *)
(* ever written in one transaction.                                        *)
(***************************************************************************)
EXTENDS Integers, FiniteSets

CONSTANTS
    Documents,  (* 1..n: document rows in the order they are created       *)
    Papers,     (* papers, whose files are on disk from the start          *)
    Files,      (* contents of files, as fileHash tells them apart         *)
    NoFile,
    FileOf,     (* the content of each paper's file                        *)
    Size,       (* batches of chunks in each file                          *)
    Handlers,   (* requests that may be in flight at the same time         *)
    Runs,       (* 1..n: calls of processDocument                          *)
    MaxFaults,  (* bound on failing calls and restarts                     *)
    Traffic     (* kinds of request an instance receives                   *)

NoDocument == 0

ASSUME DocumentAssumption ==
    /\ IsFiniteSet(Documents) /\ Documents = 1..Cardinality(Documents)
    /\ IsFiniteSet(Runs) /\ Runs = 1..Cardinality(Runs)
    /\ Papers \cap (Documents \cup {NoDocument}) = {}
    /\ NoFile \notin Files
    /\ FileOf \in [Papers -> Files]
    /\ Size \in [Files -> Nat]
    /\ MaxFaults \in Nat
    /\ Traffic \subseteq {"upload", "remove", "reprocess", "index"}

VARIABLES
    status, counted, size,  (* Document.status, .processedAt set,          *)
                            (* .chunkCount in batches                      *)
    content, path,   (* .fileHash, .filePath (a document's own, a paper's) *)
    deleted,         (* documents with deletedAt                           *)
    rows,            (* batches of DocumentChunk: <<document, index, run>> *)
    vectors,         (* the same in Milvus; the run stands for the new id  *)
    disk,            (* paths with a file                                  *)
    link,            (* Paper.documentId                                   *)
    docCount, chunkCount,   (* of the KnowledgeBase                        *)
    milvus,          (* is there a client; tried only when the process     *)
                     (* starts                                             *)
    run, req,        (* the runs and the handlers in flight                *)
    faults,
    lost,       (* history: documents whose handler or run was cut off     *)
    spoilt,     (* history: documents with a failed call of any kind       *)
    overlapped  (* history: documents cleaned up while a run was under way *)

docVars   == <<status, counted, size, content, path, deleted>>
storeVars == <<rows, vectors, disk>>
kbVars    == <<docCount, chunkCount>>
pastVars  == <<lost, spoilt, overlapped>>
vars == <<docVars, storeVars, kbVars, link, milvus, run, req, faults, pastVars>>

Status == {"pending", "processing", "completed", "failed"}
RunPCs == {"off", "start", "parse", "vectors", "rows", "complete", "count",
           "fail", "done"}
PCs    == {"idle", "upload_create", "index_create", "remove_mark", "remove_count",
           "reset", "clear", "link", "prepare", "prepare_vectors",
           "prepare_rows", "prepare_count", "prepare_reset"}

NoRun   == [pc |-> "off", d |-> NoDocument, at |-> 0]
IdleReq == [pc |-> "idle", d |-> NoDocument, p |-> NoDocument, f |-> NoFile,
            n |-> 0, go |-> FALSE, counted |-> FALSE]

TypeOK ==
    /\ status \in [Documents -> Status \cup {"none"}]
    /\ counted \in [Documents -> BOOLEAN]
    /\ size \in [Documents -> Nat]
    /\ content \in [Documents -> Files \cup {NoFile}]
    /\ path \in [Documents -> Documents \cup Papers]
    /\ deleted \in SUBSET Documents
    /\ rows \in SUBSET (Documents \X Nat \X Runs)
    /\ vectors \in SUBSET (Documents \X Nat \X Runs)
    /\ disk \in SUBSET (Documents \cup Papers)
    /\ link \in [Papers -> Documents \cup {NoDocument}]
    /\ docCount \in Int /\ chunkCount \in Int
    /\ milvus \in BOOLEAN
    /\ run \in [Runs -> [pc : RunPCs, d : Documents \cup {NoDocument}, at : Nat]]
    /\ req \in [Handlers -> [pc : PCs, d : Documents \cup {NoDocument},
                             p : Papers \cup {NoDocument},
                             f : Files \cup {NoFile}, n : Nat,
                             go : BOOLEAN, counted : BOOLEAN]]
    /\ faults \in 0..MaxFaults
    /\ lost \in SUBSET Documents
    /\ spoilt \in SUBSET Documents
    /\ overlapped \in SUBSET Documents
-----------------------------------------------------------------------------
Exists(d) == status[d] # "none"
Live(d)   == Exists(d) /\ d \notin deleted

(* Runs and handlers that are under way with a document.                   *)
Active(r)   == run[r].pc \notin {"off", "done"}
RunsOn(d)   == {r \in Runs : Active(r) /\ run[r].d = d}
Busy(h)     == req[h].pc # "idle"
AtRest(d)   == RunsOn(d) = {} /\ \A h \in Handlers : Busy(h) => req[h].d # d

At(h, pc)   == req[h].pc = pc
Goto(h, pc) == req' = [req EXCEPT ![h].pc = pc]
Done(h)     == req' = [req EXCEPT ![h] = IdleReq]
Begin(h, r) == At(h, "idle") /\ req' = [req EXCEPT ![h] = r]

(* processDocument(d) is called and not waited for.                        *)
Process(d) ==
    \E r \in Runs :
        /\ run[r].pc = "off"
        /\ \A q \in Runs : q < r => run[q].pc # "off"
        /\ run' = [run EXCEPT ![r] = [pc |-> "start", d |-> d, at |-> 1]]

(* A new row of Document.                                                  *)
CreateRow(d, f, where) ==
    /\ ~Exists(d)
    /\ \A e \in Documents : e < d => Exists(e)
    /\ status' = [status EXCEPT ![d] = "pending"]
    /\ content' = [content EXCEPT ![d] = f]
    /\ path' = [path EXCEPT ![d] = where]
    /\ UNCHANGED <<counted, size, deleted>>

(* Both ways to start over reset the same columns.                         *)
ResetRow(d) ==
    /\ status' = [status EXCEPT ![d] = "pending"]
    /\ counted' = [counted EXCEPT ![d] = FALSE]
    /\ size' = [size EXCEPT ![d] = 0]
    /\ UNCHANGED <<content, path, deleted>>

(* onModuleInit looks for the Milvus server once, for 800 ms.              *)
FindsMilvus == BOOLEAN

Init ==
    /\ status = [d \in Documents |-> "none"]
    /\ counted = [d \in Documents |-> FALSE]
    /\ size = [d \in Documents |-> 0]
    /\ content = [d \in Documents |-> NoFile]
    /\ path = [d \in Documents |-> d]
    /\ deleted = {}
    /\ rows = {} /\ vectors = {}
    /\ disk = Papers
    /\ link = [p \in Papers |-> NoDocument]
    /\ docCount = 0 /\ chunkCount = 0
    /\ milvus \in FindsMilvus
    /\ run = [r \in Runs |-> NoRun]
    /\ req = [h \in Handlers |-> IdleReq]
    /\ faults = 0
    /\ lost = {} /\ spoilt = {} /\ overlapped = {}
-----------------------------------------------------------------------------
(* Enough runs, or rows, are left for all handlers in flight (bounds of    *)
(* the model).                                                             *)
Room == Cardinality({r \in Runs : run[r].pc = "off"})
           > Cardinality({h \in Handlers : Busy(h)})
RoomForRow == Cardinality({d \in Documents : ~Exists(d)})
                 > Cardinality({h \in Handlers : Busy(h)})

(* DocumentService.upload: a live document with the same content is        *)
(* returned and nothing happens; otherwise the row is created, and the run *)
(* called.                                                                 *)
UploadFind(h, f) ==
    /\ Room /\ RoomForRow
    /\ \A d \in Documents : Live(d) => content[d] # f
    /\ Begin(h, [IdleReq EXCEPT !.pc = "upload_create", !.f = f])
    /\ UNCHANGED <<docVars, storeVars, kbVars, link, milvus, run, faults,
                   pastVars>>

UploadCreate(h) ==
    /\ At(h, "upload_create")
    /\ \E d \in Documents :
          /\ CreateRow(d, req[h].f, d)
          /\ disk' = disk \cup {d}
          /\ Process(d)
    /\ Done(h)
    /\ UNCHANGED <<rows, vectors, kbVars, link, milvus, faults, pastVars>>
-----------------------------------------------------------------------------
(* processDocument.  The row says "processing" before it has been read.    *)
RunStart(r) ==
    /\ run[r].pc = "start"
    /\ status' = [status EXCEPT ![run[r].d] = "processing"]
    /\ run' = [run EXCEPT ![r].pc = "parse"]
    /\ UNCHANGED <<counted, size, content, path, deleted, storeVars, kbVars,
                   link, milvus, req, faults, pastVars>>

(* The row is read and its file parsed and cut; it may have been unlinked. *)
RunParse(r) ==
    /\ run[r].pc = "parse"
    /\ LET d == run[r].d
           next == IF path[d] \notin disk THEN "fail"
                   ELSE IF Size[content[d]] = 0 THEN "complete" ELSE "vectors"
       IN  run' = [run EXCEPT ![r].pc = next]
    /\ UNCHANGED <<docVars, storeVars, kbVars, link, milvus, req, faults,
                   pastVars>>

(* insert: without a client it returns no ids and no error.                *)
Inserted(new) == IF milvus THEN vectors \cup new ELSE vectors

(* deleteByDocumentId: of all runs, whatever was inserted.                 *)
VectorsWithout(d) == IF milvus THEN {v \in vectors : v[1] # d} ELSE vectors

(* insertVectors: one batch is embedded and inserted into Milvus.          *)
RunVectors(r) ==
    /\ run[r].pc = "vectors"
    /\ vectors' = Inserted({<<run[r].d, run[r].at, r>>})
    /\ run' = [run EXCEPT ![r].pc = "rows"]
    /\ UNCHANGED <<docVars, rows, disk, kbVars, link, milvus, req, faults,
                   pastVars>>

(* Mutant: the last batch is forgotten.                                    *)
RunRowsStopsEarly(r) ==
    /\ run[r].pc = "rows"
    /\ milvus
    /\ LET d == run[r].d
           i == run[r].at
       IN  /\ \A q \in Runs : <<d, i, q>> \notin rows
           /\ rows' = rows \cup {<<d, i, r>>}
           /\ run' = [run EXCEPT
                        ![r].pc = IF i + 1 >= Size[content[d]] THEN "complete" ELSE "vectors",
                        ![r].at = i + 1]
    /\ UNCHANGED <<docVars, vectors, disk, kbVars, link, milvus, req, faults,
                   pastVars>>

(* createMany fails as a whole when an index is there already (the unique  *)
(* index of DocumentChunk), and for want of vector ids.                    *)
RunRows(r) ==
    /\ run[r].pc = "rows"
    /\ LET d == run[r].d
           i == run[r].at
       IN  \/ /\ ~milvus \/ \E q \in Runs : <<d, i, q>> \in rows
              /\ run' = [run EXCEPT ![r].pc = "fail"]
              /\ UNCHANGED rows
           \/ /\ milvus /\ \A q \in Runs : <<d, i, q>> \notin rows
              /\ rows' = rows \cup {<<d, i, r>>}
              /\ run' = [run EXCEPT
                           ![r].pc = IF i = Size[content[d]] THEN "complete" ELSE "vectors",
                           ![r].at = i + 1]
    /\ UNCHANGED <<docVars, vectors, disk, kbVars, link, milvus, req, faults,
                   pastVars>>

RunComplete(r) ==
    /\ run[r].pc = "complete"
    /\ LET d == run[r].d
       IN  /\ status' = [status EXCEPT ![d] = "completed"]
           /\ counted' = [counted EXCEPT ![d] = TRUE]
           /\ size' = [size EXCEPT ![d] = Size[content[d]]]
    /\ run' = [run EXCEPT ![r].pc = "count"]
    /\ UNCHANGED <<content, path, deleted, storeVars, kbVars, link, milvus,
                   req, faults, pastVars>>

RunCount(r) ==
    /\ run[r].pc = "count"
    /\ docCount' = docCount + 1
    /\ chunkCount' = chunkCount + Size[content[run[r].d]]
    /\ run' = [run EXCEPT ![r].pc = "done"]
    /\ UNCHANGED <<docVars, storeVars, link, milvus, req, faults, pastVars>>

(* Mutant: the error is only logged.                                       *)
RunFailLogOnly(r) ==
    /\ run[r].pc = "fail"
    /\ run' = [run EXCEPT ![r].pc = "done"]
    /\ UNCHANGED <<docVars, storeVars, kbVars, link, milvus, req, faults,
                   pastVars>>

(* The catch block; what was stored remains.                               *)
RunFail(r) ==
    /\ run[r].pc = "fail"
    /\ status' = [status EXCEPT ![run[r].d] = "failed"]
    /\ run' = [run EXCEPT ![r].pc = "done"]
    /\ UNCHANGED <<counted, size, content, path, deleted, storeVars, kbVars,
                   link, milvus, req, faults, pastVars>>
-----------------------------------------------------------------------------
(* DocumentService.remove: a mark on the row, the file, and the counters   *)
(* by what the row said at first; rows and vectors stay.                   *)
RemoveFind(h, d) ==
    /\ Live(d)
    /\ Begin(h, [IdleReq EXCEPT !.pc = "remove_mark", !.d = d, !.n = size[d]])
    /\ UNCHANGED <<docVars, storeVars, kbVars, link, milvus, run, faults,
                   pastVars>>

RemoveMark(h) ==
    /\ At(h, "remove_mark")
    /\ deleted' = deleted \cup {req[h].d}
    /\ Goto(h, "remove_count")
    /\ UNCHANGED <<status, counted, size, content, path, storeVars, kbVars, link,
                   milvus, run, faults, pastVars>>

(* The file goes before the counters are asked to change; no step here     *)
(* depends on them, so both are one.                                       *)
RemoveCount(h) ==
    /\ At(h, "remove_count")
    /\ disk' = disk \ {path[req[h].d]}
    /\ docCount' = docCount - 1
    /\ chunkCount' = chunkCount - req[h].n
    /\ Done(h)
    /\ UNCHANGED <<docVars, rows, vectors, link, milvus, run, faults, pastVars>>
-----------------------------------------------------------------------------
(* DocumentService.reprocess: the row is reset, the chunk rows deleted and *)
(* a run called.  Vectors and counters are left as they are.               *)
ReprocessFind(h, d) ==
    /\ Room
    /\ Live(d)
    /\ Begin(h, [IdleReq EXCEPT !.pc = "reset", !.d = d])
    /\ UNCHANGED <<docVars, storeVars, kbVars, link, milvus, run, faults,
                   pastVars>>

ReprocessReset(h) ==
    /\ At(h, "reset")
    /\ ResetRow(req[h].d)
    /\ Goto(h, "clear")
    /\ UNCHANGED <<storeVars, kbVars, link, milvus, run, faults, pastVars>>

ReprocessClear(h) ==
    /\ At(h, "clear")
    /\ rows' = {row \in rows : row[1] # req[h].d}
    /\ Process(req[h].d)
    /\ Done(h)
    /\ UNCHANGED <<docVars, vectors, disk, kbVars, link, milvus, faults,
                   pastVars>>
-----------------------------------------------------------------------------
(* PaperService.indexToKnowledgeBase: the document the paper is linked to, *)
(* else the oldest live one with the same content, else a new one.  What   *)
(* is decided here from the status that was read is carried out later.     *)
(* The reads are one step: a link written between them is of a document    *)
(* that the search by content finds as well.                               *)
IndexFind(h, p, again) ==
    LET same == {d \in Documents : Live(d) /\ content[d] = FileOf[p]}
        d == IF link[p] # NoDocument /\ Live(link[p]) THEN link[p]
             ELSE IF same # {} THEN CHOOSE e \in same : \A c \in same : e <= c
             ELSE NoDocument
        go == again \/ d = NoDocument \/ status[d] \in {"pending", "failed"}
        next == IF d = NoDocument THEN "index_create"
                ELSE IF d # link[p] THEN "link" ELSE "prepare"
    IN  /\ Room
        /\ p \in disk
        /\ next = "prepare" => go
        /\ next = "index_create" => RoomForRow
        /\ Begin(h, [IdleReq EXCEPT !.pc = next, !.d = d, !.p = p, !.go = go])
        /\ UNCHANGED <<docVars, storeVars, kbVars, link, milvus, run, faults,
                       pastVars>>

IndexCreate(h) ==
    /\ At(h, "index_create")
    /\ \E d \in Documents :
          /\ CreateRow(d, FileOf[req[h].p], req[h].p)
          /\ req' = [req EXCEPT ![h].pc = "link", ![h].d = d]
    /\ UNCHANGED <<storeVars, kbVars, link, milvus, run, faults, pastVars>>

IndexLink(h) ==
    /\ At(h, "link")
    /\ link' = [link EXCEPT ![req[h].p] = req[h].d]
    /\ IF req[h].go THEN Goto(h, "prepare") ELSE Done(h)
    /\ UNCHANGED <<docVars, storeVars, kbVars, milvus, run, faults, pastVars>>

(* prepareDocumentForProcessing, call by call.                             *)
Prepare(h) ==
    /\ At(h, "prepare")
    /\ LET d == req[h].d
       IN  req' = [req EXCEPT ![h].pc = "prepare_vectors", ![h].n = size[d],
                              ![h].counted = counted[d] \/ status[d] = "completed"]
    /\ UNCHANGED <<docVars, storeVars, kbVars, link, milvus, run, faults,
                   pastVars>>

PrepareVectors(h) ==
    /\ At(h, "prepare_vectors")
    /\ LET d == req[h].d
       IN  /\ vectors' = VectorsWithout(d)
           /\ overlapped' = IF RunsOn(d) = {} THEN overlapped ELSE overlapped \cup {d}
    /\ Goto(h, "prepare_rows")
    /\ UNCHANGED <<docVars, rows, disk, kbVars, link, milvus, run, faults, lost,
                   spoilt>>

(* Mutant: the chunk rows are kept.                                        *)
PrepareRowsKept(h) ==
    /\ At(h, "prepare_rows")
    /\ Goto(h, IF req[h].counted THEN "prepare_count" ELSE "prepare_reset")
    /\ UNCHANGED <<docVars, storeVars, kbVars, link, milvus, run, faults,
                   pastVars>>

PrepareRows(h) ==
    /\ At(h, "prepare_rows")
    /\ rows' = {row \in rows : row[1] # req[h].d}
    /\ Goto(h, IF req[h].counted THEN "prepare_count" ELSE "prepare_reset")
    /\ UNCHANGED <<docVars, vectors, disk, kbVars, link, milvus, run, faults,
                   pastVars>>

PrepareCount(h) ==
    /\ At(h, "prepare_count")
    /\ docCount' = docCount - 1
    /\ chunkCount' = chunkCount - req[h].n
    /\ Goto(h, "prepare_reset")
    /\ UNCHANGED <<docVars, storeVars, link, milvus, run, faults, pastVars>>

PrepareReset(h) ==
    /\ At(h, "prepare_reset")
    /\ ResetRow(req[h].d)
    /\ Process(req[h].d)
    /\ Done(h)
    /\ UNCHANGED <<storeVars, kbVars, link, milvus, faults, pastVars>>
-----------------------------------------------------------------------------
Fault == faults < MaxFaults /\ faults' = faults + 1

Spoil(d) == spoilt' = spoilt \cup ({d} \ {NoDocument})

(* A call throws.  Whatever the run was at, the catch block follows; if it *)
(* is the catch block's own update, nothing does.                          *)
RunFault(r) ==
    /\ Active(r) /\ Fault
    /\ LET d == run[r].d
           over == run[r].pc = "fail"
       IN  /\ run' = [run EXCEPT ![r].pc = IF over THEN "done" ELSE "fail"]
           /\ lost' = IF over THEN lost \cup {d} ELSE lost
           /\ Spoil(d)
    /\ UNCHANGED <<docVars, storeVars, kbVars, link, milvus, req, overlapped>>

(* A handler answers with the error, except that a failed deletion of      *)
(* vectors is only logged.  A document already reset or to be prepared is  *)
(* then without a run; the file of a document marked as deleted is gone.   *)
HandlerFault(h) ==
    /\ Busy(h) /\ Fault
    /\ IF At(h, "prepare_vectors") THEN Goto(h, "prepare_rows") ELSE Done(h)
    /\ disk' = IF At(h, "remove_count") THEN disk \ {path[req[h].d]} ELSE disk
    /\ lost' = IF req[h].pc \in {"clear", "link", "prepare", "prepare_rows",
                                 "prepare_count", "prepare_reset"}
               THEN lost \cup {req[h].d} ELSE lost
    /\ Spoil(req[h].d)
    /\ UNCHANGED <<docVars, rows, vectors, kbVars, link, milvus, run, overlapped>>

(* The process is killed and started again: runs are not resumed.          *)
Crash ==
    /\ Fault
    /\ LET cut == {d \in Documents : ~AtRest(d)}
       IN  lost' = lost \cup cut /\ spoilt' = spoilt \cup cut
    /\ run' = [r \in Runs |-> IF Active(r) THEN [run[r] EXCEPT !.pc = "done"] ELSE run[r]]
    /\ req' = [h \in Handlers |-> IdleReq]
    /\ milvus' \in FindsMilvus
    /\ UNCHANGED <<docVars, storeVars, kbVars, link, overlapped>>
-----------------------------------------------------------------------------
Arrive(h) ==
    \/ "upload" \in Traffic /\ \E f \in Files : UploadFind(h, f)
    \/ "remove" \in Traffic /\ \E d \in Documents : RemoveFind(h, d)
    \/ "reprocess" \in Traffic /\ \E d \in Documents : ReprocessFind(h, d)
    \/ "index" \in Traffic /\ \E p \in Papers, again \in BOOLEAN : IndexFind(h, p, again)

Continue(h) ==
    \/ UploadCreate(h)
    \/ RemoveMark(h) \/ RemoveCount(h)
    \/ ReprocessReset(h) \/ ReprocessClear(h)
    \/ IndexCreate(h) \/ IndexLink(h)
    \/ Prepare(h) \/ PrepareVectors(h) \/ PrepareRows(h) \/ PrepareCount(h)
    \/ PrepareReset(h)

RunGoesOn(r) ==
    \/ RunStart(r) \/ RunParse(r) \/ RunVectors(r) \/ RunRows(r)
    \/ RunComplete(r) \/ RunCount(r) \/ RunFail(r)

Next ==
    \/ \E h \in Handlers : Arrive(h) \/ Continue(h) \/ HandlerFault(h)
    \/ \E r \in Runs : RunGoesOn(r) \/ RunFault(r)
    \/ Crash

Spec == Init /\ [][Next]_vars
-----------------------------------------------------------------------------
(* A document that is shown as completed, with nothing under way, has a    *)
(* row for every chunk, whatever reprocessing and indexing overlapped: the *)
(* runs that delete each other's chunks collide on the unique index, and   *)
(* only the one that stored the last chunk completes.  It takes a failed   *)
(* call or the loss of the file (which two documents of one paper share,   *)
(* and which removing either deletes) for the last run to store nothing.   *)
CompletedHasAllChunks ==
    \A d \in Documents :
        /\ Live(d) /\ AtRest(d) /\ status[d] = "completed"
        /\ d \notin spoilt /\ path[d] \in disk
        => \A i \in 1..Size[content[d]] : \E r \in Runs : <<d, i, r>> \in rows

(* A chunk row refers to a vector that is in Milvus, unless vectors were   *)
(* deleted under a run or a call failed.                                   *)
RowsHaveVectors ==
    \A d \in Documents : AtRest(d) /\ d \notin spoilt \cup overlapped
        => \A row \in rows : row[1] = d => row \in vectors

(* Nobody waits for a document in vain: with nothing under way it is       *)
(* neither pending nor processing, however runs overlapped and failed,     *)
(* unless its last handler or run was cut off.                             *)
DocumentsAreNotForgotten ==
    \A d \in Documents :
        AtRest(d) /\ d \notin lost => status[d] \notin {"pending", "processing"}
=============================================================================
