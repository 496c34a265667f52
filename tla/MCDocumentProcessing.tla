------------------------ MODULE MCDocumentProcessing ------------------------
(***************************************************************************)
(* Instances of DocumentProcessing for TLC.                                *)
(***************************************************************************)
EXTENDS DocumentProcessing, TLC

CONSTANTS p1, f1, h1, h2

(* The paper's file can also be uploaded by hand.                          *)
MCFileOf == [p \in Papers |-> f1]

(* Two batches: a run can be overtaken between them.                       *)
MCSize == [f \in Files |-> 2]

Symmetry == Permutations(Handlers)

(* The counters of the knowledge base grow and shrink with every request,  *)
(* and nothing but TypeOK reads them: states that differ in them only are  *)
(* taken for one.                                                          *)
View == <<docVars, storeVars, link, milvus, run, req, faults, pastVars>>

(* The rows are what the columns may hold, and chunk rows have vectors     *)
(* (processDocument, prepareDocumentForProcessing).                        *)
RowsAreSound == TypeOK /\ RowsHaveVectors
=============================================================================
