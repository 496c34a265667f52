--------------------------- MODULE DocumentProofs ---------------------------
(***************************************************************************)
(* Theorems about DocumentProcessing: types, chunk rows and their vectors, *)
(* documents that nobody works on, and documents shown as completed.       *)
(***************************************************************************)
EXTENDS MCDocumentProcessing, FiniteSetTheorems, WellFoundedInduction, TLAPS

RunRecords == [pc : RunPCs, d : Documents \cup {NoDocument}, at : Nat]
ReqRecords == [pc : PCs, d : Documents \cup {NoDocument}, p : Papers \cup {NoDocument},
               f : Files \cup {NoFile}, n : Nat, go : BOOLEAN, counted : BOOLEAN]

Storing(r) == run[r].pc \in {"vectors", "rows"}

(* A run works on a document that is there, from its first batch to its    *)
(* last.                                                                   *)
RunsKnown ==
    \A r \in Runs :
        /\ run[r].pc = "off" => run[r].d = NoDocument
        /\ run[r].pc # "off" => run[r].d \in Documents /\ Exists(run[r].d) /\ run[r].at >= 1
        /\ run[r].pc \in {"start", "parse"} => run[r].at = 1
        /\ Storing(r) => run[r].at <= Size[content[run[r].d]]

(* So does a handler, once it has found or created the document; and only  *)
(* one that is to start a run creates or prepares one.                     *)
Unfound == {"idle", "upload_create", "index_create"}
HandlersKnown ==
    \A h \in Handlers :
        /\ req[h].pc \in Unfound => req[h].d = NoDocument
        /\ req[h].pc \notin Unfound => req[h].d \in Documents /\ Exists(req[h].d)
        /\ req[h].pc = "upload_create" => req[h].f \in Files
        /\ req[h].pc \in {"index_create", "link"} => req[h].p \in Papers
        /\ req[h].pc = "index_create" => req[h].go

RowsKnown ==
    /\ \A row \in rows : Exists(row[1])
    /\ \A d \in Documents : Exists(d) => content[d] \in Files
    /\ \A d \in Documents : path[d] \in Documents => path[d] = d

Known == RunsKnown /\ HandlersKnown /\ RowsKnown
-----------------------------------------------------------------------------
(* Numbers.                                                                *)
LEMMA DocumentsAreNumbers ==
    /\ Documents \subseteq Nat \ {0} /\ NoDocument \notin Documents
    /\ Runs \subseteq Nat
BY DocumentAssumption, FS_CardinalityType DEF NoDocument

LEMMA LessIsWellFounded == IsWellFoundedOn({ss \in Nat \X Nat : ss[1] < ss[2]}, Nat)
BY NatLessThanWellFounded DEF OpToRel

LEMMA Smallest ==
    ASSUME NEW T, T \subseteq Nat, T # {}
    PROVE  \E m \in T : \A k \in T : m <= k
<1>. DEFINE Less == {ss \in Nat \X Nat : ss[1] < ss[2]}
<1>1. PICK m \in T : \A k \in T : ~(<<k, m>> \in Less)
  <2>1. IsWellFoundedOn(Less, Nat)
    BY LessIsWellFounded
  <2>. HIDE DEF Less
  <2>. QED  BY <2>1, WFMin
<1>2. \A k \in T : ~(k < m)
  BY <1>1
<1>. QED  BY <1>2
-----------------------------------------------------------------------------
(* What the steps do to the requests and the runs.                         *)
Others(h) ==
    /\ req' \in [Handlers -> ReqRecords]
    /\ \A g \in Handlers : g # h => req'[g] = req[g]

Goes(h, pc) ==
    /\ Others(h)
    /\ req'[h].pc = pc /\ req'[h].d = req[h].d /\ req'[h].p = req[h].p
    /\ req'[h].f = req[h].f /\ req'[h].go = req[h].go

Ends(h) == Others(h) /\ req'[h].pc = "idle" /\ req'[h].d = NoDocument

LEMMA HandlerGoes ==
    ASSUME TypeOK, NEW h \in Handlers, NEW pc \in PCs, Goto(h, pc)
    PROVE  Goes(h, pc)
<1>1. req \in [Handlers -> ReqRecords]
  BY DEF TypeOK, ReqRecords
<1>2. [req[h] EXCEPT !.pc = pc] \in ReqRecords
  BY <1>1 DEF ReqRecords
<1>3. req' = [req EXCEPT ![h] = [req[h] EXCEPT !.pc = pc]]
  BY DEF Goto
<1>. QED  BY <1>1, <1>2, <1>3 DEF ReqRecords, Goes, Others

LEMMA HandlerEnds ==
    ASSUME TypeOK, NEW h \in Handlers, Done(h)
    PROVE  Ends(h)
<1>1. req \in [Handlers -> ReqRecords]
  BY DEF TypeOK, ReqRecords
<1>2. IdleReq \in ReqRecords /\ IdleReq.pc = "idle" /\ IdleReq.d = NoDocument
  BY DEF ReqRecords, IdleReq, PCs
<1>. QED  BY <1>1, <1>2 DEF Done, Ends, Others

LEMMA HandlerBecomes ==
    ASSUME TypeOK, NEW h \in Handlers, NEW r \in ReqRecords, req' = [req EXCEPT ![h] = r]
    PROVE  Others(h) /\ req'[h] = r
BY DEF TypeOK, ReqRecords, Others

LEMMA RunCalled ==
    ASSUME TypeOK, NEW d \in Documents, Process(d)
    PROVE  /\ run' \in [Runs -> RunRecords]
           /\ \E r \in Runs : /\ run[r].pc = "off" /\ run'[r].pc = "start"
                              /\ run'[r].d = d /\ run'[r].at = 1
                              /\ \A q \in Runs : q # r => run'[q] = run[q]
<1>. DEFINE new == [pc |-> "start", d |-> d, at |-> 1]
<1>1. run \in [Runs -> RunRecords]
  BY DEF TypeOK, RunRecords
<1>2. PICK r \in Runs : run[r].pc = "off" /\ run' = [run EXCEPT ![r] = new]
  BY DEF Process
<1>3. new \in RunRecords
  BY DEF RunRecords, RunPCs
<1>. QED  BY <1>1, <1>2, <1>3

(* A run moves on: to another pc, and perhaps to another batch.            *)
Moves(r, pc, at) ==
    /\ run' \in [Runs -> RunRecords]
    /\ run'[r].pc = pc /\ run'[r].d = run[r].d /\ run'[r].at = at
    /\ \A q \in Runs : q # r => run'[q] = run[q]

LEMMA RunMoves ==
    ASSUME TypeOK, NEW r \in Runs, NEW pc \in RunPCs
    PROVE  /\ run' = [run EXCEPT ![r].pc = pc] => Moves(r, pc, run[r].at)
           /\ run' = [run EXCEPT ![r].pc = pc, ![r].at = run[r].at + 1]
                 => Moves(r, pc, run[r].at + 1)
<1>1. run \in [Runs -> RunRecords] /\ run[r] \in RunRecords
  BY DEF TypeOK, RunRecords
<1>2. run[r].at + 1 \in Nat
  BY <1>1 DEF RunRecords
<1>3. ASSUME run' = [run EXCEPT ![r].pc = pc] PROVE Moves(r, pc, run[r].at)
  BY <1>1, <1>3 DEF Moves, RunRecords
<1>4. ASSUME run' = [run EXCEPT ![r].pc = pc, ![r].at = run[r].at + 1]
      PROVE  Moves(r, pc, run[r].at + 1)
  BY <1>1, <1>2, <1>4 DEF Moves, RunRecords
<1>. QED  BY <1>3, <1>4

-----------------------------------------------------------------------------
(* Types.                                                                  *)
LEMMA TypeBegins == Init => TypeOK
<1>. SUFFICES ASSUME Init PROVE TypeOK
  OBVIOUS
<1>1. IdleReq \in ReqRecords /\ NoRun \in RunRecords
  BY DEF IdleReq, ReqRecords, NoRun, RunRecords, PCs, RunPCs
<1>2. run \in [Runs -> RunRecords] /\ req \in [Handlers -> ReqRecords]
  BY <1>1 DEF Init
<1>3. 0 \in 0..MaxFaults
  BY DocumentAssumption
<1>4. milvus \in BOOLEAN
  BY DEF Init, FindsMilvus
<1>. QED  BY <1>2, <1>3, <1>4 DEF Init, TypeOK, RunRecords, ReqRecords, Status

LEMMA RequestsArrive ==
    ASSUME TypeOK, Known, NEW h \in Handlers
    PROVE  /\ \A f \in Files : UploadFind(h, f) =>
                 /\ Others(h) /\ req'[h].pc = "upload_create"
                 /\ req'[h].d = NoDocument /\ req'[h].f = f
           /\ \A d \in Documents : RemoveFind(h, d) =>
                 Others(h) /\ req'[h].pc = "remove_mark" /\ req'[h].d = d
           /\ \A d \in Documents : ReprocessFind(h, d) =>
                 Others(h) /\ req'[h].pc = "reset" /\ req'[h].d = d
           /\ \A p \in Papers, again \in BOOLEAN : IndexFind(h, p, again) =>
                 /\ Others(h) /\ req'[h].p = p
                 /\ req'[h].pc \in {"index_create", "link", "prepare"}
                 /\ req'[h].pc = "index_create" => req'[h].d = NoDocument /\ req'[h].go
                 /\ req'[h].pc # "index_create" => req'[h].d \in Documents /\ Exists(req'[h].d)
<1>. USE DocumentsAreNumbers
<1>1. ASSUME NEW f \in Files, UploadFind(h, f)
      PROVE  /\ Others(h) /\ req'[h].pc = "upload_create"
             /\ req'[h].d = NoDocument /\ req'[h].f = f
  <2>. DEFINE r == [IdleReq EXCEPT !.pc = "upload_create", !.f = f]
  <2>1. r \in ReqRecords /\ r.pc = "upload_create" /\ r.d = NoDocument /\ r.f = f
    BY DEF IdleReq, ReqRecords, PCs
  <2>2. req' = [req EXCEPT ![h] = r]
    BY <1>1 DEF UploadFind, Begin
  <2>. HIDE DEF r
  <2>. QED  BY <2>1, <2>2, HandlerBecomes
<1>2. ASSUME NEW d \in Documents, RemoveFind(h, d)
      PROVE  Others(h) /\ req'[h].pc = "remove_mark" /\ req'[h].d = d
  <2>. DEFINE r == [IdleReq EXCEPT !.pc = "remove_mark", !.d = d, !.n = size[d]]
  <2>1. r \in ReqRecords /\ r.pc = "remove_mark" /\ r.d = d
    BY DEF IdleReq, ReqRecords, PCs, TypeOK
  <2>2. req' = [req EXCEPT ![h] = r]
    BY <1>2 DEF RemoveFind, Begin
  <2>. HIDE DEF r
  <2>. QED  BY <2>1, <2>2, HandlerBecomes
<1>3. ASSUME NEW d \in Documents, ReprocessFind(h, d)
      PROVE  Others(h) /\ req'[h].pc = "reset" /\ req'[h].d = d
  <2>. DEFINE r == [IdleReq EXCEPT !.pc = "reset", !.d = d]
  <2>1. r \in ReqRecords /\ r.pc = "reset" /\ r.d = d
    BY DEF IdleReq, ReqRecords, PCs
  <2>2. req' = [req EXCEPT ![h] = r]
    BY <1>3 DEF ReprocessFind, Begin
  <2>. HIDE DEF r
  <2>. QED  BY <2>1, <2>2, HandlerBecomes
<1>4. ASSUME NEW p \in Papers, NEW again \in BOOLEAN, IndexFind(h, p, again)
      PROVE  /\ Others(h) /\ req'[h].p = p
             /\ req'[h].pc \in {"index_create", "link", "prepare"}
             /\ req'[h].pc = "index_create" => req'[h].d = NoDocument /\ req'[h].go
             /\ req'[h].pc # "index_create" => req'[h].d \in Documents /\ Exists(req'[h].d)
  <2>. DEFINE same == {d \in Documents : Live(d) /\ content[d] = FileOf[p]}
              oldest == CHOOSE e \in same : \A c \in same : e <= c
              d == IF link[p] # NoDocument /\ Live(link[p]) THEN link[p]
                   ELSE IF same # {} THEN oldest
                   ELSE NoDocument
              go == again \/ d = NoDocument \/ status[d] \in {"pending", "failed"}
              next == IF d = NoDocument THEN "index_create"
                      ELSE IF d # link[p] THEN "link" ELSE "prepare"
              r == [IdleReq EXCEPT !.pc = next, !.d = d, !.p = p, !.go = go]
  <2>1. same # {} => oldest \in same
    <3>1. ASSUME same # {} PROVE \E e \in same : \A c \in same : e <= c
      BY <3>1, Smallest
    <3>. HIDE DEF same
    <3>. QED  BY <3>1
  <2>2. link[p] \in Documents \cup {NoDocument}
    BY DEF TypeOK
  <2>3. d = NoDocument \/ (d \in Documents /\ Exists(d))
    BY <2>1, <2>2 DEF Live
  <2>4. next \in {"index_create", "link", "prepare"} /\ (next = "index_create" <=> d = NoDocument)
    OBVIOUS
  <2>5. go \in BOOLEAN /\ (d = NoDocument => go)
    OBVIOUS
  <2>6. req' = [req EXCEPT ![h] = r] /\ UNCHANGED status
    BY <1>4, Zenon DEF IndexFind, Begin, docVars
  <2>. HIDE DEF d, go, next
  <2>7. /\ r \in ReqRecords /\ r.pc = next /\ r.d = d /\ r.p = p /\ r.go = go
    BY <2>3, <2>4, <2>5 DEF IdleReq, ReqRecords, PCs
  <2>. HIDE DEF r
  <2>8. Others(h) /\ req'[h] = r
    BY <2>6, <2>7, HandlerBecomes
  <2>. QED  BY <2>3, <2>4, <2>5, <2>7, <2>8 DEF Exists
<1>. QED  BY <1>1, <1>2, <1>3, <1>4

LEMMA RequestsGoOn ==
    ASSUME TypeOK, Known, NEW h \in Handlers
    PROVE  /\ UploadCreate(h) \/ RemoveCount(h) \/ ReprocessClear(h) \/ PrepareReset(h) => Ends(h)
           /\ RemoveMark(h) => Goes(h, "remove_count")
           /\ ReprocessReset(h) => Goes(h, "clear")
           /\ IndexLink(h) /\ req[h].go => Goes(h, "prepare")
           /\ IndexLink(h) /\ ~req[h].go => Ends(h)
           /\ PrepareVectors(h) => Goes(h, "prepare_rows")
           /\ PrepareRows(h) => Goes(h, "prepare_count") \/ Goes(h, "prepare_reset")
           /\ PrepareCount(h) => Goes(h, "prepare_reset")
           /\ HandlerFault(h) /\ At(h, "prepare_vectors") => Goes(h, "prepare_rows")
           /\ HandlerFault(h) /\ ~At(h, "prepare_vectors") => Ends(h)
<1>1. UploadCreate(h) \/ RemoveCount(h) \/ ReprocessClear(h) \/ PrepareReset(h) => Ends(h)
  BY HandlerEnds DEF UploadCreate, RemoveCount, ReprocessClear, PrepareReset
<1>2. {"remove_count", "clear", "prepare", "prepare_rows", "prepare_count", "prepare_reset"}
         \subseteq PCs
  BY DEF PCs
<1>3. /\ RemoveMark(h) => Goes(h, "remove_count")
      /\ ReprocessReset(h) => Goes(h, "clear")
      /\ PrepareVectors(h) => Goes(h, "prepare_rows")
      /\ PrepareCount(h) => Goes(h, "prepare_reset")
  BY <1>2, HandlerGoes DEF RemoveMark, ReprocessReset, PrepareVectors, PrepareCount
<1>4. IndexLink(h) => IF req[h].go THEN Goes(h, "prepare") ELSE Ends(h)
  BY <1>2, HandlerGoes, HandlerEnds DEF IndexLink
<1>5. PrepareRows(h) => Goes(h, "prepare_count") \/ Goes(h, "prepare_reset")
  BY <1>2, HandlerGoes DEF PrepareRows
<1>6. HandlerFault(h) => IF At(h, "prepare_vectors") THEN Goes(h, "prepare_rows") ELSE Ends(h)
  BY <1>2, HandlerGoes, HandlerEnds DEF HandlerFault
<1>. QED  BY <1>1, <1>3, <1>4, <1>5, <1>6

LEMMA RequestCreates ==
    ASSUME TypeOK, Known, NEW h \in Handlers, IndexCreate(h)
    PROVE  /\ Others(h) /\ req'[h].pc = "link" /\ req'[h].p = req[h].p /\ req'[h].go = req[h].go
           /\ req'[h].d \in Documents /\ CreateRow(req'[h].d, FileOf[req[h].p], req[h].p)
<1>1. req \in [Handlers -> ReqRecords] /\ req[h] \in ReqRecords
  BY DEF TypeOK, ReqRecords
<1>2. PICK d \in Documents : /\ CreateRow(d, FileOf[req[h].p], req[h].p)
                             /\ req' = [req EXCEPT ![h].pc = "link", ![h].d = d]
  BY DEF IndexCreate
<1>. DEFINE r == [req[h] EXCEPT !.pc = "link", !.d = d]
<1>3. r \in ReqRecords /\ r.pc = "link" /\ r.d = d /\ r.p = req[h].p /\ r.go = req[h].go
  BY <1>1 DEF ReqRecords, PCs
<1>4. req' = [req EXCEPT ![h] = r]
  BY <1>2
<1>. HIDE DEF r
<1>5. Others(h) /\ req'[h] = r
  BY <1>3, <1>4, HandlerBecomes
<1>. QED  BY <1>2, <1>3, <1>5

LEMMA RequestPrepares ==
    ASSUME TypeOK, Known, NEW h \in Handlers, Prepare(h)
    PROVE  Others(h) /\ req'[h].pc = "prepare_vectors" /\ req'[h].d = req[h].d
<1>. DEFINE d == req[h].d
            done == counted[d] \/ status[d] = "completed"
            n == size[d]
            r == [req[h] EXCEPT !.pc = "prepare_vectors", !.n = n, !.counted = done]
<1>1. req \in [Handlers -> ReqRecords] /\ req[h] \in ReqRecords
  BY DEF TypeOK, ReqRecords
<1>2. d \in Documents
  BY DEF Prepare, At, Known, HandlersKnown, Unfound
<1>3. done \in BOOLEAN /\ n \in Nat
  BY <1>2 DEF TypeOK
<1>4. req' = [req EXCEPT ![h] = r]
  BY Zenon DEF Prepare
<1>. HIDE DEF done, n
<1>5. r \in ReqRecords /\ r.pc = "prepare_vectors" /\ r.d = d
  BY <1>1, <1>3 DEF ReqRecords, PCs
<1>. HIDE DEF r
<1>. QED  BY <1>4, <1>5, HandlerBecomes

(* What the steps of a run do to it.                                       *)
LEMMA RunsGoOn ==
    ASSUME TypeOK, Known, NEW r \in Runs
    PROVE  /\ RunStart(r) => Moves(r, "parse", run[r].at)
           /\ RunParse(r) => Moves(r, IF path[run[r].d] \notin disk THEN "fail"
                                      ELSE IF Size[content[run[r].d]] = 0 THEN "complete"
                                      ELSE "vectors", run[r].at)
           /\ RunVectors(r) => Moves(r, "rows", run[r].at)
           /\ RunRows(r) =>
                 \/ /\ Moves(r, "fail", run[r].at) /\ UNCHANGED rows
                    /\ ~milvus \/ \E q \in Runs : <<run[r].d, run[r].at, q>> \in rows
                 \/ /\ rows' = rows \cup {<<run[r].d, run[r].at, r>>} /\ milvus
                    /\ Moves(r, IF run[r].at = Size[content[run[r].d]] THEN "complete"
                                ELSE "vectors", run[r].at + 1)
           /\ RunComplete(r) => Moves(r, "count", run[r].at)
           /\ RunCount(r) \/ RunFail(r) => Moves(r, "done", run[r].at)
           /\ RunFault(r) => Moves(r, IF run[r].pc = "fail" THEN "done" ELSE "fail", run[r].at)
<1>1. {"parse", "fail", "complete", "vectors", "rows", "count", "done"} \subseteq RunPCs
  BY DEF RunPCs
<1>2. RunStart(r) => Moves(r, "parse", run[r].at)
  BY <1>1, RunMoves DEF RunStart
<1>3. RunParse(r) => Moves(r, IF path[run[r].d] \notin disk THEN "fail"
                              ELSE IF Size[content[run[r].d]] = 0 THEN "complete"
                              ELSE "vectors", run[r].at)
  BY <1>1, RunMoves DEF RunParse
<1>4. RunVectors(r) => Moves(r, "rows", run[r].at)
  BY <1>1, RunMoves DEF RunVectors
<1>5. RunComplete(r) => Moves(r, "count", run[r].at)
  BY <1>1, RunMoves DEF RunComplete
<1>6. RunCount(r) \/ RunFail(r) => Moves(r, "done", run[r].at)
  BY <1>1, RunMoves DEF RunCount, RunFail
<1>7. RunFault(r) => Moves(r, IF run[r].pc = "fail" THEN "done" ELSE "fail", run[r].at)
  BY <1>1, RunMoves DEF RunFault
<1>8. RunRows(r) =>
         \/ /\ Moves(r, "fail", run[r].at) /\ UNCHANGED rows
            /\ ~milvus \/ \E q \in Runs : <<run[r].d, run[r].at, q>> \in rows
         \/ /\ rows' = rows \cup {<<run[r].d, run[r].at, r>>} /\ milvus
            /\ Moves(r, IF run[r].at = Size[content[run[r].d]] THEN "complete"
                        ELSE "vectors", run[r].at + 1)
  BY <1>1, RunMoves DEF RunRows
<1>. QED  BY <1>2, <1>3, <1>4, <1>5, <1>6, <1>7, <1>8

(* What a crash leaves.                                                    *)
LEMMA CrashEffects ==
    ASSUME TypeOK, Known, Crash
    PROVE  /\ run' \in [Runs -> RunRecords] /\ req' \in [Handlers -> ReqRecords]
           /\ \A r \in Runs : /\ run'[r].pc \in {"off", "done"}
                              /\ run'[r].pc = "off" <=> run[r].pc = "off"
                              /\ run'[r].d = run[r].d /\ run'[r].at = run[r].at
           /\ \A h \in Handlers : req'[h].pc = "idle" /\ req'[h].d = NoDocument
           /\ UNCHANGED <<docVars, storeVars, kbVars, link, overlapped>>
           /\ milvus' \in BOOLEAN
           /\ \A d \in Documents : ~AtRest(d) => d \in lost' /\ d \in spoilt'
           /\ lost \subseteq lost' /\ spoilt \subseteq spoilt'
           /\ lost' \subseteq Documents /\ spoilt' \subseteq Documents
<1>1. run \in [Runs -> RunRecords]
  BY DEF TypeOK, RunRecords
<1>2. IdleReq \in ReqRecords /\ IdleReq.pc = "idle" /\ IdleReq.d = NoDocument
  BY DEF ReqRecords, IdleReq, PCs
<1>3. /\ req' \in [Handlers -> ReqRecords]
      /\ \A h \in Handlers : req'[h].pc = "idle" /\ req'[h].d = NoDocument
  BY <1>2 DEF Crash
<1>4. /\ run' \in [Runs -> RunRecords]
      /\ \A r \in Runs : /\ run'[r].pc \in {"off", "done"}
                         /\ run'[r].pc = "off" <=> run[r].pc = "off"
                         /\ run'[r].d = run[r].d /\ run'[r].at = run[r].at
  <2>1. ASSUME NEW r \in Runs
        PROVE  /\ run'[r] \in RunRecords /\ run'[r].pc \in {"off", "done"}
               /\ run'[r].pc = "off" <=> run[r].pc = "off"
               /\ run'[r].d = run[r].d /\ run'[r].at = run[r].at
    <3>1. run'[r] = IF Active(r) THEN [run[r] EXCEPT !.pc = "done"] ELSE run[r]
      BY DEF Crash
    <3>2. run[r] \in RunRecords
      BY <1>1
    <3>. QED  BY <3>1, <3>2 DEF RunRecords, RunPCs, Active
  <2>2. run' = [r \in Runs |-> run'[r]]
    BY DEF Crash
  <2>. QED  BY <2>1, <2>2
<1>5. /\ \A d \in Documents : ~AtRest(d) => d \in lost' /\ d \in spoilt'
      /\ lost \subseteq lost' /\ spoilt \subseteq spoilt'
      /\ lost' \subseteq Documents /\ spoilt' \subseteq Documents
  BY DEF Crash, TypeOK
<1>. QED  BY <1>3, <1>4, <1>5 DEF Crash, FindsMilvus

LEMMA DocumentTypes == TypeOK /\ Known /\ [Next]_vars => TypeOK'
<1>. SUFFICES ASSUME TypeOK, Known, [Next]_vars PROVE TypeOK'
  OBVIOUS
<1>. USE DocumentsAreNumbers, DocumentAssumption
<1>a. /\ run \in [Runs -> RunRecords] /\ req \in [Handlers -> ReqRecords]
  BY DEF TypeOK, RunRecords, ReqRecords
<1>. DEFINE DocTypes == /\ status \in [Documents -> Status \cup {"none"}]
                        /\ counted \in [Documents -> BOOLEAN] /\ size \in [Documents -> Nat]
                        /\ content \in [Documents -> Files \cup {NoFile}]
                        /\ path \in [Documents -> Documents \cup Papers]
                        /\ deleted \subseteq Documents
            StoreTypes == /\ rows \subseteq Documents \X Nat \X Runs
                          /\ vectors \subseteq Documents \X Nat \X Runs
                          /\ disk \subseteq Documents \cup Papers
            RestTypes == /\ link \in [Papers -> Documents \cup {NoDocument}]
                         /\ docCount \in Int /\ chunkCount \in Int /\ milvus \in BOOLEAN
                         /\ faults \in 0..MaxFaults
            PastTypes == /\ lost \subseteq Documents /\ spoilt \subseteq Documents
                         /\ overlapped \subseteq Documents
<1>b. DocTypes /\ StoreTypes /\ RestTypes /\ PastTypes
  BY DEF TypeOK
<1>c. ASSUME run' \in [Runs -> RunRecords], req' \in [Handlers -> ReqRecords],
             DocTypes', StoreTypes', RestTypes', PastTypes'
      PROVE  TypeOK'
  BY <1>c DEF TypeOK, RunRecords, ReqRecords
<1>d. /\ UNCHANGED docVars => DocTypes'
      /\ UNCHANGED storeVars => StoreTypes'
      /\ UNCHANGED <<kbVars, link, milvus, faults>> => RestTypes'
      /\ UNCHANGED pastVars => PastTypes'
  BY <1>b DEF docVars, storeVars, kbVars, pastVars
<1>e. ASSUME NEW d \in Documents, NEW f \in Files, NEW w \in Documents \cup Papers, CreateRow(d, f, w)
      PROVE  DocTypes'
  BY <1>b, <1>e DEF CreateRow, Status
<1>f. ASSUME NEW d \in Documents, ResetRow(d) PROVE DocTypes'
  BY <1>b, <1>f DEF ResetRow, Status
<1>1. ASSUME NEW h \in Handlers, Arrive(h) PROVE TypeOK'
  <2>1. req' \in [Handlers -> ReqRecords]
    BY <1>1, RequestsArrive DEF Arrive, Others
  <2>2. UNCHANGED <<docVars, storeVars, kbVars, link, milvus, run, faults, pastVars>>
    BY <1>1 DEF Arrive, UploadFind, RemoveFind, ReprocessFind, IndexFind
  <2>. QED  BY <1>a, <1>c, <1>d, <2>1, <2>2
<1>2. ASSUME NEW h \in Handlers, UploadCreate(h) PROVE TypeOK'
  <2>1. PICK d \in Documents : CreateRow(d, req[h].f, d) /\ disk' = disk \cup {d} /\ Process(d)
    BY <1>2 DEF UploadCreate
  <2>2. req[h].f \in Files
    BY <1>2 DEF UploadCreate, At, Known, HandlersKnown
  <2>3. DocTypes'
    BY <1>e, <2>1, <2>2
  <2>4. StoreTypes'
    BY <1>2, <1>b, <2>1 DEF UploadCreate
  <2>5. run' \in [Runs -> RunRecords]
    BY <2>1, RunCalled
  <2>6. req' \in [Handlers -> ReqRecords]
    BY <1>2, RequestsGoOn DEF Ends, Others
  <2>. QED  BY <1>2, <1>c, <1>d, <2>3, <2>4, <2>5, <2>6 DEF UploadCreate
<1>3. ASSUME NEW h \in Handlers, RemoveMark(h) PROVE TypeOK'
  <2>1. req' \in [Handlers -> ReqRecords]
    BY <1>3, RequestsGoOn DEF Goes, Others
  <2>2. req[h].d \in Documents
    BY <1>3 DEF RemoveMark, Known, HandlersKnown, Unfound, At
  <2>3. DocTypes'
    BY <1>3, <1>b, <2>2 DEF RemoveMark
  <2>. QED  BY <1>3, <1>a, <1>c, <1>d, <2>1, <2>3 DEF RemoveMark
<1>4. ASSUME NEW h \in Handlers, RemoveCount(h) PROVE TypeOK'
  <2>1. req' \in [Handlers -> ReqRecords]
    BY <1>4, RequestsGoOn DEF Ends, Others
  <2>2. StoreTypes'
    BY <1>4, <1>b DEF RemoveCount
  <2>3. req[h].n \in Nat
    BY <1>a DEF ReqRecords
  <2>4. RestTypes'
    BY <1>4, <1>b, <2>3 DEF RemoveCount
  <2>. QED  BY <1>4, <1>a, <1>c, <1>d, <2>1, <2>2, <2>4 DEF RemoveCount
<1>5. ASSUME NEW h \in Handlers, ReprocessReset(h) PROVE TypeOK'
  <2>1. req' \in [Handlers -> ReqRecords]
    BY <1>5, RequestsGoOn DEF Goes, Others
  <2>2. DocTypes'
    BY <1>5, <1>f DEF ReprocessReset, Known, HandlersKnown, Unfound, At
  <2>. QED  BY <1>5, <1>a, <1>c, <1>d, <2>1, <2>2 DEF ReprocessReset
<1>6. ASSUME NEW h \in Handlers, ReprocessClear(h) PROVE TypeOK'
  <2>1. req' \in [Handlers -> ReqRecords]
    BY <1>6, RequestsGoOn DEF Ends, Others
  <2>2. run' \in [Runs -> RunRecords]
    BY <1>6, RunCalled DEF ReprocessClear, Known, HandlersKnown, Unfound, At
  <2>3. StoreTypes'
    BY <1>6, <1>b DEF ReprocessClear
  <2>. QED  BY <1>6, <1>c, <1>d, <2>1, <2>2, <2>3 DEF ReprocessClear
<1>7. ASSUME NEW h \in Handlers, IndexCreate(h) PROVE TypeOK'
  <2>1. req' \in [Handlers -> ReqRecords]
    BY <1>7, RequestCreates DEF Others
  <2>2. req[h].p \in Papers /\ FileOf[req[h].p] \in Files
    BY <1>7 DEF IndexCreate, Known, HandlersKnown, At
  <2>3. DocTypes'
    BY <1>7, <1>e, <2>2, RequestCreates
  <2>. QED  BY <1>7, <1>a, <1>c, <1>d, <2>1, <2>3 DEF IndexCreate
<1>8. ASSUME NEW h \in Handlers, IndexLink(h) PROVE TypeOK'
  <2>1. req' \in [Handlers -> ReqRecords]
    BY <1>8, RequestsGoOn DEF Goes, Ends, Others
  <2>2. req[h].d \in Documents
    BY <1>8 DEF IndexLink, Known, HandlersKnown, Unfound, At
  <2>3. RestTypes'
    BY <1>8, <1>b, <2>2 DEF IndexLink, kbVars
  <2>. QED  BY <1>8, <1>a, <1>c, <1>d, <2>1, <2>3 DEF IndexLink
<1>9. ASSUME NEW h \in Handlers, Prepare(h) PROVE TypeOK'
  BY <1>9, <1>a, <1>c, <1>d, RequestPrepares DEF Prepare, Others
<1>10. ASSUME NEW h \in Handlers, PrepareVectors(h) PROVE TypeOK'
  <2>1. req' \in [Handlers -> ReqRecords]
    BY <1>10, RequestsGoOn DEF Goes, Others
  <2>2. req[h].d \in Documents
    BY <1>10 DEF PrepareVectors, Known, HandlersKnown, Unfound, At
  <2>3. StoreTypes' /\ PastTypes'
    BY <1>10, <1>b, <2>2 DEF PrepareVectors, VectorsWithout
  <2>. QED  BY <1>10, <1>a, <1>c, <1>d, <2>1, <2>3 DEF PrepareVectors
<1>11. ASSUME NEW h \in Handlers, PrepareRows(h) PROVE TypeOK'
  <2>1. req' \in [Handlers -> ReqRecords]
    BY <1>11, RequestsGoOn DEF Goes, Others
  <2>2. StoreTypes'
    BY <1>11, <1>b DEF PrepareRows
  <2>. QED  BY <1>11, <1>a, <1>c, <1>d, <2>1, <2>2 DEF PrepareRows
<1>12. ASSUME NEW h \in Handlers, PrepareCount(h) PROVE TypeOK'
  <2>1. req' \in [Handlers -> ReqRecords]
    BY <1>12, RequestsGoOn DEF Goes, Others
  <2>2. req[h].n \in Nat
    BY <1>a DEF ReqRecords
  <2>3. RestTypes'
    BY <1>12, <1>b, <2>2 DEF PrepareCount
  <2>. QED  BY <1>12, <1>a, <1>c, <1>d, <2>1, <2>3 DEF PrepareCount
<1>13. ASSUME NEW h \in Handlers, PrepareReset(h) PROVE TypeOK'
  <2>1. req' \in [Handlers -> ReqRecords]
    BY <1>13, RequestsGoOn DEF Ends, Others
  <2>2. req[h].d \in Documents
    BY <1>13 DEF PrepareReset, Known, HandlersKnown, Unfound, At
  <2>3. run' \in [Runs -> RunRecords] /\ DocTypes'
    BY <1>13, <1>f, <2>2, RunCalled DEF PrepareReset
  <2>. QED  BY <1>13, <1>c, <1>d, <2>1, <2>3 DEF PrepareReset
<1>14. ASSUME NEW h \in Handlers, HandlerFault(h) PROVE TypeOK'
  <2>1. req' \in [Handlers -> ReqRecords]
    BY <1>14, RequestsGoOn DEF Goes, Ends, Others
  <2>2. req[h].d \in Documents \cup {NoDocument}
    BY <1>a DEF ReqRecords
  <2>3. req[h].pc \in {"clear", "link", "prepare", "prepare_rows", "prepare_count",
                       "prepare_reset"} => req[h].d \in Documents
    BY DEF Known, HandlersKnown, Unfound
  <2>4. PastTypes'
    BY <1>14, <1>b, <2>2, <2>3 DEF HandlerFault, Spoil
  <2>5. StoreTypes' /\ RestTypes'
    BY <1>14, <1>b DEF HandlerFault, Fault, kbVars
  <2>. QED  BY <1>14, <1>a, <1>c, <1>d, <2>1, <2>4, <2>5 DEF HandlerFault
<1>15. ASSUME NEW r \in Runs, RunGoesOn(r) \/ RunFault(r)
       PROVE  run' \in [Runs -> RunRecords] /\ UNCHANGED req
  BY <1>15, RunsGoOn DEF RunGoesOn, Moves, RunStart, RunParse, RunVectors, RunRows, RunComplete,
     RunCount, RunFail, RunFault
<1>16. ASSUME NEW r \in Runs, RunStart(r) \/ RunComplete(r) \/ RunFail(r) PROVE TypeOK'
  <2>1. run[r].d \in Documents /\ content[run[r].d] \in Files
    BY <1>16 DEF RunStart, RunComplete, RunFail, Known, RunsKnown, RowsKnown
  <2>2. DocTypes'
    <3>1. status' \in [Documents -> Status \cup {"none"}]
      BY <1>16, <1>b DEF RunStart, RunComplete, RunFail, Status
    <3>2. counted' \in [Documents -> BOOLEAN] /\ size' \in [Documents -> Nat]
      <4>1. Size[content[run[r].d]] \in Nat
        BY <2>1
      <4>2. \/ UNCHANGED <<counted, size>>
            \/ /\ counted' = [counted EXCEPT ![run[r].d] = TRUE]
               /\ size' = [size EXCEPT ![run[r].d] = Size[content[run[r].d]]]
        BY <1>16 DEF RunStart, RunComplete, RunFail
      <4>. QED  BY <1>b, <4>1, <4>2
    <3>3. UNCHANGED <<content, path, deleted>>
      BY <1>16 DEF RunStart, RunComplete, RunFail
    <3>. QED  BY <1>b, <3>1, <3>2, <3>3
  <2>3. run' \in [Runs -> RunRecords] /\ UNCHANGED req
    BY <1>15, <1>16 DEF RunGoesOn
  <2>4. UNCHANGED <<storeVars, kbVars, link, milvus, faults, pastVars>>
    BY <1>16 DEF RunStart, RunComplete, RunFail
  <2>. QED  BY <1>a, <1>c, <1>d, <2>2, <2>3, <2>4
<1>17. ASSUME NEW r \in Runs, RunVectors(r) \/ RunRows(r) PROVE TypeOK'
  <2>1. run[r].d \in Documents /\ run[r].at \in Nat
    BY <1>17, <1>a DEF RunVectors, RunRows, Known, RunsKnown, RunRecords
  <2>2. StoreTypes'
    BY <1>17, <1>b, <2>1 DEF RunVectors, RunRows, Inserted
  <2>3. run' \in [Runs -> RunRecords] /\ UNCHANGED req
    BY <1>15, <1>17 DEF RunGoesOn
  <2>4. UNCHANGED <<docVars, kbVars, link, milvus, faults, pastVars>>
    BY <1>17 DEF RunVectors, RunRows
  <2>. QED  BY <1>a, <1>c, <1>d, <2>2, <2>3, <2>4
<1>18. ASSUME NEW r \in Runs, RunParse(r) \/ RunCount(r) PROVE TypeOK'
  <2>1. run[r].d \in Documents /\ content[run[r].d] \in Files
    BY <1>18 DEF RunParse, RunCount, Known, RunsKnown, RowsKnown
  <2>2. Size[content[run[r].d]] \in Nat
    BY <2>1
  <2>3. RestTypes'
    BY <1>18, <1>b, <2>2 DEF RunParse, RunCount, kbVars
  <2>4. run' \in [Runs -> RunRecords] /\ UNCHANGED req
    BY <1>15, <1>18 DEF RunGoesOn
  <2>5. UNCHANGED <<docVars, storeVars, pastVars>>
    BY <1>18 DEF RunParse, RunCount
  <2>. QED  BY <1>a, <1>c, <1>d, <2>3, <2>4, <2>5
<1>19. ASSUME NEW r \in Runs, RunFault(r) PROVE TypeOK'
  <2>1. run[r].d \in Documents
    BY <1>19 DEF RunFault, Active, Known, RunsKnown
  <2>2. RestTypes' /\ PastTypes'
    BY <1>19, <1>b, <2>1 DEF RunFault, Fault, Spoil, kbVars
  <2>. QED  BY <1>15, <1>19, <1>a, <1>c, <1>d, <2>2 DEF RunFault
<1>20. CASE Crash
  <2>1. RestTypes'
    BY <1>20, <1>b, CrashEffects DEF Crash, Fault, kbVars
  <2>. QED  BY <1>20, <1>b, <1>c, <1>d, <2>1, CrashEffects
<1>21. CASE UNCHANGED vars
  BY <1>21, <1>a, <1>c, <1>d DEF vars
<1>. QED
  BY <1>1, <1>2, <1>3, <1>4, <1>5, <1>6, <1>7, <1>8, <1>9, <1>10, <1>11, <1>12, <1>13, <1>14,
     <1>16, <1>17, <1>18, <1>19, <1>20, <1>21
  DEF Next, Continue, RunGoesOn

-----------------------------------------------------------------------------
(* A document that is there stays, with its content and its path.          *)
Stays(d) == Exists(d) => Exists(d)' /\ content'[d] = content[d] /\ path'[d] = path[d]

LEMMA DocumentsStay ==
    ASSUME TypeOK, Known, [Next]_vars
    PROVE  \A d \in Documents : Stays(d)
<1>a. /\ status \in [Documents -> Status \cup {"none"}]
      /\ content \in [Documents -> Files \cup {NoFile}]
      /\ path \in [Documents -> Documents \cup Papers]
  BY DEF TypeOK
<1>1. ASSUME UNCHANGED <<status, content, path>> PROVE \A d \in Documents : Stays(d)
  BY <1>1 DEF Stays, Exists
<1>2. ASSUME NEW e, NEW f, NEW w, CreateRow(e, f, w) PROVE \A d \in Documents : Stays(d)
  BY <1>2, <1>a DEF Stays, Exists, CreateRow
<1>3. ASSUME NEW e, ResetRow(e) PROVE \A d \in Documents : Stays(d)
  BY <1>3, <1>a DEF Stays, Exists, ResetRow
<1>4. ASSUME NEW r \in Runs, RunGoesOn(r) \/ RunFault(r) PROVE \A d \in Documents : Stays(d)
  <2>1. UNCHANGED <<content, path>>
    BY <1>4 DEF RunGoesOn, RunStart, RunParse, RunVectors, RunRows, RunComplete, RunCount,
                RunFail, RunFault, docVars
  <2>2. status' = status \/ \E s \in Status : status' = [status EXCEPT ![run[r].d] = s]
    BY <1>4 DEF RunGoesOn, RunStart, RunParse, RunVectors, RunRows, RunComplete, RunCount,
                RunFail, RunFault, docVars, Status
  <2>. QED  BY <1>a, <2>1, <2>2 DEF Stays, Exists, Status
<1>5. ASSUME NEW h \in Handlers, Arrive(h) PROVE UNCHANGED <<status, content, path>>
  BY <1>5 DEF Arrive, UploadFind, RemoveFind, ReprocessFind, IndexFind, docVars
<1>6. ASSUME NEW h \in Handlers, Continue(h) \/ HandlerFault(h)
      PROVE  \A d \in Documents : Stays(d)
  <2>1. \/ UNCHANGED <<status, content, path>>
        \/ \E e, f, w : CreateRow(e, f, w)
        \/ \E e : ResetRow(e)
    BY <1>6 DEF Continue, HandlerFault, docVars, UploadCreate, RemoveMark, RemoveCount,
       ReprocessReset, ReprocessClear, IndexCreate, IndexLink, Prepare, PrepareVectors,
       PrepareRows, PrepareCount, PrepareReset
  <2>. QED  BY <1>1, <1>2, <1>3, <2>1
<1>7. ASSUME Crash \/ UNCHANGED vars PROVE UNCHANGED <<status, content, path>>
  BY <1>7 DEF Crash, vars, docVars
<1>. QED  BY <1>1, <1>4, <1>5, <1>6, <1>7 DEF Next

(* A new document has no rows, no run and no handler yet.                   *)
LEMMA NewDocumentIsUnknown ==
    ASSUME TypeOK, Known, NEW d \in Documents, ~Exists(d)
    PROVE  /\ \A r \in Runs : run[r].d # d
           /\ \A h \in Handlers : req[h].d # d
           /\ \A row \in rows : row[1] # d
BY DocumentsAreNumbers DEF Known, RunsKnown, HandlersKnown, RowsKnown

LEMMA RowsStayKnown ==
    ASSUME TypeOK, Known, [Next]_vars
    PROVE  RowsKnown'
<1>. USE DocumentsAreNumbers
<1>s. \A d \in Documents : Stays(d)
  BY DocumentsStay
<1>0. \A row \in rows : row[1] \in Documents
  BY DEF TypeOK
<1>1. \A row \in rows' : row \in rows \/ \E r \in Runs : row[1] = run[r].d /\ run[r].pc = "rows"
  <2>1. ASSUME NEW h \in Handlers, Arrive(h) \/ Continue(h) \/ HandlerFault(h)
        PROVE  rows' \subseteq rows
    BY <2>1 DEF Arrive, UploadFind, RemoveFind, ReprocessFind, IndexFind, storeVars,
       Continue, HandlerFault, UploadCreate, RemoveMark, RemoveCount,
       ReprocessReset, ReprocessClear, IndexCreate, IndexLink, Prepare, PrepareVectors,
       PrepareRows, PrepareCount, PrepareReset
  <2>2. ASSUME NEW r \in Runs, RunGoesOn(r) \/ RunFault(r)
        PROVE  rows' = rows \/ (rows' = rows \cup {<<run[r].d, run[r].at, r>>} /\ run[r].pc = "rows")
    BY <2>2 DEF RunGoesOn, RunStart, RunParse, RunVectors, RunRows, RunComplete, RunCount,
                RunFail, RunFault, storeVars
  <2>3. ASSUME Crash \/ UNCHANGED vars PROVE rows' = rows
    BY <2>3 DEF Crash, vars, storeVars
  <2>. QED  BY <2>1, <2>2, <2>3 DEF Next
<1>2. \A row \in rows' : row[1] \in Documents /\ Exists(row[1])
  BY <1>0, <1>1 DEF Known, RowsKnown, RunsKnown
<1>3. \A row \in rows' : Exists(row[1])'
  BY <1>2, <1>s DEF Stays
<1>4. /\ \A d \in Documents : Exists(d)' => content'[d] \in Files
      /\ \A d \in Documents : path'[d] \in Documents => path'[d] = d
  <2>1. ASSUME NEW d \in Documents, ~Exists(d), Exists(d)' \/ path'[d] # path[d]
        PROVE  content'[d] \in Files /\ path'[d] \in Papers \cup {d}
    <3>1. ASSUME NEW h \in Handlers, UploadCreate(h)
          PROVE  content'[d] \in Files /\ path'[d] \in Papers \cup {d}
      <4>1. PICK e \in Documents : CreateRow(e, req[h].f, e)
        BY <3>1 DEF UploadCreate
      <4>2. e = d
        BY <2>1, <4>1 DEF CreateRow, Exists, TypeOK
      <4>3. req[h].f \in Files
        BY <3>1 DEF UploadCreate, At, Known, HandlersKnown
      <4>. QED  BY <4>1, <4>2, <4>3 DEF CreateRow, TypeOK
    <3>2. ASSUME NEW h \in Handlers, IndexCreate(h)
          PROVE  content'[d] \in Files /\ path'[d] \in Papers \cup {d}
      <4>1. PICK e \in Documents : CreateRow(e, FileOf[req[h].p], req[h].p)
        BY <3>2 DEF IndexCreate
      <4>2. e = d
        BY <2>1, <4>1 DEF CreateRow, Exists, TypeOK
      <4>3. req[h].p \in Papers /\ FileOf[req[h].p] \in Files
        BY <3>2, DocumentAssumption DEF IndexCreate, At, Known, HandlersKnown
      <4>. QED  BY <4>1, <4>2, <4>3 DEF CreateRow, TypeOK
    <3>3. ASSUME NEW h \in Handlers, ReprocessReset(h) \/ PrepareReset(h) PROVE FALSE
      <4>1. req[h].d \in Documents /\ Exists(req[h].d) /\ ResetRow(req[h].d)
        BY <3>3 DEF ReprocessReset, PrepareReset, At, Known, HandlersKnown, Unfound
      <4>. QED  BY <2>1, <4>1 DEF ResetRow, Exists, TypeOK
    <3>4. ASSUME NEW r \in Runs, RunStart(r) \/ RunComplete(r) \/ RunFail(r) PROVE FALSE
      <4>1. run[r].d \in Documents /\ Exists(run[r].d)
        BY <3>4 DEF RunStart, RunComplete, RunFail, Known, RunsKnown
      <4>2. \A e \in Documents : e # run[r].d => status'[e] = status[e]
        BY <3>4 DEF RunStart, RunComplete, RunFail, TypeOK
      <4>3. path' = path
        BY <3>4 DEF RunStart, RunComplete, RunFail
      <4>. QED  BY <2>1, <4>1, <4>2, <4>3 DEF Exists
    <3>5. ASSUME UNCHANGED <<status, path>> PROVE FALSE
      BY <2>1, <3>5 DEF Exists
    <3>6. ASSUME NEW h \in Handlers, Arrive(h) \/ Continue(h) \/ HandlerFault(h)
          PROVE  \/ UploadCreate(h) \/ IndexCreate(h) \/ ReprocessReset(h) \/ PrepareReset(h)
                 \/ UNCHANGED <<status, path>>
      BY <3>6
      DEF Arrive, UploadFind, RemoveFind, ReprocessFind, IndexFind, Continue, RemoveMark,
          RemoveCount, ReprocessClear, IndexLink, Prepare, PrepareVectors, PrepareRows,
          PrepareCount, HandlerFault, docVars
    <3>7. ASSUME NEW r \in Runs, RunGoesOn(r) \/ RunFault(r)
          PROVE  RunStart(r) \/ RunComplete(r) \/ RunFail(r) \/ UNCHANGED <<status, path>>
      BY <3>7 DEF RunGoesOn, RunParse, RunVectors, RunRows, RunCount, RunFault, docVars
    <3>8. ASSUME Crash \/ UNCHANGED vars PROVE UNCHANGED <<status, path>>
      BY <3>8 DEF Crash, vars, docVars
    <3>. QED  BY <3>1, <3>2, <3>3, <3>4, <3>5, <3>6, <3>7, <3>8 DEF Next
  <2>2. Papers \cap Documents = {}
    BY DocumentAssumption
  <2>. QED  BY <1>s, <2>1, <2>2 DEF Stays, Known, RowsKnown
<1>. QED  BY <1>3, <1>4 DEF RowsKnown

(* The requests leave the runs alone but for those they call.              *)
LEMMA RequestsCallRuns ==
    ASSUME TypeOK, Known, NEW h \in Handlers, Arrive(h) \/ Continue(h) \/ HandlerFault(h)
    PROVE  \/ UNCHANGED run
           \/ \E d \in Documents : Process(d) /\ CreateRow(d, req[h].f, d) /\ UploadCreate(h)
           \/ /\ PrepareReset(h) /\ req[h].d \in Documents
              /\ Process(req[h].d) /\ ResetRow(req[h].d)
           \/ /\ ReprocessClear(h) /\ req[h].d \in Documents
              /\ Process(req[h].d) /\ UNCHANGED docVars
<1>1. CASE UploadCreate(h)
  BY <1>1 DEF UploadCreate
<1>2. CASE PrepareReset(h)
  BY <1>2 DEF PrepareReset, At, Known, HandlersKnown, Unfound
<1>3. CASE ReprocessClear(h)
  BY <1>3 DEF ReprocessClear, At, Known, HandlersKnown, Unfound
<1>4. CASE ~UploadCreate(h) /\ ~PrepareReset(h) /\ ~ReprocessClear(h)
  BY <1>4
  DEF Arrive, UploadFind, RemoveFind, ReprocessFind, IndexFind, Continue, HandlerFault, RemoveMark,
      RemoveCount, ReprocessReset, IndexCreate, IndexLink, Prepare, PrepareVectors, PrepareRows,
      PrepareCount
<1>. QED  BY <1>1, <1>2, <1>3, <1>4

LEMMA RunsStayKnown ==
    ASSUME TypeOK, Known, [Next]_vars
    PROVE  RunsKnown'
<1>. USE DocumentsAreNumbers, DocumentAssumption
<1>s. \A d \in Documents : Stays(d)
  BY DocumentsStay
<1>a. run \in [Runs -> RunRecords]
  BY DEF TypeOK, RunRecords
<1>. DEFINE Good(r) == /\ run[r].pc = "off" => run[r].d = NoDocument
                       /\ run[r].pc # "off" => run[r].d \in Documents /\ Exists(run[r].d)
                                               /\ run[r].at >= 1
                       /\ run[r].pc \in {"start", "parse"} => run[r].at = 1
                       /\ Storing(r) => run[r].at <= Size[content[run[r].d]]
<1>b. \A r \in Runs : Good(r)
  BY DEF Known, RunsKnown
<1>c. ASSUME NEW r \in Runs, run'[r] = run[r] PROVE Good(r)'
  BY <1>b, <1>c, <1>s DEF Stays, Storing
<1>1. ASSUME UNCHANGED run PROVE RunsKnown'
  BY <1>1, <1>c DEF RunsKnown
<1>2. ASSUME NEW d \in Documents, Process(d), Exists(d)' PROVE RunsKnown'
  <2>1. PICK r \in Runs : /\ run[r].pc = "off" /\ run'[r].pc = "start"
                          /\ run'[r].d = d /\ run'[r].at = 1
                          /\ \A q \in Runs : q # r => run'[q] = run[q]
    BY <1>2, RunCalled
  <2>2. Good(r)'
    BY <1>2, <2>1 DEF Storing
  <2>. QED  BY <1>c, <2>1, <2>2 DEF RunsKnown
<1>3. ASSUME NEW r \in Runs, NEW pc \in RunPCs, NEW at \in Nat, Moves(r, pc, at),
             run[r].pc # "off", pc # "off", at >= run[r].at, pc = "parse" => run[r].pc = "start",
             pc \in {"vectors", "rows"} => at <= Size[content[run[r].d]],
             pc = "parse" => at = run[r].at, pc # "start"
      PROVE  RunsKnown'
  <2>0. run[r].d \in Documents /\ Exists(run[r].d) /\ run[r].at \in Nat /\ run[r].at >= 1
    BY <1>3, <1>a, <1>b DEF RunRecords
  <2>1. PICK d \in Documents : run[r].d = d /\ Exists(d)
    BY <2>0
  <2>2. Exists(d)' /\ content'[d] = content[d]
    BY <1>s, <2>1 DEF Stays
  <2>3. run'[r].pc = pc /\ run'[r].d = d /\ run'[r].at = at
    BY <1>3, <2>1 DEF Moves
  <2>4. pc = "parse" => at = 1
    BY <1>3, <1>b
  <2>5. at >= 1
    BY <1>3, <2>0
  <2>6. pc \in {"vectors", "rows"} => at <= Size[content'[d]]
    BY <1>3, <2>1, <2>2
  <2>7. Good(r)'
    BY <1>3, <2>2, <2>3, <2>4, <2>5, <2>6 DEF Storing, Exists
  <2>. QED  BY <1>3, <1>c, <2>7 DEF RunsKnown, Moves
<1>4. ASSUME NEW r \in Runs, RunGoesOn(r) \/ RunFault(r) PROVE RunsKnown'
  <2>1. run[r].pc # "off"
    BY <1>4 DEF RunGoesOn, RunStart, RunParse, RunVectors, RunRows, RunComplete, RunCount,
                RunFail, RunFault, Active
  <2>2. /\ run[r].d \in Documents /\ Exists(run[r].d) /\ content[run[r].d] \in Files
        /\ Size[content[run[r].d]] \in Nat /\ run[r].at \in Nat /\ run[r].at >= 1
    BY <1>a, <1>b, <2>1 DEF Known, RowsKnown, RunRecords
  <2>3. {"parse", "fail", "complete", "vectors", "rows", "count", "done"} \subseteq RunPCs
    BY DEF RunPCs
  <2>4. CASE RunStart(r)
    <3>1. Moves(r, "parse", run[r].at) /\ run[r].pc = "start"
      BY <2>4, RunsGoOn DEF RunStart
    <3>. QED  BY <1>3, <2>2, <2>3, <3>1
  <2>5. CASE RunParse(r)
    <3>1. run[r].at = 1
      BY <1>b, <2>5 DEF RunParse
    <3>2. \E pc \in {"fail", "complete", "vectors"} :
             Moves(r, pc, run[r].at) /\ (pc = "vectors" => Size[content[run[r].d]] # 0)
      BY <2>5, RunsGoOn
    <3>. QED  BY <1>3, <2>1, <2>2, <2>3, <3>1, <3>2
  <2>6. CASE RunVectors(r)
    <3>1. Moves(r, "rows", run[r].at) /\ run[r].pc = "vectors"
      BY <2>6, RunsGoOn DEF RunVectors
    <3>2. run[r].at <= Size[content[run[r].d]]
      BY <1>b, <3>1 DEF Storing
    <3>. QED  BY <1>3, <2>2, <2>3, <3>1, <3>2
  <2>7. CASE RunRows(r)
    <3>1. run[r].at <= Size[content[run[r].d]]
      BY <1>b, <2>7 DEF RunRows, Storing
    <3>. QED  BY <1>3, <2>1, <2>2, <2>3, <2>7, <3>1, RunsGoOn
  <2>8. CASE RunComplete(r) \/ RunCount(r) \/ RunFail(r) \/ RunFault(r)
    BY <1>3, <2>1, <2>2, <2>3, <2>8, RunsGoOn
  <2>. QED  BY <1>4, <2>4, <2>5, <2>6, <2>7, <2>8 DEF RunGoesOn
<1>5. CASE Crash
  BY <1>5, <1>b, <1>s, CrashEffects DEF Stays, Storing, RunsKnown
<1>6. ASSUME NEW h \in Handlers, Arrive(h) \/ Continue(h) \/ HandlerFault(h) PROVE RunsKnown'
  <2>1. ASSUME NEW d \in Documents, CreateRow(d, req[h].f, d) PROVE Exists(d)'
    BY <2>1 DEF CreateRow, Exists, TypeOK
  <2>2. ASSUME NEW d \in Documents, ResetRow(d) PROVE Exists(d)'
    BY <2>2 DEF ResetRow, Exists, TypeOK
  <2>3. ReprocessClear(h) => \A d \in Documents : d = req[h].d => Exists(d)'
    <3>1. ReprocessClear(h) => req[h].d \in Documents /\ Exists(req[h].d) /\ UNCHANGED status
      BY DEF ReprocessClear, At, Known, HandlersKnown, Unfound, docVars
    <3>. QED  BY <1>s, <3>1 DEF Stays, Exists
  <2>. QED  BY <1>1, <1>2, <1>6, <2>1, <2>2, <2>3, RequestsCallRuns
<1>. QED  BY <1>1, <1>4, <1>5, <1>6 DEF Next, vars

LEMMA HandlersStayKnown ==
    ASSUME TypeOK, Known, [Next]_vars
    PROVE  HandlersKnown'
<1>. USE DocumentsAreNumbers
<1>s. \A d \in Documents : Stays(d)
  BY DocumentsStay
<1>. DEFINE Good(h) == /\ req[h].pc \in Unfound => req[h].d = NoDocument
                       /\ req[h].pc \notin Unfound => req[h].d \in Documents /\ Exists(req[h].d)
                       /\ req[h].pc = "upload_create" => req[h].f \in Files
                       /\ req[h].pc \in {"index_create", "link"} => req[h].p \in Papers
                       /\ req[h].pc = "index_create" => req[h].go
<1>b. \A h \in Handlers : Good(h)
  BY DEF Known, HandlersKnown
<1>c. ASSUME NEW h \in Handlers, req'[h] = req[h] PROVE Good(h)'
  BY <1>b, <1>c, <1>s DEF Stays
<1>d. ASSUME NEW h \in Handlers, Others(h), Good(h)' PROVE HandlersKnown'
  BY <1>c, <1>d DEF Others, HandlersKnown
<1>e. ASSUME NEW h \in Handlers, Ends(h) PROVE HandlersKnown'
  BY <1>d, <1>e DEF Ends, Unfound
<1>f. ASSUME NEW h \in Handlers, NEW pc, Goes(h, pc), req[h].pc \notin Unfound,
             pc \notin Unfound, pc # "link"
      PROVE  HandlersKnown'
  BY <1>b, <1>d, <1>f, <1>s DEF Goes, Unfound, Stays
<1>1. ASSUME UNCHANGED req PROVE HandlersKnown'
  BY <1>1, <1>c DEF HandlersKnown
<1>2. ASSUME NEW h \in Handlers, Arrive(h) PROVE HandlersKnown'
  <2>1. CASE \E f \in Files : UploadFind(h, f)
    BY <1>d, <2>1, RequestsArrive DEF Unfound
  <2>2. CASE \E d \in Documents : RemoveFind(h, d)
    BY <1>d, <1>s, <2>2, RequestsArrive DEF Unfound, RemoveFind, Live, Stays
  <2>3. CASE \E d \in Documents : ReprocessFind(h, d)
    BY <1>d, <1>s, <2>3, RequestsArrive DEF Unfound, ReprocessFind, Live, Stays
  <2>4. CASE \E p \in Papers, again \in BOOLEAN : IndexFind(h, p, again)
    <3>1. /\ Others(h) /\ req'[h].p \in Papers
          /\ req'[h].pc \in {"index_create", "link", "prepare"}
          /\ req'[h].pc = "index_create" => req'[h].d = NoDocument /\ req'[h].go
          /\ req'[h].pc # "index_create" => req'[h].d \in Documents /\ Exists(req'[h].d)
      BY <2>4, RequestsArrive
    <3>. QED  BY <1>d, <1>s, <3>1 DEF Unfound, Stays
  <2>. QED  BY <1>2, <2>1, <2>2, <2>3, <2>4 DEF Arrive
<1>3. ASSUME NEW h \in Handlers, IndexCreate(h) PROVE HandlersKnown'
  <2>1. Exists(req[h].d)'
    BY <1>3, RequestCreates DEF CreateRow, Exists, TypeOK
  <2>. QED  BY <1>3, <1>b, <1>d, <2>1, RequestCreates DEF Unfound, IndexCreate, At
<1>4. ASSUME NEW h \in Handlers, Prepare(h) PROVE HandlersKnown'
  BY <1>4, <1>b, <1>d, <1>s, RequestPrepares DEF Unfound, Prepare, At, Stays
<1>5. ASSUME NEW h \in Handlers, Continue(h) \/ HandlerFault(h), ~IndexCreate(h), ~Prepare(h)
      PROVE  HandlersKnown'
  <2>1. CASE req[h].pc \in Unfound
    BY <1>5, <1>e, <2>1, RequestsGoOn
    DEF Unfound, Continue, HandlerFault, At, RemoveMark, RemoveCount, ReprocessReset,
        ReprocessClear, IndexLink, PrepareVectors, PrepareRows, PrepareCount, PrepareReset
  <2>2. CASE req[h].pc \notin Unfound
    <3>1. \/ Ends(h)
          \/ \E pc \in {"remove_count", "clear", "prepare", "prepare_rows", "prepare_count",
                        "prepare_reset"} : Goes(h, pc)
      BY <1>5, RequestsGoOn DEF Continue
    <3>. QED  BY <1>e, <1>f, <2>2, <3>1 DEF Unfound
  <2>. QED  BY <2>1, <2>2
<1>6. CASE Crash
  BY <1>6, CrashEffects DEF HandlersKnown, Unfound
<1>7. ASSUME NEW r \in Runs, RunGoesOn(r) \/ RunFault(r) PROVE UNCHANGED req
  BY <1>7 DEF RunGoesOn, RunStart, RunParse, RunVectors, RunRows, RunComplete, RunCount,
              RunFail, RunFault
<1>. QED  BY <1>1, <1>2, <1>3, <1>4, <1>5, <1>6, <1>7 DEF Next, vars

LEMMA KnownBegins == Init => Known
<1>. SUFFICES ASSUME Init PROVE Known
  OBVIOUS
<1>1. RunsKnown
  BY DEF Init, RunsKnown, NoRun, Storing
<1>2. HandlersKnown
  BY DEF Init, HandlersKnown, IdleReq, Unfound
<1>3. RowsKnown
  BY DEF Init, RowsKnown, Exists
<1>. QED  BY <1>1, <1>2, <1>3 DEF Known

LEMMA KnownStays == TypeOK /\ Known /\ [Next]_vars => TypeOK' /\ Known'
BY DocumentTypes, RunsStayKnown, HandlersStayKnown, RowsStayKnown DEF Known

-----------------------------------------------------------------------------
(* Who does what: a step of a request leaves the other requests alone, and *)
(* the runs that are under way; a step of a run leaves all others alone.   *)
LEMMA RequestStep ==
    ASSUME TypeOK, Known, NEW h \in Handlers, Arrive(h) \/ Continue(h) \/ HandlerFault(h)
    PROVE  /\ Others(h)
           /\ \A r \in Runs : run[r].pc # "off" => run'[r] = run[r]
<1>1. Others(h)
  <2>1. Arrive(h) => Others(h)
    BY RequestsArrive DEF Arrive
  <2>2. IndexCreate(h) \/ Prepare(h) => Others(h)
    BY RequestCreates, RequestPrepares
  <2>3. Continue(h) /\ ~IndexCreate(h) /\ ~Prepare(h) => Others(h)
    BY RequestsGoOn DEF Continue, Goes, Ends
  <2>4. HandlerFault(h) => Others(h)
    BY RequestsGoOn DEF Goes, Ends
  <2>. QED  BY <2>1, <2>2, <2>3, <2>4
<1>2. \/ UNCHANGED run
      \/ \E d \in Documents : Process(d)
  BY RequestsCallRuns
<1>. QED  BY <1>1, <1>2, RunCalled

LEMMA RunStep ==
    ASSUME TypeOK, Known, NEW r \in Runs, RunGoesOn(r) \/ RunFault(r)
    PROVE  /\ UNCHANGED <<req, link>>
           /\ run[r].pc # "off" /\ run[r].d \in Documents /\ Exists(run[r].d)
           /\ run'[r].pc # "off" /\ run'[r].d = run[r].d
           /\ \A q \in Runs : q # r => run'[q] = run[q]
<1>1. UNCHANGED <<req, link>>
  BY DEF RunGoesOn, RunStart, RunParse, RunVectors, RunRows, RunComplete, RunCount, RunFail,
         RunFault
<1>2. run[r].pc # "off"
  BY DEF RunGoesOn, RunStart, RunParse, RunVectors, RunRows, RunComplete, RunCount, RunFail,
         RunFault, Active
<1>3. \E pc \in RunPCs \ {"off"}, at \in Nat : Moves(r, pc, at)
  <2>1. {"parse", "fail", "complete", "vectors", "rows", "count", "done"} \subseteq RunPCs \ {"off"}
    BY DEF RunPCs
  <2>2. run[r].at \in Nat /\ run[r].at + 1 \in Nat
    BY DEF TypeOK
  <2>. QED  BY <2>1, <2>2, RunsGoOn DEF RunGoesOn
<1>. QED  BY <1>1, <1>2, <1>3 DEF Moves, Known, RunsKnown

(* A document that waits has a run that will settle it, or a handler that  *)
(* will call one.                                                          *)
Settles(r, d) ==
    run[r].d = d /\ run[r].pc \in {"start", "parse", "vectors", "rows", "complete", "fail"}
Cares(h, d) ==
    /\ req[h].d = d
    /\ \/ req[h].pc \in {"clear", "prepare", "prepare_vectors", "prepare_rows", "prepare_count",
                         "prepare_reset"}
       \/ req[h].pc = "link" /\ req[h].go
Waits(d) == status[d] \in {"pending", "processing"}

WaitingIsSeenTo ==
    \A d \in Documents : Waits(d) /\ d \notin lost =>
        (\E r \in Runs : Settles(r, d)) \/ \E h \in Handlers : Cares(h, d)

LEMMA RequestsSeeToDocuments ==
    ASSUME TypeOK, Known, WaitingIsSeenTo,
           NEW h \in Handlers, Arrive(h) \/ Continue(h) \/ HandlerFault(h)
    PROVE  WaitingIsSeenTo'
<1>. USE DocumentsAreNumbers
<1>0. Others(h) /\ \A r \in Runs : run[r].pc # "off" => run'[r] = run[r]
  BY RequestStep
<1>. SUFFICES ASSUME NEW d \in Documents, Waits(d)', d \notin lost'
              PROVE  (\E r \in Runs : Settles(r, d)') \/ \E g \in Handlers : Cares(g, d)'
  BY DEF WaitingIsSeenTo
<1>1. d \notin lost
  BY DEF Arrive, UploadFind, RemoveFind, ReprocessFind, IndexFind, Continue, RemoveMark,
         RemoveCount, ReprocessReset, ReprocessClear, IndexCreate, IndexLink, Prepare,
         PrepareVectors, PrepareRows, PrepareCount, PrepareReset, UploadCreate, HandlerFault,
         pastVars
<1>2. ASSUME NEW r \in Runs, Settles(r, d) PROVE Settles(r, d)'
  BY <1>0, <1>2 DEF Settles
<1>3. ASSUME NEW g \in Handlers, g # h, Cares(g, d) PROVE Cares(g, d)'
  BY <1>0, <1>3 DEF Cares, Others
<1>4. ASSUME Process(d) PROVE \E r \in Runs : Settles(r, d)'
  <2>1. PICK r \in Runs : run'[r].pc = "start" /\ run'[r].d = d
    BY <1>4, RunCalled
  <2>. QED  BY <2>1 DEF Settles
<1>5. ASSUME Waits(d), ~Cares(h, d)
      PROVE  (\E r \in Runs : Settles(r, d)') \/ \E g \in Handlers : Cares(g, d)'
  BY <1>1, <1>2, <1>3, <1>5 DEF WaitingIsSeenTo
<1>6. CASE UploadCreate(h)
  <2>1. PICK e \in Documents : CreateRow(e, req[h].f, e) /\ Process(e)
    BY <1>6 DEF UploadCreate
  <2>2. CASE e = d
    BY <1>4, <2>1, <2>2
  <2>3. CASE e # d
    <3>1. Waits(d)
      BY <2>1, <2>3 DEF CreateRow, Waits, TypeOK
    <3>. QED  BY <1>5, <1>6, <3>1 DEF Cares, UploadCreate, At
  <2>. QED  BY <2>2, <2>3
<1>7. CASE IndexCreate(h)
  <2>1. PICK e \in Documents : req'[h].d = e /\ CreateRow(e, FileOf[req[h].p], req[h].p)
    BY <1>7, RequestCreates
  <2>2. req[h].pc = "index_create" /\ req[h].go
    BY <1>7 DEF IndexCreate, At, Known, HandlersKnown
  <2>3. CASE e = d
    BY <1>7, <2>1, <2>2, <2>3, RequestCreates DEF Cares
  <2>4. CASE e # d
    <3>1. Waits(d)
      BY <2>1, <2>4 DEF CreateRow, Waits, TypeOK
    <3>. QED  BY <1>5, <2>2, <3>1 DEF Cares
  <2>. QED  BY <2>3, <2>4
<1>8. CASE ReprocessReset(h)
  <2>1. Goes(h, "clear") /\ req[h].pc = "reset" /\ ResetRow(req[h].d)
    BY <1>8, RequestsGoOn DEF ReprocessReset, At
  <2>2. CASE req[h].d = d
    BY <2>1, <2>2 DEF Goes, Cares
  <2>3. CASE req[h].d # d
    <3>1. Waits(d)
      BY <2>1, <2>3 DEF ResetRow, Waits, TypeOK
    <3>. QED  BY <1>5, <2>3, <3>1 DEF Cares
  <2>. QED  BY <2>2, <2>3
<1>9. CASE PrepareReset(h)
  <2>1. ResetRow(req[h].d) /\ Process(req[h].d)
    BY <1>9 DEF PrepareReset
  <2>2. CASE req[h].d = d
    BY <1>4, <2>1, <2>2
  <2>3. CASE req[h].d # d
    <3>1. Waits(d)
      BY <2>1, <2>3 DEF ResetRow, Waits, TypeOK
    <3>. QED  BY <1>5, <2>3, <3>1 DEF Cares
  <2>. QED  BY <2>2, <2>3
<1>10. CASE ~UploadCreate(h) /\ ~IndexCreate(h) /\ ~ReprocessReset(h) /\ ~PrepareReset(h)
  <2>1. Waits(d)
    BY <1>10 DEF Arrive, UploadFind, RemoveFind, ReprocessFind, IndexFind, Continue, RemoveMark,
       RemoveCount, ReprocessClear, IndexLink, Prepare, PrepareVectors, PrepareRows,
       PrepareCount, HandlerFault, docVars, Waits
  <2>2. CASE Arrive(h)
    <3>1. req[h].pc = "idle"
      BY <2>2 DEF Arrive, UploadFind, RemoveFind, ReprocessFind, IndexFind, Begin, At
    <3>. QED  BY <1>5, <2>1, <3>1 DEF Cares
  <2>3. CASE HandlerFault(h) /\ Cares(h, d)
    <3>1. req[h].pc = "prepare_vectors"
      BY <2>3 DEF HandlerFault, Cares
    <3>. QED  BY <2>3, <3>1, RequestsGoOn DEF At, Goes, Cares
  <2>4. CASE Continue(h) /\ Cares(h, d)
    <3>1. \/ ReprocessClear(h) \/ IndexLink(h) \/ Prepare(h) \/ PrepareVectors(h)
          \/ PrepareRows(h) \/ PrepareCount(h)
      BY <1>10, <2>4 DEF Continue, RemoveMark, RemoveCount, At, Cares
    <3>2. CASE ReprocessClear(h)
      BY <1>4, <2>4, <3>2 DEF ReprocessClear, Cares
    <3>3. CASE Prepare(h)
      BY <2>4, <3>3, RequestPrepares DEF Cares
    <3>4. CASE IndexLink(h)
      <4>1. req[h].go
        BY <2>4, <3>4 DEF IndexLink, At, Cares
      <4>. QED  BY <2>4, <3>4, <4>1, RequestsGoOn DEF Goes, Cares
    <3>5. CASE PrepareVectors(h) \/ PrepareRows(h) \/ PrepareCount(h)
      BY <2>4, <3>5, RequestsGoOn DEF Goes, Cares
    <3>. QED  BY <3>1, <3>2, <3>3, <3>4, <3>5
  <2>. QED  BY <1>5, <2>1, <2>2, <2>3, <2>4
<1>. QED  BY <1>6, <1>7, <1>8, <1>9, <1>10

LEMMA RunsSettleDocuments ==
    ASSUME TypeOK, Known, WaitingIsSeenTo, NEW r \in Runs, RunGoesOn(r) \/ RunFault(r)
    PROVE  WaitingIsSeenTo'
<1>0. /\ UNCHANGED req /\ run[r].d \in Documents /\ run'[r].d = run[r].d
      /\ \A q \in Runs : q # r => run'[q] = run[q]
  BY RunStep
<1>. SUFFICES ASSUME NEW d \in Documents, Waits(d)', d \notin lost'
              PROVE  (\E q \in Runs : Settles(q, d)') \/ \E h \in Handlers : Cares(h, d)'
  BY DEF WaitingIsSeenTo
<1>1. d \notin lost
  BY DEF RunGoesOn, RunStart, RunParse, RunVectors, RunRows, RunComplete, RunCount, RunFail,
         RunFault, pastVars
<1>2. ASSUME NEW q \in Runs, q # r, Settles(q, d) PROVE Settles(q, d)'
  BY <1>0, <1>2 DEF Settles
<1>3. ASSUME NEW h \in Handlers, Cares(h, d) PROVE Cares(h, d)'
  BY <1>0, <1>3 DEF Cares
<1>4. ASSUME Waits(d), ~Settles(r, d)
      PROVE  (\E q \in Runs : Settles(q, d)') \/ \E h \in Handlers : Cares(h, d)'
  BY <1>1, <1>2, <1>3, <1>4 DEF WaitingIsSeenTo
<1>5. ASSUME run[r].d # d PROVE Waits(d)
  BY <1>0, <1>5 DEF RunGoesOn, RunStart, RunParse, RunVectors, RunRows, RunComplete, RunCount,
     RunFail, RunFault, docVars, Waits, TypeOK
<1>6. CASE run[r].d # d
  BY <1>4, <1>5, <1>6 DEF Settles
<1>7. CASE run[r].d = d /\ RunCount(r)
  BY <1>4, <1>7 DEF RunCount, docVars, Waits, Settles
<1>8. CASE run[r].d = d /\ (RunComplete(r) \/ RunFail(r))
  BY <1>0, <1>8 DEF RunComplete, RunFail, Waits, TypeOK
<1>9. CASE run[r].d = d /\ (RunStart(r) \/ RunParse(r) \/ RunVectors(r) \/ RunRows(r))
  BY <1>0, <1>9, RunsGoOn DEF Moves, Settles
<1>10. CASE run[r].d = d /\ RunFault(r)
  <2>1. run[r].pc # "fail"
    BY <1>0, <1>10 DEF RunFault
  <2>. QED  BY <1>0, <1>10, <2>1, RunsGoOn DEF Moves, Settles
<1>. QED  BY <1>6, <1>7, <1>8, <1>9, <1>10 DEF RunGoesOn

LEMMA WaitingStaysSeenTo ==
    TypeOK /\ Known /\ WaitingIsSeenTo /\ [Next]_vars => WaitingIsSeenTo'
<1>. SUFFICES ASSUME TypeOK, Known, WaitingIsSeenTo, [Next]_vars PROVE WaitingIsSeenTo'
  OBVIOUS
<1>1. ASSUME Crash PROVE WaitingIsSeenTo'
  <2>1. ASSUME NEW d \in Documents, Waits(d)', d \notin lost' PROVE FALSE
    <3>1. Waits(d) /\ d \notin lost /\ AtRest(d)
      BY <1>1, <2>1, CrashEffects DEF docVars, Waits
    <3>2. (\E r \in Runs : Settles(r, d)) \/ \E h \in Handlers : Cares(h, d)
      BY <3>1 DEF WaitingIsSeenTo
    <3>. QED  BY <3>1, <3>2 DEF AtRest, RunsOn, Active, Busy, Settles, Cares
  <2>. QED  BY <2>1 DEF WaitingIsSeenTo
<1>2. ASSUME UNCHANGED vars PROVE WaitingIsSeenTo'
  BY <1>2 DEF vars, docVars, pastVars, WaitingIsSeenTo, Waits, Settles, Cares
<1>. QED  BY <1>1, <1>2, RequestsSeeToDocuments, RunsSettleDocuments DEF Next

-----------------------------------------------------------------------------
(* Chunk rows and vectors: a run that is about to write rows has inserted  *)
(* their vectors, and rows are without theirs only while a handler that    *)
(* deleted the vectors has yet to delete the rows.                         *)
Blemished(d) == d \in overlapped \cup spoilt
Sound ==
    /\ \A r \in Runs : run[r].pc = "rows" /\ milvus /\ ~Blemished(run[r].d)
                          => <<run[r].d, run[r].at, r>> \in vectors
    /\ \A row \in rows : ~Blemished(row[1])
          => row \in vectors \/ \E h \in Handlers : At(h, "prepare_rows") /\ req[h].d = row[1]

LEMMA PastGrows ==
    ASSUME TypeOK, Known, [Next]_vars
    PROVE  overlapped \subseteq overlapped' /\ spoilt \subseteq spoilt'
<1>1. ASSUME NEW h \in Handlers, Arrive(h) \/ Continue(h) \/ HandlerFault(h)
      PROVE  overlapped \subseteq overlapped' /\ spoilt \subseteq spoilt'
  BY <1>1
  DEF Arrive, UploadFind, RemoveFind, ReprocessFind, IndexFind, Continue, RemoveMark,
      RemoveCount, ReprocessReset, ReprocessClear, IndexCreate, IndexLink, Prepare,
      PrepareVectors, PrepareRows, PrepareCount, PrepareReset, UploadCreate, HandlerFault,
      pastVars, Spoil
<1>2. ASSUME NEW r \in Runs, RunGoesOn(r) \/ RunFault(r)
      PROVE  overlapped \subseteq overlapped' /\ spoilt \subseteq spoilt'
  BY <1>2 DEF RunGoesOn, RunStart, RunParse, RunVectors, RunRows, RunComplete, RunCount, RunFail,
     RunFault, pastVars, Spoil
<1>3. ASSUME Crash PROVE overlapped \subseteq overlapped' /\ spoilt \subseteq spoilt'
  BY <1>3, CrashEffects
<1>. QED  BY <1>1, <1>2, <1>3 DEF Next, vars, pastVars

LEMMA RequestsKeepRowsSound ==
    ASSUME TypeOK, Known, Sound, NEW h \in Handlers, Arrive(h) \/ Continue(h) \/ HandlerFault(h)
    PROVE  Sound'
<1>. USE DocumentsAreNumbers
<1>0. Others(h) /\ \A r \in Runs : run[r].pc # "off" => run'[r] = run[r]
  BY RequestStep
<1>a. overlapped \subseteq overlapped' /\ spoilt \subseteq spoilt'
  BY PastGrows DEF Next
<1>b. /\ UNCHANGED milvus
      /\ rows' = rows \/ (rows' = {row \in rows : row[1] # req[h].d} /\ (PrepareRows(h) \/ ReprocessClear(h)))
      /\ vectors' = vectors \/ PrepareVectors(h)
  BY DEF Arrive, UploadFind, RemoveFind, ReprocessFind, IndexFind, Continue, RemoveMark,
      RemoveCount, ReprocessReset, ReprocessClear, IndexCreate, IndexLink, Prepare,
      PrepareVectors, PrepareRows, PrepareCount, PrepareReset, UploadCreate, HandlerFault,
      storeVars
<1>1. ASSUME NEW r \in Runs, run'[r].pc = "rows" PROVE run[r] = run'[r]
  <2>1. \/ UNCHANGED run
        \/ \E d \in Documents : Process(d)
    BY RequestsCallRuns
  <2>2. ASSUME NEW d \in Documents, Process(d), run[r].pc = "off" PROVE FALSE
    <3>1. PICK q \in Runs : run'[q].pc = "start" /\ \A s \in Runs : s # q => run'[s] = run[s]
      BY <2>2, RunCalled
    <3>. QED  BY <1>1, <2>2, <3>1
  <2>. QED  BY <1>0, <2>1, <2>2
<1>2. CASE PrepareVectors(h)
  <2>1. PICK d \in Documents : req[h].d = d
    BY <1>2 DEF PrepareVectors, At, Known, HandlersKnown, Unfound
  <2>2. /\ vectors' = VectorsWithout(d) /\ rows' = rows /\ UNCHANGED run
        /\ RunsOn(d) # {} => d \in overlapped'
    BY <1>2, <2>1 DEF PrepareVectors
  <2>3. Others(h) /\ req'[h].pc = "prepare_rows" /\ req'[h].d = d
    BY <1>2, <2>1, RequestsGoOn DEF Goes
  <2>4. ASSUME NEW r \in Runs, run[r].pc = "rows", milvus, ~Blemished(run[r].d)'
        PROVE  <<run[r].d, run[r].at, r>> \in vectors'
    <3>1. PICK e : run[r].d = e
      OBVIOUS
    <3>2. e # d
      BY <2>2, <2>4, <3>1 DEF RunsOn, Active, Blemished
    <3>3. <<e, run[r].at, r>> \in vectors
      BY <1>a, <2>2, <2>4, <3>1 DEF Sound, Blemished
    <3>. QED  BY <2>2, <3>1, <3>2, <3>3 DEF VectorsWithout
  <2>5. ASSUME NEW row \in rows, ~Blemished(row[1])'
        PROVE  row \in vectors' \/ \E g \in Handlers : At(g, "prepare_rows")' /\ req'[g].d = row[1]
    <3>1. row \in vectors \/ \E g \in Handlers : At(g, "prepare_rows") /\ req[g].d = row[1]
      BY <1>a, <2>5 DEF Sound, Blemished
    <3>2. CASE row[1] = d
      BY <2>3, <3>2 DEF At
    <3>3. CASE row[1] # d /\ row \in vectors
      BY <2>2, <3>3 DEF VectorsWithout
    <3>4. ASSUME NEW g \in Handlers, At(g, "prepare_rows"), req[g].d = row[1]
          PROVE  At(g, "prepare_rows")' /\ req'[g].d = row[1]
      BY <1>2, <2>3, <3>4 DEF At, Others, PrepareVectors
    <3>. QED  BY <3>1, <3>2, <3>3, <3>4
  <2>. QED  BY <1>b, <2>2, <2>4, <2>5 DEF Sound
<1>3. CASE ~PrepareVectors(h)
  <2>1. UNCHANGED <<vectors, milvus>> /\ rows' \subseteq rows
    BY <1>3, <1>b
  <2>2. ASSUME NEW r \in Runs, run'[r].pc = "rows", milvus, ~Blemished(run[r].d)'
        PROVE  <<run'[r].d, run'[r].at, r>> \in vectors'
    BY <1>1, <1>a, <2>1, <2>2 DEF Sound, Blemished
  <2>3. ASSUME NEW row \in rows', ~Blemished(row[1])', row \notin vectors'
        PROVE  \E g \in Handlers : At(g, "prepare_rows")' /\ req'[g].d = row[1]
    <3>1. PICK g \in Handlers : At(g, "prepare_rows") /\ req[g].d = row[1]
      BY <1>a, <2>1, <2>3 DEF Sound, Blemished
    <3>2. ASSUME g = h PROVE FALSE
      <4>1. row[1] \in Documents
        BY <2>1, <2>3 DEF TypeOK
      <4>2. CASE HandlerFault(h)
        BY <2>3, <3>1, <3>2, <4>1, <4>2 DEF HandlerFault, Spoil, At, Blemished
      <4>3. CASE ~HandlerFault(h)
        <5>1. PrepareRows(h)
          BY <1>3, <3>1, <3>2, <4>3
          DEF Arrive, UploadFind, RemoveFind, ReprocessFind, IndexFind, Continue, RemoveMark,
              RemoveCount, ReprocessReset, ReprocessClear, IndexCreate, IndexLink, Prepare,
              PrepareCount, PrepareReset, UploadCreate, Begin, At
        <5>. QED  BY <2>3, <3>1, <3>2, <5>1 DEF PrepareRows
      <4>. QED  BY <4>2, <4>3
    <3>. QED  BY <1>0, <3>1, <3>2 DEF Others, At
  <2>. QED  BY <2>1, <2>2, <2>3 DEF Sound
<1>. QED  BY <1>2, <1>3

LEMMA RunsKeepRowsSound ==
    ASSUME TypeOK, Known, Sound, NEW r \in Runs, RunGoesOn(r) \/ RunFault(r)
    PROVE  Sound'
<1>0. /\ UNCHANGED req /\ \A q \in Runs : q # r => run'[q] = run[q]
      /\ run'[r].d = run[r].d
  BY RunStep
<1>a. overlapped \subseteq overlapped' /\ spoilt \subseteq spoilt'
  BY PastGrows DEF Next
<1>b. /\ UNCHANGED milvus /\ vectors \subseteq vectors'
  BY DEF RunGoesOn, RunStart, RunParse, RunVectors, RunRows, RunComplete, RunCount, RunFail,
     RunFault, storeVars, Inserted
<1>1. ASSUME run'[r].pc = "rows", milvus PROVE <<run'[r].d, run'[r].at, r>> \in vectors'
  <2>1. RunVectors(r)
    BY <1>1, RunsGoOn DEF RunGoesOn, Moves
  <2>2. <<run[r].d, run[r].at, r>> \in vectors'
    BY <1>1, <2>1 DEF RunVectors, Inserted
  <2>. QED  BY <2>1, <2>2, RunsGoOn DEF Moves
<1>2. ASSUME NEW q \in Runs, q # r, run'[q].pc = "rows", milvus, ~Blemished(run[q].d)'
      PROVE  <<run'[q].d, run'[q].at, q>> \in vectors'
  BY <1>0, <1>a, <1>b, <1>2 DEF Sound, Blemished
<1>3. ASSUME NEW row \in rows', ~Blemished(row[1])'
      PROVE  row \in vectors' \/ \E h \in Handlers : At(h, "prepare_rows")' /\ req'[h].d = row[1]
  <2>1. ASSUME row \in rows
        PROVE  row \in vectors' \/ \E h \in Handlers : At(h, "prepare_rows")' /\ req'[h].d = row[1]
    BY <1>0, <1>a, <1>b, <1>3, <2>1 DEF Sound, Blemished, At
  <2>2. ASSUME row \notin rows PROVE row \in vectors'
    <3>1. RunRows(r)
      BY <1>3, <2>2 DEF RunGoesOn, RunStart, RunParse, RunVectors, RunComplete, RunCount,
         RunFail, RunFault, storeVars
    <3>2. row = <<run[r].d, run[r].at, r>> /\ milvus
      BY <1>3, <2>2, <3>1 DEF RunRows
    <3>3. run[r].pc = "rows" /\ ~Blemished(run[r].d)
      BY <1>3, <1>a, <3>1, <3>2 DEF RunRows, Blemished
    <3>. QED  BY <1>b, <3>2, <3>3 DEF Sound
  <2>. QED  BY <2>1, <2>2
<1>. QED  BY <1>b, <1>1, <1>2, <1>3 DEF Sound

LEMMA RowsStaySound == TypeOK /\ Known /\ Sound /\ [Next]_vars => Sound'
<1>. SUFFICES ASSUME TypeOK, Known, Sound, [Next]_vars PROVE Sound'
  OBVIOUS
<1>1. ASSUME Crash PROVE Sound'
  <2>1. \A r \in Runs : run'[r].pc # "rows"
    BY <1>1, CrashEffects
  <2>2. UNCHANGED <<rows, vectors>> /\ spoilt \subseteq spoilt' /\ overlapped' = overlapped
    BY <1>1, CrashEffects DEF storeVars
  <2>3. ASSUME NEW row \in rows, ~Blemished(row[1])' PROVE row \in vectors
    <3>1. row[1] \in Documents
      BY DEF TypeOK
    <3>2. ASSUME NEW h \in Handlers, At(h, "prepare_rows"), req[h].d = row[1] PROVE FALSE
      <4>1. ~AtRest(row[1])
        BY <3>2 DEF AtRest, Busy, At
      <4>. QED  BY <1>1, <2>3, <3>1, <4>1, CrashEffects DEF Blemished
    <3>. QED  BY <2>2, <2>3, <3>2 DEF Sound, Blemished
  <2>. QED  BY <2>1, <2>2, <2>3 DEF Sound
<1>2. ASSUME UNCHANGED vars PROVE Sound'
  BY <1>2 DEF vars, storeVars, pastVars, Sound, Blemished, At
<1>. QED  BY <1>1, <1>2, RequestsKeepRowsSound, RunsKeepRowsSound DEF Next

-----------------------------------------------------------------------------
(* Documents shown as completed.                                           *)
Has(d, i) == \E q \in Runs : <<d, i, q>> \in rows

(* Behind a stored batch there is the next one, or a run that is storing   *)
(* it.                                                                     *)
NextIsStored ==
    \A d \in Documents : Exists(d) /\ d \notin spoilt =>
        \A i \in Nat : 1 <= i /\ i < Size[content[d]] /\ Has(d, i)
            => \/ Has(d, i + 1)
               \/ \E r \in Runs : Storing(r) /\ run[r].d = d /\ run[r].at = i + 1

(* A document that is completed, or is about to be, has its first batch,   *)
(* or there is someone who will store it.                                  *)
BeyondFirst(r) == run[r].pc = "complete" \/ (Storing(r) /\ run[r].at > 1)
StoresFirst(r) == run[r].at = 1 /\ (run[r].pc \in {"start", "parse"} \/ Storing(r))
Clears(h, d)   == req[h].d = d /\ req[h].pc \in {"prepare_count", "prepare_reset"}
FirstIsStored ==
    \A d \in Documents :
        /\ Exists(d) /\ d \notin spoilt /\ path[d] \in disk /\ Size[content[d]] > 0
        /\ status[d] = "completed" \/ \E r \in Runs : run[r].d = d /\ BeyondFirst(r)
        => \/ Has(d, 1)
           \/ \E h \in Handlers : Clears(h, d)
           \/ \E r \in Runs : run[r].d = d /\ StoresFirst(r)

(* Without Milvus no run gets beyond the first batch.                      *)
NothingWithoutMilvus ==
    ~milvus =>
        /\ \A r \in Runs : Storing(r) => run[r].at = 1
        /\ \A d \in Documents : Exists(d) /\ Size[content[d]] > 0 =>
              /\ \A r \in Runs : run[r].d = d => run[r].pc # "complete"
              /\ status[d] = "completed" =>
                    /\ \A r \in Runs : run[r].d = d => ~Active(r)
                    /\ \A h \in Handlers : At(h, "clear") => req[h].d # d

Chunks == NextIsStored /\ FirstIsStored /\ NothingWithoutMilvus

(* What a request does to a new document, and to one that was there.       *)
LEMMA RequestAndNewDocument ==
    ASSUME TypeOK, Known, NEW h \in Handlers, Arrive(h) \/ Continue(h) \/ HandlerFault(h),
           NEW d \in Documents, ~Exists(d), Exists(d)'
    PROVE  /\ status'[d] = "pending"
           /\ \A r \in Runs : run'[r].d = d => run'[r].pc = "start"
           /\ \A i, q : <<d, i, q>> \notin rows'
<1>1. \A r \in Runs : run[r].d # d
  BY NewDocumentIsUnknown
<1>2. \A i, q : <<d, i, q>> \notin rows
  <2>1. \A row \in rows : row[1] # d
    BY NewDocumentIsUnknown
  <2>. QED  BY <2>1
<1>3. ASSUME NEW e, NEW f, NEW w, CreateRow(e, f, w) PROVE status'[d] = "pending"
  BY <1>3 DEF CreateRow, Exists, TypeOK
<1>4. ASSUME NEW e \in Documents, Process(e) PROVE \A r \in Runs : run'[r].d = d => run'[r].pc = "start"
  <2>1. PICK r \in Runs : run'[r].pc = "start" /\ \A s \in Runs : s # r => run'[s] = run[s]
    BY <1>4, RunCalled
  <2>. QED  BY <1>1, <2>1
<1>5. CASE UploadCreate(h)
  BY <1>2, <1>3, <1>4, <1>5 DEF UploadCreate
<1>6. CASE IndexCreate(h)
  BY <1>1, <1>2, <1>3, <1>6 DEF IndexCreate, storeVars
<1>7. CASE ~UploadCreate(h) /\ ~IndexCreate(h)
  <2>1. UNCHANGED status \/ (\E e \in Documents : Exists(e) /\ ResetRow(e))
    BY <1>7 DEF Arrive, UploadFind, RemoveFind, ReprocessFind, IndexFind, Continue, RemoveMark,
      RemoveCount, ReprocessReset, ReprocessClear, IndexLink, Prepare,
      PrepareVectors, PrepareRows, PrepareCount, PrepareReset, HandlerFault, docVars,
      At, Known, HandlersKnown, Unfound
  <2>2. ASSUME NEW e \in Documents, Exists(e), ResetRow(e) PROVE FALSE
    BY <2>2 DEF ResetRow, Exists, TypeOK
  <2>. QED  BY <2>1, <2>2 DEF Exists
<1>. QED  BY <1>5, <1>6, <1>7

LEMMA RequestAndDocument ==
    ASSUME TypeOK, Known, NEW h \in Handlers, Arrive(h) \/ Continue(h) \/ HandlerFault(h),
           NEW d \in Documents, Exists(d)
    PROVE  /\ UNCHANGED milvus
           /\ status'[d] \in {status[d], "pending"}
           /\ path[d] \in disk' => path[d] \in disk
           /\ req'[h].pc = "clear" /\ req'[h].d = d => status'[d] = "pending"
<1>1. UNCHANGED milvus
  BY DEF Arrive, UploadFind, RemoveFind, ReprocessFind, IndexFind, Continue, RemoveMark,
      RemoveCount, ReprocessReset, ReprocessClear, IndexCreate, IndexLink, Prepare,
      PrepareVectors, PrepareRows, PrepareCount, PrepareReset, UploadCreate, HandlerFault
<1>2. status'[d] \in {status[d], "pending"}
  <2>1. \/ UNCHANGED status
        \/ \E e \in Documents : \E f, w : CreateRow(e, f, w)
        \/ \E e \in Documents : ResetRow(e)
    BY DEF Arrive, UploadFind, RemoveFind, ReprocessFind, IndexFind, Continue, RemoveMark,
      RemoveCount, ReprocessReset, ReprocessClear, IndexCreate, IndexLink, Prepare,
      PrepareVectors, PrepareRows, PrepareCount, PrepareReset, UploadCreate, HandlerFault,
      docVars, At, Known, HandlersKnown, Unfound
  <2>. QED  BY <2>1 DEF CreateRow, ResetRow, TypeOK
<1>3. ASSUME path[d] \in disk' PROVE path[d] \in disk
  <2>1. \/ disk' \subseteq disk
        \/ \E e \in Documents : ~Exists(e) /\ disk' = disk \cup {e}
    BY DEF Arrive, UploadFind, RemoveFind, ReprocessFind, IndexFind, Continue, RemoveMark,
      RemoveCount, ReprocessReset, ReprocessClear, IndexCreate, IndexLink, Prepare, CreateRow,
      PrepareVectors, PrepareRows, PrepareCount, PrepareReset, UploadCreate, HandlerFault,
      storeVars
  <2>2. \A e \in Documents : ~Exists(e) => path[d] # e
    BY DEF Known, RowsKnown
  <2>. QED  BY <1>3, <2>1, <2>2
<1>4. ASSUME req'[h].pc = "clear", req'[h].d = d PROVE status'[d] = "pending"
  <2>1. ReprocessReset(h)
    <3>1. ~Arrive(h)
      BY <1>4, RequestsArrive DEF Arrive
    <3>2. ~IndexCreate(h) /\ ~Prepare(h)
      BY <1>4, RequestCreates, RequestPrepares
    <3>3. ~HandlerFault(h)
      BY <1>4, RequestsGoOn DEF Goes, Ends
    <3>. QED  BY <1>4, <3>1, <3>2, <3>3, RequestsGoOn DEF Continue, Goes, Ends
  <2>2. req[h].d = d
    BY <1>4, <2>1, RequestsGoOn DEF Goes
  <2>. QED  BY <2>1, <2>2 DEF ReprocessReset, ResetRow, TypeOK
<1>. QED  BY <1>1, <1>2, <1>3, <1>4

StartsOn(r, d) == run'[r].pc = "start" /\ run'[r].d = d /\ run'[r].at = 1

(* A run that a request calls, the rows it deletes and what it then does.  *)
LEMMA RequestAndChunks ==
    ASSUME TypeOK, Known, NEW h \in Handlers, Arrive(h) \/ Continue(h) \/ HandlerFault(h),
           NEW d \in Documents, Exists(d)
    PROVE  /\ \A r \in Runs : run'[r] = run[r]
                 \/ \E e \in Documents :
                        /\ StartsOn(r, e)
                        /\ e = d => status'[d] = "pending" \/ (At(h, "clear") /\ req[h].d = d)
           /\ \/ \A i, q : <<d, i, q>> \in rows' <=> <<d, i, q>> \in rows
              \/ /\ \A i, q : <<d, i, q>> \notin rows'
                 /\ (\E r \in Runs : StartsOn(r, d)) \/ Clears(h, d)'
           /\ Clears(h, d) => \/ d \in spoilt' \/ Clears(h, d)'
                              \/ \E r \in Runs : StartsOn(r, d)
<1>. USE DocumentsAreNumbers
<1>1. ASSUME NEW e \in Documents, Process(e)
      PROVE  /\ \E r \in Runs : StartsOn(r, e)
             /\ \A r \in Runs : run'[r] = run[r] \/ StartsOn(r, e)
  <2>1. PICK r \in Runs : StartsOn(r, e) /\ \A s \in Runs : s # r => run'[s] = run[s]
    BY <1>1, RunCalled DEF StartsOn
  <2>. QED  BY <2>1
<1>2. ASSUME NEW r \in Runs, run'[r] # run[r]
      PROVE  \E e \in Documents :
                 /\ StartsOn(r, e)
                 /\ e = d => status'[d] = "pending" \/ (At(h, "clear") /\ req[h].d = d)
  <2>1. CASE UploadCreate(h)
    <3>1. PICK e \in Documents : CreateRow(e, req[h].f, e) /\ Process(e)
      BY <2>1 DEF UploadCreate
    <3>. QED  BY <1>1, <1>2, <3>1 DEF CreateRow
  <2>2. CASE PrepareReset(h)
    <3>1. req[h].d \in Documents /\ Process(req[h].d) /\ ResetRow(req[h].d)
      BY <2>2 DEF PrepareReset, At, Known, HandlersKnown, Unfound
    <3>. QED  BY <1>1, <1>2, <3>1 DEF ResetRow, TypeOK
  <2>3. CASE ReprocessClear(h)
    <3>1. req[h].d \in Documents /\ Process(req[h].d) /\ At(h, "clear")
      BY <2>3 DEF ReprocessClear, At, Known, HandlersKnown, Unfound
    <3>. QED  BY <1>1, <1>2, <3>1
  <2>. QED  BY <1>2, <2>1, <2>2, <2>3, RequestsCallRuns
<1>3. ASSUME ~(\A i, q : <<d, i, q>> \in rows' <=> <<d, i, q>> \in rows)
      PROVE  /\ \A i, q : <<d, i, q>> \notin rows'
             /\ (\E r \in Runs : StartsOn(r, d)) \/ Clears(h, d)'
  <2>1. /\ rows' = {row \in rows : row[1] # req[h].d}
        /\ PrepareRows(h) \/ ReprocessClear(h)
    BY <1>3 DEF Arrive, UploadFind, RemoveFind, ReprocessFind, IndexFind, Continue, RemoveMark,
      RemoveCount, ReprocessReset, ReprocessClear, IndexCreate, IndexLink, Prepare,
      PrepareVectors, PrepareRows, PrepareCount, PrepareReset, UploadCreate, HandlerFault,
      storeVars
  <2>2. req[h].d = d
    BY <1>3, <2>1
  <2>3. \A i, q : <<d, i, q>> \notin rows'
    BY <2>1, <2>2
  <2>4. CASE PrepareRows(h)
    BY <2>2, <2>3, <2>4, RequestsGoOn DEF Goes, Clears
  <2>5. CASE ReprocessClear(h)
    BY <1>1, <2>2, <2>3, <2>5 DEF ReprocessClear
  <2>. QED  BY <2>1, <2>4, <2>5
<1>4. ASSUME Clears(h, d) PROVE \/ d \in spoilt' \/ Clears(h, d)' \/ \E r \in Runs : StartsOn(r, d)
  <2>1. PrepareCount(h) \/ PrepareReset(h) \/ HandlerFault(h)
    BY <1>4 DEF Arrive, UploadFind, RemoveFind, ReprocessFind, IndexFind, Continue, RemoveMark,
      RemoveCount, ReprocessReset, ReprocessClear, IndexCreate, IndexLink, Prepare,
      PrepareVectors, PrepareRows, UploadCreate, Begin, At, Clears
  <2>2. CASE PrepareCount(h)
    BY <1>4, <2>2, RequestsGoOn DEF Goes, Clears
  <2>3. CASE PrepareReset(h)
    BY <1>1, <1>4, <2>3 DEF PrepareReset, Clears
  <2>4. CASE HandlerFault(h)
    BY <1>4, <2>4 DEF HandlerFault, Spoil, Clears
  <2>. QED  BY <2>1, <2>2, <2>3, <2>4
<1>. QED  BY <1>2, <1>3, <1>4

LEMMA RequestsKeepChunks ==
    ASSUME TypeOK, Known, Chunks, NEW h \in Handlers, Arrive(h) \/ Continue(h) \/ HandlerFault(h)
    PROVE  Chunks'
<1>. USE DocumentsAreNumbers
<1>0. Others(h) /\ \A r \in Runs : run[r].pc # "off" => run'[r] = run[r]
  BY RequestStep
<1>a. \A d \in Documents : Stays(d)
  BY DocumentsStay DEF Next
<1>b. spoilt \subseteq spoilt'
  BY PastGrows DEF Next
<1>c. ASSUME NEW r \in Runs, run'[r] # run[r] PROVE run'[r].pc = "start"
  <2>1. PICK q \in Runs : TRUE
    BY <1>c
  <2>2. CASE \E d \in Documents : Process(d)
    BY <1>c, <2>2, RunCalled
  <2>. QED  BY <1>c, <2>2, RequestsCallRuns
<1>d. ASSUME NEW d \in Documents, Exists(d)'
      PROVE  \/ ~Exists(d) /\ status'[d] = "pending"
                /\ (\A r \in Runs : run'[r].d = d => run'[r].pc = "start")
                /\ \A i, q : <<d, i, q>> \notin rows'
             \/ Exists(d) /\ content'[d] = content[d] /\ path'[d] = path[d]
  BY <1>a, <1>d, RequestAndNewDocument DEF Stays
<1>1. NextIsStored'
  <2>. SUFFICES ASSUME NEW d \in Documents, Exists(d)', d \notin spoilt', NEW i \in Nat,
                       1 <= i, i < Size[content'[d]], Has(d, i)'
                PROVE  \/ Has(d, i + 1)'
                       \/ \E r \in Runs : Storing(r)' /\ run'[r].d = d /\ run'[r].at = i + 1
    BY DEF NextIsStored
  <2>1. Exists(d) /\ content'[d] = content[d]
    BY <1>d DEF Has
  <2>2. \A j, q : <<d, j, q>> \in rows' <=> <<d, j, q>> \in rows
    BY <2>1, RequestAndChunks DEF Has
  <2>3. Has(d, i) /\ d \notin spoilt
    BY <1>b, <2>2 DEF Has
  <2>4. CASE Has(d, i + 1)
    BY <2>2, <2>4 DEF Has
  <2>5. ASSUME NEW r \in Runs, Storing(r), run[r].d = d, run[r].at = i + 1
        PROVE  Storing(r)' /\ run'[r].d = d /\ run'[r].at = i + 1
    BY <1>0, <2>5 DEF Storing
  <2>. QED  BY <2>1, <2>3, <2>4, <2>5 DEF Chunks, NextIsStored
<1>2. FirstIsStored'
  <2>. SUFFICES ASSUME NEW d \in Documents, Exists(d)', d \notin spoilt', path'[d] \in disk',
                       Size[content'[d]] > 0,
                       status'[d] = "completed" \/ \E r \in Runs : run'[r].d = d /\ BeyondFirst(r)'
                PROVE  \/ Has(d, 1)'
                       \/ \E g \in Handlers : Clears(g, d)'
                       \/ \E r \in Runs : run'[r].d = d /\ StoresFirst(r)'
    BY DEF FirstIsStored
  <2>1. Exists(d) /\ content'[d] = content[d] /\ path'[d] = path[d]
    BY <1>d DEF BeyondFirst, Storing
  <2>2. d \notin spoilt /\ path[d] \in disk
    BY <1>b, <2>1, RequestAndDocument
  <2>3. status[d] = "completed" \/ \E r \in Runs : run[r].d = d /\ BeyondFirst(r)
    <3>1. status'[d] = "completed" => status[d] = "completed"
      BY <2>1, RequestAndDocument
    <3>2. ASSUME NEW r \in Runs, run'[r].d = d, BeyondFirst(r)' PROVE run[r].d = d /\ BeyondFirst(r)
      BY <1>c, <3>2 DEF BeyondFirst, Storing
    <3>. QED  BY <3>1, <3>2
  <2>4. ASSUME NEW r \in Runs, StartsOn(r, d) PROVE run'[r].d = d /\ StoresFirst(r)'
    BY <2>4 DEF StartsOn, StoresFirst
  <2>5. CASE \A i, q : <<d, i, q>> \in rows' <=> <<d, i, q>> \in rows
    <3>1. Has(d, 1) \/ (\E g \in Handlers : Clears(g, d)) \/ \E r \in Runs : run[r].d = d /\ StoresFirst(r)
      BY <2>1, <2>2, <2>3 DEF Chunks, FirstIsStored
    <3>2. Has(d, 1) => Has(d, 1)'
      BY <2>5 DEF Has
    <3>3. ASSUME NEW r \in Runs, run[r].d = d, StoresFirst(r) PROVE run'[r].d = d /\ StoresFirst(r)'
      BY <1>0, <3>3 DEF StoresFirst, Storing
    <3>4. ASSUME NEW g \in Handlers, g # h, Clears(g, d) PROVE Clears(g, d)'
      BY <1>0, <3>4 DEF Others, Clears
    <3>5. Clears(h, d) => Clears(h, d)' \/ \E r \in Runs : StartsOn(r, d)
      BY <2>1, RequestAndChunks
    <3>. QED  BY <2>4, <3>1, <3>2, <3>3, <3>4, <3>5
  <2>6. CASE ~(\A i, q : <<d, i, q>> \in rows' <=> <<d, i, q>> \in rows)
    <3>1. (\E r \in Runs : StartsOn(r, d)) \/ Clears(h, d)'
      BY <2>1, <2>6, RequestAndChunks
    <3>. QED  BY <2>4, <3>1
  <2>. QED  BY <2>5, <2>6
<1>3. NothingWithoutMilvus'
  <2>. SUFFICES ASSUME ~milvus'
                PROVE  /\ \A r \in Runs : Storing(r)' => run'[r].at = 1
                       /\ \A d \in Documents : Exists(d)' /\ Size[content'[d]] > 0 =>
                             /\ \A r \in Runs : run'[r].d = d => run'[r].pc # "complete"
                             /\ status'[d] = "completed" =>
                                   /\ \A r \in Runs : run'[r].d = d => ~Active(r)'
                                   /\ \A g \in Handlers : At(g, "clear")' => req'[g].d # d
    BY DEF NothingWithoutMilvus
  <2>1. ~milvus
    BY DEF Arrive, UploadFind, RemoveFind, ReprocessFind, IndexFind, Continue, RemoveMark,
      RemoveCount, ReprocessReset, ReprocessClear, IndexCreate, IndexLink, Prepare,
      PrepareVectors, PrepareRows, PrepareCount, PrepareReset, UploadCreate, HandlerFault
  <2>2. ASSUME NEW r \in Runs, Storing(r)' PROVE run'[r].at = 1
    BY <1>c, <2>1, <2>2 DEF Storing, Chunks, NothingWithoutMilvus
  <2>3. ASSUME NEW d \in Documents, Exists(d)', Size[content'[d]] > 0, NEW r \in Runs, run'[r].d = d
        PROVE  run'[r].pc # "complete"
    BY <1>c, <1>d, <2>1, <2>3 DEF Chunks, NothingWithoutMilvus
  <2>4. ASSUME NEW d \in Documents, Exists(d)', Size[content'[d]] > 0, status'[d] = "completed"
        PROVE  /\ \A r \in Runs : run'[r].d = d => ~Active(r)'
               /\ \A g \in Handlers : At(g, "clear")' => req'[g].d # d
    <3>1. Exists(d) /\ content'[d] = content[d]
      BY <1>d, <2>4
    <3>2. status[d] = "completed"
      BY <2>4, <3>1, RequestAndDocument
    <3>3. /\ \A r \in Runs : run[r].d = d => ~Active(r)
          /\ \A g \in Handlers : At(g, "clear") => req[g].d # d
      BY <2>1, <2>4, <3>1, <3>2 DEF Chunks, NothingWithoutMilvus
    <3>4. ASSUME NEW r \in Runs, run'[r].d = d, Active(r)' PROVE FALSE
      <4>1. run'[r] # run[r]
        BY <3>3, <3>4 DEF Active
      <4>2. PICK e \in Documents : /\ StartsOn(r, e)
                                   /\ e = d => status'[d] = "pending" \/ (At(h, "clear") /\ req[h].d = d)
        <5>1. \A s \in Runs : run'[s] = run[s]
                 \/ \E e \in Documents :
                        /\ StartsOn(s, e)
                        /\ e = d => status'[d] = "pending" \/ (At(h, "clear") /\ req[h].d = d)
          BY <3>1, RequestAndChunks
        <5>. QED  BY <4>1, <5>1
      <4>. QED  BY <2>4, <3>3, <3>4, <4>2 DEF StartsOn
    <3>5. ASSUME NEW g \in Handlers, At(g, "clear")', req'[g].d = d PROVE FALSE
      <4>1. CASE g = h
        BY <2>4, <3>1, <3>5, <4>1, RequestAndDocument DEF At
      <4>2. CASE g # h
        BY <1>0, <3>3, <3>5, <4>2 DEF Others, At
      <4>. QED  BY <4>1, <4>2
    <3>. QED  BY <3>4, <3>5
  <2>. QED  BY <2>2, <2>3, <2>4
<1>. QED  BY <1>1, <1>2, <1>3 DEF Chunks

(* The steps of a run, with what chunks depend on.                         *)
LEMMA RunAndDocuments ==
    ASSUME TypeOK, Known, NEW r \in Runs, RunGoesOn(r) \/ RunFault(r)
    PROVE  /\ UNCHANGED <<content, path, disk, milvus>> /\ rows \subseteq rows'
           /\ Active(r)
           /\ ~RunRows(r) => rows' = rows
           /\ RunFault(r) => run[r].d \in spoilt'
           /\ \A d \in Documents :
                 /\ Exists(d)' => Exists(d)
                 /\ status'[d] = "completed" => status[d] = "completed" \/ (RunComplete(r) /\ d = run[r].d)
<1>1. run[r].d \in Documents /\ Exists(run[r].d)
  BY RunStep
<1>2. /\ UNCHANGED <<content, path, disk, milvus>> /\ rows \subseteq rows'
      /\ Active(r)
      /\ ~RunRows(r) => rows' = rows
  BY DEF RunGoesOn, RunStart, RunParse, RunVectors, RunRows, RunComplete, RunCount, RunFail,
     RunFault, storeVars, docVars, Active
<1>3. RunFault(r) => run[r].d \in spoilt'
  BY <1>1, DocumentsAreNumbers DEF RunFault, Spoil
<1>4. /\ \A d \in Documents : Exists(d)' => Exists(d)
      /\ \A d \in Documents : status'[d] = "completed"
             => status[d] = "completed" \/ (RunComplete(r) /\ d = run[r].d)
  BY <1>1 DEF RunGoesOn, RunStart, RunParse, RunVectors, RunRows, RunComplete, RunCount, RunFail,
     RunFault, docVars, Exists, TypeOK
<1>. QED  BY <1>2, <1>3, <1>4

LEMMA RunsKeepChunks ==
    ASSUME TypeOK, Known, Chunks, NEW r \in Runs, RunGoesOn(r) \/ RunFault(r)
    PROVE  Chunks'
<1>. USE DocumentsAreNumbers
<1>0. /\ UNCHANGED req /\ \A q \in Runs : q # r => run'[q] = run[q]
      /\ run[r].d \in Documents /\ Exists(run[r].d) /\ run'[r].d = run[r].d
      /\ run[r].at \in Nat
  BY RunStep DEF TypeOK
<1>a. PICK e \in Documents : e = run[r].d
  BY <1>0
<1>b. PICK j \in Nat : j = run[r].at
  BY <1>0
<1>c. /\ UNCHANGED <<content, path, disk, milvus>> /\ rows \subseteq rows'
      /\ Active(r)
      /\ ~RunRows(r) => rows' = rows
      /\ RunFault(r) => e \in spoilt'
      /\ \A d \in Documents :
            /\ Exists(d)' => Exists(d)
            /\ status'[d] = "completed" => status[d] = "completed" \/ (RunComplete(r) /\ d = e)
  BY <1>a, RunAndDocuments
<1>d. spoilt \subseteq spoilt'
  BY PastGrows DEF Next
<1>e. Size[content[e]] \in Nat
  BY <1>0, <1>a, DocumentAssumption DEF Known, RowsKnown
<1>f. RunRows(r) =>
         \/ /\ run'[r].pc = "fail" /\ run'[r].at = j /\ UNCHANGED rows
            /\ ~milvus \/ Has(e, j)
         \/ /\ rows' = rows \cup {<<e, j, r>>} /\ milvus
            /\ run'[r].at = j + 1
            /\ j = Size[content[e]] => run'[r].pc = "complete"
            /\ j # Size[content[e]] => run'[r].pc = "vectors"
  BY <1>a, <1>b, RunsGoOn DEF Moves, Has
<1>g. /\ RunVectors(r) => run[r].pc = "vectors" /\ run'[r].pc = "rows" /\ run'[r].at = j
      /\ RunStart(r) => run[r].pc = "start" /\ run'[r].pc = "parse" /\ run'[r].at = j
      /\ RunParse(r) => /\ run[r].pc = "parse" /\ run'[r].at = j
                        /\ run'[r].pc = "fail" => path[e] \notin disk
                        /\ run'[r].pc = "complete" => Size[content[e]] = 0
                        /\ run'[r].pc \in {"fail", "complete", "vectors"}
      /\ RunRows(r) => run[r].pc = "rows"
      /\ RunComplete(r) => run[r].pc = "complete" /\ run'[r].pc = "count"
      /\ RunCount(r) \/ RunFail(r) => run[r].pc \in {"count", "fail"} /\ run'[r].pc = "done"
      /\ RunFault(r) => run'[r].pc \in {"done", "fail"}
  BY <1>a, <1>b, RunsGoOn DEF Moves, RunVectors, RunStart, RunParse, RunRows, RunComplete, RunCount,
     RunFail
<1>h. /\ RunStart(r) \/ RunVectors(r) \/ RunParse(r) \/ RunRows(r) \/ RunComplete(r)
         \/ RunCount(r) \/ RunFail(r) \/ RunFault(r)
      /\ run[r].pc \in {"start", "parse"} => j = 1
      /\ j >= 1
  BY <1>b, <1>c DEF RunGoesOn, Known, RunsKnown, Active
<1>1. NextIsStored'
  <2>. SUFFICES ASSUME NEW d \in Documents, Exists(d)', d \notin spoilt', NEW i \in Nat,
                       1 <= i, i < Size[content'[d]], Has(d, i)'
                PROVE  \/ Has(d, i + 1)'
                       \/ \E q \in Runs : Storing(q)' /\ run'[q].d = d /\ run'[q].at = i + 1
    BY DEF NextIsStored
  <2>1. Exists(d) /\ d \notin spoilt /\ i < Size[content[d]]
    BY <1>c, <1>d
  <2>2. CASE ~Has(d, i)
    <3>1. d = e /\ i = j /\ RunRows(r)
      BY <1>c, <1>f, <2>2 DEF Has
    <3>. QED  BY <1>0, <1>a, <1>f, <2>1, <2>2, <3>1 DEF Has, Storing
  <2>3. CASE Has(d, i)
    <3>1. Has(d, i + 1) \/ \E q \in Runs : Storing(q) /\ run[q].d = d /\ run[q].at = i + 1
      BY <2>1, <2>3 DEF Chunks, NextIsStored
    <3>2. Has(d, i + 1) => Has(d, i + 1)'
      BY <1>c DEF Has
    <3>3. ASSUME NEW q \in Runs, q # r, Storing(q), run[q].d = d, run[q].at = i + 1
          PROVE  Storing(q)' /\ run'[q].d = d /\ run'[q].at = i + 1
      BY <1>0, <3>3 DEF Storing
    <3>4. ASSUME Storing(r), run[r].d = d, run[r].at = i + 1
          PROVE  Has(d, i + 1)' \/ (Storing(r)' /\ run'[r].d = d /\ run'[r].at = i + 1)
      <4>1. d = e /\ j = i + 1 /\ j # 1
        BY <1>a, <1>b, <3>4
      <4>2. milvus
        BY <1>b, <3>4, <4>1 DEF Chunks, NothingWithoutMilvus
      <4>3. RunVectors(r) \/ RunRows(r)
        BY <1>c, <1>g, <1>h, <3>4, <4>1 DEF Storing
      <4>4. CASE RunVectors(r)
        BY <1>0, <1>g, <3>4, <4>1, <4>4 DEF Storing
      <4>5. CASE RunRows(r)
        BY <1>f, <3>2, <4>1, <4>2, <4>5 DEF Has
      <4>. QED  BY <4>3, <4>4, <4>5
    <3>. QED  BY <3>1, <3>2, <3>3, <3>4
  <2>. QED  BY <2>2, <2>3
<1>2. FirstIsStored'
  <2>. SUFFICES ASSUME NEW d \in Documents, Exists(d)', d \notin spoilt', path'[d] \in disk',
                       Size[content'[d]] > 0,
                       status'[d] = "completed" \/ \E q \in Runs : run'[q].d = d /\ BeyondFirst(q)',
                       ~Has(d, 1)'
                PROVE  \/ \E h \in Handlers : Clears(h, d)'
                       \/ \E q \in Runs : run'[q].d = d /\ StoresFirst(q)'
    BY DEF FirstIsStored
  <2>1. Exists(d) /\ d \notin spoilt /\ path[d] \in disk /\ Size[content[d]] > 0 /\ ~Has(d, 1)
    BY <1>c, <1>d DEF Has
  <2>2. ~(RunRows(r) /\ d = e /\ j = 1 /\ milvus)
    <3>1. ASSUME RunRows(r), d = e, j = 1, milvus PROVE Has(d, 1)'
      BY <1>c, <1>f, <3>1 DEF Has
    <3>. QED  BY <3>1
  <2>3. status[d] = "completed" \/ \E q \in Runs : run[q].d = d /\ BeyondFirst(q)
    <3>1. status'[d] = "completed" => status[d] = "completed" \/ (run[r].d = d /\ BeyondFirst(r))
      BY <1>a, <1>c, <1>g DEF BeyondFirst
    <3>2. ASSUME NEW q \in Runs, q # r, run'[q].d = d, BeyondFirst(q)'
          PROVE  run[q].d = d /\ BeyondFirst(q)
      BY <1>0, <3>2 DEF BeyondFirst, Storing
    <3>3. ASSUME run'[r].d = d, BeyondFirst(r)' PROVE run[r].d = d /\ BeyondFirst(r)
      <4>1. d = e
        BY <1>0, <1>a, <3>3
      <4>2. CASE RunRows(r)
        BY <1>a, <1>b, <1>f, <1>g, <1>h, <2>2, <3>3, <4>1, <4>2 DEF BeyondFirst, Storing
      <4>3. CASE RunVectors(r)
        BY <1>a, <1>b, <1>g, <3>3, <4>1, <4>3 DEF BeyondFirst, Storing
      <4>4. CASE ~RunRows(r) /\ ~RunVectors(r)
        BY <1>g, <1>h, <2>1, <3>3, <4>1, <4>4 DEF BeyondFirst, Storing
      <4>. QED  BY <4>2, <4>3, <4>4
    <3>. QED  BY <3>1, <3>2, <3>3
  <2>4. (\E h \in Handlers : Clears(h, d)) \/ \E q \in Runs : run[q].d = d /\ StoresFirst(q)
    BY <2>1, <2>3 DEF Chunks, FirstIsStored
  <2>5. ASSUME NEW h \in Handlers, Clears(h, d) PROVE Clears(h, d)'
    BY <1>0, <2>5 DEF Clears
  <2>6. ASSUME NEW q \in Runs, q # r, run[q].d = d, StoresFirst(q) PROVE run'[q].d = d /\ StoresFirst(q)'
    BY <1>0, <2>6 DEF StoresFirst, Storing
  <2>7. ASSUME run[r].d = d, StoresFirst(r) PROVE run'[r].d = d /\ StoresFirst(r)'
    <3>1. d = e /\ j = 1
      BY <1>a, <1>b, <2>7 DEF StoresFirst
    <3>2. ASSUME RunRows(r) PROVE FALSE
      <4>1. ~milvus
        BY <2>2, <3>1, <3>2
      <4>2. status[d] # "completed"
        BY <1>c, <2>1, <2>7, <4>1 DEF Chunks, NothingWithoutMilvus
      <4>3. ASSUME NEW q \in Runs, run[q].d = d, BeyondFirst(q) PROVE FALSE
        BY <2>1, <4>1, <4>3 DEF Chunks, NothingWithoutMilvus, BeyondFirst
      <4>. QED  BY <2>3, <4>2, <4>3
    <3>3. RunStart(r) \/ RunParse(r) \/ RunVectors(r)
      BY <1>c, <1>g, <1>h, <2>7, <3>1, <3>2 DEF StoresFirst, Storing
    <3>. QED  BY <1>0, <1>g, <2>1, <2>7, <3>1, <3>3 DEF StoresFirst, Storing
  <2>. QED  BY <2>4, <2>5, <2>6, <2>7
<1>3. NothingWithoutMilvus'
  <2>. SUFFICES ASSUME ~milvus'
                PROVE  /\ \A q \in Runs : Storing(q)' => run'[q].at = 1
                       /\ \A d \in Documents : Exists(d)' /\ Size[content'[d]] > 0 =>
                             /\ \A q \in Runs : run'[q].d = d => run'[q].pc # "complete"
                             /\ status'[d] = "completed" =>
                                   /\ \A q \in Runs : run'[q].d = d => ~Active(q)'
                                   /\ \A h \in Handlers : At(h, "clear")' => req'[h].d # d
    BY DEF NothingWithoutMilvus
  <2>1. /\ ~milvus
        /\ \A q \in Runs : Storing(q) => run[q].at = 1
        /\ \A d \in Documents : Exists(d) /\ Size[content[d]] > 0 =>
              /\ \A q \in Runs : run[q].d = d => run[q].pc # "complete"
              /\ status[d] = "completed" =>
                    /\ \A q \in Runs : run[q].d = d => ~Active(q)
                    /\ \A h \in Handlers : At(h, "clear") => req[h].d # d
    BY <1>c DEF Chunks, NothingWithoutMilvus
  <2>2. ASSUME NEW q \in Runs, Storing(q)' PROVE run'[q].at = 1
    <3>1. CASE q = r
      BY <1>b, <1>f, <1>g, <1>h, <2>1, <2>2, <3>1 DEF Storing
    <3>2. CASE q # r
      BY <1>0, <2>1, <2>2, <3>2 DEF Storing
    <3>. QED  BY <3>1, <3>2
  <2>3. ASSUME NEW d \in Documents, Exists(d)', Size[content'[d]] > 0, NEW q \in Runs, run'[q].d = d
        PROVE  run'[q].pc # "complete"
    <3>1. CASE q = r
      <4>1. d = e
        BY <1>0, <1>a, <2>3, <3>1
      <4>. QED  BY <1>c, <1>f, <1>g, <1>h, <2>1, <2>3, <3>1, <4>1
    <3>2. CASE q # r
      BY <1>0, <1>c, <2>1, <2>3, <3>2
    <3>. QED  BY <3>1, <3>2
  <2>4. ASSUME NEW d \in Documents, Exists(d)', Size[content'[d]] > 0, status'[d] = "completed"
        PROVE  /\ \A q \in Runs : run'[q].d = d => ~Active(q)'
               /\ \A h \in Handlers : At(h, "clear")' => req'[h].d # d
    <3>1. Exists(d) /\ Size[content[d]] > 0
      BY <1>c, <2>4
    <3>2. status[d] = "completed"
      BY <1>a, <1>c, <1>g, <2>1, <2>4, <3>1
    <3>3. run[r].d # d
      BY <1>c, <2>1, <3>1, <3>2
    <3>. QED  BY <1>0, <2>1, <3>1, <3>2, <3>3 DEF Active, At
  <2>. QED  BY <2>2, <2>3, <2>4
<1>. QED  BY <1>1, <1>2, <1>3 DEF Chunks

LEMMA ChunksStay == TypeOK /\ Known /\ Chunks /\ [Next]_vars => Chunks'
<1>. SUFFICES ASSUME TypeOK, Known, Chunks, [Next]_vars PROVE Chunks'
  OBVIOUS
<1>1. ASSUME Crash PROVE Chunks'
  <2>1. /\ UNCHANGED <<status, content, path, disk, rows>> /\ spoilt \subseteq spoilt'
        /\ \A r \in Runs : run'[r].pc \in {"off", "done"}
        /\ \A h \in Handlers : req'[h].pc = "idle"
    BY <1>1, CrashEffects DEF docVars, storeVars
  <2>2. ASSUME NEW d \in Documents, d \notin spoilt'
        PROVE  /\ d \notin spoilt
               /\ \A r \in Runs : run[r].d = d => ~Active(r)
               /\ \A h \in Handlers : ~Clears(h, d)
    <3>1. AtRest(d)
      BY <1>1, <2>2, CrashEffects
    <3>. QED  BY <2>1, <2>2, <3>1 DEF AtRest, RunsOn, Busy, Clears
  <2>3. NextIsStored'
    <3>. SUFFICES ASSUME NEW d \in Documents, Exists(d), d \notin spoilt', NEW i \in Nat,
                         1 <= i, i < Size[content[d]], Has(d, i)
                  PROVE  Has(d, i + 1)
      BY <2>1 DEF NextIsStored, Has, Exists
    <3>1. Has(d, i + 1) \/ \E r \in Runs : Storing(r) /\ run[r].d = d /\ run[r].at = i + 1
      BY <2>2 DEF Chunks, NextIsStored
    <3>. QED  BY <2>2, <3>1 DEF Storing, Active
  <2>4. FirstIsStored'
    <3>. SUFFICES ASSUME NEW d \in Documents, Exists(d), d \notin spoilt', path[d] \in disk,
                         Size[content[d]] > 0,
                         status[d] = "completed"
                  PROVE  Has(d, 1)
      BY <2>1 DEF FirstIsStored, Has, Exists, BeyondFirst, Storing
    <3>1. \/ Has(d, 1) \/ (\E h \in Handlers : Clears(h, d))
          \/ \E r \in Runs : run[r].d = d /\ StoresFirst(r)
      BY <2>2 DEF Chunks, FirstIsStored
    <3>. QED  BY <2>2, <3>1 DEF StoresFirst, Storing, Active
  <2>5. NothingWithoutMilvus'
    BY <2>1 DEF NothingWithoutMilvus, Storing, Active, At
  <2>. QED  BY <2>3, <2>4, <2>5 DEF Chunks
<1>2. ASSUME UNCHANGED vars PROVE Chunks'
  <2>1. UNCHANGED <<status, content, path, disk, rows, spoilt, run, req, milvus>>
    BY <1>2 DEF vars, docVars, storeVars, pastVars
  <2>. QED  BY <2>1 DEF Chunks, NextIsStored, FirstIsStored, NothingWithoutMilvus, Has, Exists,
            Storing, BeyondFirst, StoresFirst, Clears, Active, At
<1>. QED  BY <1>1, <1>2, RequestsKeepChunks, RunsKeepChunks DEF Next

(* From the first batch to the last: take the smallest that is missing.    *)
LEMMA AllBatches ==
    ASSUME NEW d \in Documents, NEW n \in Nat, n > 0 => Has(d, 1),
           \A i \in Nat : 1 <= i /\ i < n /\ Has(d, i) => Has(d, i + 1)
    PROVE  \A i \in 1..n : Has(d, i)
<1>. DEFINE Missing == {i \in 1..n : ~Has(d, i)}
<1>1. SUFFICES ASSUME Missing # {} PROVE FALSE
  OBVIOUS
<1>2. PICK m \in Missing : \A k \in Missing : m <= k
  <2>1. Missing \subseteq Nat
    OBVIOUS
  <2>. HIDE DEF Missing
  <2>. QED  BY <1>1, <2>1, Smallest
<1>3. m - 1 \in Nat /\ m - 1 >= 1 /\ m - 1 < n
  BY <1>2
<1>4. Has(d, m - 1)
  BY <1>2, <1>3
<1>. QED  BY <1>2, <1>3, <1>4

-----------------------------------------------------------------------------
(* The inductive invariant.                                                *)
DocumentInv == TypeOK /\ Known /\ WaitingIsSeenTo /\ Sound /\ Chunks

LEMMA DocumentsBegin == Init => DocumentInv
<1>. SUFFICES ASSUME Init PROVE DocumentInv
  OBVIOUS
<1>1. WaitingIsSeenTo
  BY DEF Init, WaitingIsSeenTo, Waits
<1>2. Sound
  BY DEF Init, Sound, NoRun
<1>3. Chunks
  BY DEF Init, Chunks, NextIsStored, FirstIsStored, NothingWithoutMilvus, Exists, NoRun, Storing
<1>. QED  BY <1>1, <1>2, <1>3, TypeBegins, KnownBegins DEF DocumentInv

(* Requests and runs over the same documents, each broken off by a failing  *)
(* call or a restart anywhere, keep what is known of rows, chunks, vectors *)
(* and of who works on a waiting document (document.service.ts,            *)
(* document-processor.service.ts).                                         *)
THEOREM DocumentsAreKept == Spec => []DocumentInv
<1>1. DocumentInv /\ [Next]_vars => DocumentInv'
  BY KnownStays, WaitingStaysSeenTo, RowsStaySound, ChunksStay DEF DocumentInv
<1>. QED  BY <1>1, DocumentsBegin, PTL DEF Spec

(* Nobody waits for a document in vain: once its runs and handlers are     *)
(* gone it is neither pending nor processing, unless one of them was cut   *)
(* off (processDocument's catch block, reprocess, indexToKnowledgeBase).   *)
THEOREM NobodyWaitsInVain == Spec => []DocumentsAreNotForgotten
<1>1. DocumentInv => DocumentsAreNotForgotten
  BY DEF DocumentInv, WaitingIsSeenTo, DocumentsAreNotForgotten, Waits, AtRest, RunsOn, Active,
         Busy, Settles, Cares
<1>. QED  BY <1>1, DocumentsAreKept, PTL

(* A document's columns hold what they may, and its chunk rows refer to    *)
(* vectors that are in Milvus, unless the vectors were deleted under a run *)
(* or a call failed (processDocument, prepareDocumentForProcessing).       *)
THEOREM RowsHaveTheirVectors == Spec => []RowsAreSound
<1>1. DocumentInv => RowsAreSound
  <2>. SUFFICES ASSUME DocumentInv PROVE RowsHaveVectors
    BY DEF DocumentInv, RowsAreSound
  <2>1. ASSUME NEW d \in Documents, AtRest(d), d \notin spoilt \cup overlapped, NEW row \in rows,
               row[1] = d
        PROVE  row \in vectors
    BY <2>1 DEF DocumentInv, Sound, Blemished, AtRest, Busy, At
  <2>. QED  BY <2>1 DEF RowsHaveVectors
<1>. QED  BY <1>1, DocumentsAreKept, PTL

(* A document shown as completed, with nothing under way, has a row for    *)
(* every chunk of its file, however runs, reprocessing and indexing        *)
(* overlapped (the unique index of DocumentChunk makes all but one fail).  *)
THEOREM CompletedIsComplete == Spec => []CompletedHasAllChunks
<1>1. DocumentInv => CompletedHasAllChunks
  <2>. SUFFICES ASSUME DocumentInv, NEW d \in Documents, Live(d), AtRest(d),
                       status[d] = "completed", d \notin spoilt, path[d] \in disk
                PROVE  \A i \in 1..Size[content[d]] : Has(d, i)
    BY DEF CompletedHasAllChunks, Has
  <2>1. Exists(d) /\ content[d] \in Files
    BY DEF Live, DocumentInv, Known, RowsKnown
  <2>2. PICK n \in Nat : n = Size[content[d]]
    BY <2>1, DocumentAssumption
  <2>3. n > 0 => Has(d, 1)
    <3>1. n > 0 => \/ Has(d, 1) \/ (\E h \in Handlers : Clears(h, d))
                   \/ \E r \in Runs : run[r].d = d /\ StoresFirst(r)
      BY <2>1, <2>2 DEF DocumentInv, Chunks, FirstIsStored
    <3>. QED  BY <3>1 DEF AtRest, RunsOn, Active, Busy, Clears, StoresFirst, Storing
  <2>4. ASSUME NEW i \in Nat, 1 <= i, i < n, Has(d, i) PROVE Has(d, i + 1)
    <3>1. Has(d, i + 1) \/ \E r \in Runs : Storing(r) /\ run[r].d = d /\ run[r].at = i + 1
      BY <2>1, <2>2, <2>4 DEF DocumentInv, Chunks, NextIsStored
    <3>. QED  BY <3>1 DEF AtRest, RunsOn, Active, Storing
  <2>. QED  BY <2>2, <2>3, <2>4, AllBatches
<1>. QED  BY <1>1, DocumentsAreKept, PTL
=============================================================================
