---------------------------- MODULE AnalysisTask ----------------------------
(***************************************************************************)
(* Reviews and similarity checks: src/ai-review and src/ai-check.          *)
(*                                                                         *)
(* An upload creates a row and starts the work without waiting for it: the *)
(* work goes through the document unit by unit (a check its paragraphs, a  *)
(* review its dimensions) and writes the report at the end.  Meanwhile the *)
(* user may delete the row, updates of the row may fail and the process    *)
(* may restart, which forgets the work and keeps the row.                  *)
(***************************************************************************)
EXTENDS Integers, SequencesExt, FiniteSetsExt

CONSTANTS
    Checks,        (* similarity checks                                    *)
    Reviews,       (* reviews                                              *)
    Similarities,  (* percentages, what computeSimilarity may return       *)
    MaxParagraphs, (* bound on the paragraphs of a check                   *)
    Grades,        (* tenths, what the model may give a dimension          *)
    Documents,     (* what may be found in the file of a review            *)
    DocTypes,      (* the types reviews are asked for                      *)
    StaleAge       (* ticks without an update after which a check is stale *)

ASSUME AnalysisAssumption ==
    /\ Checks \cap Reviews = {}
    /\ Similarities \subseteq 0..99
    /\ MaxParagraphs \in Nat
    /\ \A g \in Grades : g \in Nat
    /\ \A d \in Documents :
          /\ d.has \subseteq {"title", "abstract", "method", "experiment", "results",
                             "conclusion", "delivery", "application"}
          /\ d.contributions \in Nat /\ d.references \in Nat /\ d.figures \in Nat
          /\ d.words \in Nat /\ d.paragraphs \in Nat
          /\ d.alignment \in 0..100   (* percent, computeTextOverlap *)
    /\ DocTypes \subseteq {"project", "paper"}
    /\ StaleAge \in Nat \ {0}

Analyses == Checks \cup Reviews

VARIABLES
    rows,    (* the AICheckTask and AIReviewTask rows                      *)
    ages,    (* ticks since the row was updated                            *)
    work     (* runCheck and runReview in this process                     *)

analysisVars == <<rows, ages, work>>

NoWork == [phase |-> "none", results |-> <<>>, document |-> {}]
NoRow == [status |-> "absent", type |-> "paper", units |-> 0, readable |-> TRUE,
          report |-> {}]

(* dimensionConfigs: names and weights in percent.                         *)
DimensionConfigs ==
    [project |-> <<[name |-> "innovation", weight |-> 25], [name |-> "science", weight |-> 25],
                   [name |-> "feasibility", weight |-> 20], [name |-> "application", weight |-> 15],
                   [name |-> "form", weight |-> 15]>>,
     paper   |-> <<[name |-> "innovation", weight |-> 30], [name |-> "quality", weight |-> 25],
                   [name |-> "writing", weight |-> 20], [name |-> "relevance", weight |-> 15],
                   [name |-> "completeness", weight |-> 10]>>]

AnalysisTypeOK ==
    /\ ages \in [Analyses -> 0..StaleAge]
    /\ \A a \in Analyses :
          /\ rows[a].status \in {"absent", "pending", "processing",
                                 "completed", "failed", "deleted"}
          /\ rows[a].units \in Nat /\ rows[a].readable \in BOOLEAN
          /\ rows[a].report # {} <=> rows[a].status = "completed"
          /\ work[a].phase \in {"none", "called", "running"}
          /\ work[a].document \in SUBSET Documents
          /\ Len(work[a].results) <= rows[a].units

AnalysisInit ==
    /\ rows = [a \in Analyses |-> NoRow]
    /\ ages = [a \in Analyses |-> 0]
    /\ work = [a \in Analyses |-> NoWork]
-----------------------------------------------------------------------------
HasRow(a) == rows[a].status \notin {"absent", "deleted"}

(* upload: the row, then the work, which is not waited for.                *)
CreateRowOf(a, type, units, readable) ==
    /\ rows[a].status = "absent"
    /\ rows' = [rows EXCEPT ![a] = [status |-> "pending", type |-> type, units |-> units,
                                    readable |-> readable, report |-> {}]]
    /\ work' = [work EXCEPT ![a].phase = "called"]
    /\ UNCHANGED ages

(* A check's file is parsed here, and one that cannot be parsed leaves the *)
(* row without content; units are the paragraphs of 50 characters or more. *)
CreateCheck(a) ==
    \E readable \in BOOLEAN, n \in 0..MaxParagraphs : CreateRowOf(a, "paper", n, readable)

CreateReview(a) ==
    \E readable \in BOOLEAN, type \in DocTypes :
        CreateRowOf(a, type, Len(DimensionConfigs[type]), readable)

(* prisma.update throws when the row was deleted.                          *)
SetStatus(a, status, report) ==
    /\ HasRow(a)
    /\ rows' = [rows EXCEPT ![a].status = status, ![a].report = report]
    /\ ages' = [ages EXCEPT ![a] = 0]

Leave(a) == work' = [work EXCEPT ![a] = NoWork]

StartWork(a) ==
    /\ work[a].phase = "called"
    /\ SetStatus(a, "processing", {})
    /\ work' = [work EXCEPT ![a].phase = "running"]

RunCheck(a) == rows[a].readable /\ StartWork(a)
RunReview(a) == StartWork(a)

(* An error nobody is told of but the log: no content, the row is gone, or *)
(* the database fails; in runCheck and runReview the first update stands   *)
(* outside the try, and the catch's own update may fail as well.           *)
LeaveSilently(a) ==
    /\ work[a].phase # "none"
    /\ Leave(a)
    /\ UNCHANGED <<rows, ages>>

Judged(a, results) ==
    /\ work[a].phase = "running" /\ rows[a].readable
    /\ Len(work[a].results) < rows[a].units
    /\ \E r \in results : work' = [work EXCEPT ![a].results = Append(@, r)]
    /\ UNCHANGED <<rows, ages>>
-----------------------------------------------------------------------------
(* collectCandidates: the best of the knowledge base and of the built-in   *)
(* sources; one that cannot be asked adds none.                            *)
TopScores == Similarities \cup {0}

(* buildHeuristicJudgement; `cue` says that the paragraph cites its source.*)
HeuristicDuplicate(score, cue) == score >= 86 \/ (score >= 68 /\ ~cue)

(* safeJudgeWithLlm: asked from 0.6 on, and it may answer anything; an     *)
(* answer that cannot be parsed, or none, leaves the heuristic's.          *)
Verdicts(score) ==
    IF score >= 60 THEN BOOLEAN ELSE {HeuristicDuplicate(score, cue) : cue \in BOOLEAN}

(* checkParagraph: below 0.22 nothing was found.                           *)
ParagraphResults ==
    UNION {IF s < 22 THEN {[score |-> 0, duplicate |-> FALSE]}
           ELSE {[score |-> s, duplicate |-> d] : d \in Verdicts(s)} : s \in TopScores}

CheckParagraph(a) == Judged(a, ParagraphResults)

Where(results, Test(_)) == {k \in DOMAIN results : Test(results[k])}
Count(results, Test(_)) == Cardinality(Where(results, Test))
Duplicates(results) == Count(results, LAMBDA r : r.duplicate)

(* Mutant: similar wording is watched, judged a duplicate or not.          *)
WatchAll(results) == Count(results, LAMBDA r : r.score > 0 /\ r.score < 70)

WatchCount(results) ==
    Count(results, LAMBDA r : ~r.duplicate /\ r.score > 0 /\ r.score < 70)

AttentionCount(results) ==
    Duplicates(results) + Count(results, LAMBDA r : ~r.duplicate /\ r.score >= 70)

(* resolveRiskLevel of duplicates / total                                  *)
RiskLevel(duplicates, total) ==
    IF duplicates = 0 THEN "clean"
    ELSE IF 100 * duplicates >= 70 * total THEN "high"
    ELSE IF 100 * duplicates >= 45 * total THEN "medium"
    ELSE "low"

CheckReport(results) ==
    LET attention == AttentionCount(results)
        watch == WatchCount(results)
    IN  [attention |-> attention, watch |-> watch,
         clear |-> Max({Len(results) - attention - watch, 0}),
         details |-> Where(results, LAMBDA r : r.duplicate \/ r.score > 70),
         risk |-> RiskLevel(Duplicates(results), Len(results)),
         results |-> results]
-----------------------------------------------------------------------------
ClampScore(grade) == Max({350, Min({950, grade})})

(* ingestDocument: the model's extract, or headings and counts of the text *)
(* itself where the model has nothing to say.                              *)
IngestDocument(a) ==
    /\ work[a].phase = "running" /\ rows[a].readable /\ work[a].document = {}
    /\ \E d \in Documents : work' = [work EXCEPT ![a].document = {d}]
    /\ UNCHANGED <<rows, ages>>

(* buildHeuristicDimensionScore, in tenths.                                *)
HeuristicGrade(dimension, d) ==
    LET if(part, there, missing) == IF part \in d.has THEN there ELSE missing
        atMost(n, most) == Min({n, most})
    IN  CASE dimension = "innovation" ->
                580 + 70 * d.contributions + if("method", 60, -40) + (12 * d.alignment) \div 10
          [] dimension = "science" ->
                540 + if("method", 140, -80) + if("experiment", 100, -60)
                    + if("results", 60, 0) + 12 * atMost(d.references, 12)
          [] dimension = "feasibility" ->
                570 + if("method", 100, -50) + if("delivery", 100, -40)
                    + if("experiment", 60, 0) + atMost(d.words \div 50, 80)
          [] dimension = "application" ->
                560 + if("application", 140, -20) + if("results", 60, 0)
                    + if("conclusion", 40, 0) + (8 * d.alignment) \div 10
          [] dimension = "form" ->
                550 + if("abstract", 80, -40) + if("conclusion", 80, -40)
                    + 14 * atMost(d.references, 10) + (IF d.figures > 0 THEN 40 ELSE 0)
                    + atMost((10 * d.paragraphs) \div 4, 80)
          [] dimension = "quality" ->
                530 + if("method", 160, -100) + if("experiment", 120, -80)
                    + if("results", 80, -30) + 11 * atMost(d.references, 15)
          [] dimension = "writing" ->
                580 + if("abstract", 80, -40) + if("conclusion", 80, -30)
                    + atMost(2 * d.paragraphs, 80) + atMost(d.words \div 80, 80)
          [] dimension = "relevance" ->
                620 + if("abstract", 80, -20) + (15 * d.alignment) \div 10 + if("title", 50, 0)
          [] dimension = "completeness" ->
                420 + if("abstract", 140, 0) + if("method", 140, 0) + if("experiment", 100, 0)
                    + if("results", 80, 0) + if("conclusion", 80, 0) + 10 * atMost(d.references, 8)

(* evaluateDimension: the model's grade, or the heuristic's when there is  *)
(* no answer or none that can be parsed.                                   *)
EvaluateDimension(a) ==
    /\ work[a].document # {}
    /\ \E d \in work[a].document :
          LET k == Len(work[a].results) + 1
              dimension == DimensionConfigs[rows[a].type][k].name
          IN  /\ k <= rows[a].units
              /\ Judged(a, {[score |-> ClampScore(g), by |-> "model"] : g \in Grades}
                    \cup {[score |-> ClampScore(HeuristicGrade(dimension, d)), by |-> "heuristic"]})

WeightsOf(a) == [k \in DOMAIN DimensionConfigs[rows[a].type] |->
                    DimensionConfigs[rows[a].type][k].weight]

(* The weighted sum, toFixed(1).                                           *)
OverallScore(results, weights) ==
    (MapThenSumSet(LAMBDA k : results[k].score * weights[k], DOMAIN results) + 50) \div 100

ResolveRecommendation(score) ==
    IF score >= 800 THEN "accept" ELSE IF score >= 600 THEN "revise" ELSE "reject"

(* deriveReviewNarrative: the strong dimensions and the weak ones, from    *)
(* the weakest on, which the conclusion and the next actions name.         *)
ReviewNarrative(results, weights) ==
    LET weaker(j, k) == \/ results[j].score < results[k].score
                        \/ results[j].score = results[k].score /\ weights[j] > weights[k]
                        \/ results[j].score = results[k].score /\ weights[j] = weights[k] /\ j < k
        below == Where(results, LAMBDA r : r.score < 750)
    IN  [strong |-> Where(results, LAMBDA r : r.score >= 750),
         weak |-> [n \in 1..Cardinality(below) |->
                      CHOOSE k \in below : Cardinality({j \in below : weaker(j, k)}) = n - 1]]

(* buildReviewReport                                                       *)
ReviewReport(results, weights, document) ==
    LET score == OverallScore(results, weights)
    IN  [score |-> score, results |-> results, document |-> document,
         recommendation |-> ResolveRecommendation(score),
         narrative |-> ReviewNarrative(results, weights)]

Report(a) ==
    IF a \in Checks THEN CheckReport(work[a].results)
    ELSE ReviewReport(work[a].results, WeightsOf(a), work[a].document)

(* Mutant: an upsert that puts a deleted row back.                         *)
CompleteAnyway(a) ==
    /\ work[a].phase = "running" /\ rows[a].readable
    /\ Len(work[a].results) = rows[a].units
    /\ rows' = [rows EXCEPT ![a].status = "completed", ![a].report = {Report(a)}]
    /\ ages' = [ages EXCEPT ![a] = 0]
    /\ Leave(a)

CompleteWork(a) ==
    /\ work[a].phase = "running" /\ rows[a].readable
    /\ Len(work[a].results) = rows[a].units
    /\ SetStatus(a, "completed", {Report(a)})
    /\ Leave(a)

(* The catch: a review's file that cannot be parsed, or a failed update.   *)
FailWork(a) ==
    /\ work[a].phase = "running"
    /\ ~rows[a].readable \/ Len(work[a].results) = rows[a].units
    /\ SetStatus(a, "failed", {})
    /\ Leave(a)

DeleteAnalysis(a) ==
    /\ HasRow(a)
    /\ rows' = [rows EXCEPT ![a].status = "deleted", ![a].report = {}]
    /\ UNCHANGED <<ages, work>>

RestartAnalyses ==
    /\ \E a \in Analyses : work[a].phase # "none"
    /\ work' = [a \in Analyses |-> NoWork]
    /\ UNCHANGED <<rows, ages>>

AnalysisTick(a) ==
    /\ rows[a].status = "processing" /\ ages[a] < StaleAge
    /\ ages' = [ages EXCEPT ![a] = @ + 1]
    /\ UNCHANGED <<rows, work>>

WorkStep(a) ==
    \/ LeaveSilently(a) \/ CompleteWork(a) \/ FailWork(a)
    \/ DeleteAnalysis(a) \/ AnalysisTick(a)

CheckNext ==
    \E a \in Checks : CreateCheck(a) \/ RunCheck(a) \/ CheckParagraph(a) \/ WorkStep(a)

ReviewNext ==
    \E a \in Reviews : \/ CreateReview(a) \/ RunReview(a) \/ IngestDocument(a)
                       \/ EvaluateDimension(a) \/ WorkStep(a)

AnalysisNext == CheckNext \/ ReviewNext \/ RestartAnalyses

AnalysisSpec == AnalysisInit /\ [][AnalysisNext]_analysisVars

(* The clock does not stop; nothing is assumed of the work.                *)
AnalysisFairness == \A a \in Analyses : WF_analysisVars(AnalysisTick(a))
-----------------------------------------------------------------------------

(* getStatus of a check: twenty minutes in processing without an update.   *)
IsStaleProcessing(a) ==
    a \in Checks /\ rows[a].status = "processing" /\ ages[a] >= StaleAge

(* A check whose work was lost in a restart or by a failing database does  *)
(* not look busy for ever: it is shown as stale, or it gets an end         *)
(* (ai-check.service.ts getStatus).                                        *)
LostChecksAreShown ==
    \A a \in Checks : rows[a].status = "processing" ~>
        rows[a].status # "processing" \/ IsStaleProcessing(a)

(* Every paragraph of a check falls into one bucket and those that found   *)
(* nothing are the clear ones; what needs attention is listed, but for a   *)
(* similarity of 0.70 itself; "clean" means without duplicates.  A review  *)
(* that is accepted has a dimension that reaches 80; one that is rejected  *)
(* names a dimension to start from, the first below 60; without a model, a *)
(* document with neither method nor experiment nor results is not accepted,*)
(* however long its list of contributions                                  *)
(* (buildReportMetrics, resolveRecommendation, deriveReviewNarrative,      *)
(* buildHeuristicDimensionScore).                                          *)
ReportsAddUp ==
    /\ \A a \in Checks : \A r \in rows[a].report :
          /\ r.attention + r.watch + r.clear = rows[a].units
          /\ r.clear = Count(r.results, LAMBDA p : p.score = 0)
          /\ Cardinality(r.details) + Count(r.results, LAMBDA p : ~p.duplicate /\ p.score = 70)
                 = r.attention
          /\ r.risk = "clean" <=> ~\E k \in DOMAIN r.results : r.results[k].duplicate
    /\ \A a \in Reviews : \A r \in rows[a].report :
          /\ Len(r.results) = rows[a].units
          /\ r.recommendation = "accept" => \E k \in r.narrative.strong : r.results[k].score >= 800
          /\ r.recommendation = "reject" =>
                r.narrative.weak # <<>> /\ r.results[Head(r.narrative.weak)].score < 600
          /\ (\A k \in DOMAIN r.results : r.results[k].by = "heuristic") =>
                \A d \in r.document : {"method", "experiment", "results"} \cap d.has = {} =>
                    r.recommendation # "accept"

(* A task runs through the life of a job: whatever overlaps, a deleted row *)
(* does not come back, a report appears once and complete, and nothing     *)
(* that ended starts again (runReview, runCheck, delete).                  *)
Life == INSTANCE JobLife WITH
    Jobs <- Analyses,
    state <- [a \in Analyses |->
        CASE rows[a].status = "absent" -> "none"
          [] rows[a].status = "pending" -> "queued"
          [] rows[a].status = "processing" -> "running"
          [] rows[a].status = "completed" -> "done"
          [] rows[a].status = "failed" -> "failed"
          [] OTHER -> "gone"],
    result <- [a \in Analyses |-> rows[a].report]

AnalysesAreJobs == Life!Spec
=============================================================================
