------------------------------ MODULE Retrieval ------------------------------
(***************************************************************************)
(* Questions answered from a knowledge base: RagService.query behind       *)
(* SessionRagService.handleRagQuery, with the hybrid search of            *)
(* RetrievalService, and DualRouteService.query, which merges an SQL       *)
(* summary, the vector search and the graph service.                       *)
(*                                                                         *)
(* A document stands for its passages.  What a search finds, how a         *)
(* passage scores and which numbers the model cites are choices.  A        *)
(* deleted document keeps its chunks and its vectors.                      *)
(***************************************************************************)
EXTENDS Naturals, Sequences, FiniteSets, SequencesExt, FiniteSetsExt

CONSTANTS
  Questions,   (* questions, each put once *)
  Passages,    (* what the knowledge base holds *)
  Sql, Graph,  (* the summary of the SQL route, the text of the graph route *)
  TopK         (* passages shown to the model *)

ASSUME RetrievalAssumption ==
  /\ TopK \in Nat \ {0}
  /\ IsFiniteSet(Passages)
  /\ {Sql, Graph} \cap Passages = {} /\ Sql # Graph

VARIABLES
  kept,       (* passages whose document is not deleted *)
  granted,    (* may the asker read the knowledge base *)
  asked,      (* what each question has come to *)
  statistics  (* rows of the Citation table *)

retrievalVars == <<kept, granted, asked, statistics>>

Sources == Passages \cup {Sql, Graph}
Nothing == [via |-> "none", phase |-> "none", vector |-> {}, keyword |-> {},
            broken |-> FALSE, ranked |-> <<>>, shown |-> <<>>, cites |-> {}]

RetrievalTypeOK ==
  /\ kept \subseteq Passages /\ granted \in BOOLEAN
  /\ statistics \subseteq Questions \X Passages
  /\ \A q \in Questions :
       /\ asked[q].via \in {"none", "session", "dual"}
       /\ asked[q].phase \in {"none", "asked", "searching", "merging", "again", "ranked",
                              "recording", "answered", "empty", "failed"}
       /\ asked[q].vector \subseteq Passages /\ asked[q].keyword \subseteq Passages
       /\ asked[q].cites \subseteq (Nat \X Sources)

RetrievalInit ==
  /\ kept = Passages /\ granted = TRUE /\ statistics = {}
  /\ asked = [q \in Questions |-> Nothing]

To(q, phase) == asked' = [asked EXCEPT ![q].phase = phase]

\* The rankings a search or the reranker may return of a set of passages.
Rankings(found) ==
  LET n == Min({TopK, Cardinality(found)})
  IN UNION {SetToSeqs(S) : S \in kSubset(n, found)}

\* handleRagQuery saves the player's message first; the dual route has no session.
Ask(q) ==
  /\ asked[q].phase = "none"
  /\ \E via \in {"session", "dual"} :
       asked' = [asked EXCEPT ![q] = [Nothing EXCEPT !.via = via,
                   !.phase = IF via = "session" THEN "asked" ELSE "searching"]]
  /\ UNCHANGED <<kept, granted, statistics>>

\* checkKbAccess; a refusal ends in the message that says sorry, as any error does.
CheckAccess(q) ==
  /\ asked[q].phase = "asked"
  /\ To(q, IF granted THEN "searching" ELSE "failed")
  /\ UNCHANGED <<kept, granted, statistics>>

\* vectorSearch: embedding, the vector store and the chunks' rows; no look at deletedAt.
VectorSearch(q) ==
  /\ asked[q].phase = "searching"
  /\ \/ \E found \in SUBSET Passages : asked' = [asked EXCEPT ![q].vector = found, ![q].phase = "merging"]
     \/ asked' = [asked EXCEPT ![q].broken = TRUE, ![q].phase = "merging"]
  /\ UNCHANGED <<kept, granted, statistics>>

\* keywordSearch joins the documents that are not deleted; its own errors leave it empty.
KeywordSearch(q) ==
  /\ asked[q].via = "session" /\ asked[q].phase \in {"searching", "merging"} /\ asked[q].keyword = {}
  /\ \E found \in SUBSET kept : asked' = [asked EXCEPT ![q].keyword = found]
  /\ UNCHANGED <<kept, granted, statistics>>

Ranked(q, ranking, shown, broken) ==
  asked' = [asked EXCEPT ![q].ranked = ranking, ![q].shown = shown, ![q].broken = broken,
              ![q].phase = IF shown = <<>> THEN "empty" ELSE "ranked"]

\* A hybrid search that lets the vectors decide when there are any.
MergeVectorsOnly(q) ==
  /\ asked[q].via = "session" /\ asked[q].phase = "merging"
  /\ IF asked[q].broken THEN To(q, "again")
     ELSE \E ranking \in Rankings(asked[q].vector) : Ranked(q, ranking, ranking, FALSE)
  /\ UNCHANGED <<kept, granted, statistics>>

\* hybridSearch: both lists by weighted score, the best TopK.  When the vector search
\* failed, what the keywords found is thrown away and the vector search tried again.
Merge(q) ==
  /\ asked[q].via = "session" /\ asked[q].phase = "merging"
  /\ IF asked[q].broken THEN To(q, "again")
     ELSE \E ranking \in Rankings(asked[q].vector \cup asked[q].keyword) :
            Ranked(q, ranking, ranking, FALSE)
  /\ UNCHANGED <<kept, granted, statistics>>

VectorAgain(q) ==
  /\ asked[q].phase = "again"
  /\ \/ \E found \in SUBSET Passages : \E ranking \in Rankings(found) :
          Ranked(q, ranking, ranking, TRUE)
     \/ To(q, "failed")
  /\ UNCHANGED <<kept, granted, statistics>>

\* DualRouteService.query: a failed vector search fails the whole; the SQL agent and the
\* graph service answer nothing instead.  The summary is a context of its own, and a
\* candidate of the reranker, which keeps the order of a short list.
Rerank(q) ==
  /\ asked[q].via = "dual" /\ asked[q].phase = "merging"
  /\ IF asked[q].broken THEN To(q, "failed")
     ELSE \E sql \in {<<>>, <<Sql>>}, graph \in {<<>>, <<Graph>>},
             order \in SetToSeqs(asked[q].vector) :
            LET candidates == sql \o order
            IN \E ranking \in IF Len(candidates) <= TopK THEN {candidates}
                              ELSE Rankings(ToSet(candidates)) :
                 Ranked(q, ranking, sql \o ranking \o graph, FALSE)
  /\ UNCHANGED <<kept, granted, statistics>>

\* The model cites numbers of the prompt or numbers that are not there; the citations are
\* looked up in the ranking, never in the prompt.
Generate(q) ==
  /\ asked[q].phase = "ranked"
  /\ \/ \E numbers \in SUBSET (0..(Len(asked[q].shown) + 1)) :
          asked' = [asked EXCEPT
                      ![q].phase = IF asked[q].via = "session" THEN "recording" ELSE "answered",
                      ![q].cites = {<<n, asked[q].ranked[n]>> :
                                      n \in numbers \cap DOMAIN asked[q].ranked}]
     \/ To(q, "failed")
  /\ UNCHANGED <<kept, granted, statistics>>

\* recordCitations swallows its errors; then the answer becomes the message of the AI.
RecordCitations(q) ==
  /\ asked[q].phase = "recording"
  /\ To(q, "answered")
  /\ statistics' \in {statistics, statistics \cup {<<q, c[2]>> : c \in asked[q].cites}}
  /\ UNCHANGED <<kept, granted>>

\* DocumentService.remove; the owner withdraws the access.
DeletePassage ==
  \E p \in kept : kept' = kept \ {p} /\ UNCHANGED <<granted, asked, statistics>>
WithdrawAccess ==
  granted /\ granted' = FALSE /\ UNCHANGED <<kept, asked, statistics>>

AnswerStep(q) ==
  \/ Ask(q) \/ CheckAccess(q) \/ VectorSearch(q) \/ KeywordSearch(q) \/ Merge(q)
  \/ VectorAgain(q) \/ Rerank(q) \/ Generate(q) \/ RecordCitations(q)

RetrievalNext == DeletePassage \/ WithdrawAccess \/ \E q \in Questions : AnswerStep(q)

RetrievalSpec == RetrievalInit /\ [][RetrievalNext]_retrievalVars

\* A session is told that the knowledge base holds nothing on its question only when neither
\* search found anything, or when the vector search had failed once and its second try
\* found nothing: then what the keywords found is lost (hybridSearch).
NothingFoundIsExplained ==
  \A q \in Questions : asked[q].via = "session" /\ asked[q].phase = "empty" =>
    \/ asked[q].vector = {} /\ asked[q].keyword = {}
    \/ asked[q].broken

\* What buildRagPrompt asks of the model, and the routes promise of their answers: the
\* citation [n] is the text that stood under [n] in the prompt.
CitationsPointAtSources ==
  \A q \in Questions : \A c \in asked[q].cites : asked[q].shown[c[1]] = c[2]
=============================================================================
