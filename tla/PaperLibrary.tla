---------------------------- MODULE PaperLibrary ----------------------------
(***************************************************************************)
(* PaperService.processPaper and the graph it keeps: the authors of a      *)
(* paper, their institutions, the topics of a paper and how many papers    *)
(* two authors share, which GraphService shows.  A run of processPaper is  *)
(* split at its calls; several runs, of one paper or of several, overlap.  *)
(*                                                                         *)
(* Titles, years and the text of the file are left out; what the language  *)
(* model reads from a paper is a choice.  An unordered pair of authors     *)
(* stands for the sorted pair of ids under which a collaboration is kept.  *)
(***************************************************************************)
EXTENDS Naturals, FiniteSets, FiniteSetsExt

CONSTANTS
  Papers, Names, Tags,
  AffiliatedNames,   (* authors whose papers name an institution *)
  LibraryRuns,   (* runs of processPaper that may be under way *)
  MaxStarts,     (* bound on uploads and reprocessings *)
  MaxNamesakes   (* bound on author rows of one name *)

ASSUME LibraryAssumption ==
  /\ AffiliatedNames \subseteq Names
  /\ IsFiniteSet(Papers) /\ IsFiniteSet(Names) /\ IsFiniteSet(Tags)
  /\ MaxStarts \in Nat /\ MaxNamesakes \in Nat \ {0}

VARIABLES
  papers,          (* status of each paper, "absent" without a row *)
  namesakes,       (* author rows of each name; the first is the oldest *)
  institutions,    (* authors linked to their institution *)
  paperAuthors, paperTopics,
  collaborations,  (* paperCount of a pair of authors, 0 without a row *)
  runs,            (* what each run of processPaper is at *)
  doubtful,        (* pairs whose count something may have left wrong *)
  starts

libraryVars == <<papers, namesakes, institutions, paperAuthors, paperTopics,
                 collaborations, runs, doubtful, starts>>

Authors == Names \X (1..MaxNamesakes)
Affiliated == AffiliatedNames \X (1..MaxNamesakes)
PairsIn(people) == kSubset(2, people)
NoPair == {}
AtRest == [paper |-> "none", phase |-> "none", named |-> {}, missing |-> {}, found |-> {},
           before |-> {}, pairs |-> {}, pair |-> NoPair, count |-> 0,
           overtaken |-> FALSE]

LibraryTypeOK ==
  /\ papers \in [Papers -> {"absent", "processing", "ready", "failed", "deleted"}]
  /\ namesakes \in [Names -> 0..MaxNamesakes] /\ institutions \subseteq Authors
  /\ paperAuthors \in [Papers -> SUBSET Authors] /\ paperTopics \in [Papers -> SUBSET Tags]
  /\ collaborations \in [PairsIn(Authors) -> 0..Cardinality(Papers)]
  /\ doubtful \subseteq PairsIn(Authors) /\ starts \in 0..MaxStarts
  /\ \A r \in LibraryRuns :
       /\ runs[r].paper \in Papers \cup {"none"} /\ runs[r].pairs \subseteq PairsIn(Authors)
       /\ runs[r].phase \in {"none", "extract", "authors", "clear", "link", "topics",
                             "institutions", "pairs", "finish"}

LibraryInit ==
  /\ papers = [p \in Papers |-> "absent"] /\ namesakes = [n \in Names |-> 0]
  /\ institutions = {}
  /\ paperAuthors = [p \in Papers |-> {}] /\ paperTopics = [p \in Papers |-> {}]
  /\ collaborations = [pair \in PairsIn(Authors) |-> 0]
  /\ runs = [r \in LibraryRuns |-> AtRest] /\ doubtful = {} /\ starts = 0

PaperExists(p) == papers[p] \notin {"absent", "deleted"}
Run(r, next) == runs' = [runs EXCEPT ![r] = next]
LibraryGraph == <<institutions, paperAuthors, paperTopics, collaborations>>

\* uploadPaper adds the row, reprocess resets it; either starts a run and does not wait.
StartRun(r, p) ==
  /\ runs[r].phase = "none" /\ papers[p] # "deleted" /\ starts < MaxStarts
  /\ starts' = starts + 1
  /\ papers' = [papers EXCEPT ![p] = "processing"]
  /\ Run(r, [AtRest EXCEPT !.paper = p, !.phase = "extract"])
  /\ UNCHANGED <<namesakes, LibraryGraph, doubtful>>

\* The pairs a run has still to bring in line once it began to change its paper's authors.
Unsettled(r) ==
  IF runs[r].phase \in {"none", "extract", "authors", "clear"} THEN {}
  ELSE IF runs[r].phase = "pairs" THEN runs[r].pairs \cup ({runs[r].pair} \ {NoPair})
  ELSE IF runs[r].phase = "finish" THEN {}
  ELSE PairsIn(runs[r].before \cup runs[r].found)

\* The catch of processPaper; when the row is gone its update throws and nothing is written.
FailRun(r) ==
  /\ runs[r].phase # "none"
  /\ papers' = [papers EXCEPT ![runs[r].paper] = IF @ = "deleted" THEN @ ELSE "failed"]
  /\ doubtful' = doubtful \cup Unsettled(r)
  /\ Run(r, AtRest)
  /\ UNCHANGED <<namesakes, LibraryGraph, starts>>

\* pdfParse and extractMetadata, which answers no authors when the model fails; the row's
\* metadata; then the authors the paper has so far.
Extract(r) ==
  /\ runs[r].phase = "extract" /\ PaperExists(runs[r].paper)
  /\ \E named \in SUBSET Names :
       Run(r, [runs[r] EXCEPT !.phase = "authors", !.named = named,
                 !.before = paperAuthors[runs[r].paper]])
  /\ UNCHANGED <<papers, namesakes, LibraryGraph, doubtful, starts>>

\* findOrCreateAuthor takes the oldest row of the name, or else creates one in another call.
FindAuthor(r) ==
  /\ runs[r].phase = "authors" /\ runs[r].missing = {}
  /\ \/ \E n \in runs[r].named :
          Run(r, IF namesakes[n] = 0
                 THEN [runs[r] EXCEPT !.named = @ \ {n}, !.missing = {n}]
                 ELSE [runs[r] EXCEPT !.named = @ \ {n}, !.found = @ \cup {<<n, 1>>}])
     \/ runs[r].named = {} /\ Run(r, [runs[r] EXCEPT !.phase = "clear"])
  /\ UNCHANGED <<papers, namesakes, LibraryGraph, doubtful, starts>>

CreateAuthor(r) ==
  \E n \in runs[r].missing :
    /\ namesakes[n] < MaxNamesakes
    /\ namesakes' = [namesakes EXCEPT ![n] = @ + 1]
    /\ Run(r, [runs[r] EXCEPT !.missing = {}, !.found = @ \cup {<<n, namesakes[n] + 1>>}])
    /\ UNCHANGED <<papers, LibraryGraph, doubtful, starts>>

\* syncPaperAuthors: the old links are deleted in one call and the new ones added in another.
\* Links another run made in between are in nobody's list of pairs to count again.
ClearAuthors(r) ==
  LET p == runs[r].paper
  IN /\ runs[r].phase = "clear"
     /\ paperAuthors' = [paperAuthors EXCEPT ![p] = {}]
     /\ doubtful' = doubtful \cup
          (PairsIn(paperAuthors[p]) \ PairsIn(runs[r].before \cup runs[r].found))
     /\ Run(r, [runs[r] EXCEPT !.phase = "link"])
     /\ UNCHANGED <<papers, namesakes, institutions, paperTopics, collaborations, starts>>

LinkAuthors(r) ==
  LET p == runs[r].paper
  IN /\ runs[r].phase = "link" /\ PaperExists(p)
     /\ paperAuthors' = [paperAuthors EXCEPT ![p] = @ \cup runs[r].found]
     /\ doubtful' = doubtful \cup
          (PairsIn(paperAuthors'[p]) \ PairsIn(runs[r].before \cup runs[r].found))
     /\ Run(r, [runs[r] EXCEPT !.phase = "topics"])
     /\ UNCHANGED <<papers, namesakes, institutions, paperTopics, collaborations, starts>>

\* The three parts of the graph share a try: an error in one skips the rest, and the paper
\* becomes ready all the same.
SkipGraph(r) ==
  /\ runs[r].phase \in {"topics", "institutions", "pairs"}
  /\ \/ UNCHANGED paperTopics   (* or the links are gone and the new ones not added *)
     \/ runs[r].phase = "topics" /\ paperTopics' = [paperTopics EXCEPT ![runs[r].paper] = {}]
  /\ doubtful' = doubtful \cup Unsettled(r)
  /\ Run(r, [AtRest EXCEPT !.paper = runs[r].paper, !.phase = "finish"])
  /\ UNCHANGED <<papers, namesakes, institutions, paperAuthors, collaborations, starts>>

SyncPaperTopics(r) ==
  /\ runs[r].phase = "topics" /\ PaperExists(runs[r].paper)
  /\ \E topics \in SUBSET Tags : paperTopics' = [paperTopics EXCEPT ![runs[r].paper] = topics]
  /\ Run(r, [runs[r] EXCEPT !.phase = "institutions"])
  /\ UNCHANGED <<papers, namesakes, institutions, paperAuthors, collaborations, doubtful, starts>>

\* A list of pairs made before the new authors were found.
SyncInstitutionsOfOld(r) ==
  /\ runs[r].phase = "institutions"
  /\ institutions' = institutions \cup (runs[r].found \cap Affiliated)
  /\ Run(r, [runs[r] EXCEPT !.phase = "pairs", !.pairs = PairsIn(runs[r].before)])
  /\ UNCHANGED <<papers, namesakes, paperAuthors, paperTopics, collaborations, doubtful, starts>>

SyncAuthorInstitutions(r) ==
  /\ runs[r].phase = "institutions"
  /\ institutions' = institutions \cup (runs[r].found \cap Affiliated)
  /\ Run(r, [runs[r] EXCEPT !.phase = "pairs",
               !.pairs = PairsIn(runs[r].before \cup runs[r].found)])
  /\ UNCHANGED <<papers, namesakes, paperAuthors, paperTopics, collaborations, doubtful, starts>>

Common(pair) == Cardinality({p \in Papers : pair \subseteq paperAuthors[p]})

\* syncAuthorCollaborations counts the papers of a pair in one call and writes the count,
\* or deletes the row, in another.
CountPair(r) ==
  /\ runs[r].phase = "pairs" /\ runs[r].pair = NoPair
  /\ \/ \E pair \in runs[r].pairs :
          Run(r, [runs[r] EXCEPT !.pairs = @ \ {pair}, !.pair = pair, !.count = Common(pair),
                    !.overtaken = FALSE])
     \/ runs[r].pairs = {} /\ Run(r, [runs[r] EXCEPT !.phase = "finish"])
  /\ UNCHANGED <<papers, namesakes, LibraryGraph, doubtful, starts>>

\* The counts others hold of these pairs are now older than what is stored.
Overtake(pairs) ==
  [s \in LibraryRuns |-> [runs[s] EXCEPT !.overtaken = @ \/ runs[s].pair \in pairs]]

WritePair(r) ==
  LET pair == runs[r].pair
  IN /\ pair # NoPair
     /\ collaborations' = [collaborations EXCEPT ![pair] = runs[r].count]
     /\ doubtful' = IF runs[r].overtaken THEN doubtful \cup {pair} ELSE doubtful
     /\ runs' = [Overtake({pair}) EXCEPT ![r] = [runs[r] EXCEPT !.pair = NoPair, !.count = 0,
                                                   !.overtaken = FALSE]]
     /\ UNCHANGED <<papers, namesakes, institutions, paperAuthors, paperTopics, starts>>

\* Indexing in a knowledge base is the business of DocumentProcessing: here it works, or
\* fails and FailRun follows.
FinishRun(r) ==
  /\ runs[r].phase = "finish" /\ PaperExists(runs[r].paper)
  /\ papers' = [papers EXCEPT ![runs[r].paper] = "ready"]
  /\ Run(r, AtRest)
  /\ UNCHANGED <<namesakes, LibraryGraph, doubtful, starts>>

\* delete: the links go with the row, the counts stay.
DeletePaper(p) ==
  /\ PaperExists(p)
  /\ papers' = [papers EXCEPT ![p] = "deleted"]
  /\ paperAuthors' = [paperAuthors EXCEPT ![p] = {}]
  /\ paperTopics' = [paperTopics EXCEPT ![p] = {}]
  /\ doubtful' = doubtful \cup PairsIn(paperAuthors[p])
  /\ UNCHANGED <<namesakes, institutions, collaborations, runs, starts>>

\* A restart: no job looks for papers left in processing.
RestartLibrary ==
  /\ \E r \in LibraryRuns : runs[r].phase # "none"
  /\ runs' = [r \in LibraryRuns |-> AtRest]
  /\ doubtful' = doubtful \cup UNION {Unsettled(r) : r \in LibraryRuns}
  /\ UNCHANGED <<papers, namesakes, LibraryGraph, starts>>

LibraryStep(r) ==
  \/ \E p \in Papers : StartRun(r, p)
  \/ Extract(r) \/ FindAuthor(r) \/ CreateAuthor(r) \/ ClearAuthors(r) \/ LinkAuthors(r)
  \/ SyncPaperTopics(r) \/ SyncAuthorInstitutions(r) \/ SkipGraph(r)
  \/ CountPair(r) \/ WritePair(r) \/ FinishRun(r) \/ FailRun(r)

LibraryNext ==
  \/ RestartLibrary
  \/ \E p \in Papers : DeletePaper(p)
  \/ \E r \in LibraryRuns : LibraryStep(r)

LibrarySpec == LibraryInit /\ [][LibraryNext]_libraryVars

\* mergeCollaborators: what the graph shows beside an author.
Collaborators(author) ==
  {[id |-> other, paperCount |-> collaborations[{author, other}]] :
     other \in {a \in Authors \ {author} : collaborations[{author, a}] > 0}}

\* When no paper is being processed, the graph shows beside an author exactly the authors of
\* his papers, each with the number of papers they share, also after papers were processed
\* again with other authors; except for a pair whose paper was deleted, whose run broke off,
\* whose authors were linked by two runs of one paper, or whose count was written over a
\* newer one (syncAuthorCollaborations).
SharedPapersAreCounted ==
  (\A r \in LibraryRuns : runs[r].phase = "none") =>
    \A author \in Authors : \A other \in Authors \ {author} :
      {author, other} \notin doubtful =>
        LET shown == {c.paperCount : c \in {d \in Collaborators(author) : d.id = other}}
        IN shown = {Common({author, other})} \ {0}
=============================================================================
