--------------------------- MODULE ResearchProofs ---------------------------
(***************************************************************************)
(* Theorems about the services around knowledge and texts: answers from a  *)
(* knowledge base, the dashboard, pages and models of a conversation,      *)
(* writing tasks and the library of papers.  The turns of a conversation   *)
(* have theorems of their own in TurnProofs.                               *)
(***************************************************************************)
EXTENDS MCResearch, TurnProofs

-----------------------------------------------------------------------------
(* Answers from a knowledge base.                                          *)
Askings ==
    [via : {"none", "session", "dual"},
     phase : {"none", "asked", "searching", "merging", "again", "ranked",
              "recording", "answered", "empty", "failed"},
     vector : SUBSET Passages, keyword : SUBSET Passages, broken : BOOLEAN,
     ranked : Seq(Sources), shown : Seq(Sources), cites : SUBSET (Nat \X Sources)]

(* What a question that went through a session has to do with passages.    *)
IsExplained(a) ==
    /\ a.via = "session" => a.ranked \in Seq(Passages) /\ a.cites \subseteq Nat \X Passages
    /\ a.phase = "recording" => a.via = "session"
    /\ a.via = "session" /\ a.phase = "empty" =>
          (a.vector = {} /\ a.keyword = {}) \/ a.broken

RetrievalInv ==
    /\ kept \subseteq Passages /\ granted \in BOOLEAN
    /\ statistics \subseteq Questions \X Passages
    /\ asked \in [Questions -> Askings]
    /\ \A q \in Questions : IsExplained(asked[q])

(* A ranking is a text of what was found, empty only when nothing was.     *)
LEMMA RankingsAreOfTheFound ==
    ASSUME NEW found, IsFiniteSet(found), NEW ranking \in Rankings(found)
    PROVE  ranking \in Seq(found) /\ (ranking = <<>> => found = {})
<1>. DEFINE n == Min({TopK, Cardinality(found)})
<1>1. Cardinality(found) \in Nat /\ TopK \in Nat \ {0}
  BY RetrievalAssumption, FS_CardinalityType
<1>2. n \in {TopK, Cardinality(found)}
  <2>1. {TopK, Cardinality(found)} \subseteq Nat /\ {TopK, Cardinality(found)} # {}
    BY <1>1
  <2>. QED  BY <2>1, MinIsSmallest
<1>3. PICK S \in kSubset(n, found) : ranking \in SetToSeqs(S)
  BY DEF Rankings
<1>. HIDE DEF n
<1>4. n \in Nat /\ S \subseteq found /\ Cardinality(S) = n
  BY <1>1, <1>2, <1>3 DEF kSubset
<1>5. ranking \in [1..n -> S]
  BY <1>3, <1>4 DEF SetToSeqs
<1>6. ranking \in Seq(found)
  BY <1>4, <1>5, SeqDef
<1>7. ASSUME ranking = <<>> PROVE found = {}
  <2>1. DOMAIN ranking = {}
    BY <1>7
  <2>2. n = 0
    BY <1>4, <1>5, <2>1
  <2>3. Cardinality(found) = 0
    BY <1>1, <1>2, <2>2
  <2>. QED  BY <2>3, FS_EmptySet
<1>. QED  BY <1>6, <1>7

LEMMA RetrievalBegins == RetrievalInit => RetrievalInv
<1>1. Nothing \in Askings
  <2>1. <<>> \in Seq(Sources)
    OBVIOUS
  <2>. QED  BY <2>1 DEF Nothing, Askings
<1>2. IsExplained(Nothing)
  BY DEF Nothing, IsExplained
<1>. QED  BY <1>1, <1>2 DEF RetrievalInit, RetrievalInv

LEMMA OneQuestion ==
    ASSUME RetrievalInv, NEW q \in Questions, NEW new \in Askings, IsExplained(new),
           asked' = [asked EXCEPT ![q] = new], UNCHANGED <<kept, granted>>,
           statistics' \subseteq Questions \X Passages
    PROVE  RetrievalInv'
<1>1. asked' \in [Questions -> Askings]
  BY DEF RetrievalInv
<1>2. \A s \in Questions : asked'[s] = IF s = q THEN new ELSE asked[s]
  BY DEF RetrievalInv
<1>. QED  BY <1>1, <1>2 DEF RetrievalInv

(* A question that only moves to another phase.                            *)
LEMMA QuestionGoesTo ==
    ASSUME RetrievalInv, NEW q \in Questions,
           NEW phase \in {"searching", "again", "answered", "failed"}, To(q, phase),
           UNCHANGED <<kept, granted>>, statistics' \subseteq Questions \X Passages
    PROVE  RetrievalInv'
<1>. DEFINE new == [asked[q] EXCEPT !.phase = phase]
<1>1. asked[q] \in Askings /\ IsExplained(asked[q])
  BY DEF RetrievalInv
<1>2. /\ new \in Askings /\ new.via = asked[q].via /\ new.phase = phase
      /\ new.ranked = asked[q].ranked /\ new.cites = asked[q].cites
  BY <1>1 DEF Askings
<1>3. asked' = [asked EXCEPT ![q] = new]
  BY DEF To
<1>. HIDE DEF new
<1>4. IsExplained(new)
  BY <1>1, <1>2 DEF IsExplained
<1>. QED  BY <1>2, <1>3, <1>4, OneQuestion

(* What a search ranked is what is shown, or nothing was found.            *)
LEMMA QuestionIsRanked ==
    ASSUME RetrievalInv, NEW q \in Questions, NEW ranking \in Seq(Sources),
           NEW shown \in Seq(Sources), NEW broken \in BOOLEAN,
           Ranked(q, ranking, shown, broken), UNCHANGED <<kept, granted, statistics>>,
           asked[q].via = "session" =>
              /\ ranking \in Seq(Passages)
              /\ shown = <<>> => (asked[q].vector = {} /\ asked[q].keyword = {}) \/ broken
    PROVE  RetrievalInv'
<1>. DEFINE new == [asked[q] EXCEPT !.ranked = ranking, !.shown = shown, !.broken = broken,
                       !.phase = IF shown = <<>> THEN "empty" ELSE "ranked"]
<1>1. asked[q] \in Askings /\ IsExplained(asked[q])
  BY DEF RetrievalInv
<1>2. /\ new \in Askings /\ new.via = asked[q].via
      /\ new.phase = (IF shown = <<>> THEN "empty" ELSE "ranked")
      /\ new.ranked = ranking /\ new.cites = asked[q].cites /\ new.broken = broken
      /\ new.vector = asked[q].vector /\ new.keyword = asked[q].keyword
  BY <1>1 DEF Askings
<1>3. asked' = [asked EXCEPT ![q] = new]
  BY DEF Ranked
<1>. HIDE DEF new
<1>4. IsExplained(new)
  BY <1>1, <1>2 DEF IsExplained
<1>. QED  BY <1>2, <1>3, <1>4, OneQuestion DEF RetrievalInv

LEMMA QuestionIsSearched ==
    ASSUME RetrievalInv, NEW q \in Questions, Ask(q) \/ VectorSearch(q) \/ KeywordSearch(q)
    PROVE  RetrievalInv'
<1>1. asked[q] \in Askings /\ IsExplained(asked[q])
  BY DEF RetrievalInv
<1>2. CASE Ask(q)
  <2>1. PICK via \in {"session", "dual"} :
           asked' = [asked EXCEPT ![q] = [Nothing EXCEPT !.via = via,
                   !.phase = IF via = "session" THEN "asked" ELSE "searching"]]
    BY <1>2 DEF Ask
  <2>. DEFINE new == [Nothing EXCEPT !.via = via,
                        !.phase = IF via = "session" THEN "asked" ELSE "searching"]
  <2>2. new \in Askings
    <3>1. <<>> \in Seq(Sources)
      OBVIOUS
    <3>. QED  BY <3>1 DEF Nothing, Askings
  <2>3. new.phase \notin {"recording", "empty"} /\ new.ranked = <<>> /\ new.cites = {}
    BY DEF Nothing
  <2>4. asked' = [asked EXCEPT ![q] = new] /\ UNCHANGED <<kept, granted, statistics>>
    BY <1>2, <2>1 DEF Ask
  <2>. HIDE DEF new
  <2>5. IsExplained(new)
    BY <2>3 DEF IsExplained
  <2>. QED  BY <2>2, <2>4, <2>5, OneQuestion DEF RetrievalInv
<1>3. CASE VectorSearch(q)
  <2>1. PICK found \in SUBSET Passages, broken \in BOOLEAN :
           asked' = [asked EXCEPT ![q] = [asked[q] EXCEPT !.vector = found, !.broken = broken,
                                                          !.phase = "merging"]]
    <3>1. CASE \E found \in SUBSET Passages :
                  asked' = [asked EXCEPT ![q].vector = found, ![q].phase = "merging"]
      <4>1. PICK found \in SUBSET Passages :
                  asked' = [asked EXCEPT ![q].vector = found, ![q].phase = "merging"]
        BY <3>1
      <4>2. asked' = [asked EXCEPT ![q] = [asked[q] EXCEPT !.vector = found,
                            !.broken = asked[q].broken, !.phase = "merging"]]
        BY <1>1, <4>1 DEF Askings
      <4>3. asked[q].broken \in BOOLEAN
        BY <1>1 DEF Askings
      <4>. QED  BY <4>2, <4>3
    <3>2. CASE asked' = [asked EXCEPT ![q].broken = TRUE, ![q].phase = "merging"]
      <4>1. asked' = [asked EXCEPT ![q] = [asked[q] EXCEPT !.vector = asked[q].vector,
                            !.broken = TRUE, !.phase = "merging"]]
        BY <1>1, <3>2 DEF Askings
      <4>2. asked[q].vector \in SUBSET Passages
        BY <1>1 DEF Askings
      <4>. QED  BY <4>1, <4>2
    <3>. QED  BY <1>3, <3>1, <3>2 DEF VectorSearch
  <2>. DEFINE new == [asked[q] EXCEPT !.vector = found, !.broken = broken, !.phase = "merging"]
  <2>2. /\ new \in Askings /\ new.phase = "merging" /\ new.via = asked[q].via
        /\ new.ranked = asked[q].ranked /\ new.cites = asked[q].cites
    BY <1>1 DEF Askings
  <2>3. asked' = [asked EXCEPT ![q] = new] /\ UNCHANGED <<kept, granted, statistics>>
    BY <1>3, <2>1 DEF VectorSearch
  <2>. HIDE DEF new
  <2>4. IsExplained(new)
    BY <1>1, <2>2 DEF IsExplained
  <2>. QED  BY <2>2, <2>3, <2>4, OneQuestion DEF RetrievalInv
<1>4. CASE KeywordSearch(q)
  <2>1. PICK found \in SUBSET kept : asked' = [asked EXCEPT ![q].keyword = found]
    BY <1>4 DEF KeywordSearch
  <2>. DEFINE new == [asked[q] EXCEPT !.keyword = found]
  <2>2. found \in SUBSET Passages
    BY DEF RetrievalInv
  <2>3. /\ new \in Askings /\ new.phase = asked[q].phase /\ new.via = asked[q].via
        /\ new.ranked = asked[q].ranked /\ new.cites = asked[q].cites
    BY <1>1, <2>2 DEF Askings
  <2>4. /\ asked' = [asked EXCEPT ![q] = new] /\ UNCHANGED <<kept, granted, statistics>>
        /\ asked[q].phase \in {"searching", "merging"}
    BY <1>4, <2>1 DEF KeywordSearch
  <2>. HIDE DEF new
  <2>5. IsExplained(new)
    BY <1>1, <2>3, <2>4 DEF IsExplained
  <2>. QED  BY <2>3, <2>4, <2>5, OneQuestion DEF RetrievalInv
<1>. QED  BY <1>2, <1>3, <1>4

LEMMA QuestionIsMerged ==
    ASSUME RetrievalInv, NEW q \in Questions, Merge(q) \/ VectorAgain(q)
    PROVE  RetrievalInv'
<1>1. asked[q] \in Askings /\ UNCHANGED <<kept, granted, statistics>>
  BY DEF RetrievalInv, Merge, VectorAgain
<1>2. ASSUME NEW found \in SUBSET Passages, NEW ranking \in Rankings(found)
      PROVE  /\ ranking \in Seq(Passages) /\ ranking \in Seq(Sources)
             /\ ranking = <<>> => found = {}
  <2>1. IsFiniteSet(found) /\ found \subseteq Sources
    BY RetrievalAssumption, FS_Subset DEF Sources
  <2>. QED  BY <2>1, RankingsAreOfTheFound, SeqMonotonic
<1>3. statistics' \subseteq Questions \X Passages
  BY <1>1 DEF RetrievalInv
<1>4. CASE Merge(q)
  <2>1. CASE asked[q].broken
    BY <1>1, <1>3, <1>4, <2>1, QuestionGoesTo DEF Merge
  <2>2. CASE ~asked[q].broken
    <3>. DEFINE found == asked[q].vector \cup asked[q].keyword
    <3>1. PICK ranking \in Rankings(found) : Ranked(q, ranking, ranking, FALSE)
      BY <1>4, <2>2 DEF Merge
    <3>2. found \in SUBSET Passages
      BY <1>1 DEF Askings
    <3>3. /\ ranking \in Seq(Passages) /\ ranking \in Seq(Sources)
          /\ ranking = <<>> => asked[q].vector = {} /\ asked[q].keyword = {}
      <4>1. ranking = <<>> => found = {}
        BY <1>2, <3>2
      <4>. QED  BY <1>2, <3>2, <4>1
    <3>. QED  BY <1>1, <3>1, <3>3, QuestionIsRanked
  <2>. QED  BY <2>1, <2>2
<1>5. CASE VectorAgain(q)
  <2>1. CASE To(q, "failed")
    BY <1>1, <1>3, <2>1, QuestionGoesTo
  <2>2. ASSUME NEW found \in SUBSET Passages, NEW ranking \in Rankings(found),
               Ranked(q, ranking, ranking, TRUE)
        PROVE  RetrievalInv'
    BY <1>1, <1>2, <2>2, QuestionIsRanked
  <2>. QED  BY <1>5, <2>1, <2>2 DEF VectorAgain
<1>. QED  BY <1>4, <1>5

LEMMA QuestionIsReranked ==
    ASSUME RetrievalInv, NEW q \in Questions, Rerank(q)
    PROVE  RetrievalInv'
<1>1. /\ asked[q] \in Askings /\ UNCHANGED <<kept, granted, statistics>>
      /\ asked[q].via = "dual"
  BY DEF RetrievalInv, Rerank
<1>2. statistics' \subseteq Questions \X Passages
  BY <1>1 DEF RetrievalInv
<1>3. CASE asked[q].broken
  BY <1>1, <1>2, <1>3, QuestionGoesTo DEF Rerank
<1>4. CASE ~asked[q].broken
  <2>1. PICK sql \in {<<>>, <<Sql>>}, graph \in {<<>>, <<Graph>>},
             order \in SetToSeqs(asked[q].vector) :
            LET candidates == sql \o order
            IN \E ranking \in IF Len(candidates) <= TopK THEN {candidates}
                              ELSE Rankings(ToSet(candidates)) :
                 Ranked(q, ranking, sql \o ranking \o graph, FALSE)
    BY <1>4 DEF Rerank
  <2>. DEFINE candidates == sql \o order
  <2>2. PICK ranking \in IF Len(candidates) <= TopK THEN {candidates}
                         ELSE Rankings(ToSet(candidates)) :
           Ranked(q, ranking, sql \o ranking \o graph, FALSE)
    BY <2>1
  <2>3. sql \in Seq(Sources) /\ graph \in Seq(Sources)
    <3>1. Sql \in Sources /\ Graph \in Sources
      BY DEF Sources
    <3>2. <<>> \in Seq(Sources) /\ <<Sql>> \in Seq(Sources) /\ <<Graph>> \in Seq(Sources)
      BY <3>1
    <3>. QED  BY <3>2
  <2>4. order \in Seq(Sources)
    <3>1. asked[q].vector \subseteq Passages
      BY <1>1 DEF Askings
    <3>2. Cardinality(asked[q].vector) \in Nat
      BY <3>1, RetrievalAssumption, FS_Subset, FS_CardinalityType
    <3>3. order \in [1..Cardinality(asked[q].vector) -> asked[q].vector]
      BY DEF SetToSeqs
    <3>4. order \in Seq(asked[q].vector)
      BY <3>2, <3>3, SeqDef
    <3>5. asked[q].vector \subseteq Sources
      BY <3>1 DEF Sources
    <3>. QED  BY <3>4, <3>5, SeqMonotonic
  <2>5. candidates \in Seq(Sources)
    BY <2>3, <2>4, ConcatProperties
  <2>. HIDE DEF candidates
  <2>6. ToSet(candidates) \subseteq Sources /\ IsFiniteSet(ToSet(candidates))
    <3>1. ToSet(candidates) \subseteq Sources
      BY <2>5, ElementOfSeq, LenProperties DEF ToSet
    <3>2. IsFiniteSet({Sql}) /\ IsFiniteSet({Graph})
      BY FS_Singleton
    <3>3. IsFiniteSet(Sources)
      <4>1. Sources = (Passages \cup {Sql}) \cup {Graph}
        BY DEF Sources
      <4>. QED  BY <3>2, <4>1, RetrievalAssumption, FS_Union
    <3>. QED  BY <3>1, <3>3, FS_Subset
  <2>7. ranking \in Seq(Sources)
    <3>1. ranking = candidates \/ ranking \in Rankings(ToSet(candidates))
      BY <2>2
    <3>. QED  BY <2>5, <2>6, <3>1, RankingsAreOfTheFound, SeqMonotonic
  <2>8. sql \o ranking \o graph \in Seq(Sources)
    BY <2>3, <2>7, ConcatProperties
  <2>. QED  BY <1>1, <2>2, <2>7, <2>8, QuestionIsRanked
<1>. QED  BY <1>3, <1>4

LEMMA QuestionIsAnswered ==
    ASSUME RetrievalInv, NEW q \in Questions, Generate(q)
    PROVE  RetrievalInv'
<1>1. /\ asked[q] \in Askings /\ IsExplained(asked[q]) /\ UNCHANGED <<kept, granted, statistics>>
      /\ statistics' \subseteq Questions \X Passages
  BY DEF RetrievalInv, Generate
<1>2. CASE To(q, "failed")
  BY <1>1, <1>2, QuestionGoesTo
<1>3. ASSUME NEW numbers \in SUBSET (0..(Len(asked[q].shown) + 1)),
             asked' = [asked EXCEPT
                      ![q].phase = IF asked[q].via = "session" THEN "recording" ELSE "answered",
                      ![q].cites = {<<n, asked[q].ranked[n]>> :
                                      n \in numbers \cap DOMAIN asked[q].ranked}]
      PROVE  RetrievalInv'
  <2>. DEFINE phase == IF asked[q].via = "session" THEN "recording" ELSE "answered"
              cites == {<<n, asked[q].ranked[n]>> : n \in numbers \cap DOMAIN asked[q].ranked}
              new   == [asked[q] EXCEPT !.phase = phase, !.cites = cites]
  <2>1. ASSUME NEW P, asked[q].ranked \in Seq(P) PROVE cites \subseteq Nat \X P
    <3>1. ASSUME NEW n \in DOMAIN asked[q].ranked
          PROVE  n \in Nat /\ asked[q].ranked[n] \in P
      BY <2>1, LenProperties, ElementOfSeq
    <3>. QED  BY <3>1
  <2>2. /\ cites \subseteq Nat \X Sources
        /\ asked[q].via = "session" => cites \subseteq Nat \X Passages
    <3>1. asked[q].ranked \in Seq(Sources)
      BY <1>1 DEF Askings
    <3>2. asked[q].via = "session" => asked[q].ranked \in Seq(Passages)
      BY <1>1 DEF IsExplained
    <3>. HIDE DEF cites
    <3>. QED  BY <2>1, <3>1, <3>2
  <2>. HIDE DEF cites
  <2>3. /\ new \in Askings /\ new.via = asked[q].via /\ new.phase = phase
        /\ new.ranked = asked[q].ranked /\ new.cites = cites
    BY <1>1, <2>2 DEF Askings
  <2>4. asked' = [asked EXCEPT ![q] = new]
    BY <1>3 DEF cites
  <2>. HIDE DEF new
  <2>5. IsExplained(new)
    BY <1>1, <2>2, <2>3 DEF IsExplained
  <2>. QED  BY <1>1, <2>3, <2>4, <2>5, OneQuestion
<1>. QED  BY <1>2, <1>3 DEF Generate

LEMMA CitationsAreRecorded ==
    ASSUME RetrievalInv, NEW q \in Questions, RecordCitations(q)
    PROVE  RetrievalInv'
<1>1. /\ asked[q] \in Askings /\ asked[q].cites \subseteq Nat \X Passages
      /\ UNCHANGED <<kept, granted>> /\ To(q, "answered")
      /\ statistics \subseteq Questions \X Passages
  BY DEF RetrievalInv, RecordCitations, IsExplained
<1>2. {<<q, c[2]>> : c \in asked[q].cites} \subseteq Questions \X Passages
  BY <1>1
<1>3. statistics' \subseteq Questions \X Passages
  BY <1>1, <1>2 DEF RecordCitations
<1>. QED  BY <1>1, <1>3, QuestionGoesTo

LEMMA RetrievalGoesOn ==
    ASSUME RetrievalInv, [RetrievalNext]_retrievalVars
    PROVE  RetrievalInv'
<1>1. CASE UNCHANGED retrievalVars
  BY <1>1 DEF retrievalVars, RetrievalInv
<1>2. CASE DeletePassage \/ WithdrawAccess
  BY <1>2 DEF DeletePassage, WithdrawAccess, RetrievalInv
<1>3. ASSUME NEW q \in Questions, CheckAccess(q) PROVE RetrievalInv'
  <2>1. PICK phase \in {"searching", "failed"} : To(q, phase)
    BY <1>3 DEF CheckAccess
  <2>2. UNCHANGED <<kept, granted, statistics>> /\ statistics' \subseteq Questions \X Passages
    BY <1>3 DEF CheckAccess, RetrievalInv
  <2>. QED  BY <2>1, <2>2, QuestionGoesTo
<1>. QED  BY <1>1, <1>2, <1>3, QuestionIsSearched, QuestionIsMerged, QuestionIsReranked,
             QuestionIsAnswered, CitationsAreRecorded DEF RetrievalNext, AnswerStep

(* However searches fail and documents are deleted meanwhile, a session is *)
(* told that nothing was found only when neither search found anything, or *)
(* after the vector search had failed once (hybridSearch).                 *)
THEOREM NothingFoundStaysExplained == RetrievalSpec => []NothingFoundIsExplained
<1>1. RetrievalInv => NothingFoundIsExplained
  BY DEF RetrievalInv, IsExplained, NothingFoundIsExplained
<1>. QED  BY <1>1, RetrievalBegins, RetrievalGoesOn, PTL DEF RetrievalSpec

-----------------------------------------------------------------------------
(* The dashboard.                                                          *)
LEMMA FiniteSetsAreBounded ==
    ASSUME NEW T, T \subseteq Nat, IsFiniteSet(T)
    PROVE  \E n \in Nat : \A k \in T : k <= n
<1>1. PICK size \in Nat : ExistsSurjection(1..size, T)
  BY FS_NatSurjection
<1>2. PICK f \in [1..size -> T] : \A k \in T : \E i \in 1..size : f[i] = k
  BY <1>1 DEF ExistsSurjection, Surjection
<1>. DEFINE Bounded(m) == \E n \in Nat : \A i \in 1..m : f[i] <= n
            Bad == {m \in 0..size : ~Bounded(m)}
<1>3. ASSUME Bad # {} PROVE FALSE
  <2>1. PICK m \in Bad : \A k \in Bad : m <= k
    <3>1. Bad \subseteq Nat
      OBVIOUS
    <3>. HIDE DEF Bad
    <3>. QED  BY <1>3, <3>1, Smallest
  <2>2. m \in 0..size /\ ~Bounded(m)
    OBVIOUS
  <2>3. m # 0
    <3>1. Bounded(0)
      <4>1. \A i \in 1..0 : f[i] <= 0
        OBVIOUS
      <4>. QED  BY <4>1
    <3>. QED  BY <2>2, <3>1
  <2>4. m - 1 \in 0..size /\ m \in 1..size
    BY <2>2, <2>3
  <2>5. Bounded(m - 1)
    <3>1. m - 1 \notin Bad
      <4>. HIDE DEF Bad
      <4>. QED  BY <2>1, <2>4
    <3>. QED  BY <2>4, <3>1
  <2>6. PICK n \in Nat : \A i \in 1..(m - 1) : f[i] <= n
    BY <2>5
  <2>7. f[m] \in Nat
    BY <2>4
  <2>8. Bounded(m)
    <3>. DEFINE top == IF n <= f[m] THEN f[m] ELSE n
    <3>1. top \in Nat /\ n <= top /\ f[m] <= top
      BY <2>7
    <3>2. ASSUME NEW i \in 1..m PROVE f[i] <= top
      <4>1. i \in 1..(m - 1) \/ i = m
        BY <2>2
      <4>2. i \in 1..size
        BY <2>2
      <4>3. f[i] \in Nat
        BY <4>2
      <4>. QED  BY <2>6, <3>1, <4>1, <4>3
    <3>. QED  BY <3>1, <3>2
  <2>. QED  BY <2>2, <2>8
<1>4. Bounded(size)
  <2>1. size \in 0..size
    OBVIOUS
  <2>. HIDE DEF Bounded
  <2>. QED  BY <1>3, <2>1
<1>. QED  BY <1>2, <1>4

Entries   == [left : 0..Longest, age : 0..Oldest]
Countings == [phase : {"none", "asked", "counting"}, board : Boards, age : 0..MaxQuery]
Answered  == [age : 0..Oldest, calm : 0..Calm, manual : BOOLEAN, failed : BOOLEAN]

(* How old an entry can get before it is gone.                             *)
Within(entry, limit) == entry.left > 0 => entry.age + entry.left <= limit

(* When the flag is up, what raised it is not long ago.                    *)
FlagIsFresh == degraded > 0 => calm + degraded <= LongestFlag

DashboardInv ==
    /\ short \in [Boards -> Entries] /\ snapshot \in [Boards -> Entries]
    /\ degraded \in 0..LongestFlag /\ refresh \in 0..RefreshEvery /\ calm \in 0..Calm
    /\ counts \in [Viewers \cup {Job} -> Countings]
    /\ manual \in BOOLEAN
    /\ seen \in Answered
    /\ \A b \in Boards : Within(short[b], LongestShort + MaxQuery) /\ Within(snapshot[b], Oldest)
    /\ FlagIsFresh
    /\ OldNumbersAreExplained

LEMMA DashboardNumbers ==
    /\ LongestShort \in Nat /\ Longest \in Nat /\ LongestShort <= Longest
    /\ \A brief \in ShortTtls : brief \in Nat /\ brief <= LongestShort
    /\ \A ttl \in SnapshotTtls : ttl \in Nat /\ ttl <= Longest
    /\ LongestFlag \in Nat \ {0} /\ \A ttl \in DegradedTtls : ttl \in Nat \ {0} /\ ttl <= LongestFlag
    /\ RefreshEvery \in Nat \ {0} /\ MaxQuery \in Nat \ {0} /\ MainBoard \in Boards
    /\ Oldest \in Nat /\ Oldest = Longest + MaxQuery
    /\ Calm \in Nat /\ Calm = LongestFlag + 1
<1>1. ASSUME NEW ttls \in {ShortTtls, SnapshotTtls, DegradedTtls}
      PROVE  Max(ttls) \in ttls /\ Max(ttls) \in Nat \ {0} /\ \A ttl \in ttls : ttl \in Nat \ {0} /\ ttl <= Max(ttls)
  <2>1. ttls \subseteq Nat \ {0} /\ ttls # {} /\ IsFiniteSet(ttls)
    BY DashboardAssumption
  <2>2. ttls \subseteq Nat
    BY <2>1
  <2>3. PICK n \in Nat : \A k \in ttls : k <= n
    BY <2>1, <2>2, FiniteSetsAreBounded
  <2>4. Max(ttls) \in ttls /\ \A ttl \in ttls : Max(ttls) >= ttl
    BY <2>1, <2>2, <2>3, MaxIsLargest
  <2>. DEFINE top == Max(ttls)
  <2>5. top \in ttls /\ \A ttl \in ttls : top >= ttl
    BY <2>4
  <2>. HIDE DEF top
  <2>6. top \in Nat \ {0} /\ \A ttl \in ttls : ttl \in Nat \ {0} /\ ttl <= top
    BY <2>1, <2>5
  <2>. QED  BY <2>5, <2>6 DEF top
<1>2. /\ LongestShort \in ShortTtls /\ LongestShort \in Nat
      /\ \A brief \in ShortTtls : brief \in Nat /\ brief <= LongestShort
  BY <1>1 DEF LongestShort
<1>3. Longest \in Nat /\ \A ttl \in SnapshotTtls : ttl \in Nat /\ ttl <= Longest
  BY <1>1 DEF Longest
<1>4. LongestFlag \in Nat \ {0} /\ \A ttl \in DegradedTtls : ttl \in Nat \ {0} /\ ttl <= LongestFlag
  BY <1>1 DEF LongestFlag
<1>. HIDE DEF LongestShort, Longest, LongestFlag
<1>5. LongestShort <= Longest
  <2>1. PICK ttl \in SnapshotTtls : LongestShort <= ttl
    BY <1>2, DashboardAssumption
  <2>. QED  BY <1>2, <1>3, <2>1
<1>6. RefreshEvery \in Nat \ {0} /\ MaxQuery \in Nat \ {0} /\ MainBoard \in Boards
  BY DashboardAssumption
<1>7. Oldest \in Nat /\ Oldest = Longest + MaxQuery /\ Calm \in Nat /\ Calm = LongestFlag + 1
  BY <1>3, <1>4, <1>6 DEF Oldest, Calm
<1>. QED  BY <1>2, <1>3, <1>4, <1>5, <1>6, <1>7

LEMMA PartsAreBounded == \A a, b, d \in Nat : a + b <= d => a <= d
OBVIOUS

LEMMA SumsAreBounded ==
    \A a, b, c, d \in Nat : a + b <= d /\ c <= a + 1 => c + (b - 1) <= d
OBVIOUS

LEMMA NobodyIsAnswered == NoAnswer \in Answered /\ NoAnswer.age = 0 /\ ~(0 > LongestShort + MaxQuery)
                          /\ 0 <= Oldest
<1>1. 0 \in 0..Oldest /\ 0 \in 0..Calm
  BY DashboardNumbers
<1>. QED  BY <1>1, DashboardNumbers DEF NoAnswer, Answered

LEMMA DashboardBegins == DashboardInit => DashboardInv
<1>. SUFFICES ASSUME DashboardInit PROVE DashboardInv
  OBVIOUS
<1>1. Gone \in Entries /\ \A limit : Within(Gone, limit)
  BY DashboardNumbers DEF Gone, Entries, Within
<1>2. NoCount \in Countings
  BY DashboardNumbers DEF NoCount, Countings
<1>4. short \in [Boards -> Entries] /\ snapshot \in [Boards -> Entries]
  BY <1>1 DEF DashboardInit
<1>5. \A b \in Boards : Within(short[b], LongestShort + MaxQuery) /\ Within(snapshot[b], Oldest)
  BY <1>1 DEF DashboardInit
<1>6. counts \in [Viewers \cup {Job} -> Countings]
  BY <1>2 DEF DashboardInit
<1>7. degraded \in 0..LongestFlag /\ refresh \in 0..RefreshEvery /\ calm \in 0..Calm /\ FlagIsFresh
  BY DashboardNumbers DEF DashboardInit, FlagIsFresh
<1>8. seen \in Answered /\ OldNumbersAreExplained
  BY NobodyIsAnswered DEF DashboardInit, OldNumbersAreExplained
<1>9. manual \in BOOLEAN
  BY DEF DashboardInit
<1>. QED  BY <1>9, <1>4, <1>5, <1>6, <1>7, <1>8 DEF DashboardInv

(* An answer that can be explained leaves everything explained.            *)
LEMMA AnswersAreExplained ==
    ASSUME DashboardInv, NEW age \in 0..Oldest, NEW failed \in BOOLEAN, calm' \in 0..Calm,
           seen' = [age |-> age, calm |-> calm', manual |-> manual, failed |-> failed],
           age > LongestShort + MaxQuery => manual \/ calm' <= LongestFlag \/ failed
    PROVE  seen' \in Answered /\ OldNumbersAreExplained'
<1>1. seen' \in Answered
  BY DEF DashboardInv, Answered
<1>2. seen'.age = age /\ seen'.calm = calm' /\ seen'.manual = manual /\ seen'.failed = failed
  OBVIOUS
<1>3. age <= Oldest
  BY DashboardNumbers
<1>. QED  BY <1>1, <1>2, <1>3 DEF OldNumbersAreExplained

LEMMA CountIsOver ==
    ASSUME NEW v \in Viewers \cup {Job}, counts \in [Viewers \cup {Job} -> Countings],
           counts' = [counts EXCEPT ![v] = NoCount]
    PROVE  counts' \in [Viewers \cup {Job} -> Countings]
<1>1. NoCount \in Countings
  BY DashboardNumbers DEF NoCount, Countings
<1>. QED  BY <1>1

LEMMA BoardsAge ==
    ASSUME NEW entry \in Entries, NEW limit \in Nat, limit <= Oldest, Within(entry, limit)
    PROVE  Aged(entry) \in Entries /\ Within(Aged(entry), limit)
<1>1. entry.left \in 0..Longest /\ entry.age \in 0..Oldest /\ Longest \in Nat /\ Oldest \in Nat
  BY DashboardNumbers DEF Entries
<1>2. CASE entry.left <= 1
  <2>1. Aged(entry) = Gone
    BY <1>2 DEF Aged
  <2>. QED  BY <2>1, DashboardNumbers DEF Gone, Entries, Within
<1>3. CASE ~(entry.left <= 1)
  <2>. DEFINE left == entry.left - 1
              age  == entry.age + 1
  <2>1. Aged(entry) = [left |-> left, age |-> age]
    BY <1>3 DEF Aged
  <2>2. left \in 0..Longest /\ age \in 0..Oldest /\ age + left <= limit
    BY <1>1, <1>3 DEF Within
  <2>. HIDE DEF left, age
  <2>3. Aged(entry) \in Entries
    BY <2>1, <2>2 DEF Entries
  <2>. QED  BY <2>1, <2>2, <2>3 DEF Within
<1>. QED  BY <1>2, <1>3

LEMMA DashboardIsAsked ==
    ASSUME DashboardInv, NEW v \in Viewers, NEW b \in Boards, AskDashboard(v, b)
    PROVE  DashboardInv'
<1>1. UNCHANGED <<short, snapshot, degraded, refresh, manual, calm>>
  BY DEF AskDashboard
<1>2. counts \in [Viewers \cup {Job} -> Countings] /\ short[b] \in Entries
  BY DEF DashboardInv
<1>3. CASE short[b].left > 0
  <2>1. /\ seen' = [age |-> short[b].age, calm |-> calm', manual |-> manual, failed |-> FALSE]
        /\ counts' = [counts EXCEPT ![v] = NoCount]
    BY <1>3 DEF AskDashboard, GiveAnswer
  <2>2. short[b].age \in 0..Oldest /\ short[b].age <= LongestShort + MaxQuery
    <3>1. Within(short[b], LongestShort + MaxQuery)
      BY DEF DashboardInv
    <3>. QED  BY <1>2, <1>3, <3>1, DashboardNumbers DEF Entries, Within
  <2>3. seen' \in Answered /\ OldNumbersAreExplained'
    <3>1. calm' \in 0..Calm
      BY <1>1 DEF DashboardInv
    <3>2. ~(short[b].age > LongestShort + MaxQuery)
      BY <2>2, DashboardNumbers
    <3>. QED  BY <2>1, <2>2, <3>1, <3>2, AnswersAreExplained
  <2>4. counts' \in [Viewers \cup {Job} -> Countings]
    BY <1>2, <2>1, CountIsOver
  <2>. QED  BY <1>1, <2>3, <2>4 DEF DashboardInv, FlagIsFresh
<1>4. CASE ~(short[b].left > 0)
  <2>. DEFINE new == [NoCount EXCEPT !.phase = "asked", !.board = b]
  <2>1. counts' = [counts EXCEPT ![v] = new] /\ UNCHANGED seen
    BY <1>4 DEF AskDashboard
  <2>2. new \in Countings
    <3>1. NoCount \in Countings
      BY DashboardNumbers DEF NoCount, Countings
    <3>. QED  BY <3>1 DEF Countings
  <2>. HIDE DEF new
  <2>3. counts' \in [Viewers \cup {Job} -> Countings]
    BY <1>2, <2>1, <2>2
  <2>. QED  BY <1>1, <2>1, <2>3 DEF DashboardInv, FlagIsFresh, OldNumbersAreExplained
<1>. QED  BY <1>3, <1>4

(* The flag goes up, or all stays as it was.                               *)
LEMMA FlagGoesUp ==
    ASSUME DashboardInv, NEW up \in BOOLEAN,
           MarkDegraded(up)
    PROVE  degraded' \in 0..LongestFlag /\ calm' \in 0..Calm /\ FlagIsFresh'
<1>1. CASE up
  <2>1. degraded' \in DegradedTtls /\ calm' = 0
    BY <1>1 DEF MarkDegraded
  <2>2. degraded' \in 0..LongestFlag
    BY <2>1, DashboardNumbers
  <2>3. 0 + degraded' <= LongestFlag
    <3>1. degraded' \in Nat /\ degraded' <= LongestFlag
      BY <2>2
    <3>. QED  BY <3>1
  <2>4. 0 \in 0..Calm
    BY DashboardNumbers
  <2>. QED  BY <2>1, <2>2, <2>3, <2>4 DEF FlagIsFresh
<1>2. CASE ~up
  BY <1>2 DEF MarkDegraded, DashboardInv, FlagIsFresh
<1>. QED  BY <1>1, <1>2

LEMMA SnapshotIsConsidered ==
    ASSUME DashboardInv, NEW v \in Viewers, ShouldUseSnapshot(v)
    PROVE  DashboardInv'
<1>. DEFINE b == counts[v].board
<1>1. PICK loaded \in BOOLEAN : MarkDegraded(loaded /\ ~manual /\ degraded = 0)
  BY DEF ShouldUseSnapshot
<1>2. degraded' \in 0..LongestFlag /\ calm' \in 0..Calm /\ FlagIsFresh'
  <2>. DEFINE up == (loaded /\ ~manual /\ degraded = 0)
  <2>1. up \in BOOLEAN
    OBVIOUS
  <2>2. MarkDegraded(up)
    BY <1>1
  <2>. HIDE DEF up
  <2>. QED  BY <2>1, <2>2, FlagGoesUp
<1>3. UNCHANGED <<short, snapshot, refresh, manual>>
  BY DEF ShouldUseSnapshot
<1>4. counts \in [Viewers \cup {Job} -> Countings] /\ counts[v] \in Countings /\ b \in Boards
  BY DEF DashboardInv, Countings
<1>5. CASE (manual \/ degraded' > 0) /\ snapshot[b].left > 0
  <2>1. /\ seen' = [age |-> snapshot[b].age, calm |-> calm', manual |-> manual, failed |-> FALSE]
        /\ counts' = [counts EXCEPT ![v] = NoCount]
    BY <1>5 DEF ShouldUseSnapshot, GiveAnswer
  <2>2. snapshot[b].age \in 0..Oldest
    BY <1>4 DEF DashboardInv, Entries
  <2>3. manual \/ calm' <= LongestFlag
    <3>1. SUFFICES ASSUME ~manual PROVE calm' <= LongestFlag
      OBVIOUS
    <3>2. calm' + degraded' <= LongestFlag
      BY <1>2, <1>5, <3>1 DEF FlagIsFresh
    <3>3. LongestFlag \in Nat /\ Calm \in Nat
      BY DashboardNumbers
    <3>4. calm' \in Nat /\ degraded' \in Nat
      BY <1>2
    <3>. QED  BY <3>2, <3>3, <3>4, PartsAreBounded
  <2>. HIDE DEF b
  <2>4. seen' \in Answered /\ OldNumbersAreExplained'
    BY <1>2, <2>1, <2>2, <2>3, AnswersAreExplained
  <2>5. counts' \in [Viewers \cup {Job} -> Countings]
    BY <1>4, <2>1, CountIsOver
  <2>. QED  BY <1>2, <1>3, <2>4, <2>5 DEF DashboardInv
<1>6. CASE ~((manual \/ degraded' > 0) /\ snapshot[b].left > 0)
  <2>. DEFINE new == [counts[v] EXCEPT !.phase = "counting", !.age = 0]
  <2>1. counts' = [counts EXCEPT ![v] = new] /\ UNCHANGED seen
    BY <1>6 DEF ShouldUseSnapshot, StartCounting
  <2>2. new \in Countings
    <3>1. 0 \in 0..MaxQuery
      BY DashboardNumbers
    <3>. QED  BY <1>4, <3>1 DEF Countings
  <2>. HIDE DEF new
  <2>3. counts' \in [Viewers \cup {Job} -> Countings]
    BY <1>4, <2>1, <2>2
  <2>. QED  BY <1>2, <1>3, <2>1, <2>3 DEF DashboardInv, OldNumbersAreExplained
<1>. QED  BY <1>5, <1>6

(* A result is stored for as long as a cache keeps it.                     *)
LEMMA ResultIsKept ==
    ASSUME NEW age \in 0..MaxQuery, NEW ttl \in SnapshotTtls \cup ShortTtls,
           NEW limit \in Nat, ttl + MaxQuery <= limit
    PROVE  [left |-> ttl, age |-> age] \in Entries /\ Within([left |-> ttl, age |-> age], limit)
<1>1. ttl \in 0..Longest /\ age \in 0..Oldest /\ age + ttl <= limit
  BY DashboardNumbers
<1>. QED  BY <1>1 DEF Entries, Within

LEMMA CountingIsOver ==
    ASSUME DashboardInv, NEW v \in Viewers, CountingEnds(v)
    PROVE  DashboardInv'
<1>. DEFINE b   == counts[v].board
            age == counts[v].age
<1>1. counts \in [Viewers \cup {Job} -> Countings] /\ b \in Boards /\ age \in 0..MaxQuery
  BY DEF DashboardInv, Countings
<1>2. PICK few \in ShortTtls, ttl \in SnapshotTtls :
         /\ short' = [short EXCEPT ![b] = [left |-> few, age |-> age]]
         /\ snapshot' = [snapshot EXCEPT ![b] = [left |-> ttl, age |-> age]]
  BY DEF CountingEnds, StoreResult
<1>3. PICK slow \in BOOLEAN : MarkDegraded(slow)
  BY DEF CountingEnds
<1>4. /\ seen' = [age |-> age, calm |-> calm', manual |-> manual, failed |-> FALSE]
      /\ counts' = [counts EXCEPT ![v] = NoCount] /\ UNCHANGED <<refresh, manual>>
  BY DEF CountingEnds, GiveAnswer
<1>. HIDE DEF b, age
<1>5. degraded' \in 0..LongestFlag /\ calm' \in 0..Calm /\ FlagIsFresh'
  BY <1>3, FlagGoesUp
<1>6. seen' \in Answered /\ OldNumbersAreExplained'
  <2>1. age \in 0..Oldest /\ ~(age > LongestShort + MaxQuery)
    BY <1>1, DashboardNumbers
  <2>. QED  BY <1>4, <1>5, <2>1, AnswersAreExplained
<1>7. counts' \in [Viewers \cup {Job} -> Countings]
  BY <1>1, <1>4, CountIsOver
<1>. DEFINE brief == [left |-> few, age |-> age]
            long  == [left |-> ttl, age |-> age]
<1>8. /\ brief \in Entries /\ Within(brief, LongestShort + MaxQuery)
      /\ long \in Entries /\ Within(long, Oldest)
  <2>1. LongestShort + MaxQuery \in Nat /\ few + MaxQuery <= LongestShort + MaxQuery
    BY DashboardNumbers
  <2>2. Oldest \in Nat /\ ttl + MaxQuery <= Oldest
    BY DashboardNumbers
  <2>. QED  BY <1>1, <2>1, <2>2, ResultIsKept
<1>9. short' = [short EXCEPT ![b] = brief] /\ snapshot' = [snapshot EXCEPT ![b] = long]
  BY <1>2
<1>. HIDE DEF brief, long
<1>10. short' \in [Boards -> Entries] /\ snapshot' \in [Boards -> Entries]
  BY <1>1, <1>8, <1>9 DEF DashboardInv
<1>11. \A c \in Boards : Within(short'[c], LongestShort + MaxQuery) /\ Within(snapshot'[c], Oldest)
  BY <1>1, <1>8, <1>9 DEF DashboardInv
<1>. QED  BY <1>4, <1>5, <1>6, <1>7, <1>10, <1>11 DEF DashboardInv

LEMMA CountingHasFailed ==
    ASSUME DashboardInv, NEW v \in Viewers, CountingFails(v)
    PROVE  DashboardInv'
<1>. DEFINE b == counts[v].board
<1>1. counts \in [Viewers \cup {Job} -> Countings] /\ b \in Boards
  BY DEF DashboardInv, Countings
<1>2. UNCHANGED <<short, snapshot, degraded, refresh, manual, calm>> /\ counts' = [counts EXCEPT ![v] = NoCount]
  BY DEF CountingFails, GiveAnswer
<1>3. counts' \in [Viewers \cup {Job} -> Countings]
  BY <1>1, <1>2, CountIsOver
<1>4. seen' \in Answered /\ OldNumbersAreExplained'
  <2>1. CASE snapshot[b].left > 0
    <3>1. seen' = [age |-> snapshot[b].age, calm |-> calm', manual |-> manual, failed |-> TRUE]
      BY <2>1 DEF CountingFails, GiveAnswer
    <3>2. snapshot[b].age \in 0..Oldest
      BY <1>1 DEF DashboardInv, Entries
    <3>3. calm' \in 0..Calm
      BY <1>2 DEF DashboardInv
    <3>. QED  BY <3>1, <3>2, <3>3, AnswersAreExplained
  <2>2. CASE ~(snapshot[b].left > 0)
    BY <2>2 DEF CountingFails, DashboardInv, OldNumbersAreExplained
  <2>. QED  BY <2>1, <2>2
<1>. QED  BY <1>2, <1>3, <1>4 DEF DashboardInv, FlagIsFresh

LEMMA JobRefreshes ==
    ASSUME DashboardInv, RefreshStarts \/ RefreshEnds
    PROVE  DashboardInv'
<1>1. counts \in [Viewers \cup {Job} -> Countings] /\ counts[Job] \in Countings
  BY DEF DashboardInv
<1>2. UNCHANGED <<short, degraded, manual, calm, seen>>
  BY DEF RefreshStarts, RefreshEnds
<1>3. CASE RefreshStarts
  <2>. DEFINE new == [counts[Job] EXCEPT !.phase = "counting"]
  <2>1. counts' = [counts EXCEPT ![Job] = new] /\ refresh' = RefreshEvery /\ UNCHANGED snapshot
    BY <1>3 DEF RefreshStarts
  <2>2. new \in Countings
    BY <1>1 DEF Countings
  <2>. HIDE DEF new
  <2>3. counts' \in [Viewers \cup {Job} -> Countings] /\ refresh' \in 0..RefreshEvery
    BY <1>1, <2>1, <2>2, DashboardNumbers
  <2>. QED  BY <1>2, <2>1, <2>3 DEF DashboardInv, FlagIsFresh, OldNumbersAreExplained
<1>4. CASE RefreshEnds
  <2>1. counts' = [counts EXCEPT ![Job] = NoCount] /\ UNCHANGED refresh
    BY <1>4 DEF RefreshEnds
  <2>2. counts' \in [Viewers \cup {Job} -> Countings]
    BY <1>1, <2>1, CountIsOver
  <2>3. snapshot' \in [Boards -> Entries] /\ \A b \in Boards : Within(snapshot'[b], Oldest)
    <3>1. CASE UNCHANGED snapshot
      BY <3>1 DEF DashboardInv
    <3>2. ASSUME NEW ttl \in SnapshotTtls,
                 snapshot' = [snapshot EXCEPT ![MainBoard] = [left |-> ttl, age |-> counts[Job].age]]
          PROVE  snapshot' \in [Boards -> Entries] /\ \A b \in Boards : Within(snapshot'[b], Oldest)
      <4>. DEFINE long == [left |-> ttl, age |-> counts[Job].age]
      <4>1. counts[Job].age \in 0..MaxQuery
        BY <1>1 DEF Countings
      <4>2. long \in Entries /\ Within(long, Oldest)
        <5>1. Oldest \in Nat /\ ttl + MaxQuery <= Oldest
          BY DashboardNumbers
        <5>. QED  BY <4>1, <5>1, ResultIsKept
      <4>3. snapshot' = [snapshot EXCEPT ![MainBoard] = long]
        BY <3>2
      <4>. HIDE DEF long
      <4>. QED  BY <4>2, <4>3, DashboardNumbers DEF DashboardInv
    <3>. QED  BY <1>4, <3>1, <3>2 DEF RefreshEnds
  <2>. QED  BY <1>2, <2>1, <2>2, <2>3 DEF DashboardInv, FlagIsFresh, OldNumbersAreExplained
<1>. QED  BY <1>3, <1>4

LEMMA DashboardAges ==
    ASSUME DashboardInv, DashboardTick
    PROVE  DashboardInv'
<1>1. short' \in [Boards -> Entries] /\ snapshot' \in [Boards -> Entries]
      /\ \A b \in Boards : Within(short'[b], LongestShort + MaxQuery) /\ Within(snapshot'[b], Oldest)
  <2>1. short' = [b \in Boards |-> Aged(short[b])] /\ snapshot' = [b \in Boards |-> Aged(snapshot[b])]
    BY DEF DashboardTick
  <2>2. ASSUME NEW b \in Boards
        PROVE  /\ Aged(short[b]) \in Entries /\ Within(Aged(short[b]), LongestShort + MaxQuery)
               /\ Aged(snapshot[b]) \in Entries /\ Within(Aged(snapshot[b]), Oldest)
    <3>1. /\ short[b] \in Entries /\ Within(short[b], LongestShort + MaxQuery)
          /\ snapshot[b] \in Entries /\ Within(snapshot[b], Oldest)
      BY DEF DashboardInv
    <3>2. LongestShort + MaxQuery \in Nat /\ LongestShort + MaxQuery <= Oldest /\ Oldest \in Nat /\ Oldest <= Oldest
      BY DashboardNumbers
    <3>. QED  BY <3>1, <3>2, BoardsAge
  <2>. QED  BY <2>1, <2>2
<1>2. /\ degraded \in 0..LongestFlag /\ degraded' = (IF degraded = 0 THEN 0 ELSE degraded - 1)
      /\ refresh \in 0..RefreshEvery /\ refresh > 0 /\ refresh' = refresh - 1
      /\ calm \in 0..Calm /\ UNCHANGED manual /\ seen' = NoAnswer
  BY DEF DashboardInv, DashboardTick
<1>3. calm' \in {calm + 1, Calm} /\ calm' <= calm + 1 /\ calm' <= Calm
  <2>. DEFINE T == {calm + 1, Calm}
  <2>1. T \subseteq Nat /\ T # {}
    BY <1>2, DashboardNumbers
  <2>2. calm' = Min(T) /\ calm + 1 \in T /\ Calm \in T
    BY DEF DashboardTick
  <2>. HIDE DEF T
  <2>3. calm' \in T /\ \A k \in T : calm' <= k
    BY <2>1, <2>2, MinIsSmallest
  <2>. QED  BY <2>2, <2>3 DEF T
<1>4. degraded' \in 0..LongestFlag /\ refresh' \in 0..RefreshEvery /\ calm' \in 0..Calm
  BY <1>2, <1>3, DashboardNumbers
<1>5. FlagIsFresh'
  <2>1. FlagIsFresh /\ LongestFlag \in Nat /\ Calm \in Nat
    BY DashboardNumbers DEF DashboardInv
  <2>2. CASE degraded > 0
    <3>1. calm + degraded <= LongestFlag /\ degraded' = degraded - 1
      BY <1>2, <2>1, <2>2 DEF FlagIsFresh
    <3>2. calm' + degraded' <= LongestFlag
      <4>1. calm \in Nat /\ degraded \in Nat /\ calm' \in Nat /\ LongestFlag \in Nat
        BY <1>2, <1>4, <2>1
      <4>2. calm' <= calm + 1
        BY <1>3
      <4>3. calm' + (degraded - 1) <= LongestFlag
        BY <3>1, <4>1, <4>2, SumsAreBounded
      <4>. QED  BY <3>1, <4>3
    <3>. QED  BY <3>2 DEF FlagIsFresh
  <2>3. CASE ~(degraded > 0)
    BY <1>2, <2>3 DEF FlagIsFresh
  <2>. QED  BY <2>2, <2>3
<1>6. counts' \in [Viewers \cup {Job} -> Countings]
  <2>1. counts' = [v \in Viewers \cup {Job} |->
          IF counts[v].phase = "counting" THEN [counts[v] EXCEPT !.age = @ + 1] ELSE counts[v]]
    BY DEF DashboardTick
  <2>2. ASSUME NEW v \in Viewers \cup {Job}
        PROVE  (IF counts[v].phase = "counting" THEN [counts[v] EXCEPT !.age = @ + 1] ELSE counts[v])
                  \in Countings
    <3>1. counts[v] \in Countings
      BY DEF DashboardInv
    <3>2. CASE counts[v].phase = "counting"
      <4>1. counts[v].age + 1 \in 0..MaxQuery
        BY <3>1, <3>2, DashboardNumbers DEF DashboardTick, Countings
      <4>. QED  BY <3>1, <3>2, <4>1 DEF Countings
    <3>. QED  BY <3>1, <3>2
  <2>. QED  BY <2>1, <2>2
<1>7. seen' \in Answered /\ OldNumbersAreExplained'
  BY <1>2, NobodyIsAnswered DEF OldNumbersAreExplained
<1>. QED  BY <1>1, <1>2, <1>4, <1>5, <1>6, <1>7 DEF DashboardInv

LEMMA ProcessIsReplaced ==
    ASSUME DashboardInv, Redeploy
    PROVE  DashboardInv'
<1>1. manual' \in BOOLEAN /\ counts' = [v \in Viewers \cup {Job} |-> NoCount]
  BY DEF Redeploy
<1>2. UNCHANGED <<short, snapshot, degraded, refresh, calm, seen>>
  BY DEF Redeploy
<1>3. NoCount \in Countings
  BY DashboardNumbers DEF NoCount, Countings
<1>4. counts' \in [Viewers \cup {Job} -> Countings]
  BY <1>1, <1>3
<1>. QED  BY <1>1, <1>2, <1>4 DEF DashboardInv, FlagIsFresh, OldNumbersAreExplained

LEMMA DashboardGoesOn ==
    ASSUME DashboardInv, [DashboardNext]_dashboardVars
    PROVE  DashboardInv'
<1>1. CASE UNCHANGED dashboardVars
  BY <1>1 DEF dashboardVars, DashboardInv, FlagIsFresh, OldNumbersAreExplained
<1>. QED  BY <1>1, DashboardIsAsked, SnapshotIsConsidered, CountingIsOver, CountingHasFailed,
             JobRefreshes, ProcessIsReplaced, DashboardAges DEF DashboardNext

(* Whatever the load, the failures and the jitter of the caches: numbers   *)
(* older than the short cache and the counting allow are shown only under  *)
(* the manual switch, in the life of the degraded flag or after a failed   *)
(* counting, and never older ones than a snapshot may hold (getMetrics,    *)
(* shouldUseSnapshot, refreshSnapshot).                                    *)
THEOREM OldNumbersStayExplained == DashboardSpec => []OldNumbersAreExplained
<1>1. DashboardInv => OldNumbersAreExplained
  BY DEF DashboardInv
<1>. QED  BY <1>1, DashboardBegins, DashboardGoesOn, PTL DEF DashboardSpec

-----------------------------------------------------------------------------
(* Pages and models of STIGPT.                                             *)
LEMMA Surfaces ==
    /\ Len(RouteSurfaces) = 4 /\ DOMAIN RouteSurfaces = 1..4
    /\ RouteSurfaces[1].route = "webIdx" /\ RouteSurfaces[2].route = "answer/policy"
    /\ RouteSurfaces[3].route = "answer/project" /\ RouteSurfaces[4].route = "aiRead"
    /\ Routes = {"webIdx", "answer/policy", "answer/project", "aiRead"}
    /\ Len(ModelDefinitions) = 3 /\ DOMAIN ModelDefinitions = 1..3
    /\ ModelDefinitions[1].code = "policy-assistant"
    /\ ModelDefinitions[2].code = "research-copilot"
    /\ ModelDefinitions[3].code = "ai-reader"
    /\ ModelCodes = {"policy-assistant", "research-copilot", "ai-reader"}
<1>1. /\ Len(RouteSurfaces) = 4 /\ DOMAIN RouteSurfaces = 1..4
      /\ RouteSurfaces[1].route = "webIdx" /\ RouteSurfaces[2].route = "answer/policy"
      /\ RouteSurfaces[3].route = "answer/project" /\ RouteSurfaces[4].route = "aiRead"
  BY DEF RouteSurfaces
<1>2. Routes = {"webIdx", "answer/policy", "answer/project", "aiRead"}
  <2>1. 1..4 = {1, 2, 3, 4}
    OBVIOUS
  <2>2. Routes = {RouteSurfaces[i].route : i \in {1, 2, 3, 4}}
    BY <1>1, <2>1 DEF Routes
  <2>. QED  BY <1>1, <2>2
<1>3. /\ Len(ModelDefinitions) = 3 /\ DOMAIN ModelDefinitions = 1..3
      /\ ModelDefinitions[1].code = "policy-assistant"
      /\ ModelDefinitions[2].code = "research-copilot"
      /\ ModelDefinitions[3].code = "ai-reader"
  BY DEF ModelDefinitions
<1>4. ModelCodes = {"policy-assistant", "research-copilot", "ai-reader"}
  <2>1. 1..3 = {1, 2, 3}
    OBVIOUS
  <2>2. ModelCodes = {ModelDefinitions[i].code : i \in {1, 2, 3}}
    BY <1>3, <2>1 DEF ModelCodes
  <2>. QED  BY <1>3, <2>2
<1>. QED  BY <1>1, <1>2, <1>3, <1>4

LEMMA SurfaceOfARoute ==
    /\ SurfaceOf("webIdx") = RouteSurfaces[1]
    /\ SurfaceOf("answer/policy") = RouteSurfaces[2]
    /\ SurfaceOf("answer/project") = RouteSurfaces[3]
    /\ SurfaceOf("aiRead") = RouteSurfaces[4]
<1>1. ASSUME NEW i \in 1..4, NEW j \in 1..4, RouteSurfaces[i].route = RouteSurfaces[j].route
      PROVE  i = j
  <2>1. i \in {1, 2, 3, 4} /\ j \in {1, 2, 3, 4}
    OBVIOUS
  <2>. QED  BY <1>1, <2>1, Surfaces
<1>2. ASSUME NEW i \in 1..4 PROVE SurfaceOf(RouteSurfaces[i].route) = RouteSurfaces[i]
  <2>. DEFINE j == CHOOSE k \in DOMAIN RouteSurfaces :
                      RouteSurfaces[k].route = RouteSurfaces[i].route
  <2>1. j \in 1..4 /\ RouteSurfaces[j].route = RouteSurfaces[i].route
    BY Surfaces
  <2>2. SurfaceOf(RouteSurfaces[i].route) = RouteSurfaces[j]
    BY DEF SurfaceOf
  <2>. HIDE DEF j
  <2>. QED  BY <1>1, <2>1, <2>2
<1>3. 1 \in 1..4 /\ 2 \in 1..4 /\ 3 \in 1..4 /\ 4 \in 1..4
  OBVIOUS
<1>. QED  BY <1>2, <1>3, Surfaces

HasMode(route, mode) ==
    \E k \in DOMAIN SurfaceOf(route).modes : SurfaceOf(route).modes[k] = mode
HasModel(route, code) ==
    \E i \in DOMAIN ModelDefinitions :
        ModelDefinitions[i].code = code /\ route \in ModelDefinitions[i].routes

(* Whatever is asked for, a page's conversation gets one of its modes ...  *)
LEMMA ModesAreOfThePage ==
    ASSUME NEW route \in Routes, NEW requested, NEW current
    PROVE  /\ HasMode(route, ResolveRouteMode(requested, current, route))
           /\ ResolveRouteMode(requested, current, route) \in RouteModes
<1>. DEFINE mode == ResolveRouteMode(requested, current, route)
<1>1. CASE route = "webIdx"
  <2>. DEFINE surface == RouteSurfaces[1]
  <2>1. /\ SurfaceOf(route) = surface /\ surface.modes = <<"policy", "project", "aiRead">>
        /\ surface.default = "policy"
    BY <1>1, SurfaceOfARoute DEF RouteSurfaces
  <2>2. mode \in RouteModes
    <3>1. Len(<<"policy", "project", "aiRead">>) # 1
      OBVIOUS
    <3>2. mode = IF requested \in RouteModes THEN requested
                 ELSE IF current \in RouteModes THEN current ELSE surface.default
      BY <2>1, <3>1 DEF ResolveRouteMode
    <3>. HIDE DEF mode
    <3>. QED  BY <2>1, <3>2 DEF RouteModes
  <2>3. \A m \in RouteModes : \E k \in 1..3 : <<"policy", "project", "aiRead">>[k] = m
    <3>1. 1 \in 1..3 /\ 2 \in 1..3 /\ 3 \in 1..3
      OBVIOUS
    <3>. QED  BY <3>1 DEF RouteModes
  <2>. HIDE DEF mode, surface
  <2>4. HasMode(route, mode)
    BY <2>1, <2>2, <2>3 DEF HasMode
  <2>. QED  BY <2>2, <2>4 DEF mode
<1>2. ASSUME NEW i \in {2, 3, 4}, SurfaceOf(route) = RouteSurfaces[i]
      PROVE  HasMode(route, mode) /\ mode \in RouteModes
  <2>1. PICK m \in RouteModes : RouteSurfaces[i].modes = <<m>>
    BY DEF RouteSurfaces, RouteModes
  <2>2. Len(<<m>>) = 1 /\ <<m>>[1] = m /\ 1 \in DOMAIN <<m>>
    OBVIOUS
  <2>3. mode = m
    BY <1>2, <2>1, <2>2 DEF ResolveRouteMode
  <2>. HIDE DEF mode
  <2>. QED  BY <1>2, <2>1, <2>2, <2>3 DEF HasMode
<1>. QED  BY <1>1, <1>2, SurfaceOfARoute, Surfaces

(* ... and, once all models are there, one of its models.                  *)
LEMMA ModelsAreOfThePage ==
    ASSUME NEW route \in Routes, NEW requested, NEW current, models = ModelCodes
    PROVE  /\ HasModel(route, ResolveModel(route, requested, current))
           /\ ResolveModel(route, requested, current) \in ModelCodes
<1>. DEFINE serves(code) == \E i \in DOMAIN ModelDefinitions :
                /\ ModelDefinitions[i].code = code /\ code \in models
                /\ route \in ModelDefinitions[i].routes
            offered == {i \in DOMAIN ModelDefinitions : serves(ModelDefinitions[i].code)}
            model   == ResolveModel(route, requested, current)
            least   == CHOOSE i \in offered : \A j \in offered : i <= j
<1>1. /\ ModelDefinitions[1].routes = {"webIdx", "answer/policy"}
      /\ ModelDefinitions[2].routes = {"webIdx", "answer/project"}
      /\ ModelDefinitions[3].routes = {"webIdx", "aiRead"}
  BY DEF ModelDefinitions
<1>2. offered # {} /\ offered \subseteq Nat
  <2>1. \E i \in 1..3 : route \in ModelDefinitions[i].routes
    <3>1. 1 \in 1..3 /\ 2 \in 1..3 /\ 3 \in 1..3
      OBVIOUS
    <3>. QED  BY <1>1, <3>1, Surfaces
  <2>2. \A i \in 1..3 : ModelDefinitions[i].code \in models
    BY Surfaces DEF ModelCodes
  <2>. QED  BY <2>1, <2>2, Surfaces
<1>3. least \in offered
  <2>. HIDE DEF offered
  <2>1. \E i \in offered : \A j \in offered : i <= j
    BY <1>2, Smallest
  <2>. QED  BY <2>1
<1>4. serves(model)
  <2>1. model = IF serves(requested) THEN requested
                ELSE IF serves(current) THEN current
                ELSE IF offered = {} THEN "none" ELSE ModelDefinitions[least].code
    BY DEF ResolveModel
  <2>2. serves(ModelDefinitions[least].code)
    BY <1>3
  <2>. HIDE DEF model, serves, least, offered
  <2>. QED  BY <1>2, <2>1, <2>2
<1>. HIDE DEF model
<1>5. HasModel(route, model) /\ model \in ModelCodes
  BY <1>4 DEF HasModel
<1>. QED  BY <1>5 DEF model

Chats  == [route : Routes \cup {"none"}, mode : RouteModes \cup {"none"},
           model : ModelCodes \cup {"none"}]
Visits == [phase : {"none", "pages", "models", "count", "create", "serve", "turn"},
           at : 1..4, late : BOOLEAN, read : Chats]

IsOfItsPage(c) ==
    /\ c.route \in Routes /\ c.mode \in RouteModes /\ c.model \in ModelCodes
    /\ HasMode(c.route, c.mode) /\ HasModel(c.route, c.model)

Installed ==
    pages = Routes /\ models = ModelCodes /\ \A route \in Routes : copies[route] > 0

(* What a request has made sure of when it is where it is.                 *)
HasMadeSure(r) ==
    /\ Stage(r, "pages") =>
          \A i \in 1..4 : i < requests[r].at => RouteSurfaces[i].route \in pages
    /\ Stage(r, "models") =>
          /\ pages = Routes /\ requests[r].at \in 1..3
          /\ \A i \in 1..3 : i < requests[r].at => ModelDefinitions[i].code \in models
    /\ Stage(r, "count") \/ Stage(r, "create") =>
          /\ pages = Routes /\ models = ModelCodes
          /\ \A i \in 1..4 : i < requests[r].at => copies[RouteSurfaces[i].route] > 0
    /\ Stage(r, "serve") \/ Stage(r, "turn") => Installed
    /\ Stage(r, "turn") =>
          /\ chat # NoChat /\ requests[r].read.route = chat.route
          /\ IsOfItsPage(requests[r].read)
    /\ requests[r].late => answered /\ ~Stage(r, "create")

PagesTypes ==
    /\ pages \subseteq Routes /\ models \subseteq ModelCodes
    /\ copies \in [Routes -> 0..MaxCopies]
    /\ chat \in Chats /\ answered \in BOOLEAN

PagesInv ==
    /\ PagesTypes
    /\ requests \in [PageRequests -> Visits]
    /\ \A r \in PageRequests : HasMadeSure(r)
    /\ answered => Installed
    /\ chat # NoChat => answered /\ IsOfItsPage(chat)

(* Nothing that is there is taken away.                                    *)
PagesGrow ==
    /\ PagesTypes'
    /\ pages \subseteq pages' /\ models \subseteq models'
    /\ \A route \in Routes : copies[route] <= copies'[route]
    /\ chat # NoChat => chat' # NoChat /\ chat'.route = chat.route
    /\ answered => answered'

LEMMA InstalledStays ==
    ASSUME PagesTypes, PagesGrow, Installed
    PROVE  Installed'
<1>1. pages' = Routes /\ models' = ModelCodes
  BY DEF PagesGrow, PagesTypes, Installed
<1>2. ASSUME NEW route \in Routes PROVE copies'[route] > 0
  <2>1. copies[route] \in Nat /\ copies'[route] \in Nat
    BY PagesAssumption DEF PagesTypes, PagesGrow
  <2>2. copies[route] > 0 /\ copies[route] <= copies'[route]
    BY DEF Installed, PagesGrow
  <2>. QED  BY <2>1, <2>2
<1>. QED  BY <1>1, <1>2 DEF Installed

LEMMA OtherRequestsKeepTheirStage ==
    ASSUME PagesTypes, PagesGrow, NEW s \in PageRequests, HasMadeSure(s),
           requests'[s] = requests[s]
    PROVE  HasMadeSure(s)'
<1>1. \A phase : Stage(s, phase)' <=> Stage(s, phase)
  BY DEF Stage
<1>2. pages \subseteq pages' /\ models \subseteq models' /\ pages' \subseteq Routes
      /\ models' \subseteq ModelCodes /\ (answered => answered')
  BY DEF PagesGrow, PagesTypes
<1>3. ASSUME NEW i \in 1..4, copies[RouteSurfaces[i].route] > 0
      PROVE  copies'[RouteSurfaces[i].route] > 0
  <2>. DEFINE route == RouteSurfaces[i].route
  <2>1. route \in Routes
    BY Surfaces DEF Routes
  <2>. HIDE DEF route
  <2>2. copies[route] \in Nat /\ copies'[route] \in Nat /\ copies[route] <= copies'[route]
    BY <2>1, PagesAssumption DEF PagesTypes, PagesGrow
  <2>3. copies[route] > 0
    BY <1>3 DEF route
  <2>4. copies'[route] > 0
    BY <2>2, <2>3
  <2>. QED  BY <2>4 DEF route
<1>4. Installed => Installed'
  BY InstalledStays
<1>5. chat # NoChat => chat' # NoChat /\ chat'.route = chat.route
  BY DEF PagesGrow
<1>6. (Stage(s, "pages") =>
          \A i \in 1..4 : i < requests[s].at => RouteSurfaces[i].route \in pages)'
  BY <1>1, <1>2 DEF HasMadeSure, Stage
<1>7. (Stage(s, "models") =>
          /\ pages = Routes /\ requests[s].at \in 1..3
          /\ \A i \in 1..3 : i < requests[s].at => ModelDefinitions[i].code \in models)'
  BY <1>1, <1>2 DEF HasMadeSure, Stage
<1>8. (Stage(s, "count") \/ Stage(s, "create") =>
          /\ pages = Routes /\ models = ModelCodes
          /\ \A i \in 1..4 : i < requests[s].at => copies[RouteSurfaces[i].route] > 0)'
  <2>1. ASSUME Stage(s, "count") \/ Stage(s, "create")
        PROVE  /\ pages' = Routes /\ models' = ModelCodes
               /\ \A i \in 1..4 : i < requests'[s].at => copies'[RouteSurfaces[i].route] > 0
    BY <1>2, <1>3, <2>1 DEF HasMadeSure
  <2>. QED  BY <1>1, <2>1
<1>9. (Stage(s, "serve") \/ Stage(s, "turn") => Installed)'
  BY <1>1, <1>4 DEF HasMadeSure, Stage
<1>10. (Stage(s, "turn") =>
          /\ chat # NoChat /\ requests[s].read.route = chat.route
          /\ IsOfItsPage(requests[s].read))'
  BY <1>1, <1>5 DEF HasMadeSure, Stage, IsOfItsPage
<1>11. (requests[s].late => answered /\ ~Stage(s, "create"))'
  BY <1>1, <1>2 DEF HasMadeSure, Stage
<1>. QED  BY <1>6, <1>7, <1>8, <1>9, <1>10, <1>11 DEF HasMadeSure

LEMMA OneRequest ==
    ASSUME PagesInv, PagesGrow, NEW r \in PageRequests, NEW new \in Visits,
           requests' = [requests EXCEPT ![r] = new], HasMadeSure(r)',
           answered' => Installed', chat' # NoChat => answered' /\ IsOfItsPage(chat)'
    PROVE  PagesInv'
<1>1. requests' \in [PageRequests -> Visits]
  BY DEF PagesInv
<1>2. ASSUME NEW s \in PageRequests PROVE HasMadeSure(s)'
  <2>1. CASE s = r
    BY <2>1
  <2>2. CASE s # r
    <3>1. requests'[s] = requests[s] /\ HasMadeSure(s) /\ PagesTypes
      BY <2>2 DEF PagesInv
    <3>. QED  BY <3>1, OtherRequestsKeepTheirStage
  <2>. QED  BY <2>1, <2>2
<1>. QED  BY <1>1, <1>2 DEF PagesInv, PagesGrow

LEMMA NobodyHasChatted == NoChat \in Chats /\ NoRequest \in Visits
<1>1. NoChat \in Chats
  BY DEF NoChat, Chats
<1>. QED  BY <1>1 DEF NoRequest, Visits

LEMMA PagesBegin == PagesInit => PagesInv
<1>. SUFFICES ASSUME PagesInit PROVE PagesInv
  OBVIOUS
<1>1. PagesTypes
  <2>1. 0 \in 0..MaxCopies
    BY PagesAssumption
  <2>. QED  BY <2>1, NobodyHasChatted DEF PagesInit, PagesTypes
<1>2. requests \in [PageRequests -> Visits]
  BY NobodyHasChatted DEF PagesInit
<1>3. \A r \in PageRequests : HasMadeSure(r)
  BY DEF PagesInit, HasMadeSure, Stage, NoRequest
<1>. QED  BY <1>1, <1>2, <1>3 DEF PagesInit, PagesInv

LEMMA PagesRest ==
    ASSUME PagesInv, UNCHANGED <<pages, models, copies, chat>>,
           answered' \in BOOLEAN, answered => answered'
    PROVE  PagesGrow /\ (Installed => Installed')
<1>1. PagesTypes
  BY DEF PagesInv
<1>2. \A route \in Routes : copies[route] <= copies'[route]
  <2>1. \A route \in Routes : copies[route] \in Nat
    BY <1>1, PagesAssumption DEF PagesTypes
  <2>. QED  BY <2>1
<1>. QED  BY <1>1, <1>2 DEF PagesTypes, PagesGrow, Installed

(* A request that is done, or gives up.                                    *)
LEMMA RequestIsOver ==
    ASSUME PagesInv, PagesGrow, NEW r \in PageRequests,
           requests' = [requests EXCEPT ![r] = NoRequest],
           answered' => Installed', chat' # NoChat => answered' /\ IsOfItsPage(chat)'
    PROVE  PagesInv'
<1>1. requests'[r] = NoRequest
  BY DEF PagesInv
<1>2. HasMadeSure(r)'
  BY <1>1 DEF HasMadeSure, Stage, NoRequest
<1>. QED  BY <1>2, NobodyHasChatted, OneRequest

LEMMA RequestBegins ==
    ASSUME PagesInv, NEW r \in PageRequests, BeginRequest(r)
    PROVE  PagesInv'
<1>. DEFINE new == [NoRequest EXCEPT !.phase = "pages", !.late = answered]
<1>1. requests' = [requests EXCEPT ![r] = new] /\ UNCHANGED <<pages, models, copies, chat, answered>>
  BY DEF BeginRequest
<1>2. answered \in BOOLEAN
  BY DEF PagesInv, PagesTypes
<1>3. new \in Visits /\ new.phase = "pages" /\ new.at = 1 /\ new.late = answered
  BY <1>2, NobodyHasChatted DEF NoRequest, Visits
<1>. HIDE DEF new
<1>4. requests'[r] = new
  BY <1>1 DEF PagesInv
<1>5. HasMadeSure(r)'
  BY <1>1, <1>3, <1>4 DEF HasMadeSure, Stage
<1>6. PagesGrow /\ (Installed => Installed')
  BY <1>1, <1>2, PagesRest
<1>7. (answered' => Installed') /\ (chat' # NoChat => answered' /\ IsOfItsPage(chat)')
  BY <1>1, <1>6 DEF PagesInv, IsOfItsPage
<1>. QED  BY <1>1, <1>3, <1>5, <1>6, <1>7, OneRequest

LEMMA PageIsUpserted ==
    ASSUME PagesInv, NEW r \in PageRequests, UpsertPage(r)
    PROVE  PagesInv'
<1>. DEFINE at   == requests[r].at
            last == (at = 4)
            new  == [requests[r] EXCEPT !.phase = IF last THEN "models" ELSE @,
                                        !.at = IF last THEN 1 ELSE @ + 1]
<1>1. /\ requests' = [requests EXCEPT ![r] = new] /\ UNCHANGED <<models, copies, chat, answered>>
      /\ requests[r].phase = "pages" /\ pages' = pages \cup {RouteSurfaces[at].route}
  BY Surfaces DEF UpsertPage, StageGoes, Stage, PagesInv
<1>2. requests[r] \in Visits /\ at \in 1..4 /\ PagesTypes /\ HasMadeSure(r)
  BY DEF PagesInv, Visits
<1>3. RouteSurfaces[at].route \in Routes
  BY <1>2, Surfaces DEF Routes
<1>4. /\ new \in Visits /\ new.late = requests[r].late
      /\ new.phase = (IF last THEN "models" ELSE "pages")
      /\ new.at = (IF last THEN 1 ELSE at + 1)
  <2>1. (IF last THEN 1 ELSE at + 1) \in 1..4
    BY <1>2
  <2>. QED  BY <1>1, <1>2, <2>1 DEF Visits
<1>. HIDE DEF new
<1>5. requests'[r] = new
  BY <1>1 DEF PagesInv
<1>6. PagesGrow
  <2>1. \A route \in Routes : copies[route] \in Nat
    BY <1>2, PagesAssumption DEF PagesTypes
  <2>2. \A route \in Routes : copies[route] <= copies'[route]
    BY <1>1, <2>1
  <2>. QED  BY <1>1, <1>2, <1>3, <2>2 DEF PagesGrow, PagesTypes
<1>7. \A i \in 1..4 : i < at \/ i = at => RouteSurfaces[i].route \in pages'
  BY <1>1, <1>2 DEF HasMadeSure, Stage
<1>8. HasMadeSure(r)'
  <2>1. CASE last
    <3>1. \A i \in 1..4 : RouteSurfaces[i].route \in pages'
      BY <1>7, <2>1
    <3>2. pages' = Routes
      <4>1. pages' \subseteq Routes
        BY <1>6 DEF PagesGrow, PagesTypes
      <4>2. Routes \subseteq pages'
        BY <3>1, Surfaces DEF Routes
      <4>. QED  BY <4>1, <4>2
    <3>3. 1 \in 1..3 /\ \A i \in 1..3 : ~(i < 1)
      OBVIOUS
    <3>. QED  BY <1>1, <1>2, <1>4, <1>5, <2>1, <3>2, <3>3 DEF HasMadeSure, Stage
  <2>2. CASE ~last
    <3>1. \A i \in 1..4 : i < at + 1 => RouteSurfaces[i].route \in pages'
      BY <1>2, <1>7
    <3>. QED  BY <1>1, <1>2, <1>4, <1>5, <2>2, <3>1 DEF HasMadeSure, Stage
  <2>. QED  BY <2>1, <2>2
<1>9. (answered' => Installed') /\ (chat' # NoChat => answered' /\ IsOfItsPage(chat)')
  BY <1>1, <1>2, <1>6, InstalledStays DEF PagesInv, IsOfItsPage
<1>. QED  BY <1>1, <1>4, <1>6, <1>8, <1>9, OneRequest

LEMMA ModelIsUpserted ==
    ASSUME PagesInv, NEW r \in PageRequests, UpsertModel(r)
    PROVE  PagesInv'
<1>. DEFINE at   == requests[r].at
            last == (at = 3)
            new  == [requests[r] EXCEPT !.phase = IF last THEN "count" ELSE @,
                                        !.at = IF last THEN 1 ELSE @ + 1]
<1>1. /\ requests' = [requests EXCEPT ![r] = new] /\ UNCHANGED <<pages, copies, chat, answered>>
      /\ requests[r].phase = "models" /\ models' = models \cup {ModelDefinitions[at].code}
  BY Surfaces DEF UpsertModel, StageGoes, Stage, PagesInv
<1>2. /\ requests[r] \in Visits /\ at \in 1..3 /\ PagesTypes /\ HasMadeSure(r) /\ pages = Routes
  BY <1>1 DEF PagesInv, Visits, HasMadeSure, Stage
<1>3. ModelDefinitions[at].code \in ModelCodes
  BY <1>2, Surfaces DEF ModelCodes
<1>4. /\ new \in Visits /\ new.late = requests[r].late
      /\ new.phase = (IF last THEN "count" ELSE "models")
      /\ new.at = (IF last THEN 1 ELSE at + 1)
  <2>1. (IF last THEN 1 ELSE at + 1) \in 1..4
    BY <1>2
  <2>. QED  BY <1>1, <1>2, <2>1 DEF Visits
<1>. HIDE DEF new
<1>5. requests'[r] = new
  BY <1>1 DEF PagesInv
<1>6. PagesGrow
  <2>1. \A route \in Routes : copies[route] \in Nat
    BY <1>2, PagesAssumption DEF PagesTypes
  <2>2. \A route \in Routes : copies[route] <= copies'[route]
    BY <1>1, <2>1
  <2>. QED  BY <1>1, <1>2, <1>3, <2>2 DEF PagesGrow, PagesTypes
<1>7. \A i \in 1..3 : i < at \/ i = at => ModelDefinitions[i].code \in models'
  BY <1>1, <1>2 DEF HasMadeSure, Stage
<1>8. HasMadeSure(r)'
  <2>1. CASE last
    <3>1. \A i \in 1..3 : ModelDefinitions[i].code \in models'
      BY <1>7, <2>1
    <3>2. models' = ModelCodes
      <4>1. models' \subseteq ModelCodes
        BY <1>6 DEF PagesGrow, PagesTypes
      <4>2. ModelCodes \subseteq models'
        BY <3>1, Surfaces DEF ModelCodes
      <4>. QED  BY <4>1, <4>2
    <3>3. \A i \in 1..4 : ~(i < 1)
      OBVIOUS
    <3>. QED  BY <1>1, <1>2, <1>4, <1>5, <2>1, <3>2, <3>3 DEF HasMadeSure, Stage
  <2>2. CASE ~last
    <3>1. at + 1 \in 1..3 /\ \A i \in 1..3 : i < at + 1 => ModelDefinitions[i].code \in models'
      BY <1>2, <1>7, <2>2
    <3>. QED  BY <1>1, <1>2, <1>4, <1>5, <2>2, <3>1 DEF HasMadeSure, Stage
  <2>. QED  BY <2>1, <2>2
<1>9. (answered' => Installed') /\ (chat' # NoChat => answered' /\ IsOfItsPage(chat)')
  BY <1>1, <1>2, <1>6, InstalledStays DEF PagesInv, IsOfItsPage
<1>. QED  BY <1>1, <1>4, <1>6, <1>8, <1>9, OneRequest

(* A page that has its examples: the loop goes on to the next.             *)
LEMMA ExamplesAreThere ==
    ASSUME PagesInv, PagesGrow, NEW r \in PageRequests, Stage(r, "count") \/ Stage(r, "create"),
           UNCHANGED <<pages, models, chat, answered>>,
           copies'[RouteSurfaces[requests[r].at].route] > 0,
           requests' = [requests EXCEPT ![r] = [requests[r] EXCEPT
              !.phase = IF requests[r].at = 4 THEN "serve" ELSE "count",
              !.at = IF requests[r].at = 4 THEN 1 ELSE @ + 1]]
    PROVE  PagesInv'
<1>. DEFINE at   == requests[r].at
            last == (at = 4)
            new  == [requests[r] EXCEPT !.phase = IF last THEN "serve" ELSE "count",
                                        !.at = IF last THEN 1 ELSE @ + 1]
<1>1. requests[r] \in Visits /\ at \in 1..4 /\ PagesTypes /\ HasMadeSure(r)
  BY DEF PagesInv, Visits
<1>2. /\ new \in Visits /\ new.late = requests[r].late
      /\ new.phase = (IF last THEN "serve" ELSE "count")
      /\ new.at = (IF last THEN 1 ELSE at + 1)
  <2>1. (IF last THEN 1 ELSE at + 1) \in 1..4
    BY <1>1
  <2>. QED  BY <1>1, <2>1 DEF Visits
<1>3. requests' = [requests EXCEPT ![r] = new]
  OBVIOUS
<1>. HIDE DEF new
<1>4. requests'[r] = new
  BY <1>3 DEF PagesInv
<1>5. \A i \in 1..4 : i < at \/ i = at => copies'[RouteSurfaces[i].route] > 0
  <2>1. ASSUME NEW i \in 1..4, i < at PROVE copies'[RouteSurfaces[i].route] > 0
    <3>. DEFINE route == RouteSurfaces[i].route
    <3>1. route \in Routes
      BY Surfaces DEF Routes
    <3>2. copies[route] > 0
      BY <1>1, <2>1 DEF HasMadeSure
    <3>. HIDE DEF route
    <3>3. copies[route] \in Nat /\ copies'[route] \in Nat /\ copies[route] <= copies'[route]
      BY <1>1, <3>1, PagesAssumption DEF PagesTypes, PagesGrow
    <3>4. copies'[route] > 0
      BY <3>2, <3>3
    <3>. QED  BY <3>4 DEF route
  <2>. QED  BY <2>1
<1>6. pages = Routes /\ models = ModelCodes
  BY <1>1 DEF HasMadeSure
<1>7. HasMadeSure(r)'
  <2>1. CASE last
    <3>1. \A i \in 1..4 : copies'[RouteSurfaces[i].route] > 0
      BY <1>5, <2>1
    <3>2. \A route \in Routes : copies'[route] > 0
      BY <3>1, Surfaces DEF Routes
    <3>3. Installed'
      BY <1>6, <3>2 DEF Installed
    <3>. QED  BY <1>1, <1>2, <1>4, <2>1, <3>3 DEF HasMadeSure, Stage
  <2>2. CASE ~last
    <3>1. \A i \in 1..4 : i < at + 1 => copies'[RouteSurfaces[i].route] > 0
      BY <1>1, <1>5
    <3>. QED  BY <1>1, <1>2, <1>4, <1>6, <2>2, <3>1 DEF HasMadeSure, Stage
  <2>. QED  BY <2>1, <2>2
<1>8. (answered' => Installed') /\ (chat' # NoChat => answered' /\ IsOfItsPage(chat)')
  BY <1>1, InstalledStays DEF PagesInv, IsOfItsPage
<1>. QED  BY <1>2, <1>3, <1>7, <1>8, OneRequest

LEMMA ExamplesAreCounted ==
    ASSUME PagesInv, NEW r \in PageRequests, CountExamples(r)
    PROVE  PagesInv'
<1>. DEFINE at    == requests[r].at
            route == RouteSurfaces[at].route
<1>1. /\ requests[r] \in Visits /\ at \in 1..4 /\ PagesTypes /\ HasMadeSure(r)
      /\ UNCHANGED <<pages, models, copies, chat, answered>> /\ Stage(r, "count")
  BY DEF PagesInv, Visits, CountExamples
<1>2. answered' \in BOOLEAN /\ (answered => answered')
  BY <1>1 DEF PagesTypes
<1>3. PagesGrow /\ (Installed => Installed')
  BY <1>1, <1>2, PagesRest
<1>4. route \in Routes
  BY <1>1, Surfaces DEF Routes
<1>5. CASE copies[route] > 0
  <2>1. requests' = [requests EXCEPT ![r] = [requests[r] EXCEPT
              !.phase = IF requests[r].at = 4 THEN "serve" ELSE "count",
              !.at = IF requests[r].at = 4 THEN 1 ELSE @ + 1]]
    BY <1>1, <1>5, Surfaces DEF CountExamples, StageGoes, PagesInv, Stage
  <2>2. copies'[RouteSurfaces[requests[r].at].route] > 0
    BY <1>1, <1>5
  <2>. QED  BY <1>1, <1>3, <2>1, <2>2, ExamplesAreThere
<1>6. CASE ~(copies[route] > 0)
  <2>. DEFINE new == [requests[r] EXCEPT !.phase = "create"]
  <2>1. requests' = [requests EXCEPT ![r] = new]
    BY <1>6 DEF CountExamples
  <2>2. /\ new \in Visits /\ new.phase = "create" /\ new.at = at
        /\ new.late = requests[r].late
    BY <1>1 DEF Visits
  <2>. HIDE DEF new
  <2>3. requests'[r] = new
    BY <2>1 DEF PagesInv
  <2>4. ~Installed
    BY <1>4, <1>6 DEF Installed
  <2>5. ~answered
    BY <2>4 DEF PagesInv
  <2>6. HasMadeSure(r)'
    BY <1>1, <2>2, <2>3, <2>5 DEF HasMadeSure, Stage
  <2>7. (answered' => Installed') /\ (chat' # NoChat => answered' /\ IsOfItsPage(chat)')
    BY <1>1, <1>3 DEF PagesInv, IsOfItsPage
  <2>. QED  BY <1>3, <2>1, <2>2, <2>6, <2>7, OneRequest
<1>. QED  BY <1>5, <1>6

LEMMA ExamplesAreCreated ==
    ASSUME PagesInv, NEW r \in PageRequests, CreateExamples(r)
    PROVE  PagesInv'
<1>. DEFINE at    == requests[r].at
            route == RouteSurfaces[at].route
<1>1. /\ requests[r] \in Visits /\ at \in 1..4 /\ PagesTypes /\ Stage(r, "create")
      /\ UNCHANGED <<pages, models, chat, answered>>
      /\ copies[route] < MaxCopies /\ copies' = [copies EXCEPT ![route] = @ + 1]
  BY DEF PagesInv, Visits, CreateExamples
<1>2. requests' = [requests EXCEPT ![r] = [requests[r] EXCEPT
              !.phase = IF requests[r].at = 4 THEN "serve" ELSE "count",
              !.at = IF requests[r].at = 4 THEN 1 ELSE @ + 1]]
  BY <1>1, Surfaces DEF CreateExamples
<1>3. route \in Routes
  BY <1>1, Surfaces DEF Routes
<1>. HIDE DEF route
<1>4. \A other \in Routes : copies[other] \in Nat /\ copies[other] \in 0..MaxCopies
  BY <1>1, PagesAssumption DEF PagesTypes
<1>5. copies' \in [Routes -> 0..MaxCopies]
  <2>1. copies[route] + 1 \in 0..MaxCopies
    BY <1>1, <1>3, <1>4, PagesAssumption
  <2>2. copies \in [Routes -> 0..MaxCopies]
    BY <1>1 DEF PagesTypes
  <2>. QED  BY <1>1, <2>1, <2>2
<1>6. copies'[route] = copies[route] + 1 /\ \A other \in Routes : other # route => copies'[other] = copies[other]
  BY <1>1, <1>3 DEF PagesTypes
<1>7. \A other \in Routes : copies[other] <= copies'[other]
  BY <1>4, <1>6
<1>8. PagesGrow
  BY <1>1, <1>5, <1>7 DEF PagesGrow, PagesTypes
<1>9. copies'[RouteSurfaces[requests[r].at].route] > 0
  <2>1. copies'[route] > 0
    BY <1>3, <1>4, <1>6
  <2>. QED  BY <2>1 DEF route
<1>. QED  BY <1>1, <1>2, <1>8, <1>9, ExamplesAreThere

(* Requests that got past the bootstrap.                                   *)
LEMMA RequestIsServed ==
    ASSUME PagesInv, NEW r \in PageRequests,
           ServePage(r) \/ ReadConversation(r) \/ RequestEnds(r)
    PROVE  PagesInv'
<1>1. /\ requests[r] \in Visits /\ PagesTypes /\ HasMadeSure(r)
      /\ UNCHANGED <<pages, models, copies, chat>>
  BY DEF PagesInv, ServePage, ReadConversation, RequestEnds
<1>2. answered' \in BOOLEAN /\ (answered => answered')
  BY <1>1 DEF PagesTypes, ServePage, ReadConversation, RequestEnds
<1>3. PagesGrow /\ (Installed => Installed')
  BY <1>1, <1>2, PagesRest
<1>4. Installed => Installed'
  BY <1>3
<1>5. (answered' => Installed') /\ (chat' # NoChat => answered' /\ IsOfItsPage(chat)')
  <2>1. ServePage(r) \/ ReadConversation(r) => Installed
    BY <1>1 DEF HasMadeSure, ServePage, ReadConversation
  <2>2. RequestEnds(r) => (answered' = answered)
    BY DEF RequestEnds
  <2>3. answered' => Installed'
    BY <1>4, <2>1, <2>2 DEF PagesInv
  <2>. QED  BY <1>1, <1>2, <2>3 DEF PagesInv, IsOfItsPage
<1>6. CASE ServePage(r) \/ RequestEnds(r)
  <2>1. requests' = [requests EXCEPT ![r] = NoRequest]
    BY <1>6 DEF ServePage, RequestEnds
  <2>. QED  BY <1>3, <1>5, <2>1, RequestIsOver
<1>7. CASE ReadConversation(r)
  <2>. DEFINE new == [requests[r] EXCEPT !.phase = "turn", !.read = chat]
  <2>1. requests' = [requests EXCEPT ![r] = new] /\ Stage(r, "serve") /\ chat # NoChat /\ answered'
    BY <1>7 DEF ReadConversation
  <2>2. chat \in Chats
    BY <1>1 DEF PagesTypes
  <2>3. new \in Visits /\ new.phase = "turn" /\ new.read = chat
    BY <1>1, <2>2 DEF Visits
  <2>. HIDE DEF new
  <2>4. requests'[r] = new
    BY <2>1 DEF PagesInv
  <2>5. Installed' /\ IsOfItsPage(chat)
    BY <1>3, <1>1, <2>1 DEF HasMadeSure, PagesInv
  <2>6. HasMadeSure(r)'
    BY <1>1, <2>1, <2>3, <2>4, <2>5 DEF HasMadeSure, Stage, IsOfItsPage
  <2>. QED  BY <1>3, <1>5, <2>1, <2>3, <2>6, OneRequest
<1>. QED  BY <1>6, <1>7

LEMMA ConversationIsCreated ==
    ASSUME PagesInv, NEW r \in PageRequests, CreateConversation(r)
    PROVE  PagesInv'
<1>1. /\ PagesTypes /\ HasMadeSure(r) /\ Stage(r, "serve") /\ chat = NoChat
      /\ requests' = [requests EXCEPT ![r] = NoRequest] /\ answered' = TRUE
      /\ UNCHANGED <<pages, models, copies>>
  BY DEF PagesInv, CreateConversation
<1>2. Installed
  BY <1>1 DEF HasMadeSure
<1>3. PICK asked1 \in Routes \cup {"unknown"}, mode \in RouteModes \cup {"none"},
           model \in ModelCodes \cup {"none"} :
          LET route == NormalizeRouteKey(asked1)
          IN  chat' = [route |-> route, mode |-> ResolveRouteMode(mode, "none", route),
                       model |-> ResolveModel(route, model, "none")]
  BY DEF CreateConversation
<1>. DEFINE route == NormalizeRouteKey(asked1)
            m     == ResolveRouteMode(mode, "none", route)
            code  == ResolveModel(route, model, "none")
<1>4. route \in Routes
  BY Surfaces DEF NormalizeRouteKey
<1>5. chat' = [route |-> route, mode |-> m, model |-> code]
  BY <1>3
<1>. HIDE DEF route
<1>6. HasMode(route, m) /\ m \in RouteModes /\ HasModel(route, code) /\ code \in ModelCodes
  BY <1>2, <1>4, ModesAreOfThePage, ModelsAreOfThePage DEF Installed
<1>. HIDE DEF m, code
<1>7. chat' \in Chats /\ IsOfItsPage(chat')
  BY <1>4, <1>5, <1>6 DEF Chats, IsOfItsPage
<1>8. PagesGrow
  <2>1. \A other \in Routes : copies[other] \in Nat
    BY <1>1, PagesAssumption DEF PagesTypes
  <2>2. \A other \in Routes : copies[other] <= copies'[other]
    BY <1>1, <2>1
  <2>. QED  BY <1>1, <1>7, <2>2 DEF PagesGrow, PagesTypes
<1>9. Installed'
  BY <1>1, <1>2, <1>8, InstalledStays
<1>. QED  BY <1>1, <1>7, <1>8, <1>9, RequestIsOver DEF IsOfItsPage

LEMMA ConversationIsStored ==
    ASSUME PagesInv, NEW r \in PageRequests, StoreConversation(r)
    PROVE  PagesInv'
<1>. DEFINE read == requests[r].read
<1>1. /\ PagesTypes /\ HasMadeSure(r) /\ Stage(r, "turn")
      /\ requests' = [requests EXCEPT ![r] = NoRequest]
      /\ UNCHANGED <<pages, models, copies, answered>>
  BY DEF PagesInv, StoreConversation
<1>2. Installed /\ chat # NoChat /\ read.route = chat.route /\ IsOfItsPage(read)
  BY <1>1 DEF HasMadeSure
<1>3. chat \in Chats /\ answered /\ IsOfItsPage(chat)
  BY <1>1, <1>2 DEF PagesInv, PagesTypes
<1>4. PICK mode \in RouteModes \cup {"none"}, model \in ModelCodes \cup {"none"} :
          chat' = [chat EXCEPT
                 !.mode = ResolveRouteMode(mode, read.mode, read.route),
                 !.model = LET m == ResolveModel(read.route, model, read.model)
                           IN  IF m = "none" THEN @ ELSE m]
  BY DEF StoreConversation
<1>. DEFINE m    == ResolveRouteMode(mode, read.mode, read.route)
            code == ResolveModel(read.route, model, read.model)
            kept1 == IF code = "none" THEN chat.model ELSE code
<1>5. chat' = [chat EXCEPT !.mode = m, !.model = kept1]
  BY <1>3, <1>4 DEF Chats
<1>6. read.route \in Routes
  BY <1>2 DEF IsOfItsPage
<1>7. /\ HasMode(chat.route, m) /\ m \in RouteModes
      /\ HasModel(chat.route, kept1) /\ kept1 \in ModelCodes
  <2>1. /\ HasMode(read.route, m) /\ m \in RouteModes
        /\ HasModel(read.route, code) /\ code \in ModelCodes
    BY <1>2, <1>6, ModesAreOfThePage, ModelsAreOfThePage DEF Installed
  <2>2. HasModel(chat.route, chat.model) /\ chat.model \in ModelCodes
    BY <1>3 DEF IsOfItsPage
  <2>. HIDE DEF m, code, read
  <2>. QED  BY <1>2, <2>1, <2>2
<1>. HIDE DEF m, kept1
<1>8. chat' \in Chats /\ IsOfItsPage(chat') /\ chat'.route = chat.route
  <2>1. /\ chat' \in Chats /\ chat'.route = chat.route /\ chat'.mode = m /\ chat'.model = kept1
    BY <1>3, <1>5, <1>7 DEF Chats
  <2>. QED  BY <1>3, <1>7, <2>1 DEF IsOfItsPage
<1>9. chat' # NoChat
  <2>1. chat'.route \in Routes
    BY <1>8 DEF IsOfItsPage
  <2>. QED  BY <2>1, Surfaces DEF NoChat
<1>10. PagesGrow
  <2>1. \A other \in Routes : copies[other] \in Nat
    BY <1>1, PagesAssumption DEF PagesTypes
  <2>2. \A other \in Routes : copies[other] <= copies'[other]
    BY <1>1, <2>1
  <2>. QED  BY <1>1, <1>8, <1>9, <2>2 DEF PagesGrow, PagesTypes
<1>11. Installed'
  BY <1>1, <1>2, <1>10, InstalledStays
<1>. QED  BY <1>1, <1>3, <1>8, <1>10, <1>11, RequestIsOver DEF IsOfItsPage

LEMMA PagesGoOn ==
    ASSUME PagesInv, [PagesNext]_pagesVars
    PROVE  PagesInv'
<1>1. CASE UNCHANGED pagesVars
  BY <1>1 DEF pagesVars, PagesInv, PagesTypes, HasMadeSure, Stage, Installed, IsOfItsPage
<1>. QED  BY <1>1, RequestBegins, PageIsUpserted, ModelIsUpserted, ExamplesAreCounted,
             ExamplesAreCreated, RequestIsServed, ConversationIsCreated, ConversationIsStored
             DEF PagesNext

(* However many requests find nothing installed at the same time: once one *)
(* is answered every page is there with examples and a later request adds  *)
(* nothing, and a conversation keeps a mode and a model of its page        *)
(* (ensureBootstrapData, resolveRouteMode, resolveModel).                  *)
THEOREM PagesStayInstalled == PagesSpec => []PagesAreKept
<1>1. PagesInv => PagesAreKept
  BY DEF PagesInv, HasMadeSure, Installed, IsOfItsPage, HasMode, HasModel, PagesAreKept
<1>. QED  BY <1>1, PagesBegin, PagesGoOn, PTL DEF PagesSpec

-----------------------------------------------------------------------------
(* Writing tasks.                                                          *)
HistoryEntries == [at : 1..MaxWrites, mode : GenerationModes]
CallRecords ==
    [op : {"none", "outline", "section", "polish", "profile", "update"},
     section : SectionNumbers, body : Bodies \cup {NoBody}, since : 0..MaxWrites,
     outline : Outlines, content : Contents]

(* A history tells of a write that fell back, or is full of later ones.    *)
Told(history, at) ==
    \/ \E k \in DOMAIN history : history[k].at = at /\ history[k].mode = "fallback"
    \/ /\ Len(history) = HistoryLimit
       /\ \A k \in DOMAIN history : history[k].at > at

(* A history in the order of the writes so far.                            *)
InOrder(history, now) ==
    /\ Len(history) <= HistoryLimit
    /\ \A k \in DOMAIN history : history[k].at <= now
    /\ \A k, l \in DOMAIN history : k < l => history[k].at < history[l].at

AsTold(content, now) ==
    /\ InOrder(content.history, now)
    /\ \A i \in SectionNumbers :
          /\ content.sections[i].at <= now
          /\ content.sections[i].by = "fallback" =>
                Told(content.history, content.sections[i].at)

(* The full text of a row was composed from what the row holds.            *)
Composed(row) ==
    \E t \in row.fullText :
        /\ t.sections = row.content.sections
        /\ t.outline = row.outline \/ row.outline.at > t.since

WriteInv ==
    /\ task \in Rows /\ writes \in 0..MaxWrites /\ patched \in BOOLEAN
    /\ calls \in [WriteCalls -> CallRecords]
    /\ AsTold(task.content, writes)
    /\ \A c \in WriteCalls :
          /\ calls[c].since <= writes /\ AsTold(calls[c].content, writes)
          /\ Open(c) => calls[c].outline = task.outline \/ task.outline.at > calls[c].since
    /\ task.status = "completed" /\ ~patched => Composed(task)

LEMMA WriteBounds ==
    /\ MaxWrites \in Nat /\ HistoryLimit \in Nat \ {0} /\ 0 \in 0..MaxWrites
    /\ 0 \in SectionNumbers
BY WriteAssumption DEF SectionNumbers

(* A further entry, and the oldest given up when there are too many.       *)
LEMMA HistoryGrows ==
    ASSUME NEW history \in Seq(HistoryEntries), writes \in Nat, writes < MaxWrites,
           InOrder(history, writes), NEW mode \in GenerationModes,
           NEW longer, longer = BuildExecutionMeta(history, mode)
    PROVE  /\ longer \in Seq(HistoryEntries) /\ longer # <<>> /\ InOrder(longer, Now)
           /\ \E k \in DOMAIN longer : longer[k].at = Now /\ longer[k].mode = mode
           /\ \A at \in 0..writes : Told(history, at) => Told(longer, at)
<1>. DEFINE entry == [at |-> Now, mode |-> mode]
            all   == Append(history, entry)
            n     == Len(history)
<1>1. entry \in HistoryEntries /\ entry.at = Now /\ entry.mode = mode
  BY WriteBounds DEF HistoryEntries, Now
<1>2. n \in Nat /\ DOMAIN history = 1..n /\ n <= HistoryLimit /\ HistoryLimit \in Nat \ {0}
  BY LenProperties, WriteBounds DEF InOrder
<1>. HIDE DEF entry
<1>3. /\ all \in Seq(HistoryEntries) /\ Len(all) = n + 1 /\ all # <<>>
      /\ \A k \in 1..n : all[k] = history[k]
      /\ all[n + 1] = entry
  BY <1>1, AppendProperties
<1>4. DOMAIN all = 1..(n + 1)
  BY <1>2, <1>3, LenProperties
<1>13. Len(history) = n
  OBVIOUS
<1>. HIDE DEF all, n
<1>5. longer = IF n + 1 > HistoryLimit THEN Tail(all) ELSE all
  BY <1>3 DEF BuildExecutionMeta, all, entry
<1>6. \A k \in 1..n : history[k].at \in Nat /\ history[k].at <= writes
  <2>1. \A k \in 1..n : history[k] \in HistoryEntries
    BY <1>2, <1>13, ElementOfSeq
  <2>2. \A k \in 1..n : history[k].at \in Nat
    BY <2>1, WriteBounds DEF HistoryEntries
  <2>. QED  BY <1>2, <2>2 DEF InOrder
<1>7. \A k, l \in 1..n : k < l => history[k].at < history[l].at
  BY <1>2 DEF InOrder
<1>8. Now = writes + 1
  BY DEF Now
<1>9. \A k, l \in 1..(n + 1) : k < l => all[k].at < all[l].at
  <2>1. ASSUME NEW k \in 1..(n + 1), NEW l \in 1..(n + 1), k < l
        PROVE  all[k].at < all[l].at
    <3>1. k \in 1..n
      BY <1>2, <2>1
    <3>2. CASE l = n + 1
      <4>1. all[l].at = writes + 1 /\ all[k].at <= writes /\ all[k].at \in Nat
        BY <1>1, <1>3, <1>6, <1>8, <3>1, <3>2
      <4>. QED  BY <4>1
    <3>3. CASE l # n + 1
      <4>1. l \in 1..n
        BY <1>2, <3>3
      <4>. QED  BY <1>3, <1>7, <2>1, <3>1, <4>1
    <3>. QED  BY <3>2, <3>3
  <2>. QED  BY <2>1
<1>10. \A k \in 1..(n + 1) : all[k].at \in Nat /\ all[k].at <= Now
  <2>1. ASSUME NEW k \in 1..(n + 1) PROVE all[k].at \in Nat /\ all[k].at <= Now
    <3>1. CASE k = n + 1
      <4>1. all[k].at = Now
        BY <1>1, <1>3, <3>1
      <4>. QED  BY <1>8, <4>1
    <3>2. CASE k # n + 1
      <4>1. k \in 1..n
        BY <1>2, <3>2
      <4>2. all[k].at \in Nat /\ all[k].at <= writes
        BY <1>3, <1>6, <4>1
      <4>. QED  BY <1>8, <4>2
    <3>. QED  BY <3>1, <3>2
  <2>. QED  BY <2>1
<1>11. CASE n + 1 > HistoryLimit
  <2>1. n = HistoryLimit
    <3>1. \A a, b \in Nat : a <= b /\ a + 1 > b => a = b
      OBVIOUS
    <3>. QED  BY <1>2, <1>11, <3>1
  <2>2. longer = Tail(all) /\ all # <<>>
    BY <1>2, <1>3, <1>4, <1>5, <1>11
  <2>3. /\ longer \in Seq(HistoryEntries) /\ Len(longer) = n
        /\ \A k \in 1..n : longer[k] = all[k + 1]
    <3>1. Len(all) = n + 1 /\ Len(longer) = Len(all) - 1 /\ longer \in Seq(HistoryEntries)
          /\ \A k \in 1..Len(longer) : longer[k] = all[k + 1]
      BY <1>3, <2>2, HeadTailProperties
    <3>2. Len(longer) = n
      BY <1>2, <3>1
    <3>. QED  BY <3>1, <3>2
  <2>4. DOMAIN longer = 1..n /\ longer # <<>>
    <3>1. DOMAIN longer = 1..n
      BY <2>3, LenProperties
    <3>2. longer = <<>> => n = 0
      BY <2>3, EmptySeq
    <3>. QED  BY <1>2, <2>1, <3>1, <3>2
  <2>5. \A k \in 1..n : k + 1 \in 1..(n + 1)
    BY <1>2
  <2>6. InOrder(longer, Now)
    <3>1. \A k \in 1..n : longer[k].at <= Now
      BY <1>10, <2>3, <2>5
    <3>2. ASSUME NEW k \in 1..n, NEW l \in 1..n, k < l PROVE longer[k].at < longer[l].at
      <4>1. k + 1 < l + 1
        BY <1>2, <3>2
      <4>. QED  BY <1>9, <2>3, <2>5, <4>1
    <3>. QED  BY <1>2, <2>3, <2>4, <3>1, <3>2 DEF InOrder
  <2>7. \E k \in DOMAIN longer : longer[k].at = Now /\ longer[k].mode = mode
    <3>1. n \in 1..n
      BY <1>2, <2>1
    <3>. QED  BY <1>1, <1>3, <2>3, <2>4, <3>1
  <2>8. ASSUME NEW at \in 0..writes, Told(history, at) PROVE Told(longer, at)
    <3>1. CASE \E k \in 2..n : history[k].at = at /\ history[k].mode = "fallback"
      <4>1. PICK k \in 2..n : history[k].at = at /\ history[k].mode = "fallback"
        BY <3>1
      <4>2. k - 1 \in 1..n /\ k \in 1..n /\ (k - 1) + 1 = k
        BY <1>2
      <4>3. longer[k - 1] = history[k]
        BY <1>3, <2>3, <4>2
      <4>. QED  BY <2>4, <4>1, <4>2, <4>3 DEF Told
    <3>2. CASE history[1].at = at \/ \A k \in 1..n : history[k].at > at
      <4>1. ASSUME NEW k \in 1..n PROVE longer[k].at > at
        <5>1. CASE k = n
          <6>1. longer[k].at = Now
            BY <1>1, <1>3, <2>3, <5>1
          <6>. QED  BY <1>8, <6>1
        <5>2. CASE k # n
          <6>1. k + 1 \in 1..n /\ 1 \in 1..n /\ 1 < k + 1
            BY <1>2, <5>2
          <6>2. history[k + 1].at > at
            <7>1. history[1].at < history[k + 1].at
              BY <1>7, <6>1
            <7>2. history[1].at \in Nat /\ history[k + 1].at \in Nat
              BY <1>6, <6>1
            <7>. QED  BY <3>2, <6>1, <7>1, <7>2
          <6>. QED  BY <1>3, <2>3, <6>1, <6>2
        <5>. QED  BY <5>1, <5>2
      <4>. QED  BY <2>1, <2>3, <2>4, <4>1 DEF Told
    <3>3. ASSUME NEW k \in 1..n, history[k].at = at, history[k].mode = "fallback"
          PROVE  (\E l \in 2..n : history[l].at = at /\ history[l].mode = "fallback")
                    \/ history[1].at = at
      <4>1. k \in 2..n \/ k = 1
        BY <1>2
      <4>. QED  BY <3>3, <4>1
    <3>. QED  BY <1>2, <2>8, <3>1, <3>2, <3>3 DEF Told
  <2>. QED  BY <2>3, <2>4, <2>6, <2>7, <2>8
<1>12. CASE ~(n + 1 > HistoryLimit)
  <2>1. longer = all /\ n + 1 <= HistoryLimit /\ n # HistoryLimit
    BY <1>2, <1>5, <1>12
  <2>2. InOrder(longer, Now)
    BY <1>3, <1>4, <1>9, <1>10, <2>1 DEF InOrder
  <2>3. n + 1 \in 1..(n + 1) /\ \A k \in 1..n : k \in 1..(n + 1)
    BY <1>2
  <2>4. \E k \in DOMAIN longer : longer[k].at = Now /\ longer[k].mode = mode
    BY <1>1, <1>3, <1>4, <2>1, <2>3
  <2>5. ASSUME NEW at \in 0..writes, Told(history, at) PROVE Told(longer, at)
    <3>1. PICK k \in 1..n : history[k].at = at /\ history[k].mode = "fallback"
      BY <1>2, <2>1, <2>5 DEF Told
    <3>. QED  BY <1>3, <1>4, <2>1, <2>3, <3>1 DEF Told
  <2>6. longer # <<>>
    BY <1>3, <2>1
  <2>. QED  BY <1>3, <2>1, <2>2, <2>4, <2>5, <2>6
<1>. QED  BY <1>11, <1>12

(* The mode shown is "fallback" exactly when an entry says so.             *)
LEMMA ModeShown ==
    ASSUME NEW history,
           NEW k \in DOMAIN history, history[k].mode = "fallback"
    PROVE  GenerationMode(history) = "fallback"
BY DEF GenerationMode

LEMMA AsToldLater ==
    ASSUME NEW content \in Contents, NEW now \in Nat, NEW later \in Nat, now <= later,
           AsTold(content, now)
    PROVE  AsTold(content, later)
<1>1. content.history \in Seq(HistoryEntries) /\ content.sections \in [SectionNumbers -> Texts]
  BY DEF Contents, HistoryEntries
<1>2. \A k \in DOMAIN content.history : content.history[k].at \in Nat
  <2>1. ASSUME NEW k \in DOMAIN content.history PROVE content.history[k].at \in Nat
    <3>1. content.history[k] \in HistoryEntries
      BY <1>1, ElementOfSeq, LenProperties
    <3>. QED  BY <3>1, WriteBounds DEF HistoryEntries
  <2>. QED  BY <2>1
<1>3. \A i \in SectionNumbers : content.sections[i].at \in Nat
  BY <1>1, WriteBounds DEF Texts
<1>4. InOrder(content.history, later)
  BY <1>2 DEF AsTold, InOrder
<1>5. \A i \in SectionNumbers : content.sections[i].at <= later
  BY <1>3 DEF AsTold
<1>. QED  BY <1>4, <1>5 DEF AsTold

(* Sections kept or written now, with an entry for what wrote them.        *)
LEMMA ContentGrows ==
    ASSUME NEW content \in Contents, writes \in Nat, writes < MaxWrites,
           AsTold(content, writes),
           NEW mode \in GenerationModes, NEW sections \in [SectionNumbers -> Texts],
           \A i \in SectionNumbers :
              \/ sections[i] = content.sections[i]
              \/ /\ sections[i].at = Now
                 /\ sections[i].by = "fallback" => mode = "fallback",
           NEW new,
           new = [sections |-> sections, profile |-> content.profile,
                  history |-> BuildExecutionMeta(content.history, mode)]
    PROVE  /\ new \in Contents /\ AsTold(new, Now)
           /\ BuildStoredContent(new) = new /\ new.sections = sections
<1>. DEFINE longer == BuildExecutionMeta(content.history, mode)
<1>1. /\ content.history \in Seq(HistoryEntries) /\ content.profile \in BOOLEAN
      /\ content.sections \in [SectionNumbers -> Texts]
  BY DEF Contents, HistoryEntries
<1>2. InOrder(content.history, writes)
  BY DEF AsTold
<1>3. /\ longer \in Seq(HistoryEntries) /\ longer # <<>> /\ InOrder(longer, Now)
      /\ \E k \in DOMAIN longer : longer[k].at = Now /\ longer[k].mode = mode
      /\ \A at \in 0..writes : Told(content.history, at) => Told(longer, at)
  BY <1>1, <1>2, HistoryGrows
<1>4. new = [sections |-> sections, profile |-> content.profile, history |-> longer]
  OBVIOUS
<1>. HIDE DEF longer
<1>5. new.sections = sections /\ new.history = longer
  BY <1>4
<1>6. new \in Contents
  BY <1>1, <1>3, <1>4 DEF Contents, HistoryEntries
<1>7. new # EmptyContent
  BY <1>3, <1>5 DEF EmptyContent
<1>8. \A i \in SectionNumbers : content.sections[i].at \in 0..writes
  BY <1>1, WriteBounds DEF AsTold, Texts
<1>9. \A i \in SectionNumbers : sections[i].at <= Now
  BY <1>8 DEF Now
<1>10. ASSUME NEW i \in SectionNumbers, sections[i].by = "fallback"
       PROVE  Told(longer, sections[i].at)
  <2>1. CASE sections[i] = content.sections[i]
    BY <1>3, <1>8, <1>10, <2>1 DEF AsTold
  <2>2. CASE sections[i] # content.sections[i]
    <3>1. sections[i].at = Now /\ mode = "fallback"
      BY <1>10, <2>2
    <3>. QED  BY <1>3, <3>1 DEF Told
  <2>. QED  BY <2>1, <2>2
<1>11. AsTold(new, Now)
  BY <1>3, <1>5, <1>9, <1>10 DEF AsTold
<1>. QED  BY <1>5, <1>6, <1>7, <1>11 DEF BuildStoredContent

(* Sections kept, cleared or written by hand, the history as it was.       *)
LEMMA ContentIsPatched ==
    ASSUME NEW content \in Contents, writes \in Nat, writes < MaxWrites,
           AsTold(content, writes),
           NEW sections \in [SectionNumbers -> Texts],
           \A i \in SectionNumbers :
              \/ sections[i] = content.sections[i]
              \/ sections[i] = NoText \/ sections[i] = [at |-> Now, by |-> "user"],
           NEW profile \in BOOLEAN, NEW new,
           new = [sections |-> sections, profile |-> profile, history |-> content.history]
    PROVE  new \in Contents /\ AsTold(new, Now)
<1>1. /\ content.history \in Seq(HistoryEntries)
      /\ content.sections \in [SectionNumbers -> Texts]
  BY DEF Contents, HistoryEntries
<1>2. writes \in Nat /\ Now \in Nat /\ writes <= Now
  BY DEF Now
<1>3. AsTold(content, Now)
  BY <1>2, AsToldLater
<1>4. new.sections = sections /\ new.history = content.history
  OBVIOUS
<1>5. new \in Contents
  BY <1>1 DEF Contents, HistoryEntries
<1>6. \A i \in SectionNumbers : sections[i].at <= Now
  BY <1>2, <1>3 DEF AsTold, NoText
<1>7. \A i \in SectionNumbers :
         sections[i].by = "fallback" => sections[i] = content.sections[i]
  BY DEF NoText
<1>. QED  BY <1>3, <1>4, <1>5, <1>6, <1>7 DEF AsTold

(* What is stored instead of nothing is what the row holds.                *)
LEMMA ContentIsStored ==
    ASSUME WriteInv, writes < MaxWrites, NEW new \in Contents, AsTold(new, Now)
    PROVE  BuildStoredContent(new) \in Contents /\ AsTold(BuildStoredContent(new), Now)
<1>1. task.content \in Contents /\ AsTold(task.content, writes)
  BY DEF WriteInv, Rows
<1>2. writes \in Nat /\ Now \in Nat /\ writes <= Now
  BY WriteBounds DEF WriteInv, Now
<1>3. AsTold(task.content, Now)
  BY <1>1, <1>2, AsToldLater
<1>. QED  BY <1>1, <1>3 DEF BuildStoredContent

LEMMA IdleIsFine ==
    ASSUME NEW now \in Nat
    PROVE  /\ Idle \in CallRecords /\ AsTold(EmptyContent, now) /\ EmptyContent \in Contents
           /\ Idle.content = EmptyContent /\ AsTold(Idle.content, now)
<1>1. <<>> \in Seq(HistoryEntries) /\ Len(<<>>) = 0 /\ DOMAIN <<>> = {}
  BY EmptySeq
<1>2. NoText \in Texts /\ NoText.at <= now /\ NoText.by # "fallback"
  BY WriteBounds DEF NoText, Texts
<1>3. EmptyContent \in Contents
  BY <1>1, <1>2 DEF EmptyContent, Contents, HistoryEntries
<1>4. AsTold(EmptyContent, now)
  <2>1. EmptyContent.history = <<>>
        /\ \A i \in SectionNumbers : EmptyContent.sections[i] = NoText
    BY DEF EmptyContent
  <2>2. InOrder(<<>>, now)
    BY <1>1, WriteBounds DEF InOrder
  <2>. QED  BY <1>2, <2>1, <2>2 DEF AsTold
<1>5. [at |-> 0, size |-> 0] \in Outlines
  BY WriteAssumption DEF Outlines
<1>6. Idle \in CallRecords /\ Idle.content = EmptyContent
  BY <1>3, <1>5, WriteBounds DEF Idle, CallRecords
<1>. QED  BY <1>3, <1>4, <1>6

LEMMA WriteKeeps ==
    ASSUME WriteInv, NEW c \in WriteCalls, NEW row \in Rows, Write(c, row),
           AsTold(row.content, Now), row.outline = task.outline \/ row.outline.at = Now,
           patched' \in BOOLEAN, row.status = "completed" /\ ~patched' => Composed(row)
    PROVE  WriteInv'
<1>1. writes \in Nat /\ Now \in Nat /\ writes <= Now /\ writes' = Now /\ Now \in 0..MaxWrites
  BY WriteBounds DEF WriteInv, Write, Now
<1>2. task' = row /\ calls' = [calls EXCEPT ![c] = Idle]
  BY DEF Write
<1>3. Idle \in CallRecords /\ AsTold(EmptyContent, Now) /\ EmptyContent \in Contents
  BY <1>1, IdleIsFine
<1>4. calls' \in [WriteCalls -> CallRecords]
  BY <1>2, <1>3 DEF WriteInv
<1>5. ASSUME NEW d \in WriteCalls
      PROVE  /\ calls'[d].since <= Now /\ AsTold(calls'[d].content, Now)
             /\ calls'[d].op # "none" =>
                   calls'[d].outline = row.outline \/ row.outline.at > calls'[d].since
  <2>1. CASE d = c
    <3>1. calls'[d] = Idle /\ Idle.op = "none" /\ Idle.since = 0 /\ Idle.content = EmptyContent
      BY <1>2, <2>1 DEF WriteInv, Idle
    <3>. QED  BY <1>1, <1>3, <3>1
  <2>2. CASE d # c
    <3>1. calls'[d] = calls[d] /\ calls[d] \in CallRecords
      BY <1>2, <2>2 DEF WriteInv
    <3>2. calls[d].content \in Contents /\ calls[d].since \in 0..MaxWrites
      BY <3>1 DEF CallRecords
    <3>3. calls[d].since \in Nat /\ calls[d].since <= writes
          /\ AsTold(calls[d].content, writes)
      BY <3>2, WriteBounds DEF WriteInv
    <3>4. calls[d].since <= Now /\ AsTold(calls[d].content, Now)
      BY <1>1, <3>2, <3>3, AsToldLater
    <3>5. row.outline.at = Now => row.outline.at > calls[d].since
      BY <3>3, <1>1 DEF Now
    <3>6. calls[d].op # "none" =>
             calls[d].outline = row.outline \/ row.outline.at > calls[d].since
      BY <3>5 DEF WriteInv, Open
    <3>. QED  BY <3>1, <3>4, <3>6
  <2>. QED  BY <2>1, <2>2
<1>. QED  BY <1>1, <1>2, <1>4, <1>5 DEF WriteInv, Open, Composed

LEMMA Rewriting ==
    ASSUME NEW content \in Contents, NEW s
    PROVE  /\ [content EXCEPT !.sections = s]
                = [sections |-> s, profile |-> content.profile, history |-> content.history]
           /\ [content EXCEPT !.history = s]
                = [sections |-> content.sections, profile |-> content.profile, history |-> s]
           /\ [content EXCEPT !.profile = s]
                = [sections |-> content.sections, profile |-> s, history |-> content.history]
BY DEF Contents

LEMMA RowsRewritten ==
    ASSUME task \in Rows, NEW s
    PROVE  /\ [task EXCEPT !.outline = s]
                = [status |-> task.status, outline |-> s, content |-> task.content,
                   fullText |-> task.fullText]
           /\ [task EXCEPT !.content = s]
                = [status |-> task.status, outline |-> task.outline, content |-> s,
                   fullText |-> task.fullText]
           /\ [task EXCEPT !.fullText = s]
                = [status |-> task.status, outline |-> task.outline,
                   content |-> task.content, fullText |-> s]
           /\ [task EXCEPT !.status = s]
                = [status |-> s, outline |-> task.outline, content |-> task.content,
                   fullText |-> task.fullText]
BY DEF Rows

LEMMA CallTypes ==
    ASSUME WriteInv, NEW c \in WriteCalls
    PROVE  /\ calls[c] \in CallRecords /\ calls[c].content \in Contents
           /\ calls[c].outline \in Outlines /\ calls[c].since \in 0..MaxWrites
           /\ calls[c].section \in SectionNumbers /\ calls[c].body \in Bodies \cup {NoBody}
           /\ calls[c].content.sections \in [SectionNumbers -> Texts]
           /\ AsTold(calls[c].content, writes)
           /\ writes \in Nat /\ task \in Rows
<1>1. calls[c] \in CallRecords
  BY DEF WriteInv
<1>2. calls[c].content \in Contents
  BY <1>1 DEF CallRecords
<1>. QED  BY <1>1, <1>2, WriteBounds DEF WriteInv, CallRecords, Contents

LEMMA Modes ==
    \A answer \in Answers, knowledge \in {"asked", "not_requested"} :
       ModeOf(answer, knowledge) \in GenerationModes
BY DEF Answers, ModeOf, GenerationModes

(* What a handler stores is what it read, what it found, or what it was    *)
(* asked to write.                                                         *)
Faithful(c) ==
    /\ \A i \in SectionNumbers :
          \/ task'.content.sections[i] \in
                {task.content.sections[i], calls[c].content.sections[i]}
          \/ AskedFor(c, i)
    /\ \/ task'.content.profile \in {TRUE, task.content.profile, calls[c].content.profile}
       \/ calls[c].op = "update" /\ calls[c].body.profile = "clear"

LEMMA OutlineKeeps ==
    ASSUME WriteInv, NEW c \in WriteCalls, EndOutline(c)
    PROVE  WriteInv' /\ Faithful(c)
<1>13. PICK answer \in Answers : \E n \in OutlineSizes(answer) :
         Write(c, [task EXCEPT
             !.outline = [at |-> Now, size |-> n],
             !.content = BuildStoredContent([calls[c].content EXCEPT
                 !.history = BuildExecutionMeta(@, ModeOf(answer, Knowledge))]),
             !.status = "outline_ready"])
  BY DEF EndOutline
<1>1. PICK n \in OutlineSizes(answer) :
         Write(c, [task EXCEPT
             !.outline = [at |-> Now, size |-> n],
             !.content = BuildStoredContent([calls[c].content EXCEPT
                 !.history = BuildExecutionMeta(@, ModeOf(answer, Knowledge))]),
             !.status = "outline_ready"])
  BY <1>13
<1>. DEFINE mode == ModeOf(answer, Knowledge)
            read == calls[c].content
            longer == BuildExecutionMeta(read.history, mode)
            new  == [read EXCEPT !.history = longer]
            o    == [at |-> Now, size |-> n]
            k    == BuildStoredContent(new)
            one  == [task EXCEPT !.outline = o]
            two  == [one EXCEPT !.content = k]
            row  == [two EXCEPT !.status = "outline_ready"]
<1>2. Write(c, row)
  BY <1>1
<1>3. writes \in Nat /\ writes < MaxWrites /\ Now \in 0..MaxWrites
  BY <1>2, CallTypes, WriteBounds DEF Write, Now
<1>4. mode \in GenerationModes
  BY Modes DEF Knowledge
<1>5. o \in Outlines /\ o.at = Now
  BY <1>3, WriteAssumption DEF OutlineSizes, Outlines
<1>6. read \in Contents /\ AsTold(read, writes) /\ read.sections \in [SectionNumbers -> Texts]
  BY CallTypes
<1>. HIDE DEF mode, read
<1>7. new = [sections |-> read.sections, profile |-> read.profile, history |-> longer]
  BY <1>6, Rewriting
<1>. HIDE DEF new
<1>8. new \in Contents /\ AsTold(new, Now)
  BY <1>3, <1>4, <1>6, <1>7, ContentGrows
<1>14. k \in {new, task.content}
  BY DEF BuildStoredContent
<1>9. k \in Contents /\ AsTold(k, Now)
  BY <1>3, <1>8, ContentIsStored
<1>. HIDE DEF k, o
<1>10. /\ row = [status |-> "outline_ready", outline |-> o, content |-> k,
                 fullText |-> task.fullText]
       /\ row \in Rows
  <2>1. task \in Rows
    BY DEF WriteInv
  <2>2. row = [status |-> "outline_ready", outline |-> o, content |-> k,
               fullText |-> task.fullText]
    <3>1. one = [status |-> task.status, outline |-> o, content |-> task.content,
                 fullText |-> task.fullText]
      BY <2>1, RowsRewritten
    <3>. HIDE DEF one
    <3>2. two = [status |-> task.status, outline |-> o, content |-> k,
                 fullText |-> task.fullText]
      BY <3>1
    <3>. HIDE DEF two
    <3>. QED  BY <3>2
  <2>3. task.fullText \in SUBSET FullTexts
    BY <2>1 DEF Rows
  <2>. QED  BY <1>5, <1>9, <2>2, <2>3 DEF Rows
<1>. HIDE DEF row
<1>11. row.status = "outline_ready" /\ row.outline = o /\ row.content = k
  BY <1>10
<1>12. patched' \in BOOLEAN
  BY DEF EndOutline, WriteInv
<1>15. task' = row
  BY <1>2 DEF Write
<1>16. new.sections = read.sections /\ new.profile = read.profile
  BY <1>7
<1>17. Faithful(c)
  BY <1>11, <1>14, <1>15, <1>16 DEF Faithful, read
<1>. QED  BY <1>2, <1>5, <1>9, <1>10, <1>11, <1>12, <1>17, WriteKeeps

LEMMA SectionKeeps ==
    ASSUME WriteInv, NEW c \in WriteCalls, EndSection(c)
    PROVE  WriteInv' /\ Faithful(c)
<1>1. PICK answer \in Answers :
         Write(c, [task EXCEPT
             !.content = BuildStoredContent([calls[c].content EXCEPT
                 !.sections = SectionMap(@, calls[c].section, SectionText(answer)),
                 !.history = BuildExecutionMeta(@, ModeOf(answer, Knowledge))]),
             !.status = "outline_ready"])
  BY DEF EndSection
<1>. DEFINE mode == ModeOf(answer, Knowledge)
            read == calls[c].content
            text == SectionText(answer)
            sections == SectionMap(read.sections, calls[c].section, text)
            longer == BuildExecutionMeta(read.history, mode)
            half == [read EXCEPT !.sections = sections]
            new  == [half EXCEPT !.history = longer]
            k    == BuildStoredContent(new)
            one  == [task EXCEPT !.content = k]
            row  == [one EXCEPT !.status = "outline_ready"]
<1>2. Write(c, row)
  BY <1>1
<1>3. writes \in Nat /\ writes < MaxWrites /\ Now \in 0..MaxWrites
  BY <1>2, CallTypes, WriteBounds DEF Write, Now
<1>4. mode \in GenerationModes
  BY Modes DEF Knowledge
<1>5. text \in Texts /\ text.at = Now /\ (text.by = "fallback" => mode = "fallback")
  BY <1>3, <1>4 DEF SectionText, Texts
<1>6. read \in Contents /\ AsTold(read, writes) /\ read.sections \in [SectionNumbers -> Texts]
  BY CallTypes
<1>. HIDE DEF mode, read, text
<1>7. /\ sections \in [SectionNumbers -> Texts]
      /\ \A i \in SectionNumbers : sections[i] = read.sections[i] \/ sections[i] = text
  BY <1>5, <1>6 DEF SectionMap
<1>. HIDE DEF sections
<1>8. new = [sections |-> sections, profile |-> read.profile, history |-> longer]
  <2>1. half = [sections |-> sections, profile |-> read.profile, history |-> read.history]
    BY <1>6, Rewriting
  <2>. HIDE DEF half, longer
  <2>. QED  BY <2>1
<1>9. \A i \in SectionNumbers :
         \/ sections[i] = read.sections[i]
         \/ sections[i].at = Now /\ (sections[i].by = "fallback" => mode = "fallback")
  BY <1>5, <1>7
<1>10. new \in Contents /\ AsTold(new, Now)
  BY <1>3, <1>4, <1>6, <1>7, <1>8, <1>9, ContentGrows
<1>. HIDE DEF new
<1>11. k \in Contents /\ AsTold(k, Now)
  BY <1>3, <1>10, ContentIsStored
<1>15. k \in {new, task.content}
  BY DEF BuildStoredContent
<1>. HIDE DEF k
<1>12. /\ row = [status |-> "outline_ready", outline |-> task.outline, content |-> k,
                 fullText |-> task.fullText]
       /\ row \in Rows
  <2>1. task \in Rows
    BY DEF WriteInv
  <2>2. row = [status |-> "outline_ready", outline |-> task.outline, content |-> k,
               fullText |-> task.fullText]
    <3>1. one = [status |-> task.status, outline |-> task.outline, content |-> k,
                 fullText |-> task.fullText]
      BY <2>1, RowsRewritten
    <3>. HIDE DEF one
    <3>. QED  BY <3>1
  <2>3. task.fullText \in SUBSET FullTexts /\ task.outline \in Outlines
    BY <2>1 DEF Rows
  <2>. QED  BY <1>11, <2>2, <2>3 DEF Rows
<1>. HIDE DEF row
<1>13. row.status = "outline_ready" /\ row.outline = task.outline /\ row.content = k
  BY <1>12
<1>14. patched' \in BOOLEAN
  BY DEF EndSection, WriteInv
<1>16. task' = row
  BY <1>2 DEF Write
<1>17. new.sections = sections /\ new.profile = read.profile
  BY <1>8
<1>18. \A i \in SectionNumbers : sections[i] = read.sections[i] \/ AskedFor(c, i)
  BY <1>6 DEF sections, SectionMap, AskedFor, EndSection
<1>19. Faithful(c)
  BY <1>13, <1>15, <1>16, <1>17, <1>18 DEF Faithful, read
<1>. QED  BY <1>2, <1>11, <1>12, <1>13, <1>14, <1>19, WriteKeeps

LEMMA PolishKeeps ==
    ASSUME WriteInv, NEW c \in WriteCalls, EndPolish(c)
    PROVE  WriteInv' /\ Faithful(c)
<1>1. PICK answer \in Answers :
         Write(c, [task EXCEPT
             !.fullText = {FullTextOf(c)},
             !.content = BuildStoredContent([calls[c].content EXCEPT
                 !.history = BuildExecutionMeta(@, ModeOf(answer, "not_requested"))]),
             !.status = "completed"])
  BY DEF EndPolish
<1>. DEFINE mode == ModeOf(answer, "not_requested")
            read == calls[c].content
            longer == BuildExecutionMeta(read.history, mode)
            new  == [read EXCEPT !.history = longer]
            k    == BuildStoredContent(new)
            f    == {FullTextOf(c)}
            one  == [task EXCEPT !.fullText = f]
            two  == [one EXCEPT !.content = k]
            row  == [two EXCEPT !.status = "completed"]
<1>2. Write(c, row)
  BY <1>1
<1>3. writes \in Nat /\ writes < MaxWrites
  BY <1>2, CallTypes DEF Write
<1>4. mode \in GenerationModes
  BY Modes
<1>5. read \in Contents /\ AsTold(read, writes) /\ read.sections \in [SectionNumbers -> Texts]
  BY CallTypes
<1>6. f \in SUBSET FullTexts
  BY CallTypes DEF FullTextOf, FullTexts
<1>7. /\ FullTextOf(c).sections = read.sections
      /\ FullTextOf(c).outline = calls[c].outline /\ FullTextOf(c).since = calls[c].since
  BY DEF FullTextOf
<1>8. calls[c].outline = task.outline \/ task.outline.at > calls[c].since
  BY DEF WriteInv, EndPolish, Open
<1>. HIDE DEF mode, read
<1>9. new = [sections |-> read.sections, profile |-> read.profile, history |-> longer]
  BY <1>5, Rewriting
<1>10. /\ new \in Contents /\ AsTold(new, Now)
       /\ BuildStoredContent(new) = new /\ new.sections = read.sections
  BY <1>3, <1>4, <1>5, <1>9, ContentGrows
<1>. HIDE DEF new
<1>11. k \in Contents /\ AsTold(k, Now) /\ k.sections = read.sections
  BY <1>10
<1>. HIDE DEF k
<1>12. /\ row = [status |-> "completed", outline |-> task.outline, content |-> k,
                 fullText |-> f]
       /\ row \in Rows
  <2>1. task \in Rows
    BY DEF WriteInv
  <2>. HIDE DEF f
  <2>2. row = [status |-> "completed", outline |-> task.outline, content |-> k, fullText |-> f]
    <3>1. one = [status |-> task.status, outline |-> task.outline,
                 content |-> task.content, fullText |-> f]
      BY <2>1, RowsRewritten
    <3>. HIDE DEF one
    <3>2. two = [status |-> task.status, outline |-> task.outline, content |-> k,
                 fullText |-> f]
      BY <3>1
    <3>. HIDE DEF two
    <3>. QED  BY <3>2
  <2>3. task.outline \in Outlines
    BY <2>1 DEF Rows
  <2>. QED  BY <1>6, <1>11, <2>2, <2>3 DEF Rows
<1>. HIDE DEF row
<1>13. row.outline = task.outline /\ row.content = k /\ FullTextOf(c) \in row.fullText
  BY <1>12
<1>14. Composed(row)
  BY <1>7, <1>8, <1>11, <1>13 DEF Composed
<1>15. patched' \in BOOLEAN
  BY DEF EndPolish
<1>16. task' = row
  BY <1>2 DEF Write
<1>17. k.profile = read.profile
  BY <1>9, <1>10 DEF k
<1>18. Faithful(c)
  BY <1>11, <1>13, <1>16, <1>17 DEF Faithful, read
<1>. QED  BY <1>2, <1>11, <1>12, <1>13, <1>14, <1>15, <1>18, WriteKeeps

LEMMA BodyTypes ==
    \A body \in Bodies \cup {NoBody} :
       body.profile \in {"keep", "set", "clear"} /\ body.clear \in BOOLEAN
<1>1. ASSUME NEW body \in Bodies
      PROVE  body.profile \in {"keep", "set", "clear"} /\ body.clear \in BOOLEAN
  <2>1. body \in [profile : {"keep", "set", "clear"}, clear : BOOLEAN,
                  set : SUBSET SectionNumbers]
    BY <1>1, WriteAssumption
  <2>. QED  BY <2>1
<1>2. NoBody.profile = "keep" /\ NoBody.clear = FALSE
  BY DEF NoBody
<1>. QED  BY <1>1, <1>2

LEMMA StoredByHandKeeps ==
    ASSUME WriteInv, NEW c \in WriteCalls, calls[c].op # "none",
           NEW new \in Contents, AsTold(new, Now),
           Write(c, [task EXCEPT !.content = BuildStoredContent(new)]), patched' = TRUE
    PROVE  /\ WriteInv'
           /\ task'.content \in {new, task.content}
<1>. DEFINE k   == BuildStoredContent(new)
            row == [task EXCEPT !.content = k]
<1>1. Write(c, row) /\ writes \in Nat /\ writes < MaxWrites
  BY CallTypes DEF Write
<1>2. k \in Contents /\ AsTold(k, Now)
  BY <1>1, ContentIsStored
<1>3. k \in {new, task.content}
  BY DEF BuildStoredContent
<1>. HIDE DEF k
<1>4. task \in Rows
  BY DEF WriteInv
<1>5. row = [status |-> task.status, outline |-> task.outline, content |-> k,
             fullText |-> task.fullText]
  BY <1>4, RowsRewritten
<1>6. row \in Rows
  BY <1>2, <1>4, <1>5 DEF Rows
<1>7. row.outline = task.outline /\ row.content = k
  BY <1>5
<1>. HIDE DEF row
<1>8. task' = row
  BY <1>1 DEF Write
<1>. QED  BY <1>1, <1>2, <1>3, <1>6, <1>7, <1>8, WriteKeeps

LEMMA ProfileKeeps ==
    ASSUME WriteInv, NEW c \in WriteCalls, EndProfile(c)
    PROVE  WriteInv' /\ Faithful(c)
<1>. DEFINE read == calls[c].content
            new  == [read EXCEPT !.profile = TRUE]
<1>1. Write(c, [task EXCEPT !.content = BuildStoredContent(new)])
      /\ calls[c].op # "none" /\ patched' = TRUE
  BY DEF EndProfile
<1>2. writes \in Nat /\ writes < MaxWrites
  BY <1>1, CallTypes DEF Write
<1>3. read \in Contents /\ AsTold(read, writes) /\ read.sections \in [SectionNumbers -> Texts]
  BY CallTypes
<1>. HIDE DEF read
<1>4. new = [sections |-> read.sections, profile |-> TRUE, history |-> read.history]
  BY <1>3, Rewriting
<1>. HIDE DEF new
<1>5. new \in Contents /\ AsTold(new, Now)
  <2>1. TRUE \in BOOLEAN
    OBVIOUS
  <2>. QED  BY <1>2, <1>3, <1>4, <2>1, ContentIsPatched
<1>6. WriteInv' /\ task'.content \in {new, task.content}
  BY <1>1, <1>5, StoredByHandKeeps
<1>7. new.sections = read.sections /\ new.profile = TRUE
  BY <1>4
<1>8. Faithful(c)
  BY <1>6, <1>7 DEF Faithful, read
<1>. QED  BY <1>6, <1>8

LEMMA UpdateKeeps ==
    ASSUME WriteInv, NEW c \in WriteCalls, EndUpdate(c)
    PROVE  WriteInv' /\ Faithful(c)
<1>. DEFINE read == calls[c].content
            body == calls[c].body
            profile == IF body.profile = "keep" THEN read.profile ELSE body.profile = "set"
            sections == [i \in SectionNumbers |->
                           IF i \in body.set THEN [at |-> Now, by |-> "user"]
                           ELSE IF body.clear THEN NoText ELSE read.sections[i]]
            half == [read EXCEPT !.profile = profile]
            new  == [half EXCEPT !.sections = sections]
<1>1. Write(c, [task EXCEPT !.content = BuildStoredContent(Patched(read, body))])
      /\ calls[c].op = "update" /\ patched' = TRUE
  BY DEF EndUpdate
<1>2. writes \in Nat /\ writes < MaxWrites /\ Now \in 0..MaxWrites
  BY <1>1, CallTypes, WriteBounds DEF Write, Now
<1>3. read \in Contents /\ AsTold(read, writes) /\ read.sections \in [SectionNumbers -> Texts]
      /\ read.profile \in BOOLEAN
  BY CallTypes DEF Contents
<1>4. body.profile \in {"keep", "set", "clear"} /\ body.clear \in BOOLEAN
  BY CallTypes, BodyTypes
<1>5. profile \in BOOLEAN
      /\ (profile \in {TRUE, read.profile} \/ body.profile = "clear")
  <2>1. (body.profile = "set") \in BOOLEAN
    OBVIOUS
  <2>2. CASE body.profile = "keep"
    BY <1>3, <2>2
  <2>3. CASE body.profile = "set"
    <3>1. profile = TRUE
      BY <2>3
    <3>. QED  BY <3>1
  <2>4. CASE body.profile = "clear"
    <3>1. profile = FALSE
      BY <2>4
    <3>. QED  BY <2>4, <3>1
  <2>. QED  BY <1>4, <2>2, <2>3, <2>4
<1>6. NoText \in Texts /\ [at |-> Now, by |-> "user"] \in Texts
  BY <1>2, WriteBounds DEF NoText, Texts
<1>7. sections \in [SectionNumbers -> Texts]
  BY <1>3, <1>6
<1>8. \A i \in SectionNumbers :
         \/ sections[i] = read.sections[i]
         \/ sections[i] = NoText \/ sections[i] = [at |-> Now, by |-> "user"]
  OBVIOUS
<1>9. \A i \in SectionNumbers :
         sections[i] = read.sections[i] \/ body.clear \/ i \in body.set
  OBVIOUS
<1>10. Patched(read, body) = new
  BY DEF Patched
<1>. HIDE DEF read, profile, sections
<1>11. new = [sections |-> sections, profile |-> profile, history |-> read.history]
  <2>1. half = [sections |-> read.sections, profile |-> profile, history |-> read.history]
    BY <1>3, Rewriting
  <2>. HIDE DEF half
  <2>. QED  BY <2>1
<1>. HIDE DEF new
<1>12. new \in Contents /\ AsTold(new, Now)
  BY <1>2, <1>3, <1>5, <1>7, <1>8, <1>11, ContentIsPatched
<1>13. WriteInv' /\ task'.content \in {new, task.content}
  BY <1>1, <1>10, <1>12, StoredByHandKeeps
<1>14. new.sections = sections /\ new.profile = profile
  BY <1>11
<1>15. \A i \in SectionNumbers : sections[i] = read.sections[i] \/ AskedFor(c, i)
  BY <1>1, <1>9 DEF AskedFor
<1>16. Faithful(c)
  BY <1>1, <1>5, <1>13, <1>14, <1>15 DEF Faithful, read
<1>. QED  BY <1>13, <1>16

LEMMA BeginKeeps ==
    ASSUME WriteInv, NEW c \in WriteCalls, NEW i \in SectionNumbers,
           NEW op \in {"outline", "section", "polish", "profile", "update"},
           NEW body \in Bodies \cup {NoBody}, Begin(c, op, i, body)
    PROVE  WriteInv' /\ writes' = writes
<1>. DEFINE record == [op |-> op, section |-> i, body |-> body, since |-> writes,
                       outline |-> task.outline, content |-> task.content]
<1>1. /\ calls' = [calls EXCEPT ![c] = record]
      /\ task' = task /\ writes' = writes /\ patched' = patched
  BY DEF Begin
<1>2. writes \in Nat /\ writes \in 0..MaxWrites /\ task.outline \in Outlines
      /\ task.content \in Contents
  BY WriteBounds DEF WriteInv, Rows
<1>3. record \in CallRecords
  BY <1>2 DEF CallRecords
<1>4. record.since = writes /\ record.content = task.content /\ record.outline = task.outline
  OBVIOUS
<1>. HIDE DEF record
<1>5. calls' \in [WriteCalls -> CallRecords]
  BY <1>1, <1>3 DEF WriteInv
<1>6. ASSUME NEW d \in WriteCalls
      PROVE  /\ calls'[d].since <= writes /\ AsTold(calls'[d].content, writes)
             /\ calls'[d].op # "none" =>
                   calls'[d].outline = task.outline \/ task.outline.at > calls'[d].since
  <2>1. CASE d = c
    <3>1. calls'[d] = record
      BY <1>1, <2>1 DEF WriteInv
    <3>. QED  BY <1>2, <1>4, <3>1 DEF WriteInv
  <2>2. CASE d # c
    <3>1. calls'[d] = calls[d]
      BY <1>1, <2>2 DEF WriteInv
    <3>. QED  BY <3>1 DEF WriteInv, Open
  <2>. QED  BY <2>1, <2>2
<1>. QED  BY <1>1, <1>5, <1>6 DEF WriteInv, Open, Composed

LEMMA AbandonKeeps ==
    ASSUME WriteInv, NEW c \in WriteCalls, Abandon(c)
    PROVE  WriteInv' /\ writes' = writes
<1>1. /\ calls' = [calls EXCEPT ![c] = Idle]
      /\ task' = task /\ writes' = writes /\ patched' = patched
  BY DEF Abandon
<1>2. writes \in Nat
  BY WriteBounds DEF WriteInv
<1>3. Idle \in CallRecords /\ AsTold(Idle.content, writes)
  BY <1>2, IdleIsFine
<1>4. Idle.op = "none" /\ Idle.since = 0
  BY DEF Idle
<1>5. calls' \in [WriteCalls -> CallRecords]
  BY <1>1, <1>3 DEF WriteInv
<1>6. ASSUME NEW d \in WriteCalls
      PROVE  /\ calls'[d].since <= writes /\ AsTold(calls'[d].content, writes)
             /\ calls'[d].op # "none" =>
                   calls'[d].outline = task.outline \/ task.outline.at > calls'[d].since
  <2>1. CASE d = c
    <3>1. calls'[d] = Idle
      BY <1>1, <2>1 DEF WriteInv
    <3>. QED  BY <1>2, <1>3, <1>4, <3>1
  <2>2. CASE d # c
    <3>1. calls'[d] = calls[d]
      BY <1>1, <2>2 DEF WriteInv
    <3>. QED  BY <3>1 DEF WriteInv, Open
  <2>. QED  BY <2>1, <2>2
<1>. QED  BY <1>1, <1>5, <1>6 DEF WriteInv, Open, Composed

LEMMA CreateKeeps ==
    ASSUME WriteInv, CreateTask
    PROVE  WriteInv' /\ writes' = writes
<1>1. PICK p \in BOOLEAN :
         task' = [task EXCEPT !.status = "created", !.content.profile = p]
  BY DEF CreateTask
<1>2. calls' = calls /\ writes' = writes /\ patched' = patched
  BY DEF CreateTask
<1>. DEFINE new == [task.content EXCEPT !.profile = p]
            one == [task EXCEPT !.status = "created"]
<1>3. task \in Rows /\ task.content \in Contents /\ AsTold(task.content, writes)
      /\ task.content.sections \in [SectionNumbers -> Texts]
      /\ task.content.history \in Seq(HistoryEntries)
  BY DEF WriteInv, Rows, Contents, HistoryEntries
<1>4. new = [sections |-> task.content.sections, profile |-> p,
             history |-> task.content.history]
  BY <1>3, Rewriting
<1>5. one = [status |-> "created", outline |-> task.outline, content |-> task.content,
             fullText |-> task.fullText]
  BY <1>3, RowsRewritten
<1>6. task' = [one EXCEPT !.content = new]
  <2>1. one.content = task.content
    BY <1>5
  <2>2. task' = [one EXCEPT !.content = [one.content EXCEPT !.profile = p]]
    BY <1>1
  <2>. QED  BY <2>1, <2>2
<1>. HIDE DEF one, new
<1>7. task' = [status |-> "created", outline |-> task.outline, content |-> new,
               fullText |-> task.fullText]
  BY <1>5, <1>6
<1>8. new \in Contents
  BY <1>3, <1>4 DEF Contents, HistoryEntries
<1>9. new.sections = task.content.sections /\ new.history = task.content.history
  BY <1>4
<1>10. AsTold(new, writes)
  BY <1>3, <1>9 DEF AsTold
<1>11. task' \in Rows
  BY <1>3, <1>7, <1>8 DEF Rows
<1>12. task'.outline = task.outline /\ task'.content = new /\ task'.status = "created"
  BY <1>7
<1>. QED  BY <1>2, <1>10, <1>11, <1>12 DEF WriteInv, Open

LEMMA DeleteKeeps ==
    ASSUME WriteInv, DeleteTask
    PROVE  WriteInv' /\ writes' = writes
<1>1. calls' = calls /\ writes' = writes /\ patched' = patched
  BY DEF DeleteTask
<1>2. task \in Rows
  BY DEF WriteInv
<1>3. task' = [status |-> "deleted", outline |-> task.outline, content |-> task.content,
               fullText |-> task.fullText]
  BY <1>2, RowsRewritten DEF DeleteTask
<1>4. task' \in Rows
  BY <1>2, <1>3 DEF Rows
<1>5. task'.outline = task.outline /\ task'.content = task.content /\ task'.status = "deleted"
  BY <1>3
<1>. QED  BY <1>1, <1>4, <1>5 DEF WriteInv, Open

(* What a step that ends a handler says of the handler that ended.         *)
LostOnlyByOverlap(c) ==
    calls[c].op # "none" /\ writes' > writes /\ calls'[c].op = "none" =>
       /\ \A i \in SectionNumbers :
             task'.content.sections[i] # task.content.sections[i] =>
                 AskedFor(c, i) \/ calls[c].content.sections[i]
                                     # task.content.sections[i]
       /\ task.content.profile /\ ~task'.content.profile =>
             \/ calls[c].op = "update" /\ calls[c].body.profile = "clear"
             \/ ~calls[c].content.profile

LEMMA QuietStepsLoseNothing ==
    ASSUME WriteInv, writes' = writes
    PROVE  \A c \in WriteCalls : LostOnlyByOverlap(c)
<1>1. writes \in Nat
  BY WriteBounds DEF WriteInv
<1>2. ~(writes' > writes)
  BY <1>1
<1>. QED  BY <1>2 DEF LostOnlyByOverlap

LEMMA FaithfulStepsLoseNothing ==
    ASSUME WriteInv, NEW d \in WriteCalls, NEW row, Write(d, row), Faithful(d)
    PROVE  \A c \in WriteCalls : LostOnlyByOverlap(c)
<1>1. ASSUME NEW c \in WriteCalls, c # d
      PROVE  calls'[c] = calls[c]
  BY <1>1 DEF Write, WriteInv
<1>2. ASSUME NEW c \in WriteCalls, c # d
      PROVE  LostOnlyByOverlap(c)
  BY <1>1, <1>2 DEF LostOnlyByOverlap
<1>3. \A i \in SectionNumbers :
         task'.content.sections[i] # task.content.sections[i] =>
            AskedFor(d, i) \/ calls[d].content.sections[i] # task.content.sections[i]
  BY DEF Faithful
<1>4. task.content.profile \in BOOLEAN /\ calls[d].content.profile \in BOOLEAN
  BY CallTypes DEF WriteInv, Rows, Contents
<1>5. task.content.profile /\ ~task'.content.profile =>
         \/ calls[d].op = "update" /\ calls[d].body.profile = "clear"
         \/ ~calls[d].content.profile
  <2>1. ASSUME task'.content.profile \in
                  {TRUE, task.content.profile, calls[d].content.profile}
        PROVE  task.content.profile /\ ~task'.content.profile => ~calls[d].content.profile
    BY <2>1, <1>4
  <2>. QED  BY <2>1 DEF Faithful
<1>6. LostOnlyByOverlap(d)
  BY <1>3, <1>5 DEF LostOnlyByOverlap
<1>. QED  BY <1>2, <1>6

LEMMA HandlerKeeps ==
    ASSUME WriteInv, NEW c \in WriteCalls, Handler(c)
    PROVE  WriteInv' /\ \A d \in WriteCalls : LostOnlyByOverlap(d)
<1>1. 0 \in SectionNumbers /\ NoBody \in Bodies \cup {NoBody}
  BY WriteBounds
<1>2. CASE BeginOutline(c)
  <2>1. WriteInv' /\ writes' = writes
    BY <1>1, <1>2, BeginKeeps DEF BeginOutline
  <2>. QED  BY <2>1, QuietStepsLoseNothing
<1>3. CASE BeginPolish(c)
  <2>1. WriteInv' /\ writes' = writes
    BY <1>1, <1>3, BeginKeeps DEF BeginPolish
  <2>. QED  BY <2>1, QuietStepsLoseNothing
<1>4. CASE BeginProfile(c)
  <2>1. WriteInv' /\ writes' = writes
    BY <1>1, <1>4, BeginKeeps DEF BeginProfile
  <2>. QED  BY <2>1, QuietStepsLoseNothing
<1>5. CASE BeginUpdate(c)
  <2>1. PICK body \in Bodies : Begin(c, "update", 0, body)
    BY <1>5 DEF BeginUpdate
  <2>2. WriteInv' /\ writes' = writes
    BY <1>1, <2>1, BeginKeeps
  <2>. QED  BY <2>2, QuietStepsLoseNothing
<1>6. CASE BeginSection(c)
  <2>1. PICK i \in SectionNumbers : Begin(c, "section", i, NoBody)
    BY <1>6 DEF BeginSection
  <2>2. WriteInv' /\ writes' = writes
    BY <1>1, <2>1, BeginKeeps
  <2>. QED  BY <2>2, QuietStepsLoseNothing
<1>7. CASE Abandon(c)
  BY <1>7, AbandonKeeps, QuietStepsLoseNothing
<1>8. CASE EndOutline(c)
  <2>1. \E row : Write(c, row)
    BY <1>8 DEF EndOutline
  <2>. QED  BY <1>8, <2>1, OutlineKeeps, FaithfulStepsLoseNothing
<1>9. CASE EndSection(c)
  <2>1. \E row : Write(c, row)
    BY <1>9 DEF EndSection
  <2>. QED  BY <1>9, <2>1, SectionKeeps, FaithfulStepsLoseNothing
<1>10. CASE EndPolish(c)
  <2>1. \E row : Write(c, row)
    BY <1>10 DEF EndPolish
  <2>. QED  BY <1>10, <2>1, PolishKeeps, FaithfulStepsLoseNothing
<1>11. CASE EndProfile(c)
  <2>1. \E row : Write(c, row)
    BY <1>11 DEF EndProfile
  <2>. QED  BY <1>11, <2>1, ProfileKeeps, FaithfulStepsLoseNothing
<1>12. CASE EndUpdate(c)
  <2>1. \E row : Write(c, row)
    BY <1>12 DEF EndUpdate
  <2>. QED  BY <1>12, <2>1, UpdateKeeps, FaithfulStepsLoseNothing
<1>. QED  BY <1>2, <1>3, <1>4, <1>5, <1>6, <1>7, <1>8, <1>9, <1>10, <1>11, <1>12 DEF Handler

LEMMA WriteBegins == WriteInit => WriteInv
<1>. SUFFICES ASSUME WriteInit PROVE WriteInv
  OBVIOUS
<1>1. writes = 0 /\ patched = FALSE /\ 0 \in 0..MaxWrites /\ 0 \in Nat
  BY WriteBounds DEF WriteInit
<1>2. task = [status |-> "absent", outline |-> [at |-> 0, size |-> 0],
              content |-> EmptyContent, fullText |-> {}]
  BY DEF WriteInit
<1>3. [at |-> 0, size |-> 0] \in Outlines
  BY WriteAssumption DEF Outlines
<1>4. task \in Rows /\ AsTold(task.content, 0) /\ task.status = "absent"
  BY <1>1, <1>2, <1>3, IdleIsFine DEF Rows
<1>5. \A c \in WriteCalls : calls[c] = Idle
  BY DEF WriteInit
<1>6. Idle.since = 0 /\ Idle.op = "none" /\ AsTold(Idle.content, 0) /\ Idle \in CallRecords
  BY <1>1, IdleIsFine DEF Idle
<1>7. calls \in [WriteCalls -> CallRecords]
  BY <1>6 DEF WriteInit
<1>8. \A c \in WriteCalls :
         calls[c].since <= writes /\ AsTold(calls[c].content, writes) /\ ~Open(c)
  <2>1. ASSUME NEW c \in WriteCalls PROVE AsTold(calls[c].content, writes)
    <3>1. calls[c] = Idle /\ writes = 0
      BY <1>1, <1>5
    <3>. QED  BY <1>6, <3>1
  <2>2. ASSUME NEW c \in WriteCalls PROVE calls[c].since <= writes
    <3>1. calls[c].since = 0 /\ writes = 0
      BY <1>1, <1>5, <1>6
    <3>. QED  BY <3>1
  <2>3. \A c \in WriteCalls : ~Open(c)
    BY <1>5, <1>6 DEF Open
  <2>. QED  BY <2>1, <2>2, <2>3
<1>9. AsTold(task.content, writes)
  BY <1>1, <1>4
<1>. QED  BY <1>1, <1>4, <1>7, <1>8, <1>9 DEF WriteInv

LEMMA WriteGoesOn ==
    ASSUME WriteInv, [WriteNext]_writeVars
    PROVE  WriteInv' /\ \A c \in WriteCalls : LostOnlyByOverlap(c)
<1>1. CASE UNCHANGED writeVars
  <2>1. task' = task /\ calls' = calls /\ writes' = writes /\ patched' = patched
    BY <1>1 DEF writeVars
  <2>2. WriteInv'
    BY <2>1 DEF WriteInv, Open, Composed
  <2>. QED  BY <2>1, <2>2, QuietStepsLoseNothing
<1>2. CASE CreateTask
  BY <1>2, CreateKeeps, QuietStepsLoseNothing
<1>3. CASE DeleteTask
  BY <1>3, DeleteKeeps, QuietStepsLoseNothing
<1>4. CASE \E c \in WriteCalls : Handler(c)
  BY <1>4, HandlerKeeps
<1>. QED  BY <1>1, <1>2, <1>3, <1>4 DEF WriteNext

LEMMA WriteInvHolds == WriteSpec => []WriteInv
<1>1. WriteInv /\ [WriteNext]_writeVars => WriteInv'
  BY WriteGoesOn
<1>. QED  BY <1>1, WriteBegins, PTL DEF WriteSpec

LEMMA WriteInvShows == WriteInv => ShownTextIsTrue
<1>. SUFFICES ASSUME WriteInv PROVE ShownTextIsTrue
  OBVIOUS
<1>. DEFINE history == task.content.history
            n == Len(history)
<1>1. history \in Seq(HistoryEntries) /\ AsTold(task.content, writes)
  BY DEF WriteInv, Rows, Contents, HistoryEntries
<1>2. n \in Nat /\ DOMAIN history = 1..n
  BY <1>1, LenProperties
<1>3. ASSUME NEW i \in SectionNumbers, task.content.sections[i].by = "fallback"
      PROVE  \/ GenerationMode(history) = "fallback"
             \/ /\ n = HistoryLimit
                /\ \A k \in 1..HistoryLimit :
                      history[k].at > task.content.sections[i].at
  <2>1. Told(history, task.content.sections[i].at)
    BY <1>1, <1>3 DEF AsTold
  <2>2. CASE \E k \in DOMAIN history : history[k].mode = "fallback"
    BY <2>2, ModeShown
  <2>. QED  BY <1>2, <2>1, <2>2 DEF Told
<1>4. task.status = "completed" /\ ~patched =>
         \E t \in task.fullText :
            /\ t.sections = task.content.sections
            /\ t.outline = task.outline \/ task.outline.at > t.since
  BY DEF WriteInv, Composed
<1>. QED  BY <1>3, <1>4 DEF ShownTextIsTrue

(* What is shown of a writing task is true whatever handlers overlapped:   *)
(* polish composes the full text from the row it read, and a section that  *)
(* changes afterwards takes the task back to outline_ready; and the        *)
(* history of buildExecutionMeta keeps the entry of a section that fell    *)
(* back until later entries have filled it.                                *)
THEOREM ShownTextStaysTrue == WriteSpec => []ShownTextIsTrue
BY WriteInvHolds, WriteInvShows, PTL

(* The handlers of a writing task write the whole content column back:     *)
(* one of them changes a section or clears a profile it was not asked for  *)
(* only by bringing back what it had read (ai-write.service.ts).           *)
THEOREM OverlapAloneLosesText == WriteSpec => OnlyOverlapLosesText
<1>1. WriteInv /\ [WriteNext]_writeVars
         => [\A c \in WriteCalls : LostOnlyByOverlap(c)]_writeVars
  BY WriteGoesOn
<1>. QED  BY <1>1, WriteInvHolds, PTL DEF WriteSpec, OnlyOverlapLosesText, LostOnlyByOverlap

LEMMA WriteTypes == WriteInv => WriteTypeOK
<1>. SUFFICES ASSUME WriteInv PROVE WriteTypeOK
  OBVIOUS
<1>1. Len(task.content.history) <= HistoryLimit
  BY DEF WriteInv, AsTold, InOrder
<1>2. ASSUME NEW c \in WriteCalls
      PROVE  /\ calls[c].op \in {"none", "outline", "section", "polish",
                                 "profile", "update"}
             /\ calls[c].section \in SectionNumbers
             /\ calls[c].body \in Bodies \cup {NoBody}
             /\ calls[c].since \in 0..writes
             /\ calls[c].outline \in Outlines
             /\ calls[c].content \in Contents
  <2>1. calls[c] \in CallRecords /\ calls[c].since <= writes /\ writes \in Nat
    BY WriteBounds DEF WriteInv
  <2>2. calls[c].since \in 0..MaxWrites
    BY <2>1 DEF CallRecords
  <2>3. calls[c].since \in 0..writes
    BY <2>1, <2>2, WriteBounds
  <2>. QED  BY <2>1, <2>3 DEF CallRecords
<1>. QED  BY <1>1, <1>2 DEF WriteInv, WriteTypeOK

-----------------------------------------------------------------------------
(* The library of papers.                                                  *)
Stages == {"none", "extract", "authors", "clear", "link", "topics", "institutions",
           "pairs", "finish"}
Pairs == PairsIn(Authors)
RunRecords ==
    [paper : Papers \cup {"none"}, phase : Stages, named : SUBSET Names,
     missing : SUBSET Names, found : SUBSET Authors, before : SUBSET Authors,
     pairs : SUBSET Pairs, pair : Pairs \cup {NoPair}, count : 0..Cardinality(Papers),
     overtaken : BOOLEAN]

(* The pairs a run in this state has still to bring in line.               *)
Owed(t) ==
    IF t.phase \in {"none", "extract", "authors", "clear", "finish"} THEN {}
    ELSE IF t.phase = "pairs" THEN t.pairs \cup ({t.pair} \ {NoPair})
    ELSE PairsIn(t.before \cup t.found)

RunIsSound(t) ==
    /\ t.phase # "none" => t.paper \in Papers
    /\ t.phase # "pairs" => t.pair = NoPair
    /\ t.phase # "authors" => t.missing = {}

(* The papers two authors share, for given links of papers and authors.    *)
CommonIn(links, pair) == Cardinality({p \in Papers : pair \subseteq links[p]})

(* Every pair's count is right, may be wrong, or a run is to count it.     *)
PairIsCounted(pair, doubts, states, counted, links) ==
    \/ pair \in doubts
    \/ \E s \in LibraryRuns : pair \in Owed(states[s])
    \/ counted[pair] = CommonIn(links, pair)

(* So is the count a run holds and nobody has overtaken, but for the runs  *)
(* that are to count the pair after it.                                    *)
HeldIsCounted(s, doubts, states, links) ==
    states[s].pair # NoPair /\ ~states[s].overtaken =>
       \/ states[s].pair \in doubts
       \/ \E r \in LibraryRuns \ {s} : states[s].pair \in Owed(states[r])
       \/ states[s].count = CommonIn(links, states[s].pair)

LibraryInv ==
    /\ papers \in [Papers -> {"absent", "processing", "ready", "failed", "deleted"}]
    /\ namesakes \in [Names -> 0..MaxNamesakes] /\ institutions \subseteq Authors
    /\ paperAuthors \in [Papers -> SUBSET Authors]
    /\ paperTopics \in [Papers -> SUBSET Tags]
    /\ collaborations \in [Pairs -> 0..Cardinality(Papers)]
    /\ doubtful \subseteq Pairs /\ starts \in 0..MaxStarts
    /\ runs \in [LibraryRuns -> RunRecords]
    /\ \A s \in LibraryRuns :
          RunIsSound(runs[s]) /\ HeldIsCounted(s, doubtful, runs, paperAuthors)
    /\ \A pair \in Pairs : PairIsCounted(pair, doubtful, runs, collaborations, paperAuthors)

LEMMA CommonIsCounted ==
    ASSUME NEW links, NEW pair
    PROVE  CommonIn(links, pair) \in 0..Cardinality(Papers)
<1>. DEFINE S == {p \in Papers : pair \subseteq links[p]}
<1>1. IsFiniteSet(Papers) /\ S \subseteq Papers
  BY LibraryAssumption
<1>. HIDE DEF S
<1>2. IsFiniteSet(S) /\ Cardinality(S) <= Cardinality(Papers)
  BY <1>1, FS_Subset
<1>3. Cardinality(S) \in Nat /\ Cardinality(Papers) \in Nat
  BY <1>1, <1>2, FS_CardinalityType
<1>. QED  BY <1>2, <1>3 DEF CommonIn, S

LEMMA PairsAreTwo ==
    ASSUME NEW S
    PROVE  /\ {} \notin PairsIn(S)
           /\ \A pair \in Pairs : pair \in PairsIn(S) <=> pair \subseteq S
           /\ S \subseteq Authors => PairsIn(S) \subseteq Pairs
<1>1. Cardinality({}) = 0
  BY FS_EmptySet
<1>. QED  BY <1>1 DEF PairsIn, kSubset, Pairs

LEMMA OwedIsUnsettled ==
    ASSUME LibraryInv, NEW r \in LibraryRuns
    PROVE  Unsettled(r) = Owed(runs[r]) /\ Owed(runs[r]) \subseteq Pairs
<1>1. runs[r] \in RunRecords
  BY DEF LibraryInv
<1>2. Unsettled(r) = Owed(runs[r])
  BY <1>1 DEF Unsettled, Owed, RunRecords, Stages
<1>3. runs[r].before \cup runs[r].found \subseteq Authors
      /\ runs[r].pairs \subseteq Pairs /\ runs[r].pair \in Pairs \cup {NoPair}
  BY <1>1 DEF RunRecords
<1>4. PairsIn(runs[r].before \cup runs[r].found) \subseteq Pairs
  BY <1>3, PairsAreTwo
<1>. QED  BY <1>2, <1>3, <1>4 DEF Owed

(* A step of one run that writes no count: it may change the links only of *)
(* pairs it will count or that become doubtful, and gives up no pair.      *)
LEMMA RunStepsKeepCounts ==
    ASSUME LibraryInv, NEW r \in LibraryRuns, NEW t,
           runs' = [runs EXCEPT ![r] = t], collaborations' = collaborations,
           doubtful \subseteq doubtful', doubtful' \subseteq Pairs,
           \A pair \in Pairs :
              \/ pair \in doubtful' \/ pair \in Owed(t)
              \/ CommonIn(paperAuthors', pair) = CommonIn(paperAuthors, pair),
           \A pair \in Owed(runs[r]) : pair \in doubtful' \/ pair \in Owed(t),
           t.pair # NoPair => t.count = CommonIn(paperAuthors', t.pair)
    PROVE  /\ \A s \in LibraryRuns : HeldIsCounted(s, doubtful', runs', paperAuthors')
           /\ \A pair \in Pairs :
                 PairIsCounted(pair, doubtful', runs', collaborations', paperAuthors')
<1>1. runs'[r] = t /\ \A s \in LibraryRuns \ {r} : runs'[s] = runs[s]
  BY DEF LibraryInv
<1>2. ASSUME NEW pair \in Pairs
      PROVE  PairIsCounted(pair, doubtful', runs', collaborations', paperAuthors')
  <2>1. PairIsCounted(pair, doubtful, runs, collaborations, paperAuthors)
    BY DEF LibraryInv
  <2>2. CASE pair \in doubtful' \/ pair \in Owed(t)
    BY <1>1, <2>2 DEF PairIsCounted
  <2>3. CASE pair \notin doubtful' /\ pair \notin Owed(t)
    <3>1. CommonIn(paperAuthors', pair) = CommonIn(paperAuthors, pair)
      BY <2>3
    <3>2. CASE \E s \in LibraryRuns : pair \in Owed(runs[s])
      <4>1. PICK s \in LibraryRuns : pair \in Owed(runs[s])
        BY <3>2
      <4>2. s # r
        BY <2>3, <4>1
      <4>3. pair \in Owed(runs'[s])
        BY <1>1, <4>1, <4>2
      <4>. QED  BY <4>3 DEF PairIsCounted
    <3>3. CASE collaborations[pair] = CommonIn(paperAuthors, pair)
      BY <3>1, <3>3 DEF PairIsCounted
    <3>. QED  BY <2>1, <2>3, <3>2, <3>3 DEF PairIsCounted
  <2>. QED  BY <2>2, <2>3
<1>3. ASSUME NEW s \in LibraryRuns, s # r
      PROVE  HeldIsCounted(s, doubtful', runs', paperAuthors')
  <2>. SUFFICES ASSUME runs'[s].pair # NoPair, ~runs'[s].overtaken
                PROVE  \/ runs'[s].pair \in doubtful'
                       \/ \E u \in LibraryRuns \ {s} : runs'[s].pair \in Owed(runs'[u])
                       \/ runs'[s].count = CommonIn(paperAuthors', runs'[s].pair)
    BY DEF HeldIsCounted
  <2>1. runs'[s] = runs[s] /\ r \in LibraryRuns \ {s}
    BY <1>1, <1>3
  <2>. DEFINE pair == runs[s].pair
  <2>2. pair \in Pairs
    BY <2>1 DEF LibraryInv, RunRecords
  <2>3. \/ pair \in doubtful
        \/ \E u \in LibraryRuns \ {s} : pair \in Owed(runs[u])
        \/ runs[s].count = CommonIn(paperAuthors, pair)
    BY <2>1 DEF LibraryInv, HeldIsCounted
  <2>. HIDE DEF pair
  <2>4. CASE pair \in doubtful' \/ pair \in Owed(t)
    BY <1>1, <2>1, <2>4 DEF pair
  <2>5. CASE pair \notin doubtful' /\ pair \notin Owed(t)
    <3>1. CommonIn(paperAuthors', pair) = CommonIn(paperAuthors, pair)
      BY <2>2, <2>5
    <3>2. ASSUME NEW u \in LibraryRuns \ {s}, pair \in Owed(runs[u])
          PROVE  pair \in Owed(runs'[u])
      <4>1. u # r
        BY <2>5, <3>2
      <4>. QED  BY <1>1, <3>2, <4>1
    <3>. QED  BY <2>1, <2>3, <2>5, <3>1, <3>2 DEF pair
  <2>. QED  BY <2>4, <2>5
<1>4. HeldIsCounted(r, doubtful', runs', paperAuthors')
  BY <1>1 DEF HeldIsCounted
<1>. QED  BY <1>2, <1>3, <1>4

LEMMA RunStepsKeep ==
    ASSUME LibraryInv, NEW r \in LibraryRuns, NEW t \in RunRecords, RunIsSound(t),
           runs' = [runs EXCEPT ![r] = t], collaborations' = collaborations,
           doubtful \subseteq doubtful', doubtful' \subseteq Pairs,
           \A pair \in Pairs :
              \/ pair \in doubtful' \/ pair \in Owed(t)
              \/ CommonIn(paperAuthors', pair) = CommonIn(paperAuthors, pair),
           \A pair \in Owed(runs[r]) : pair \in doubtful' \/ pair \in Owed(t),
           t.pair # NoPair => t.count = CommonIn(paperAuthors', t.pair),
           papers' \in [Papers -> {"absent", "processing", "ready", "failed", "deleted"}],
           namesakes' \in [Names -> 0..MaxNamesakes], institutions' \subseteq Authors,
           paperAuthors' \in [Papers -> SUBSET Authors],
           paperTopics' \in [Papers -> SUBSET Tags], starts' \in 0..MaxStarts
    PROVE  LibraryInv'
<1>1. runs' \in [LibraryRuns -> RunRecords]
  BY DEF LibraryInv
<1>2. \A s \in LibraryRuns : runs'[s] = IF s = r THEN t ELSE runs[s]
  BY DEF LibraryInv
<1>3. \A s \in LibraryRuns : RunIsSound(runs'[s])
  BY <1>2 DEF LibraryInv
<1>4. /\ \A s \in LibraryRuns : HeldIsCounted(s, doubtful', runs', paperAuthors')
      /\ \A pair \in Pairs :
            PairIsCounted(pair, doubtful', runs', collaborations', paperAuthors')
  BY RunStepsKeepCounts
<1>5. collaborations' \in [Pairs -> 0..Cardinality(Papers)]
  BY DEF LibraryInv
<1>. QED  BY <1>1, <1>3, <1>4, <1>5 DEF LibraryInv

(* A step that leaves links, counts and doubts as they are.                *)
LEMMA QuietRunsKeep ==
    ASSUME LibraryInv, NEW r \in LibraryRuns, NEW t \in RunRecords, RunIsSound(t),
           runs' = [runs EXCEPT ![r] = t],
           collaborations' = collaborations, paperAuthors' = paperAuthors,
           doubtful \subseteq doubtful', doubtful' \subseteq Pairs,
           \A pair \in Owed(runs[r]) : pair \in doubtful' \/ pair \in Owed(t),
           t.pair # NoPair => t.count = CommonIn(paperAuthors, t.pair),
           papers' \in [Papers -> {"absent", "processing", "ready", "failed", "deleted"}],
           namesakes' \in [Names -> 0..MaxNamesakes], institutions' \subseteq Authors,
           paperTopics' \in [Papers -> SUBSET Tags], starts' \in 0..MaxStarts
    PROVE  LibraryInv'
<1>1. paperAuthors' \in [Papers -> SUBSET Authors]
  BY DEF LibraryInv
<1>2. \A pair \in Pairs :
         \/ pair \in doubtful' \/ pair \in Owed(t)
         \/ CommonIn(paperAuthors', pair) = CommonIn(paperAuthors, pair)
  OBVIOUS
<1>3. t.pair # NoPair => t.count = CommonIn(paperAuthors', t.pair)
  OBVIOUS
<1>. QED  BY <1>1, <1>2, <1>3, RunStepsKeep

LEMMA LibraryTypes ==
    ASSUME LibraryInv
    PROVE  /\ papers \in [Papers -> {"absent", "processing", "ready", "failed", "deleted"}]
           /\ namesakes \in [Names -> 0..MaxNamesakes] /\ institutions \subseteq Authors
           /\ paperAuthors \in [Papers -> SUBSET Authors]
           /\ paperTopics \in [Papers -> SUBSET Tags] /\ starts \in 0..MaxStarts
           /\ doubtful \subseteq Pairs
           /\ \A r \in LibraryRuns :
                /\ runs[r] \in RunRecords /\ RunIsSound(runs[r])
                /\ runs[r].found \subseteq Authors /\ runs[r].before \subseteq Authors
                /\ runs[r].missing \subseteq Names /\ runs[r].named \subseteq Names
                /\ runs[r].pairs \subseteq Pairs /\ runs[r].pair \in Pairs \cup {NoPair}
BY DEF LibraryInv, RunRecords

LEMMA RestIsSound ==
    /\ AtRest \in RunRecords /\ AtRest.pair = NoPair /\ AtRest.missing = {}
    /\ AtRest.phase = "none"
    /\ RunIsSound(AtRest) /\ Owed(AtRest) = {}
<1>1. Cardinality(Papers) \in Nat
  BY LibraryAssumption, FS_CardinalityType
<1>2. 0 \in 0..Cardinality(Papers)
  BY <1>1
<1>3. AtRest \in RunRecords
  BY <1>2 DEF AtRest, RunRecords, Stages
<1>4. AtRest.pair = NoPair /\ AtRest.missing = {} /\ AtRest.phase = "none"
  BY DEF AtRest
<1>. QED  BY <1>3, <1>4 DEF RunIsSound, Owed

LEMMA StartRunKeeps ==
    ASSUME LibraryInv, NEW r \in LibraryRuns, NEW p \in Papers, StartRun(r, p)
    PROVE  LibraryInv'
<1>. DEFINE t == [AtRest EXCEPT !.paper = p, !.phase = "extract"]
<1>1. runs' = [runs EXCEPT ![r] = t]
  BY DEF StartRun, Run
<1>2. t \in RunRecords
  BY RestIsSound DEF RunRecords, Stages
<1>3. t.pair = NoPair /\ t.missing = {} /\ t.phase = "extract" /\ t.paper = p
  BY DEF AtRest
<1>. HIDE DEF t
<1>4. RunIsSound(t) /\ Owed(t) = {}
  BY <1>3 DEF RunIsSound, Owed
<1>5. Owed(runs[r]) = {}
  BY DEF StartRun, Owed
<1>6. starts' \in 0..MaxStarts
  BY LibraryTypes, LibraryAssumption DEF StartRun
<1>7. papers' \in [Papers -> {"absent", "processing", "ready", "failed", "deleted"}]
  BY LibraryTypes DEF StartRun
<1>8. /\ collaborations' = collaborations /\ paperAuthors' = paperAuthors
      /\ doubtful' = doubtful /\ namesakes' = namesakes /\ institutions' = institutions
      /\ paperTopics' = paperTopics
  BY DEF StartRun, LibraryGraph
<1>. QED  BY <1>1, <1>2, <1>3, <1>4, <1>5, <1>6, <1>7, <1>8, LibraryTypes, QuietRunsKeep

LEMMA FailRunKeeps ==
    ASSUME LibraryInv, NEW r \in LibraryRuns, FailRun(r)
    PROVE  LibraryInv'
<1>1. runs' = [runs EXCEPT ![r] = AtRest]
  BY DEF FailRun, Run
<1>2. doubtful' = doubtful \cup Owed(runs[r]) /\ doubtful' \subseteq Pairs
  BY LibraryTypes, OwedIsUnsettled DEF FailRun
<1>3. papers' \in [Papers -> {"absent", "processing", "ready", "failed", "deleted"}]
  BY LibraryTypes DEF FailRun
<1>4. /\ collaborations' = collaborations /\ paperAuthors' = paperAuthors
      /\ namesakes' = namesakes /\ institutions' = institutions
      /\ paperTopics' = paperTopics /\ starts' = starts
  BY DEF FailRun, LibraryGraph
<1>. QED  BY <1>1, <1>2, <1>3, <1>4, LibraryTypes, RestIsSound, QuietRunsKeep

LEMMA FinishRunKeeps ==
    ASSUME LibraryInv, NEW r \in LibraryRuns, FinishRun(r)
    PROVE  LibraryInv'
<1>1. runs' = [runs EXCEPT ![r] = AtRest]
  BY DEF FinishRun, Run
<1>2. Owed(runs[r]) = {}
  BY DEF FinishRun, Owed
<1>3. papers' \in [Papers -> {"absent", "processing", "ready", "failed", "deleted"}]
  BY LibraryTypes DEF FinishRun
<1>4. /\ collaborations' = collaborations /\ paperAuthors' = paperAuthors
      /\ doubtful' = doubtful /\ namesakes' = namesakes /\ institutions' = institutions
      /\ paperTopics' = paperTopics /\ starts' = starts
  BY DEF FinishRun, LibraryGraph
<1>. QED  BY <1>1, <1>2, <1>3, <1>4, LibraryTypes, RestIsSound, QuietRunsKeep

LEMMA SkipGraphKeeps ==
    ASSUME LibraryInv, NEW r \in LibraryRuns, SkipGraph(r)
    PROVE  LibraryInv'
<1>. DEFINE t == [AtRest EXCEPT !.paper = runs[r].paper, !.phase = "finish"]
<1>1. runs' = [runs EXCEPT ![r] = t]
  BY DEF SkipGraph, Run
<1>2. runs[r].paper \in Papers
  BY LibraryTypes DEF SkipGraph, RunIsSound
<1>3. t \in RunRecords
  BY <1>2, RestIsSound DEF RunRecords, Stages
<1>4. t.pair = NoPair /\ t.missing = {} /\ t.phase = "finish" /\ t.paper \in Papers
  BY <1>2 DEF AtRest
<1>. HIDE DEF t
<1>5. RunIsSound(t)
  BY <1>4 DEF RunIsSound
<1>6. doubtful' = doubtful \cup Owed(runs[r]) /\ doubtful' \subseteq Pairs
  BY LibraryTypes, OwedIsUnsettled DEF SkipGraph
<1>7. paperTopics' \in [Papers -> SUBSET Tags]
  BY LibraryTypes DEF SkipGraph
<1>8. /\ collaborations' = collaborations /\ paperAuthors' = paperAuthors
      /\ namesakes' = namesakes /\ institutions' = institutions
      /\ papers' = papers /\ starts' = starts
  BY DEF SkipGraph
<1>. QED  BY <1>1, <1>3, <1>4, <1>5, <1>6, <1>7, <1>8, LibraryTypes, QuietRunsKeep

LEMMA ExtractKeeps ==
    ASSUME LibraryInv, NEW r \in LibraryRuns, Extract(r)
    PROVE  LibraryInv'
<1>1. PICK named \in SUBSET Names :
         Run(r, [runs[r] EXCEPT !.phase = "authors", !.named = named,
                   !.before = paperAuthors[runs[r].paper]])
  BY DEF Extract
<1>. DEFINE before == paperAuthors[runs[r].paper]
            t == [runs[r] EXCEPT !.phase = "authors", !.named = named, !.before = before]
<1>2. runs' = [runs EXCEPT ![r] = t]
  BY <1>1 DEF Run
<1>3. runs[r] \in RunRecords /\ runs[r].phase = "extract" /\ runs[r].paper \in Papers
      /\ runs[r].pair = NoPair
  BY LibraryTypes DEF Extract, RunIsSound
<1>4. before \in SUBSET Authors
  BY <1>3, LibraryTypes
<1>. HIDE DEF before
<1>5. t \in RunRecords
  BY <1>3, <1>4 DEF RunRecords, Stages
<1>6. t.phase = "authors" /\ t.pair = NoPair /\ t.paper \in Papers
  BY <1>3 DEF RunRecords
<1>. HIDE DEF t
<1>7. RunIsSound(t) /\ Owed(runs[r]) = {}
  BY <1>3, <1>6 DEF RunIsSound, Owed
<1>8. /\ papers' = papers /\ collaborations' = collaborations
      /\ paperAuthors' = paperAuthors /\ doubtful' = doubtful
      /\ namesakes' = namesakes /\ institutions' = institutions
      /\ paperTopics' = paperTopics /\ starts' = starts
  BY DEF Extract, LibraryGraph
<1>. QED  BY <1>2, <1>5, <1>6, <1>7, <1>8, LibraryTypes, QuietRunsKeep

LEMMA FindAuthorKeeps ==
    ASSUME LibraryInv, NEW r \in LibraryRuns, FindAuthor(r)
    PROVE  LibraryInv'
<1>1. runs[r] \in RunRecords /\ runs[r].phase = "authors" /\ runs[r].paper \in Papers
      /\ runs[r].pair = NoPair /\ runs[r].missing = {}
      /\ runs[r].named \subseteq Names /\ runs[r].found \subseteq Authors
  BY LibraryTypes DEF FindAuthor, RunIsSound
<1>2. Owed(runs[r]) = {}
  BY <1>1 DEF Owed
<1>3. ASSUME NEW t \in RunRecords, t.pair = NoPair, t.paper \in Papers,
             t.phase = "authors" \/ t.missing = {}, t.phase # "none",
             runs' = [runs EXCEPT ![r] = t]
      PROVE  LibraryInv'
  <2>1. RunIsSound(t)
    BY <1>3 DEF RunIsSound
  <2>2. /\ papers' = papers /\ collaborations' = collaborations
        /\ paperAuthors' = paperAuthors /\ doubtful' = doubtful
        /\ namesakes' = namesakes /\ institutions' = institutions
        /\ paperTopics' = paperTopics /\ starts' = starts
    BY DEF FindAuthor, LibraryGraph
  <2>. QED  BY <1>2, <1>3, <2>1, <2>2, LibraryTypes, QuietRunsKeep
<1>4. CASE Run(r, [runs[r] EXCEPT !.phase = "clear"])
  <2>. DEFINE t == [runs[r] EXCEPT !.phase = "clear"]
  <2>1. t \in RunRecords
    BY <1>1 DEF RunRecords, Stages
  <2>2. t.pair = NoPair /\ t.paper \in Papers /\ t.missing = {} /\ t.phase = "clear"
    BY <1>1 DEF RunRecords
  <2>3. runs' = [runs EXCEPT ![r] = t]
    BY <1>4 DEF Run
  <2>. HIDE DEF t
  <2>. QED  BY <1>3, <2>1, <2>2, <2>3
<1>5. ASSUME NEW n \in runs[r].named,
             Run(r, [runs[r] EXCEPT !.named = @ \ {n}, !.missing = {n}])
      PROVE  LibraryInv'
  <2>. DEFINE t == [runs[r] EXCEPT !.named = @ \ {n}, !.missing = {n}]
  <2>1. t \in RunRecords
    BY <1>1, <1>5 DEF RunRecords
  <2>2. t.pair = NoPair /\ t.paper \in Papers /\ t.phase = "authors"
    BY <1>1 DEF RunRecords
  <2>3. runs' = [runs EXCEPT ![r] = t]
    BY <1>5 DEF Run
  <2>. HIDE DEF t
  <2>. QED  BY <1>3, <2>1, <2>2, <2>3
<1>6. ASSUME NEW n \in runs[r].named,
             Run(r, [runs[r] EXCEPT !.named = @ \ {n}, !.found = @ \cup {<<n, 1>>}])
      PROVE  LibraryInv'
  <2>. DEFINE t == [runs[r] EXCEPT !.named = @ \ {n}, !.found = @ \cup {<<n, 1>>}]
  <2>1. <<n, 1>> \in Authors
    BY <1>1, <1>6, LibraryAssumption DEF Authors
  <2>2. t \in RunRecords
    BY <1>1, <2>1 DEF RunRecords
  <2>3. t.pair = NoPair /\ t.paper \in Papers /\ t.phase = "authors"
    BY <1>1 DEF RunRecords
  <2>4. runs' = [runs EXCEPT ![r] = t]
    BY <1>6 DEF Run
  <2>. HIDE DEF t
  <2>. QED  BY <1>3, <2>2, <2>3, <2>4
<1>. QED  BY <1>4, <1>5, <1>6 DEF FindAuthor

LEMMA CreateAuthorKeeps ==
    ASSUME LibraryInv, NEW r \in LibraryRuns, CreateAuthor(r)
    PROVE  LibraryInv'
<1>1. PICK n \in runs[r].missing :
        /\ namesakes[n] < MaxNamesakes
        /\ namesakes' = [namesakes EXCEPT ![n] = @ + 1]
        /\ Run(r, [runs[r] EXCEPT !.missing = {}, !.found = @ \cup {<<n, namesakes[n] + 1>>}])
        /\ UNCHANGED <<papers, LibraryGraph, doubtful, starts>>
  BY DEF CreateAuthor
<1>. DEFINE author == <<n, namesakes[n] + 1>>
            t == [runs[r] EXCEPT !.missing = {}, !.found = @ \cup {author}]
<1>2. runs[r] \in RunRecords /\ RunIsSound(runs[r]) /\ n \in Names
      /\ runs[r].found \subseteq Authors
  BY LibraryTypes, <1>1
<1>3. runs[r].phase = "authors" /\ runs[r].pair = NoPair /\ runs[r].paper \in Papers
  BY <1>1, <1>2 DEF RunIsSound
<1>4. namesakes[n] \in 0..MaxNamesakes /\ MaxNamesakes \in Nat
  BY <1>2, LibraryTypes, LibraryAssumption
<1>5. namesakes[n] + 1 \in 1..MaxNamesakes /\ namesakes[n] + 1 \in 0..MaxNamesakes
  BY <1>1, <1>4
<1>6. author \in Authors
  BY <1>2, <1>5 DEF Authors
<1>7. runs' = [runs EXCEPT ![r] = t]
  BY <1>1 DEF Run
<1>. HIDE DEF author
<1>8. t \in RunRecords
  BY <1>2, <1>6 DEF RunRecords
<1>9. t.pair = NoPair /\ t.paper \in Papers /\ t.phase = "authors" /\ t.missing = {}
  BY <1>2, <1>3 DEF RunRecords
<1>. HIDE DEF t
<1>10. RunIsSound(t) /\ Owed(runs[r]) = {}
  BY <1>3, <1>9 DEF RunIsSound, Owed
<1>11. namesakes' \in [Names -> 0..MaxNamesakes]
  BY <1>1, <1>2, <1>5, LibraryTypes
<1>12. /\ papers' = papers /\ collaborations' = collaborations
       /\ paperAuthors' = paperAuthors /\ doubtful' = doubtful
       /\ institutions' = institutions /\ paperTopics' = paperTopics /\ starts' = starts
  BY <1>1 DEF LibraryGraph
<1>. QED  BY <1>7, <1>8, <1>9, <1>10, <1>11, <1>12, LibraryTypes, QuietRunsKeep

(* Changing the authors of one paper changes what two authors share only   *)
(* when the paper had or gets both.                                        *)
LEMMA LinksOfOnePaper ==
    ASSUME NEW links, NEW after, NEW pair,
           NEW p \in Papers, ~(pair \subseteq links[p]), ~(pair \subseteq after[p]),
           \A q \in Papers \ {p} : after[q] = links[q]
    PROVE  CommonIn(after, pair) = CommonIn(links, pair)
<1>1. \A q \in Papers : pair \subseteq after[q] <=> pair \subseteq links[q]
  <2>1. ASSUME NEW q \in Papers PROVE pair \subseteq after[q] <=> pair \subseteq links[q]
    <3>1. CASE q = p
      BY <3>1
    <3>2. CASE q # p
      <4>1. after[q] = links[q]
        BY <3>2
      <4>. QED  BY <4>1
    <3>. QED  BY <3>1, <3>2
  <2>. QED  BY <2>1
<1>2. {q \in Papers : pair \subseteq after[q]} = {q \in Papers : pair \subseteq links[q]}
  BY <1>1
<1>. QED  BY <1>2 DEF CommonIn

LEMMA ClearAuthorsKeeps ==
    ASSUME LibraryInv, NEW r \in LibraryRuns, ClearAuthors(r)
    PROVE  LibraryInv'
<1>. DEFINE p == runs[r].paper
            mine == PairsIn(runs[r].before \cup runs[r].found)
            t == [runs[r] EXCEPT !.phase = "link"]
<1>1. runs[r] \in RunRecords /\ runs[r].phase = "clear" /\ p \in Papers
      /\ runs[r].pair = NoPair /\ runs[r].missing = {}
  BY LibraryTypes DEF ClearAuthors, RunIsSound
<1>2. t \in RunRecords
  BY <1>1 DEF RunRecords, Stages
<1>3. t.pair = NoPair /\ t.paper \in Papers /\ t.phase = "link" /\ t.missing = {}
      /\ t.before = runs[r].before /\ t.found = runs[r].found
  BY <1>1 DEF RunRecords
<1>4. RunIsSound(t) /\ Owed(runs[r]) = {} /\ Owed(t) = mine
  BY <1>1, <1>3 DEF RunIsSound, Owed
<1>5. runs' = [runs EXCEPT ![r] = t]
  BY DEF ClearAuthors, Run
<1>. HIDE DEF t
<1>6. doubtful' = doubtful \cup (PairsIn(paperAuthors[p]) \ mine)
  BY DEF ClearAuthors
<1>7. paperAuthors \in [Papers -> SUBSET Authors]
      /\ paperAuthors' = [paperAuthors EXCEPT ![p] = {}]
  BY LibraryTypes DEF ClearAuthors
<1>8. PairsIn(paperAuthors[p]) \subseteq Pairs
  BY <1>1, <1>7, PairsAreTwo
<1>9. ASSUME NEW pair \in Pairs, pair \notin doubtful', pair \notin mine
      PROVE  CommonIn(paperAuthors', pair) = CommonIn(paperAuthors, pair)
  <2>1. ~(pair \subseteq paperAuthors[p])
    BY <1>6, <1>9, PairsAreTwo
  <2>2. ~(pair \subseteq {})
    <3>1. pair # {}
      BY PairsAreTwo DEF Pairs
    <3>. QED  BY <3>1
  <2>. HIDE DEF p
  <2>3. paperAuthors'[p] = {} /\ \A q \in Papers \ {p} : paperAuthors'[q] = paperAuthors[q]
    BY <1>1, <1>7
  <2>4. ~(pair \subseteq paperAuthors'[p])
    BY <2>2, <2>3
  <2>. QED  BY <1>1, <2>1, <2>3, <2>4, LinksOfOnePaper
<1>10. paperAuthors' \in [Papers -> SUBSET Authors]
  BY <1>7
<1>11. /\ papers' = papers /\ collaborations' = collaborations
       /\ namesakes' = namesakes /\ institutions' = institutions
       /\ paperTopics' = paperTopics /\ starts' = starts
  BY DEF ClearAuthors
<1>12. doubtful \subseteq doubtful' /\ doubtful' \subseteq Pairs
  BY <1>6, <1>8, LibraryTypes
<1>. HIDE DEF p, mine
<1>. QED  BY <1>2, <1>3, <1>4, <1>5, <1>9, <1>10, <1>11, <1>12, LibraryTypes, RunStepsKeep

LEMMA LinkAuthorsKeeps ==
    ASSUME LibraryInv, NEW r \in LibraryRuns, LinkAuthors(r)
    PROVE  LibraryInv'
<1>. DEFINE p == runs[r].paper
            mine == PairsIn(runs[r].before \cup runs[r].found)
            people == paperAuthors[p] \cup runs[r].found
            t == [runs[r] EXCEPT !.phase = "topics"]
<1>1. runs[r] \in RunRecords /\ runs[r].phase = "link" /\ p \in Papers
      /\ runs[r].pair = NoPair /\ runs[r].missing = {} /\ runs[r].found \subseteq Authors
  BY LibraryTypes DEF LinkAuthors, RunIsSound
<1>2. t \in RunRecords
  BY <1>1 DEF RunRecords, Stages
<1>3. t.pair = NoPair /\ t.paper \in Papers /\ t.phase = "topics" /\ t.missing = {}
      /\ t.before = runs[r].before /\ t.found = runs[r].found
  BY <1>1 DEF RunRecords
<1>4. RunIsSound(t) /\ Owed(runs[r]) = mine /\ Owed(t) = mine
  BY <1>1, <1>3 DEF RunIsSound, Owed
<1>5. runs' = [runs EXCEPT ![r] = t]
  BY DEF LinkAuthors, Run
<1>. HIDE DEF t
<1>6. paperAuthors \in [Papers -> SUBSET Authors]
      /\ paperAuthors' = [paperAuthors EXCEPT ![p] = people]
  BY LibraryTypes DEF LinkAuthors
<1>7. people \subseteq Authors /\ paperAuthors[p] \subseteq people
  BY <1>1, <1>6
<1>. HIDE DEF people
<1>8. paperAuthors'[p] = people
  BY <1>1, <1>6
<1>9. doubtful' = doubtful \cup (PairsIn(people) \ mine)
  BY <1>8 DEF LinkAuthors
<1>10. PairsIn(people) \subseteq Pairs
  BY <1>7, PairsAreTwo
<1>11. ASSUME NEW pair \in Pairs, pair \notin doubtful', pair \notin mine
       PROVE  CommonIn(paperAuthors', pair) = CommonIn(paperAuthors, pair)
  <2>1. ~(pair \subseteq people)
    BY <1>9, <1>11, PairsAreTwo
  <2>2. ~(pair \subseteq paperAuthors[p])
    BY <1>7, <2>1
  <2>. HIDE DEF p
  <2>3. \A q \in Papers \ {p} : paperAuthors'[q] = paperAuthors[q]
    BY <1>1, <1>6
  <2>4. ~(pair \subseteq paperAuthors'[p])
    BY <1>8, <2>1
  <2>. QED  BY <1>1, <2>2, <2>3, <2>4, LinksOfOnePaper
<1>12. paperAuthors' \in [Papers -> SUBSET Authors]
  BY <1>6, <1>7
<1>13. /\ papers' = papers /\ collaborations' = collaborations
       /\ namesakes' = namesakes /\ institutions' = institutions
       /\ paperTopics' = paperTopics /\ starts' = starts
  BY DEF LinkAuthors
<1>14. doubtful \subseteq doubtful' /\ doubtful' \subseteq Pairs
  BY <1>9, <1>10, LibraryTypes
<1>. HIDE DEF p, mine
<1>. QED  BY <1>2, <1>3, <1>4, <1>5, <1>11, <1>12, <1>13, <1>14, LibraryTypes, RunStepsKeep

LEMMA SyncPaperTopicsKeeps ==
    ASSUME LibraryInv, NEW r \in LibraryRuns, SyncPaperTopics(r)
    PROVE  LibraryInv'
<1>. DEFINE t == [runs[r] EXCEPT !.phase = "institutions"]
<1>1. runs[r] \in RunRecords /\ runs[r].phase = "topics" /\ runs[r].paper \in Papers
      /\ runs[r].pair = NoPair /\ runs[r].missing = {}
  BY LibraryTypes DEF SyncPaperTopics, RunIsSound
<1>2. t \in RunRecords
  BY <1>1 DEF RunRecords, Stages
<1>3. t.pair = NoPair /\ t.paper \in Papers /\ t.phase = "institutions" /\ t.missing = {}
      /\ t.before = runs[r].before /\ t.found = runs[r].found
  BY <1>1 DEF RunRecords
<1>4. runs' = [runs EXCEPT ![r] = t]
  BY DEF SyncPaperTopics, Run
<1>. HIDE DEF t
<1>5. RunIsSound(t) /\ Owed(runs[r]) = Owed(t)
  BY <1>1, <1>3 DEF RunIsSound, Owed
<1>6. paperTopics' \in [Papers -> SUBSET Tags]
  BY LibraryTypes DEF SyncPaperTopics
<1>7. /\ papers' = papers /\ collaborations' = collaborations
      /\ paperAuthors' = paperAuthors /\ doubtful' = doubtful
      /\ namesakes' = namesakes /\ institutions' = institutions /\ starts' = starts
  BY DEF SyncPaperTopics
<1>. QED  BY <1>2, <1>3, <1>4, <1>5, <1>6, <1>7, LibraryTypes, QuietRunsKeep

LEMMA SyncInstitutionsKeeps ==
    ASSUME LibraryInv, NEW r \in LibraryRuns, SyncAuthorInstitutions(r)
    PROVE  LibraryInv'
<1>. DEFINE mine == PairsIn(runs[r].before \cup runs[r].found)
            t == [runs[r] EXCEPT !.phase = "pairs", !.pairs = mine]
<1>1. runs[r] \in RunRecords /\ runs[r].phase = "institutions" /\ runs[r].paper \in Papers
      /\ runs[r].pair = NoPair /\ runs[r].missing = {}
      /\ runs[r].before \subseteq Authors /\ runs[r].found \subseteq Authors
  BY LibraryTypes DEF SyncAuthorInstitutions, RunIsSound
<1>2. mine \subseteq Pairs
  BY <1>1, PairsAreTwo
<1>3. Owed(runs[r]) = mine
  BY <1>1 DEF Owed
<1>4. runs' = [runs EXCEPT ![r] = t]
  BY DEF SyncAuthorInstitutions, Run
<1>. HIDE DEF mine
<1>5. t \in RunRecords
  BY <1>1, <1>2 DEF RunRecords, Stages
<1>6. t.pair = NoPair /\ t.paper \in Papers /\ t.phase = "pairs" /\ t.missing = {}
      /\ t.pairs = mine
  BY <1>1 DEF RunRecords
<1>. HIDE DEF t
<1>7. RunIsSound(t) /\ Owed(t) = mine
  BY <1>6 DEF RunIsSound, Owed
<1>8. institutions' \subseteq Authors
  BY <1>1, LibraryTypes DEF SyncAuthorInstitutions
<1>9. /\ papers' = papers /\ collaborations' = collaborations
      /\ paperAuthors' = paperAuthors /\ doubtful' = doubtful
      /\ namesakes' = namesakes /\ paperTopics' = paperTopics /\ starts' = starts
  BY DEF SyncAuthorInstitutions
<1>. QED  BY <1>3, <1>4, <1>5, <1>6, <1>7, <1>8, <1>9, LibraryTypes, QuietRunsKeep

LEMMA CountPairKeeps ==
    ASSUME LibraryInv, NEW r \in LibraryRuns, CountPair(r)
    PROVE  LibraryInv'
<1>1. runs[r] \in RunRecords /\ runs[r].phase = "pairs" /\ runs[r].paper \in Papers
      /\ runs[r].pair = NoPair /\ runs[r].missing = {} /\ runs[r].pairs \subseteq Pairs
  BY LibraryTypes DEF CountPair, RunIsSound
<1>2. /\ papers' = papers /\ collaborations' = collaborations
      /\ paperAuthors' = paperAuthors /\ doubtful' = doubtful
      /\ namesakes' = namesakes /\ institutions' = institutions
      /\ paperTopics' = paperTopics /\ starts' = starts
  BY DEF CountPair, LibraryGraph
<1>3. Owed(runs[r]) = runs[r].pairs
  BY <1>1 DEF Owed
<1>4. ASSUME NEW pair \in runs[r].pairs,
             Run(r, [runs[r] EXCEPT !.pairs = @ \ {pair}, !.pair = pair,
                       !.count = Common(pair), !.overtaken = FALSE])
      PROVE  LibraryInv'
  <2>. DEFINE count == CommonIn(paperAuthors, pair)
              t == [runs[r] EXCEPT !.pairs = @ \ {pair}, !.pair = pair, !.count = count,
                       !.overtaken = FALSE]
  <2>1. runs' = [runs EXCEPT ![r] = t]
    BY <1>4 DEF Run, Common, CommonIn
  <2>2. count \in 0..Cardinality(Papers)
    BY CommonIsCounted
  <2>. HIDE DEF count
  <2>3. t \in RunRecords
    BY <1>1, <1>4, <2>2 DEF RunRecords
  <2>4. t.pair = pair /\ t.paper \in Papers /\ t.phase = "pairs" /\ t.missing = {}
        /\ t.pairs = runs[r].pairs \ {pair} /\ t.count = count
    BY <1>1 DEF RunRecords
  <2>. HIDE DEF t
  <2>5. RunIsSound(t)
    BY <2>4 DEF RunIsSound
  <2>6. pair # NoPair
    BY <1>1, <1>4, PairsAreTwo DEF NoPair, Pairs
  <2>7. \A other \in Owed(runs[r]) : other \in Owed(t)
    BY <1>3, <2>4, <2>6 DEF Owed
  <2>8. t.count = CommonIn(paperAuthors, t.pair)
    BY <2>4 DEF count
  <2>. QED  BY <1>2, <2>1, <2>3, <2>5, <2>7, <2>8, LibraryTypes, QuietRunsKeep
<1>5. CASE runs[r].pairs = {} /\ Run(r, [runs[r] EXCEPT !.phase = "finish"])
  <2>. DEFINE t == [runs[r] EXCEPT !.phase = "finish"]
  <2>1. runs' = [runs EXCEPT ![r] = t]
    BY <1>5 DEF Run
  <2>2. t \in RunRecords
    BY <1>1 DEF RunRecords, Stages
  <2>3. t.pair = NoPair /\ t.paper \in Papers /\ t.phase = "finish" /\ t.missing = {}
    BY <1>1 DEF RunRecords
  <2>. HIDE DEF t
  <2>4. RunIsSound(t) /\ Owed(runs[r]) = {}
    BY <1>3, <1>5, <2>3 DEF RunIsSound
  <2>. QED  BY <1>2, <2>1, <2>2, <2>3, <2>4, LibraryTypes, QuietRunsKeep
<1>. QED  BY <1>4, <1>5 DEF CountPair

LEMMA WritePairKeeps ==
    ASSUME LibraryInv, NEW r \in LibraryRuns, WritePair(r)
    PROVE  LibraryInv'
<1>. DEFINE pair == runs[r].pair
            t == [runs[r] EXCEPT !.pair = NoPair, !.count = 0, !.overtaken = FALSE]
<1>1. pair # NoPair /\ pair \in Pairs /\ runs[r] \in RunRecords /\ RunIsSound(runs[r])
  BY LibraryTypes DEF WritePair
<1>2. runs[r].phase = "pairs" /\ runs[r].paper \in Papers /\ runs[r].missing = {}
  BY <1>1 DEF RunIsSound
<1>3. t \in RunRecords
  <2>1. 0 \in 0..Cardinality(Papers)
    BY RestIsSound DEF AtRest, RunRecords
  <2>. QED  BY <1>1, <2>1 DEF RunRecords
<1>4. t.pair = NoPair /\ t.paper \in Papers /\ t.phase = "pairs" /\ t.missing = {}
      /\ t.pairs = runs[r].pairs
  BY <1>1, <1>2 DEF RunRecords
<1>5. RunIsSound(t) /\ Owed(t) = runs[r].pairs /\ Owed(runs[r]) = runs[r].pairs \cup {pair}
  BY <1>1, <1>2, <1>4 DEF RunIsSound, Owed
<1>6. runs' = [Overtake({pair}) EXCEPT ![r] = t]
  BY DEF WritePair
<1>7. runs'[r] = t
  BY <1>6 DEF Overtake
<1>8. ASSUME NEW s \in LibraryRuns, s # r
      PROVE  /\ runs'[s] \in RunRecords /\ RunIsSound(runs'[s])
             /\ Owed(runs'[s]) = Owed(runs[s])
             /\ runs'[s].pair = runs[s].pair /\ runs'[s].count = runs[s].count
             /\ ~runs'[s].overtaken => ~runs[s].overtaken /\ runs[s].pair # pair
  <2>. DEFINE over == runs[s].overtaken \/ runs[s].pair \in {pair}
              u == [runs[s] EXCEPT !.overtaken = over]
  <2>1. runs'[s] = u
    BY <1>6, <1>8 DEF Overtake
  <2>2. runs[s] \in RunRecords /\ RunIsSound(runs[s])
    BY LibraryTypes
  <2>3. over \in BOOLEAN /\ (~over => ~runs[s].overtaken /\ runs[s].pair # pair)
    BY <2>2 DEF RunRecords
  <2>. HIDE DEF over
  <2>4. u \in RunRecords
    BY <2>2, <2>3 DEF RunRecords
  <2>5. /\ u.phase = runs[s].phase /\ u.paper = runs[s].paper /\ u.missing = runs[s].missing
        /\ u.pair = runs[s].pair /\ u.pairs = runs[s].pairs /\ u.before = runs[s].before
        /\ u.found = runs[s].found /\ u.count = runs[s].count
    BY <2>2 DEF RunRecords
  <2>6. u.overtaken = over
    BY <2>2 DEF RunRecords
  <2>. HIDE DEF u
  <2>7. RunIsSound(u) /\ Owed(u) = Owed(runs[s])
    BY <2>2, <2>5 DEF RunIsSound, Owed
  <2>8. ~u.overtaken => ~runs[s].overtaken /\ runs[s].pair # pair
    BY <2>3, <2>6
  <2>. QED  BY <2>1, <2>4, <2>5, <2>7, <2>8
<1>9. /\ collaborations' = [collaborations EXCEPT ![pair] = runs[r].count]
      /\ doubtful' = IF runs[r].overtaken THEN doubtful \cup {pair} ELSE doubtful
      /\ papers' = papers /\ namesakes' = namesakes /\ institutions' = institutions
      /\ paperAuthors' = paperAuthors /\ paperTopics' = paperTopics /\ starts' = starts
  BY DEF WritePair
<1>10. runs' \in [LibraryRuns -> RunRecords]
  <2>1. DOMAIN runs' = LibraryRuns /\ runs' = [s \in LibraryRuns |-> runs'[s]]
    BY <1>6 DEF Overtake
  <2>. HIDE DEF t
  <2>2. \A s \in LibraryRuns : runs'[s] \in RunRecords
    BY <1>3, <1>7, <1>8
  <2>. QED  BY <2>1, <2>2
<1>11. runs[r].count \in 0..Cardinality(Papers) /\ collaborations \in [Pairs -> 0..Cardinality(Papers)]
  BY <1>1 DEF LibraryInv, RunRecords
<1>12. collaborations' \in [Pairs -> 0..Cardinality(Papers)]
  BY <1>9, <1>11
<1>. HIDE DEF t, pair
<1>13. \A s \in LibraryRuns : RunIsSound(runs'[s])
  BY <1>5, <1>7, <1>8
<1>14. doubtful \subseteq doubtful' /\ doubtful' \subseteq Pairs
  BY <1>1, <1>9, LibraryTypes
<1>15. ASSUME NEW q \in Pairs
       PROVE  PairIsCounted(q, doubtful', runs', collaborations', paperAuthors')
  <2>1. CASE q = pair
    <3>1. CASE runs[r].overtaken
      <4>1. q \in doubtful'
        BY <1>9, <2>1, <3>1
      <4>. QED  BY <4>1 DEF PairIsCounted
    <3>2. CASE ~runs[r].overtaken
      <4>1. \/ pair \in doubtful
            \/ \E u \in LibraryRuns \ {r} : pair \in Owed(runs[u])
            \/ runs[r].count = CommonIn(paperAuthors, pair)
        BY <1>1, <3>2 DEF LibraryInv, HeldIsCounted, pair
      <4>2. collaborations'[pair] = runs[r].count
        BY <1>1, <1>9, <1>11
      <4>3. \A u \in LibraryRuns \ {r} : Owed(runs'[u]) = Owed(runs[u])
        BY <1>8
      <4>. QED  BY <1>9, <1>14, <2>1, <4>1, <4>2, <4>3 DEF PairIsCounted
    <3>. QED  BY <3>1, <3>2
  <2>2. CASE q # pair
    <3>1. PairIsCounted(q, doubtful, runs, collaborations, paperAuthors)
      BY DEF LibraryInv
    <3>2. collaborations'[q] = collaborations[q]
      BY <1>9, <1>11, <2>2
    <3>3. \A u \in LibraryRuns : q \in Owed(runs[u]) => q \in Owed(runs'[u])
      <4>1. ASSUME NEW u \in LibraryRuns, q \in Owed(runs[u]) PROVE q \in Owed(runs'[u])
        <5>1. CASE u = r
          BY <1>5, <1>7, <2>2, <4>1, <5>1
        <5>2. CASE u # r
          BY <1>8, <4>1, <5>2
        <5>. QED  BY <5>1, <5>2
      <4>. QED  BY <4>1
    <3>. QED  BY <1>9, <1>14, <3>1, <3>2, <3>3 DEF PairIsCounted
  <2>. QED  BY <2>1, <2>2
<1>16. ASSUME NEW s \in LibraryRuns
       PROVE  HeldIsCounted(s, doubtful', runs', paperAuthors')
  <2>1. CASE s = r
    BY <1>4, <1>7, <2>1 DEF HeldIsCounted
  <2>2. CASE s # r
    <3>. SUFFICES ASSUME runs'[s].pair # NoPair, ~runs'[s].overtaken
                  PROVE  \/ runs'[s].pair \in doubtful'
                         \/ \E u \in LibraryRuns \ {s} : runs'[s].pair \in Owed(runs'[u])
                         \/ runs'[s].count = CommonIn(paperAuthors', runs'[s].pair)
      BY DEF HeldIsCounted
    <3>. DEFINE q == runs[s].pair
    <3>1. /\ runs'[s].pair = q /\ runs'[s].count = runs[s].count
          /\ ~runs[s].overtaken /\ q # pair /\ q # NoPair
      BY <1>8, <2>2
    <3>2. \/ q \in doubtful
          \/ \E u \in LibraryRuns \ {s} : q \in Owed(runs[u])
          \/ runs[s].count = CommonIn(paperAuthors, q)
      BY <3>1 DEF LibraryInv, HeldIsCounted
    <3>. HIDE DEF q
    <3>3. \A u \in LibraryRuns : q \in Owed(runs[u]) => q \in Owed(runs'[u])
      <4>1. ASSUME NEW u \in LibraryRuns, q \in Owed(runs[u]) PROVE q \in Owed(runs'[u])
        <5>1. CASE u = r
          BY <1>5, <1>7, <3>1, <4>1, <5>1
        <5>2. CASE u # r
          BY <1>8, <4>1, <5>2
        <5>. QED  BY <5>1, <5>2
      <4>. QED  BY <4>1
    <3>. QED  BY <1>9, <1>14, <3>1, <3>2, <3>3
  <2>. QED  BY <2>1, <2>2
<1>. QED  BY <1>9, <1>10, <1>12, <1>13, <1>14, <1>15, <1>16, LibraryTypes DEF LibraryInv

LEMMA DeletePaperKeeps ==
    ASSUME LibraryInv, NEW p \in Papers, DeletePaper(p)
    PROVE  LibraryInv'
<1>1. /\ paperAuthors' = [paperAuthors EXCEPT ![p] = {}]
      /\ doubtful' = doubtful \cup PairsIn(paperAuthors[p])
      /\ collaborations' = collaborations /\ runs' = runs /\ namesakes' = namesakes
      /\ institutions' = institutions /\ starts' = starts
  BY DEF DeletePaper
<1>2. paperAuthors \in [Papers -> SUBSET Authors]
  BY LibraryTypes
<1>3. PairsIn(paperAuthors[p]) \subseteq Pairs
  BY <1>2, PairsAreTwo
<1>4. ASSUME NEW pair \in Pairs, pair \notin doubtful'
      PROVE  CommonIn(paperAuthors', pair) = CommonIn(paperAuthors, pair)
  <2>1. ~(pair \subseteq paperAuthors[p])
    BY <1>1, <1>4, PairsAreTwo
  <2>2. pair # {}
    BY PairsAreTwo DEF Pairs
  <2>3. paperAuthors'[p] = {} /\ \A q \in Papers \ {p} : paperAuthors'[q] = paperAuthors[q]
    BY <1>1, <1>2
  <2>4. ~(pair \subseteq paperAuthors'[p])
    BY <2>2, <2>3
  <2>. QED  BY <2>1, <2>3, <2>4, LinksOfOnePaper
<1>5. ASSUME NEW pair \in Pairs
      PROVE  PairIsCounted(pair, doubtful', runs', collaborations', paperAuthors')
  <2>1. PairIsCounted(pair, doubtful, runs, collaborations, paperAuthors)
    BY DEF LibraryInv
  <2>. QED  BY <1>1, <1>4, <2>1 DEF PairIsCounted
<1>6. ASSUME NEW s \in LibraryRuns
      PROVE  RunIsSound(runs'[s]) /\ HeldIsCounted(s, doubtful', runs', paperAuthors')
  <2>1. /\ RunIsSound(runs[s]) /\ HeldIsCounted(s, doubtful, runs, paperAuthors)
        /\ runs[s].pair \in Pairs \cup {NoPair}
    BY LibraryTypes DEF LibraryInv
  <2>. QED  BY <1>1, <1>4, <2>1 DEF HeldIsCounted
<1>7. papers' \in [Papers -> {"absent", "processing", "ready", "failed", "deleted"}]
      /\ paperTopics' \in [Papers -> SUBSET Tags]
  BY LibraryTypes DEF DeletePaper
<1>8. paperAuthors' \in [Papers -> SUBSET Authors] /\ doubtful' \subseteq Pairs
  BY <1>1, <1>2, <1>3, LibraryTypes
<1>9. /\ runs' \in [LibraryRuns -> RunRecords]
      /\ collaborations' \in [Pairs -> 0..Cardinality(Papers)]
  BY <1>1 DEF LibraryInv
<1>. QED  BY <1>1, <1>5, <1>6, <1>7, <1>8, <1>9, LibraryTypes DEF LibraryInv

LEMMA RestartLibraryKeeps ==
    ASSUME LibraryInv, RestartLibrary
    PROVE  LibraryInv'
<1>1. /\ runs' = [r \in LibraryRuns |-> AtRest]
      /\ doubtful' = doubtful \cup UNION {Unsettled(r) : r \in LibraryRuns}
      /\ papers' = papers /\ namesakes' = namesakes /\ starts' = starts
      /\ institutions' = institutions /\ paperAuthors' = paperAuthors
      /\ paperTopics' = paperTopics /\ collaborations' = collaborations
  BY DEF RestartLibrary, LibraryGraph
<1>2. \A r \in LibraryRuns : Owed(runs[r]) \subseteq doubtful' /\ Owed(runs[r]) \subseteq Pairs
  <2>1. ASSUME NEW r \in LibraryRuns
        PROVE  Owed(runs[r]) \subseteq doubtful' /\ Owed(runs[r]) \subseteq Pairs
    <3>1. Unsettled(r) = Owed(runs[r]) /\ Owed(runs[r]) \subseteq Pairs
      BY OwedIsUnsettled
    <3>2. Unsettled(r) \subseteq doubtful'
      BY <1>1
    <3>. QED  BY <3>1, <3>2
  <2>. QED  BY <2>1
<1>3. UNION {Unsettled(r) : r \in LibraryRuns} \subseteq Pairs
  <2>1. \A r \in LibraryRuns : Unsettled(r) \subseteq Pairs
    BY OwedIsUnsettled
  <2>. QED  BY <2>1
<1>4. doubtful \subseteq doubtful' /\ doubtful' \subseteq Pairs
  BY <1>1, <1>3, LibraryTypes
<1>5. ASSUME NEW pair \in Pairs
      PROVE  PairIsCounted(pair, doubtful', runs', collaborations', paperAuthors')
  <2>1. PairIsCounted(pair, doubtful, runs, collaborations, paperAuthors)
    BY DEF LibraryInv
  <2>. QED  BY <1>1, <1>2, <1>4, <2>1 DEF PairIsCounted
<1>6. \A s \in LibraryRuns : runs'[s] = AtRest
  BY <1>1
<1>7. \A s \in LibraryRuns :
         RunIsSound(runs'[s]) /\ HeldIsCounted(s, doubtful', runs', paperAuthors')
  BY <1>6, RestIsSound DEF HeldIsCounted
<1>8. runs' \in [LibraryRuns -> RunRecords]
  BY <1>1, RestIsSound
<1>9. collaborations' \in [Pairs -> 0..Cardinality(Papers)]
  BY <1>1 DEF LibraryInv
<1>. QED  BY <1>1, <1>4, <1>5, <1>7, <1>8, <1>9, LibraryTypes DEF LibraryInv

LEMMA LibraryBegins == LibraryInit => LibraryInv
<1>. SUFFICES ASSUME LibraryInit PROVE LibraryInv
  OBVIOUS
<1>1. MaxNamesakes \in Nat /\ MaxStarts \in Nat /\ Cardinality(Papers) \in Nat
  BY LibraryAssumption, FS_CardinalityType
<1>2. 0 \in 0..MaxNamesakes /\ 0 \in 0..MaxStarts /\ 0 \in 0..Cardinality(Papers)
  BY <1>1
<1>3. /\ papers \in [Papers -> {"absent", "processing", "ready", "failed", "deleted"}]
      /\ namesakes \in [Names -> 0..MaxNamesakes] /\ institutions \subseteq Authors
      /\ paperAuthors \in [Papers -> SUBSET Authors]
      /\ paperTopics \in [Papers -> SUBSET Tags]
      /\ collaborations \in [Pairs -> 0..Cardinality(Papers)]
      /\ doubtful \subseteq Pairs /\ starts \in 0..MaxStarts
  BY <1>2 DEF LibraryInit, Pairs
<1>4. runs \in [LibraryRuns -> RunRecords] /\ \A s \in LibraryRuns : runs[s] = AtRest
  BY RestIsSound DEF LibraryInit
<1>5. \A s \in LibraryRuns :
         RunIsSound(runs[s]) /\ HeldIsCounted(s, doubtful, runs, paperAuthors)
  BY <1>4, RestIsSound DEF HeldIsCounted
<1>6. ASSUME NEW pair \in Pairs
      PROVE  PairIsCounted(pair, doubtful, runs, collaborations, paperAuthors)
  <2>1. pair # {}
    BY PairsAreTwo DEF Pairs
  <2>2. \A p \in Papers : ~(pair \subseteq paperAuthors[p])
    BY <2>1 DEF LibraryInit
  <2>3. {p \in Papers : pair \subseteq paperAuthors[p]} = {}
    BY <2>2
  <2>4. CommonIn(paperAuthors, pair) = 0
    BY <2>3, FS_EmptySet DEF CommonIn
  <2>5. collaborations[pair] = 0
    BY DEF LibraryInit, Pairs
  <2>. QED  BY <2>4, <2>5 DEF PairIsCounted
<1>. QED  BY <1>3, <1>4, <1>5, <1>6 DEF LibraryInv

LEMMA LibraryGoesOn == LibraryInv /\ [LibraryNext]_libraryVars => LibraryInv'
<1>. SUFFICES ASSUME LibraryInv, [LibraryNext]_libraryVars PROVE LibraryInv'
  OBVIOUS
<1>1. CASE UNCHANGED libraryVars
  <2>1. /\ runs' = runs /\ papers' = papers /\ namesakes' = namesakes /\ starts' = starts
        /\ institutions' = institutions /\ paperAuthors' = paperAuthors
        /\ paperTopics' = paperTopics /\ collaborations' = collaborations
        /\ doubtful' = doubtful
    BY <1>1 DEF libraryVars
  <2>. QED  BY <2>1 DEF LibraryInv
<1>2. CASE RestartLibrary
  BY <1>2, RestartLibraryKeeps
<1>3. CASE \E p \in Papers : DeletePaper(p)
  BY <1>3, DeletePaperKeeps
<1>4. ASSUME NEW r \in LibraryRuns, LibraryStep(r) PROVE LibraryInv'
  BY <1>4, StartRunKeeps, ExtractKeeps, FindAuthorKeeps, CreateAuthorKeeps,
     ClearAuthorsKeeps, LinkAuthorsKeeps, SyncPaperTopicsKeeps, SyncInstitutionsKeeps,
     SkipGraphKeeps, CountPairKeeps, WritePairKeeps, FinishRunKeeps, FailRunKeeps
     DEF LibraryStep
<1>. QED  BY <1>1, <1>2, <1>3, <1>4 DEF LibraryNext

LEMMA TwoAuthors ==
    ASSUME NEW a \in Authors, NEW b \in Authors \ {a}
    PROVE  {a, b} \in Pairs /\ {a, b} \in PairsIn(Authors)
<1>1. Cardinality({a}) = 1 /\ IsFiniteSet({a})
  BY FS_Singleton
<1>2. Cardinality({a} \cup {b}) = 2
  BY <1>1, FS_AddElement
<1>3. {a, b} = {a} \cup {b} /\ {a, b} \in SUBSET Authors
  OBVIOUS
<1>. QED  BY <1>2, <1>3 DEF Pairs, PairsIn, kSubset

(* After any runs of processPaper over any papers, failed, overlapping or  *)
(* broken off by a restart, a pair of authors whose count nothing has left *)
(* in doubt is shown with the number of papers the two share               *)
(* (syncPaperAuthors, syncAuthorCollaborations, GraphService).             *)
THEOREM SharedPapersStayCounted == LibrarySpec => []SharedPapersAreCounted
<1>1. LibraryInv => SharedPapersAreCounted
  <2>. SUFFICES ASSUME LibraryInv, \A r \in LibraryRuns : runs[r].phase = "none",
                       NEW author \in Authors, NEW other \in Authors \ {author},
                       {author, other} \notin doubtful
                PROVE  {c.paperCount : c \in {d \in Collaborators(author) : d.id = other}}
                          = {Common({author, other})} \ {0}
    BY DEF SharedPapersAreCounted
  <2>. DEFINE pair == {author, other}
              count == collaborations[pair]
              near == {a \in Authors \ {author} : collaborations[{author, a}] > 0}
              shown == {d \in Collaborators(author) : d.id = other}
  <2>1. pair \in Pairs
    BY TwoAuthors
  <2>2. \A s \in LibraryRuns : pair \notin Owed(runs[s])
    BY DEF Owed
  <2>3. PairIsCounted(pair, doubtful, runs, collaborations, paperAuthors)
    BY <2>1 DEF LibraryInv
  <2>4. count = CommonIn(paperAuthors, pair)
    BY <2>2, <2>3 DEF PairIsCounted
  <2>5. count = Common(pair)
    BY <2>4 DEF Common, CommonIn
  <2>6. count \in Nat
    <3>1. Cardinality(Papers) \in Nat
      BY LibraryAssumption, FS_CardinalityType
    <3>. QED  BY <2>1, <3>1 DEF LibraryInv
  <2>7. Collaborators(author)
           = {[id |-> a, paperCount |-> collaborations[{author, a}]] : a \in near}
    BY DEF Collaborators
  <2>8. other \in near <=> count > 0
    OBVIOUS
  <2>. HIDE DEF near
  <2>9. shown = IF other \in near THEN {[id |-> other, paperCount |-> count]} ELSE {}
    <3>1. \A d \in shown : d = [id |-> other, paperCount |-> count] /\ other \in near
      <4>1. ASSUME NEW d \in shown
            PROVE  d = [id |-> other, paperCount |-> count] /\ other \in near
        <5>1. PICK a \in near : d = [id |-> a, paperCount |-> collaborations[{author, a}]]
          BY <2>7, <4>1
        <5>2. a = other
          BY <4>1, <5>1
        <5>. QED  BY <5>1, <5>2
      <4>. QED  BY <4>1
    <3>2. other \in near => [id |-> other, paperCount |-> count] \in shown
      BY <2>7
    <3>. HIDE DEF shown
    <3>. QED  BY <3>1, <3>2
  <2>. HIDE DEF shown, count
  <2>10. CASE count > 0
    <3>1. shown = {[id |-> other, paperCount |-> count]}
      BY <2>8, <2>9, <2>10
    <3>2. {c.paperCount : c \in shown} = {count}
      BY <3>1
    <3>3. {Common(pair)} \ {0} = {count}
      BY <2>5, <2>6, <2>10
    <3>. QED  BY <3>2, <3>3 DEF shown
  <2>11. CASE ~(count > 0)
    <3>1. shown = {} /\ count = 0
      BY <2>6, <2>8, <2>9, <2>11
    <3>2. {c.paperCount : c \in shown} = {}
      BY <3>1
    <3>3. {Common(pair)} \ {0} = {}
      BY <2>5, <3>1
    <3>. QED  BY <3>2, <3>3 DEF shown
  <2>. QED  BY <2>10, <2>11
<1>. QED  BY <1>1, LibraryBegins, LibraryGoesOn, PTL DEF LibrarySpec

-----------------------------------------------------------------------------
(* All of them in one instance.                                            *)
ResearchInv ==
    /\ part = "writing" => WriteInv
    /\ part = "turns" => TurnInv
    /\ part = "pages" => PagesInv
    /\ part = "answers" => RetrievalInv
    /\ part = "library" => LibraryInv
    /\ part = "dashboard" => DashboardInv

LEMMA PagesTypesHold == PagesInv => PagesTypeOK
<1>. SUFFICES ASSUME PagesInv PROVE PagesTypeOK
  OBVIOUS
<1>1. Len(RouteSurfaces) = 4
  BY DEF RouteSurfaces
<1>2. \A r \in PageRequests :
         /\ requests[r].phase \in {"none", "pages", "models", "count", "create", "serve", "turn"}
         /\ requests[r].at \in 1..Len(RouteSurfaces)
  BY <1>1 DEF PagesInv, Visits
<1>3. chat.route \in Routes \cup {"none"}
  BY DEF PagesInv, PagesTypes, Chats
<1>. QED  BY <1>2, <1>3 DEF PagesInv, PagesTypes, PagesTypeOK

LEMMA RetrievalTypesHold == RetrievalInv => RetrievalTypeOK
BY DEF RetrievalInv, Askings, RetrievalTypeOK

LEMMA DashboardTypesHold == DashboardInv => DashboardTypeOK
<1>. SUFFICES ASSUME DashboardInv PROVE DashboardTypeOK
  OBVIOUS
<1>1. \A b \in Boards : {short[b], snapshot[b]} \subseteq [left : 0..Longest, age : 0..Oldest]
  BY DEF DashboardInv, Entries
<1>2. \A v \in Viewers \cup {Job} :
         counts[v] \in [phase : {"none", "asked", "counting"}, board : Boards, age : 0..MaxQuery]
  BY DEF DashboardInv, Countings
<1>. QED  BY <1>1, <1>2 DEF DashboardInv, Answered, DashboardTypeOK

LEMMA LibraryTypesHold == LibraryInv => LibraryTypeOK
<1>. SUFFICES ASSUME LibraryInv PROVE LibraryTypeOK
  OBVIOUS
<1>1. \A r \in LibraryRuns :
         /\ runs[r].paper \in Papers \cup {"none"} /\ runs[r].pairs \subseteq PairsIn(Authors)
         /\ runs[r].phase \in {"none", "extract", "authors", "clear", "link", "topics",
                               "institutions", "pairs", "finish"}
  BY DEF LibraryInv, RunRecords, Stages, Pairs
<1>. QED  BY <1>1 DEF LibraryInv, LibraryTypeOK, Pairs

(* Every variable of the writing tasks, conversations, pages, answers, the *)
(* library and the dashboard keeps its type, whichever of them runs.       *)
THEOREM ResearchTypesCorrect == ResearchSpec => []ResearchTypeOK
<1>1. ResearchInit => ResearchInv
  BY WriteBegins, TurnsBegin, PagesBegin, RetrievalBegins, LibraryBegins, DashboardBegins
     DEF ResearchInit, ResearchInv
<1>2. ResearchInv /\ [ResearchNext]_researchVars => ResearchInv'
  <2>. SUFFICES ASSUME ResearchInv, [ResearchNext]_researchVars PROVE ResearchInv'
    OBVIOUS
  <2>1. part' = part
    BY DEF ResearchNext, researchVars
  <2>2. part = "writing" => [WriteNext]_writeVars
    BY DEF ResearchNext, researchVars
  <2>3. part = "turns" => [TurnNext]_turnVars
    BY DEF ResearchNext, researchVars
  <2>4. part = "pages" => [PagesNext]_pagesVars
    BY DEF ResearchNext, researchVars
  <2>5. part = "answers" => [RetrievalNext]_retrievalVars
    BY DEF ResearchNext, researchVars
  <2>6. part = "library" => [LibraryNext]_libraryVars
    BY DEF ResearchNext, researchVars
  <2>7. part = "dashboard" => [DashboardNext]_dashboardVars
    BY DEF ResearchNext, researchVars
  <2>8. /\ part = "writing" => WriteInv'
        /\ part = "turns" => TurnInv'
        /\ part = "pages" => PagesInv'
    BY <2>2, <2>3, <2>4, WriteGoesOn, TurnsGoOn, PagesGoOn DEF ResearchInv
  <2>9. /\ part = "answers" => RetrievalInv'
        /\ part = "library" => LibraryInv'
        /\ part = "dashboard" => DashboardInv'
    BY <2>5, <2>6, <2>7, RetrievalGoesOn, LibraryGoesOn, DashboardGoesOn DEF ResearchInv
  <2>. QED  BY <2>1, <2>8, <2>9 DEF ResearchInv
<1>3. ResearchInv => ResearchTypeOK
  BY WriteTypes, TurnTypesHold, PagesTypesHold, RetrievalTypesHold, LibraryTypesHold,
     DashboardTypesHold DEF ResearchInv, ResearchTypeOK
<1>. QED  BY <1>1, <1>2, <1>3, PTL DEF ResearchSpec
=============================================================================
